------------------------- MODULE LinuxInstall_proofs -------------------------
(***************************************************************************)
(* Proofs about LinuxInstall, for any administrators, copies and versions, *)
(* any number of runs and any number of failing calls: types and the four  *)
(* properties of the module.                                               *)
(***************************************************************************)
EXTENDS LinuxInstall, TLAPS

Active(a) == run[a].pc \notin Ended
Version == parse_systemd_major_version(systemd)

\* A run under way is at a step of its command, for one of the copies.
AtStep(a) == Active(a) =>
  /\ run[a].command = "install" => run[a].pc \in {"elevate", "path", "version", "open", "write",
                                                  "close", "reload", "enable"}
  /\ run[a].command = "uninstall" => run[a].pc \in {"elevate", "stop", "disable", "remove",
                                                    "reload"}
  /\ run[a].exec \in Paths

\* A run that is still alone is the only one under way; while no two have met and no
\* disable has failed there is only one.
Exclusive ==
  \A a, b \in Admins : a # b /\ Active(a) /\ Active(b) => excused /\ ~run[a].alone

\* What a run that is alone has found or achieved, while its calls went well.
InstallPrepared(a) ==
  run[a].command = "install" /\ run[a].slips \subseteq {"version"} =>
    /\ run[a].pc \in {"write", "close"} => unit = Cut /\ run[a].ino = inode
    /\ run[a].pc \in {"reload", "enable"} => unit = Whole(run[a].exec, run[a].omit)
    /\ run[a].pc = "enable" => loaded = unit
UninstallPrepared(a) ==
  run[a].command = "uninstall" /\ run[a].slips = {} =>
    /\ run[a].pc \in {"disable", "remove", "reload"} => running = NoPath
    /\ run[a].pc \in {"elevate", "stop", "disable", "remove"} => (run[a].found <=> unit # Absent)
    /\ run[a].pc \in {"remove", "reload"} => ~(enabled /\ run[a].found)
    /\ run[a].pc = "reload" => unit = Absent
OnTrack(a) ==
  /\ run[a].omit => Version >= ManagedOom
  /\ Active(a) /\ run[a].alone => InstallPrepared(a) /\ UninstallPrepared(a)
  /\ run[a].pc = "exited" /\ run[a].alone /\ run[a].slips = {} => run[a].exit = 0

\* The link goes before its unit file.
Ordered ==
  /\ LinkHasItsUnit
  /\ ~excused => \A a \in Admins : run[a].pc = "remove" => ~enabled

\* What an undisturbed run has achieved lasts until the next one begins.
Lasting ==
  /\ InstalledComesBack /\ UninstalledStaysAway
  /\ settled # Open => \A a \in Admins : ~Active(a)

IInv ==
  /\ TypeOK /\ Exclusive /\ Ordered /\ Lasting
  /\ \A a \in Admins : AtStep(a) /\ OnTrack(a)


-----------------------------------------------------------------------------
(* What every step of a run does *)

\* The three sorts of text are different ones.
LEMMA Differ ==
  /\ Absent # Cut /\ Absent.is # "whole" /\ Cut.is # "whole"
  /\ \A path, omit : /\ Whole(path, omit).is = "whole" /\ Whole(path, omit) \notin {Absent, Cut}
                     /\ Whole(path, omit).exec = path /\ Whole(path, omit).oom = omit
  /\ \A path \in Paths, omit \in BOOLEAN : Whole(path, omit) \in Texts
  /\ {Absent, Cut} \subseteq Texts
  /\ \A text \in Texts : text.is = "whole" <=> text \notin {Absent, Cut}
<1>1. Absent.is = "absent" /\ Cut.is = "cut"  BY DEF Absent, Cut
<1>2. \A path, omit : /\ Whole(path, omit).is = "whole"
                      /\ Whole(path, omit).exec = path /\ Whole(path, omit).oom = omit
  BY DEF Whole
<1>3. \A path \in Paths, omit \in BOOLEAN : Whole(path, omit) \in Texts
  BY DEF Whole, Texts
<1>4. \A text \in [is : {"whole"}, exec : Paths, oom : BOOLEAN] : text.is = "whole"
  OBVIOUS
<1> QED  BY <1>1, <1>2, <1>3, <1>4 DEF Texts

LEMMA Followings ==
  ASSUME NEW a \in Admins, AtStep(a), Active(a)
  PROVE  /\ run[a].command = "install" =>
              /\ run[a].pc = "elevate" => Following(a) = "path"
              /\ run[a].pc = "path" => Following(a) = "version"
              /\ run[a].pc = "version" => Following(a) = "open"
              /\ run[a].pc = "open" => Following(a) = "write"
              /\ run[a].pc = "write" => Following(a) = "close"
              /\ run[a].pc = "close" => Following(a) = "reload"
              /\ run[a].pc = "reload" => Following(a) = "enable"
              /\ run[a].pc = "enable" => Following(a) = "exited"
         /\ run[a].command = "uninstall" =>
              /\ run[a].pc = "elevate" => Following(a) = "stop"
              /\ run[a].pc = "stop" => Following(a) = "disable"
              /\ run[a].pc = "disable" => Following(a) = "remove"
              /\ run[a].pc = "remove" => Following(a) = "reload"
              /\ run[a].pc = "reload" => Following(a) = "exited"
<1>1. /\ InstallSteps["elevate"] = "path" /\ InstallSteps["path"] = "version"
      /\ InstallSteps["version"] = "open" /\ InstallSteps["open"] = "write"
      /\ InstallSteps["write"] = "close" /\ InstallSteps["close"] = "reload"
      /\ InstallSteps["reload"] = "enable" /\ InstallSteps["enable"] = "exited"
  BY DEF InstallSteps
<1>2. /\ UninstallSteps["elevate"] = "stop" /\ UninstallSteps["stop"] = "disable"
      /\ UninstallSteps["disable"] = "remove" /\ UninstallSteps["remove"] = "reload"
      /\ UninstallSteps["reload"] = "exited"
  BY DEF UninstallSteps
<1> QED  BY <1>1, <1>2 DEF Following, Steps

\* Only a takes a step, and keeps what it was started with.
OnlyMoves(a) ==
  /\ run' \in [Admins -> RunRecords]
  /\ \A b \in Admins \ {a} : run'[b] = run[b]
  /\ run'[a].alone = run[a].alone /\ run'[a].command = run[a].command
  /\ run'[a].exec = run[a].exec /\ run'[a].found = run[a].found

LEMMA WentOn ==
  ASSUME TypeOK, NEW a \in Admins, NEW r \in RunRecords, GoOn(a, r),
         run[a].pc \in Pcs, Following(a) \in Pcs,
         r.alone = run[a].alone, r.command = run[a].command,
         r.exec = run[a].exec, r.found = run[a].found
  PROVE  /\ OnlyMoves(a) /\ settled' = settled
         /\ run'[a].pc = Following(a) /\ run'[a].slips = Slipped(a)
         /\ run'[a].omit = r.omit /\ run'[a].ino = r.ino
<1> DEFINE moved == [r EXCEPT !.pc = Following(a), !.slips = Slipped(a)]
<1>1. Slipped(a) \in SUBSET Pcs  BY DEF TypeOK, RunRecords, Slipped
<1>2. moved \in RunRecords  BY <1>1 DEF RunRecords
<1>3. /\ moved.pc = Following(a) /\ moved.slips = Slipped(a) /\ moved.omit = r.omit
      /\ moved.ino = r.ino /\ moved.alone = r.alone /\ moved.command = r.command
      /\ moved.exec = r.exec /\ moved.found = r.found
  BY DEF RunRecords
<1>4. run' = [run EXCEPT ![a] = moved] /\ settled' = settled  BY DEF GoOn
<1> HIDE DEF moved
<1> QED  BY <1>2, <1>3, <1>4 DEF OnlyMoves, TypeOK

LEMMA Returned ==
  ASSUME TypeOK, NEW a \in Admins, NEW code \in {0, 1}, Return(a, code), run[a].pc \in Pcs
  PROVE  /\ OnlyMoves(a)
         /\ run'[a].pc = "exited" /\ run'[a].exit = code /\ run'[a].slips = Slipped(a)
         /\ run'[a].omit = run[a].omit
         /\ settled' = IF code = 0 /\ Settles(a) /\ faults' = faults THEN Settled(a) ELSE Open
<1> DEFINE moved == [run[a] EXCEPT !.pc = "exited", !.exit = code, !.slips = Slipped(a)]
<1>0. run[a] \in RunRecords  BY DEF TypeOK
<1>1. Slipped(a) \in SUBSET Pcs  BY <1>0 DEF RunRecords, Slipped
<1>2. moved \in RunRecords  BY <1>0, <1>1 DEF RunRecords, Ended
<1>3. /\ moved.pc = "exited" /\ moved.exit = code /\ moved.slips = Slipped(a)
      /\ moved.omit = run[a].omit /\ moved.alone = run[a].alone
      /\ moved.command = run[a].command /\ moved.exec = run[a].exec /\ moved.found = run[a].found
  BY <1>0 DEF RunRecords
<1>4. run' = [run EXCEPT ![a] = moved]  BY DEF Return, TypeOK
<1>5. settled' = IF code = 0 /\ Settles(a) /\ faults' = faults THEN Settled(a) ELSE Open
  BY DEF Return
<1> HIDE DEF moved
<1> QED  BY <1>2, <1>3, <1>4, <1>5 DEF OnlyMoves, TypeOK

\* The other runs under way are not alone, so that nothing is claimed of them.
LEMMA OtherRuns ==
  ASSUME IInv, NEW a \in Admins, Active(a), OnlyMoves(a), systemd' = systemd,
         excused => excused', AtStep(a)', OnTrack(a)'
  PROVE  Exclusive' /\ \A b \in Admins : AtStep(b)' /\ OnTrack(b)'
<1>1. Exclusive'
  BY DEF IInv, Exclusive, OnlyMoves, Active
<1>2. ASSUME NEW b \in Admins, b # a PROVE AtStep(b)' /\ OnTrack(b)'
  <2>1. run'[b] = run[b]  BY <1>2 DEF OnlyMoves
  <2>2. AtStep(b) /\ OnTrack(b)  BY <1>2 DEF IInv
  <2>3. ~(Active(b) /\ run[b].alone)  BY <1>2 DEF IInv, Exclusive
  <2> QED  BY <2>1, <2>2, <2>3 DEF AtStep, OnTrack, Active, Version
<1> QED  BY <1>1, <1>2

\* While a run is under way, nothing is settled.
LEMMA Unsettled ==
  ASSUME IInv, NEW a \in Admins, Active(a)
  PROVE  settled = Open
  BY DEF IInv, Lasting

LEMMA StaysOpen == settled' = Open => Lasting'
<1>1. Open.is = "open"  BY DEF Open
<1> QED  BY <1>1 DEF Lasting, InstalledComesBack, UninstalledStaysAway


LEMMA Counted ==
  ASSUME TypeOK, NEW a \in Admins
  PROVE  /\ Works => faults' \in 0..MaxFaults /\ Slipped(a) = run[a].slips
         /\ Fails => /\ faults' \in 0..MaxFaults /\ faults' # faults
                     /\ Slipped(a) = run[a].slips \cup {run[a].pc}
  BY InstallBounds DEF TypeOK, Works, Fails, Slipped

\* The parts of the invariant put together, for a step of a.
LEMMA StepKeeps ==
  ASSUME IInv, NEW a \in Admins, Active(a), OnlyMoves(a), AtStep(a)', OnTrack(a)',
         unit' \in Texts, loaded' \in Texts, inode' \in Nat, enabled' \in BOOLEAN,
         running' \in Paths \cup {NoPath}, systemd' = systemd, runs' = runs,
         faults' \in 0..MaxFaults, excused' \in BOOLEAN, excused => excused',
         \/ settled' = Open /\ LinkHasItsUnit'
         \/ settled' = Settled(a) /\ run'[a].pc = "exited" /\ run[a].alone
              /\ InstalledComesBack' /\ UninstalledStaysAway' /\ LinkHasItsUnit',
         run'[a].pc = "remove" /\ ~excused' => ~enabled'
  PROVE  IInv'
<1>1. Exclusive' /\ \A b \in Admins : AtStep(b)' /\ OnTrack(b)'
  BY OtherRuns
<1>2. Ordered'
  <2>1. ASSUME NEW b \in Admins, run'[b].pc = "remove", ~excused' PROVE b = a
    BY <2>1 DEF IInv, Exclusive, OnlyMoves, Active, Ended
  <2> QED  BY <2>1 DEF Ordered
<1>3. Lasting'
  <2>1. CASE settled' = Open  BY <2>1, StaysOpen
  <2>2. CASE run'[a].pc = "exited" /\ run[a].alone /\ InstalledComesBack' /\ UninstalledStaysAway'
    <3>1. \A b \in Admins : ~Active(b)'
      BY <2>2 DEF IInv, Exclusive, OnlyMoves, Active, Ended
    <3> QED  BY <2>2, <3>1 DEF Lasting
  <2> QED  BY <2>1, <2>2
<1>4. settled' \in [is : {"open"}] \cup [is : {"installed"}, exec : Paths]
                     \cup [is : {"uninstalled"}, found : BOOLEAN]
  <2>1. Open \in [is : {"open"}]  BY DEF Open
  <2>2. Settled(a) \in [is : {"installed"}, exec : Paths] \cup [is : {"uninstalled"}, found : BOOLEAN]
    <3>1. run[a] \in RunRecords /\ run[a].exec \in Paths  BY DEF IInv, TypeOK, AtStep
    <3> QED  BY <3>1 DEF Settled, RunRecords
  <2> QED  BY <2>1, <2>2
<1>5. TypeOK'
  BY <1>4 DEF IInv, TypeOK, OnlyMoves
<1> QED  BY <1>1, <1>2, <1>3, <1>5 DEF IInv

\* A run whose call has failed returns EXIT_FAILURE.
LEMMA GaveUp ==
  ASSUME IInv, NEW a \in Admins, Active(a), Fails, Return(a, 1), systemd' = systemd
  PROVE  /\ OnlyMoves(a) /\ AtStep(a)' /\ OnTrack(a)'
         /\ settled' = Open /\ run'[a].pc = "exited" /\ faults' \in 0..MaxFaults
<1>1. run[a].pc \in Pcs /\ TypeOK  BY DEF IInv, TypeOK, RunRecords, Active, Ended
<1>2. /\ OnlyMoves(a) /\ run'[a].pc = "exited" /\ run'[a].slips = Slipped(a)
      /\ run'[a].omit = run[a].omit /\ settled' = Open
  BY <1>1, Returned
<1>3. faults' \in 0..MaxFaults /\ run[a].pc \in Slipped(a)  BY <1>1, Counted
<1>4. AtStep(a)' /\ OnTrack(a)'
  BY <1>2, <1>3 DEF AtStep, OnTrack, Active, Ended, IInv, Version
<1> QED  BY <1>2, <1>3, <1>4

-----------------------------------------------------------------------------
(* One lemma per step *)

LEMMA ElevateStep ==
  ASSUME IInv, NEW a \in Admins, ensure_elevated_for_operation(a) \/ FindExecutable(a)
  PROVE  IInv'
<1> USE DEF ensure_elevated_for_operation, FindExecutable, At
<1>1. /\ Active(a) /\ run[a].pc \in {"elevate", "path"} /\ UNCHANGED <<system, runs, excused>>
      /\ TypeOK /\ LinkHasItsUnit /\ run[a] \in RunRecords /\ run[a].pc \in Pcs
  BY DEF IInv, Ordered, Active, Ended, TypeOK, Pcs
<1>2. LinkHasItsUnit'  BY <1>1 DEF LinkHasItsUnit, system
<1>3. CASE Works /\ Advance(a)
  <2>1. /\ run[a].command = "install" /\ run[a].pc = "elevate" => Following(a) = "path"
        /\ run[a].pc = "path" => run[a].command = "install" /\ Following(a) = "version"
        /\ run[a].command = "uninstall" => Following(a) = "stop"
        /\ run[a].command \in {"install", "uninstall"}
    BY <1>1, Followings DEF IInv, AtStep, RunRecords
  <2>2. Following(a) \in {"path", "version", "stop"}  BY <1>1, <2>1
  <2>3. GoOn(a, run[a])  BY <1>3, <2>2 DEF Advance
  <2>4. /\ OnlyMoves(a) /\ settled' = settled /\ run'[a].pc = Following(a)
        /\ run'[a].slips = run[a].slips /\ run'[a].omit = run[a].omit /\ faults' \in 0..MaxFaults
    BY <1>1, <1>3, <2>2, <2>3, WentOn, Counted DEF Pcs
  <2>5. AtStep(a)'
    BY <1>1, <2>1, <2>4 DEF IInv, AtStep, OnlyMoves, Active
  <2>6. OnTrack(a)'
    BY <1>1, <2>1, <2>2, <2>4 DEF IInv, OnTrack, OnlyMoves, Active, Ended, Version, system, InstallPrepared,
       UninstallPrepared
  <2> QED  BY <1>1, <1>2, <2>2, <2>4, <2>5, <2>6, StepKeeps, Unsettled DEF TypeOK, system
<1>4. CASE Fails /\ Return(a, 1)
  BY <1>1, <1>2, <1>4, GaveUp, StepKeeps DEF TypeOK, system
<1> QED  BY <1>3, <1>4 DEF FailOrAdvance

LEMMA VersionStep ==
  ASSUME IInv, NEW a \in Admins, get_systemd_major_version(a)
  PROVE  IInv'
<1>1. /\ Active(a) /\ run[a].pc = "version" /\ UNCHANGED <<system, runs, excused>>
      /\ TypeOK /\ LinkHasItsUnit /\ run[a] \in RunRecords /\ run[a].pc \in Pcs
  BY DEF IInv, Ordered, Active, Ended, TypeOK, Pcs, get_systemd_major_version, At
<1>2. LinkHasItsUnit'  BY <1>1 DEF LinkHasItsUnit, system
<1>3. run[a].command = "install" /\ Following(a) = "open"
  BY <1>1, Followings DEF IInv, AtStep, RunRecords
<1>4. PICK line \in {systemd, <<>>} :
        /\ IF line = systemd THEN Works ELSE Fails
        /\ GoOn(a, [run[a] EXCEPT !.omit = Omits(parse_systemd_major_version(line))])
  BY DEF get_systemd_major_version
<1>5. /\ Omits(parse_systemd_major_version(line)) \in BOOLEAN
      /\ Omits(parse_systemd_major_version(line)) => Version >= ManagedOom
  <2>1. CASE line = systemd  BY <1>1, <2>1, VersionsAssumption DEF Omits, Version, TypeOK, ManagedOom
  <2>2. CASE line = <<>>
    <3>1. parse_systemd_major_version(<<>>) = -1
      BY Zenon DEF parse_systemd_major_version
    <3> QED  BY <2>2, <3>1 DEF Omits, ManagedOom
  <2> QED  BY <2>1, <2>2
<1> DEFINE omits == Omits(parse_systemd_major_version(line))
           r == [run[a] EXCEPT !.omit = omits]
<1> HIDE DEF omits
<1>6. /\ r \in RunRecords /\ r.omit = omits /\ r.alone = run[a].alone
      /\ r.command = run[a].command /\ r.exec = run[a].exec /\ r.found = run[a].found
  BY <1>1, <1>5 DEF RunRecords, omits
<1>7. GoOn(a, r)  BY <1>4 DEF omits
<1> HIDE DEF r
<1>8. /\ OnlyMoves(a) /\ settled' = settled /\ run'[a].pc = "open" /\ run'[a].omit = omits
      /\ run'[a].slips = Slipped(a) /\ faults' \in 0..MaxFaults
  BY <1>1, <1>3, <1>4, <1>6, <1>7, WentOn, Counted DEF Pcs
<1>9. AtStep(a)'
  BY <1>1, <1>3, <1>8 DEF IInv, AtStep, OnlyMoves, Active
<1>10. OnTrack(a)'
  BY <1>1, <1>3, <1>5, <1>8 DEF OnTrack, OnlyMoves, Version, system, omits, InstallPrepared,
     UninstallPrepared
<1> QED  BY <1>1, <1>2, <1>8, <1>9, <1>10, StepKeeps, Unsettled DEF TypeOK, system

LEMMA OpenStep ==
  ASSUME IInv, NEW a \in Admins, OpenUnit(a)
  PROVE  IInv'
<1>1. /\ Active(a) /\ run[a].pc = "open"
      /\ UNCHANGED <<loaded, enabled, running, systemd, runs, excused>>
      /\ TypeOK /\ LinkHasItsUnit /\ run[a] \in RunRecords /\ run[a].pc \in Pcs
  BY DEF IInv, Ordered, Active, Ended, TypeOK, Pcs, OpenUnit, At
<1>2. run[a].command = "install" /\ Following(a) = "write"
  BY <1>1, Followings DEF IInv, AtStep, RunRecords
<1>3. CASE Works /\ unit' = Cut /\ inode' \in {inode, inode + 1}
            /\ GoOn(a, [run[a] EXCEPT !.ino = inode'])
  <2> DEFINE r == [run[a] EXCEPT !.ino = inode']
  <2>1. inode' \in Nat  BY <1>1, <1>3 DEF TypeOK
  <2>2. /\ r \in RunRecords /\ r.ino = inode' /\ r.alone = run[a].alone /\ r.omit = run[a].omit
        /\ r.command = run[a].command /\ r.exec = run[a].exec /\ r.found = run[a].found
    BY <1>1, <2>1 DEF RunRecords
  <2>3. GoOn(a, r)  BY <1>3
  <2> HIDE DEF r
  <2>4. /\ OnlyMoves(a) /\ settled' = settled /\ run'[a].pc = "write" /\ run'[a].omit = run[a].omit
        /\ run'[a].ino = inode' /\ run'[a].slips = Slipped(a) /\ faults' \in 0..MaxFaults
    BY <1>1, <1>2, <1>3, <2>2, <2>3, WentOn, Counted DEF Pcs
  <2>5. LinkHasItsUnit'  BY <1>3, Differ DEF LinkHasItsUnit
  <2>6. AtStep(a)'
    BY <1>1, <1>2, <2>4 DEF IInv, AtStep, OnlyMoves, Active
  <2>7. OnTrack(a)'
    BY <1>1, <1>2, <1>3, <2>4 DEF IInv, OnTrack, OnlyMoves, Version, InstallPrepared, UninstallPrepared
  <2>8. unit' \in Texts  BY <1>3, Differ
  <2> QED  BY <1>1, <2>1, <2>4, <2>5, <2>6, <2>7, <2>8, StepKeeps, Unsettled DEF TypeOK
<1>4. CASE Fails /\ Return(a, 1) /\ UNCHANGED <<unit, inode>>
  <2>1. LinkHasItsUnit'  BY <1>1, <1>4 DEF LinkHasItsUnit
  <2> QED  BY <1>1, <1>4, <2>1, GaveUp, StepKeeps DEF TypeOK
<1> QED
  <2>1. inode' = (IF unit = Absent THEN inode + 1 ELSE inode) => inode' \in {inode, inode + 1}
    OBVIOUS
  <2> QED  BY <2>1, <1>3, <1>4 DEF OpenUnit

\* Text that is flushed leaves a file where there was one, and all of it in an empty one.
LEMMA Flushes ==
  ASSUME TypeOK, NEW a \in Admins, run[a].exec \in Paths, NEW file \in Flushed(a)
  PROVE  /\ file \in Texts /\ (file = Absent <=> unit = Absent)
         /\ unit = Cut /\ run[a].ino = inode => file = Whole(run[a].exec, run[a].omit)
<1>1. run[a].omit \in BOOLEAN /\ unit \in Texts  BY DEF TypeOK, RunRecords
<1>2. Whole(run[a].exec, run[a].omit) \in Texts \ {Absent, Cut}  BY <1>1, Differ
<1> QED  BY <1>1, <1>2, Differ DEF Flushed

LEMMA WriteStep ==
  ASSUME IInv, NEW a \in Admins, WriteUnit(a)
  PROVE  IInv'
<1>1. /\ Active(a) /\ run[a].pc = "write"
      /\ UNCHANGED <<inode, loaded, enabled, running, systemd, runs, excused>>
      /\ TypeOK /\ LinkHasItsUnit /\ run[a] \in RunRecords /\ run[a].pc \in Pcs
  BY DEF IInv, Ordered, Active, Ended, TypeOK, Pcs, WriteUnit, At
<1>2. run[a].command = "install" /\ Following(a) = "close" /\ run[a].exec \in Paths
  BY <1>1, Followings DEF IInv, AtStep, RunRecords
<1>3. CASE Works /\ UNCHANGED unit /\ Advance(a)
  <2>1. GoOn(a, run[a])  BY <1>2, <1>3 DEF Advance
  <2>2. /\ OnlyMoves(a) /\ settled' = settled /\ run'[a].pc = "close" /\ run'[a].omit = run[a].omit
        /\ run'[a].ino = run[a].ino /\ run'[a].slips = run[a].slips /\ faults' \in 0..MaxFaults
    BY <1>1, <1>2, <1>3, <2>1, WentOn, Counted DEF Pcs
  <2>3. LinkHasItsUnit'  BY <1>1, <1>3 DEF LinkHasItsUnit
  <2>4. AtStep(a)'
    BY <1>1, <1>2, <2>2 DEF IInv, AtStep, OnlyMoves, Active
  <2>5. OnTrack(a)'
    BY <1>1, <1>2, <1>3, <2>2 DEF IInv, OnTrack, OnlyMoves, Version, Active, InstallPrepared,
       UninstallPrepared
  <2> QED  BY <1>1, <1>3, <2>2, <2>3, <2>4, <2>5, StepKeeps, Unsettled DEF TypeOK
<1>4. CASE Fails /\ unit' \in {unit} \cup Flushed(a) /\ Return(a, 1)
  <2>1. unit' \in Texts /\ (unit' = Absent <=> unit = Absent)
    BY <1>1, <1>2, <1>4, Flushes DEF TypeOK
  <2>2. LinkHasItsUnit'  BY <1>1, <2>1 DEF LinkHasItsUnit
  <2> QED  BY <1>1, <1>4, <2>1, <2>2, GaveUp, StepKeeps DEF TypeOK
<1> QED  BY <1>3, <1>4 DEF WriteUnit

LEMMA CloseStep ==
  ASSUME IInv, NEW a \in Admins, CloseUnit(a)
  PROVE  IInv'
<1>1. /\ Active(a) /\ run[a].pc = "close"
      /\ UNCHANGED <<inode, loaded, enabled, running, systemd, runs, excused>>
      /\ TypeOK /\ LinkHasItsUnit /\ run[a] \in RunRecords /\ run[a].pc \in Pcs
  BY DEF IInv, Ordered, Active, Ended, TypeOK, Pcs, CloseUnit, At
<1>2. run[a].command = "install" /\ Following(a) = "reload" /\ run[a].exec \in Paths
  BY <1>1, Followings DEF IInv, AtStep, RunRecords
<1>3. GoOn(a, run[a])  BY <1>2 DEF Advance, CloseUnit
<1>4. /\ OnlyMoves(a) /\ settled' = settled /\ run'[a].pc = "reload" /\ run'[a].omit = run[a].omit
      /\ run'[a].slips = Slipped(a)
  BY <1>1, <1>2, <1>3, WentOn DEF Pcs
<1>5. /\ unit' \in Texts /\ (unit' = Absent <=> unit = Absent)
      /\ Works /\ unit = Cut /\ run[a].ino = inode => unit' = Whole(run[a].exec, run[a].omit)
      /\ faults' \in 0..MaxFaults
      /\ IF faults' = faults THEN Works /\ run'[a].slips = run[a].slips ELSE "close" \in run'[a].slips
  <2>1. CASE Works /\ unit' \in Flushed(a)
    BY <1>1, <1>2, <1>4, <2>1, Flushes, Counted DEF Works
  <2>2. CASE Fails /\ UNCHANGED unit
    BY <1>1, <1>4, <2>2, Counted DEF Works, TypeOK
  <2> QED  BY <2>1, <2>2 DEF CloseUnit
<1>6. LinkHasItsUnit'  BY <1>1, <1>5 DEF LinkHasItsUnit
<1>7. AtStep(a)'
  BY <1>1, <1>2, <1>4 DEF IInv, AtStep, OnlyMoves, Active
<1>8. OnTrack(a)'
  BY <1>1, <1>2, <1>4, <1>5 DEF IInv, OnTrack, OnlyMoves, Version, Active, InstallPrepared,
     UninstallPrepared
<1> QED  BY <1>1, <1>4, <1>5, <1>6, <1>7, <1>8, StepKeeps, Unsettled DEF TypeOK

\* The last step of an uninstall that is alone leaves what it promised.
LEMMA ReloadStep ==
  ASSUME IInv, NEW a \in Admins, DaemonReload(a)
  PROVE  IInv'
<1>1. /\ Active(a) /\ run[a].pc = "reload"
      /\ UNCHANGED <<unit, inode, enabled, running, systemd, runs, excused>>
      /\ TypeOK /\ LinkHasItsUnit /\ run[a] \in RunRecords /\ run[a].pc \in Pcs
      /\ run[a].command \in {"install", "uninstall"}
  BY DEF IInv, Ordered, Active, Ended, TypeOK, Pcs, DaemonReload, At, RunRecords
<1>2. /\ run[a].command = "install" => Following(a) = "enable"
      /\ run[a].command = "uninstall" => Following(a) = "exited"
  BY <1>1, Followings DEF IInv, AtStep
<1>3. LinkHasItsUnit'  BY <1>1 DEF LinkHasItsUnit
<1>4. loaded' \in Texts /\ faults' \in 0..MaxFaults /\ (Works => loaded' = unit)
  BY <1>1, Counted, InstallBounds DEF DaemonReload, TypeOK, Fails, Works
<1>5. CASE run[a].command = "install" /\ Works /\ loaded' = unit /\ Advance(a)
  <2>1. GoOn(a, run[a])  BY <1>2, <1>5 DEF Advance
  <2>2. /\ OnlyMoves(a) /\ settled' = settled /\ run'[a].pc = "enable" /\ run'[a].omit = run[a].omit
        /\ run'[a].slips = run[a].slips
    BY <1>1, <1>2, <1>5, <2>1, WentOn, Counted DEF Pcs
  <2>3. AtStep(a)'
    BY <1>1, <1>5, <2>2 DEF IInv, AtStep, OnlyMoves, Active
  <2>4. OnTrack(a)'
    BY <1>1, <1>5, <2>2 DEF IInv, OnTrack, OnlyMoves, Version, Active, InstallPrepared,
       UninstallPrepared
  <2> QED  BY <1>1, <1>3, <1>4, <2>2, <2>3, <2>4, StepKeeps, Unsettled DEF TypeOK
<1>6. CASE run[a].command = "install" /\ Fails /\ Return(a, 1)
  BY <1>1, <1>3, <1>4, <1>6, GaveUp, StepKeeps DEF TypeOK
<1>7. CASE run[a].command = "uninstall" /\ Advance(a)
  <2>1. Return(a, 0)  BY <1>2, <1>7 DEF Advance
  <2>2. /\ OnlyMoves(a) /\ run'[a].pc = "exited" /\ run'[a].exit = 0 /\ run'[a].omit = run[a].omit
        /\ settled' = IF Settles(a) /\ faults' = faults THEN Settled(a) ELSE Open
    BY <1>1, <2>1, Returned
  <2>3. AtStep(a)' /\ OnTrack(a)'
    BY <1>1, <2>2 DEF IInv, AtStep, OnTrack, Version, Active, Ended
  <2>4. CASE settled' = Open
    BY <1>1, <1>3, <1>4, <2>2, <2>3, <2>4, StepKeeps DEF TypeOK
  <2>5. CASE Settles(a) /\ faults' = faults /\ settled' = Settled(a)
    <3>1. run[a].alone /\ run[a].slips = {}  BY <1>7, <2>5 DEF Settles
    <3>2. loaded' = unit
      BY <1>1, <1>4, <2>5 DEF Works
    <3>3. UninstallPrepared(a)  BY <1>1, <3>1 DEF IInv, OnTrack
    <3>4. unit = Absent /\ running = NoPath /\ (enabled => ~run[a].found)
      BY <1>1, <1>7, <3>1, <3>3 DEF UninstallPrepared
    <3>5. settled' = [is |-> "uninstalled", found |-> run[a].found]
      BY <1>7, <2>5 DEF Settled
    <3>6. settled'.is = "uninstalled" /\ settled'.found = run[a].found  BY <3>5
    <3>7. InstalledComesBack' /\ UninstalledStaysAway'
      BY <1>1, <3>2, <3>4, <3>6 DEF InstalledComesBack, UninstalledStaysAway
    <3> QED  BY <1>1, <1>3, <1>4, <2>2, <2>3, <2>5, <3>1, <3>7, StepKeeps DEF TypeOK
  <2> QED  BY <2>2, <2>4, <2>5
<1> QED  BY <1>1, <1>5, <1>6, <1>7 DEF DaemonReload

\* The last step of an install that is alone leaves what it promised.
LEMMA EnableStep ==
  ASSUME IInv, NEW a \in Admins, Enable(a)
  PROVE  IInv'
<1>1. /\ Active(a) /\ run[a].pc = "enable"
      /\ UNCHANGED <<unit, inode, loaded, running, systemd, runs, excused>>
      /\ TypeOK /\ LinkHasItsUnit /\ run[a] \in RunRecords /\ run[a].pc \in Pcs
      /\ run[a].omit \in BOOLEAN
  BY DEF IInv, Ordered, Active, Ended, TypeOK, Pcs, Enable, At, RunRecords
<1>2. run[a].command = "install" /\ run[a].exec \in Paths
  BY <1>1 DEF IInv, AtStep, RunRecords
<1>3. unit.is = "whole" <=> unit \notin {Absent, Cut}  BY <1>1, Differ DEF TypeOK
<1>4. enabled' \in BOOLEAN /\ LinkHasItsUnit'
  <2>1. Absent # Cut /\ Cut.is # "whole" /\ Absent.is # "whole"  BY Differ
  <2>2. CASE unit.is = "whole" /\ enabled' = TRUE
    BY <1>1, <2>1, <2>2 DEF LinkHasItsUnit, TypeOK
  <2>3. CASE unit = Cut /\ enabled' \in {enabled, TRUE}
    BY <1>1, <2>1, <2>3 DEF LinkHasItsUnit, TypeOK
  <2>4. CASE unit = Absent /\ UNCHANGED enabled
    BY <1>1, <2>4 DEF LinkHasItsUnit, TypeOK
  <2>5. CASE enabled' \in {enabled, unit # Absent}
    <3>1. enabled \in BOOLEAN  BY <1>1 DEF TypeOK
    <3>2. enabled' = enabled \/ enabled' = (unit # Absent)  BY <2>5, Zenon
    <3>3. CASE enabled' = enabled
      BY <1>1, <3>1, <3>3 DEF LinkHasItsUnit
    <3>4. CASE enabled' = (unit # Absent)
      BY <1>1, <3>4 DEF LinkHasItsUnit
    <3> QED  BY <3>2, <3>3, <3>4
  <2> QED  BY <2>2, <2>3, <2>4, <2>5 DEF Enable
<1>5. run[a].alone /\ run[a].slips \subseteq {"version"} =>
        unit = Whole(run[a].exec, run[a].omit) /\ loaded = unit
  BY <1>1, <1>2 DEF IInv, OnTrack, InstallPrepared
<1>6. CASE Fails /\ Return(a, 1)
  BY <1>1, <1>4, <1>6, GaveUp, StepKeeps DEF TypeOK
<1>7. CASE unit.is = "whole" /\ Works /\ enabled' = TRUE /\ Return(a, 0)
  <2>1. /\ OnlyMoves(a) /\ run'[a].pc = "exited" /\ run'[a].exit = 0 /\ run'[a].omit = run[a].omit
        /\ settled' = IF Settles(a) /\ faults' = faults THEN Settled(a) ELSE Open
        /\ faults' \in 0..MaxFaults
    BY <1>1, <1>7, Returned, Counted
  <2>2. AtStep(a)' /\ OnTrack(a)'
    BY <1>1, <2>1 DEF IInv, AtStep, OnTrack, Version, Active, Ended
  <2>3. CASE settled' = Open
    BY <1>1, <1>4, <2>1, <2>2, <2>3, StepKeeps DEF TypeOK
  <2>4. CASE Settles(a) /\ settled' = Settled(a)
    <3>1. run[a].alone /\ run[a].slips \subseteq {"version"}  BY <1>2, <2>4 DEF Settles
    <3>2. settled' = [is |-> "installed", exec |-> run[a].exec]  BY <1>2, <2>4 DEF Settled
    <3>3. settled'.is = "installed" /\ settled'.exec = run[a].exec  BY <3>2
    <3>4. /\ unit.is = "whole" /\ unit.exec = run[a].exec /\ loaded = unit
          /\ unit.oom => Version >= ManagedOom
      BY <1>5, <3>1, Differ DEF IInv, OnTrack
    <3>5. InstalledComesBack' /\ UninstalledStaysAway'
      BY <1>1, <1>7, <3>3, <3>4 DEF InstalledComesBack, UninstalledStaysAway, Version
    <3> QED  BY <1>1, <1>4, <2>1, <2>2, <2>4, <3>1, <3>5, StepKeeps DEF TypeOK
  <2> QED  BY <2>1, <2>3, <2>4
<1>8. CASE /\ unit \in {Absent, Cut} /\ Works
           /\ \E code \in {0, 1} : Return(a, code)
  <2>1. ~(run[a].alone /\ run[a].slips \subseteq {"version"})
    BY <1>1, <1>2, <1>5, <1>8, Differ
  <2>2. /\ OnlyMoves(a) /\ run'[a].pc = "exited" /\ run'[a].omit = run[a].omit
        /\ run'[a].slips = run[a].slips
        /\ settled' = Open \/ (Settles(a) /\ settled' = Settled(a))
        /\ faults' \in 0..MaxFaults
    BY <1>1, <1>8, Returned, Counted
  <2>3. settled' = Open  BY <1>2, <2>1, <2>2 DEF Settles
  <2>4. AtStep(a)' /\ OnTrack(a)'
    BY <1>1, <2>1, <2>2 DEF IInv, AtStep, OnTrack, OnlyMoves, Version, Active, Ended
  <2> QED  BY <1>1, <1>4, <2>2, <2>3, <2>4, StepKeeps DEF TypeOK
<1> QED  BY <1>6, <1>7, <1>8 DEF Enable

LEMMA StopStep ==
  ASSUME IInv, NEW a \in Admins, Stop(a)
  PROVE  IInv'
<1>1. /\ Active(a) /\ run[a].pc = "stop"
      /\ UNCHANGED <<unit, inode, loaded, enabled, systemd, runs, excused>>
      /\ TypeOK /\ LinkHasItsUnit /\ run[a] \in RunRecords /\ run[a].pc \in Pcs
  BY DEF IInv, Ordered, Active, Ended, TypeOK, Pcs, Stop, At
<1>2. run[a].command = "uninstall" /\ Following(a) = "disable"
  BY <1>1, Followings DEF IInv, AtStep, RunRecords
<1>3. GoOn(a, run[a])  BY <1>2 DEF Advance, Stop
<1>4. /\ OnlyMoves(a) /\ settled' = settled /\ run'[a].pc = "disable" /\ run'[a].omit = run[a].omit
      /\ run'[a].slips = Slipped(a)
  BY <1>1, <1>2, <1>3, WentOn DEF Pcs
<1>5. /\ running' \in Paths \cup {NoPath} /\ faults' \in 0..MaxFaults
      /\ \/ running' = NoPath /\ run'[a].slips = run[a].slips
         \/ "stop" \in run'[a].slips
  BY <1>1, <1>4, Counted DEF Stop, TypeOK
<1>6. LinkHasItsUnit'  BY <1>1 DEF LinkHasItsUnit
<1>7. AtStep(a)'
  BY <1>1, <1>2, <1>4 DEF IInv, AtStep, OnlyMoves, Active
<1>8. OnTrack(a)'
  BY <1>1, <1>2, <1>4, <1>5 DEF IInv, OnTrack, OnlyMoves, Version, Active, InstallPrepared,
     UninstallPrepared
<1> QED  BY <1>1, <1>4, <1>5, <1>6, <1>7, <1>8, StepKeeps, Unsettled DEF TypeOK

\* A disable that works leaves a link only where there was no unit file.
LEMMA DisableStep ==
  ASSUME IInv, NEW a \in Admins, Disable(a)
  PROVE  IInv'
<1>1. /\ Active(a) /\ run[a].pc = "disable"
      /\ UNCHANGED <<unit, inode, loaded, running, systemd, runs>>
      /\ TypeOK /\ LinkHasItsUnit /\ run[a] \in RunRecords /\ run[a].pc \in Pcs
  BY DEF IInv, Ordered, Active, Ended, TypeOK, Pcs, Disable, At
<1>2. run[a].command = "uninstall" /\ Following(a) = "remove"
  BY <1>1, Followings DEF IInv, AtStep, RunRecords
<1>3. GoOn(a, run[a])  BY <1>2 DEF Advance, Disable
<1>4. /\ OnlyMoves(a) /\ settled' = settled /\ run'[a].pc = "remove" /\ run'[a].omit = run[a].omit
      /\ run'[a].slips = Slipped(a)
  BY <1>1, <1>2, <1>3, WentOn DEF Pcs
<1>5. /\ enabled' \in BOOLEAN /\ excused' \in BOOLEAN /\ faults' \in 0..MaxFaults
      /\ excused => excused'
      /\ enabled' => enabled
      /\ \/ run'[a].slips = run[a].slips /\ (enabled' => unit = Absent)
         \/ "disable" \in run'[a].slips /\ excused'
  <2>1. excused' \in BOOLEAN /\ (excused => excused') /\ (faults' # faults => excused')
    BY <1>1 DEF Disable, TypeOK
  <2>2. CASE Works /\ enabled' \in (IF unit = Absent THEN {enabled, FALSE} ELSE {FALSE})
    <3>1. enabled' \in BOOLEAN /\ (enabled' => enabled /\ unit = Absent)
      BY <1>1, <2>2 DEF TypeOK
    <3> QED  BY <1>1, <1>4, <2>1, <2>2, <3>1, Counted
  <2>3. CASE Fails /\ enabled' \in {enabled, FALSE}
    <3>1. enabled \in BOOLEAN  BY <1>1 DEF TypeOK
    <3>2. enabled' = enabled \/ enabled' = FALSE  BY <2>3, Zenon
    <3>3. CASE enabled' = enabled
      BY <1>1, <1>4, <2>1, <2>3, <3>1, <3>3, Counted
    <3>4. CASE enabled' = FALSE
      BY <1>1, <1>4, <2>1, <2>3, <3>4, Counted
    <3> QED  BY <3>2, <3>3, <3>4
  <2> QED  BY <2>2, <2>3 DEF Disable
<1>6. LinkHasItsUnit'  BY <1>1, <1>5 DEF LinkHasItsUnit
<1>7. AtStep(a)'
  BY <1>1, <1>2, <1>4 DEF IInv, AtStep, OnlyMoves, Active
<1>8. OnTrack(a)'
  BY <1>1, <1>2, <1>4, <1>5 DEF IInv, OnTrack, OnlyMoves, Version, Active, InstallPrepared,
     UninstallPrepared
<1>9. ~excused' => ~enabled'
  BY <1>5, <1>1 DEF LinkHasItsUnit
<1> QED  BY <1>1, <1>4, <1>5, <1>6, <1>7, <1>8, <1>9, StepKeeps, Unsettled DEF TypeOK

LEMMA RemoveStep ==
  ASSUME IInv, NEW a \in Admins, RemoveUnit(a)
  PROVE  IInv'
<1>1. /\ Active(a) /\ run[a].pc = "remove"
      /\ UNCHANGED <<inode, loaded, enabled, running, systemd, runs, excused>>
      /\ TypeOK /\ LinkHasItsUnit /\ run[a] \in RunRecords /\ run[a].pc \in Pcs
      /\ ~excused => ~enabled
  BY DEF IInv, Ordered, Active, Ended, TypeOK, Pcs, RemoveUnit, At
<1>2. run[a].command = "uninstall" /\ Following(a) = "reload"
  BY <1>1, Followings DEF IInv, AtStep, RunRecords
<1>3. LinkHasItsUnit'  BY <1>1 DEF LinkHasItsUnit
<1>4. CASE Works /\ unit' = Absent /\ Advance(a)
  <2>1. GoOn(a, run[a])  BY <1>2, <1>4 DEF Advance
  <2>2. /\ OnlyMoves(a) /\ settled' = settled /\ run'[a].pc = "reload" /\ run'[a].omit = run[a].omit
        /\ run'[a].slips = run[a].slips /\ faults' \in 0..MaxFaults
    BY <1>1, <1>2, <1>4, <2>1, WentOn, Counted DEF Pcs
  <2>3. AtStep(a)'
    BY <1>1, <1>2, <2>2 DEF IInv, AtStep, OnlyMoves, Active
  <2>4. OnTrack(a)'
    BY <1>1, <1>2, <1>4, <2>2 DEF IInv, OnTrack, OnlyMoves, Version, Active, InstallPrepared,
       UninstallPrepared
  <2>5. unit' \in Texts  BY <1>4, Differ
  <2> QED  BY <1>1, <1>3, <2>2, <2>3, <2>4, <2>5, StepKeeps, Unsettled DEF TypeOK
<1>5. CASE Fails /\ UNCHANGED unit /\ Return(a, 1)
  BY <1>1, <1>3, <1>5, GaveUp, StepKeeps DEF TypeOK
<1> QED  BY <1>4, <1>5 DEF RemoveUnit

LEMMA KillStep ==
  ASSUME IInv, NEW a \in Admins, Kill(a)
  PROVE  IInv'
<1>1. /\ Active(a) /\ UNCHANGED <<unit, inode, loaded, enabled, running, systemd, runs, faults, excused>>
      /\ settled' = settled /\ TypeOK /\ LinkHasItsUnit /\ run[a] \in RunRecords
  BY DEF IInv, Ordered, Active, Ended, TypeOK, Kill, system
<1> DEFINE r == [run[a] EXCEPT !.pc = "killed"]
<1>2. /\ r \in RunRecords /\ r.pc = "killed" /\ r.alone = run[a].alone /\ r.omit = run[a].omit
      /\ r.command = run[a].command /\ r.exec = run[a].exec /\ r.found = run[a].found
  BY <1>1 DEF RunRecords, Ended
<1>3. run' = [run EXCEPT ![a] = r]  BY <1>1 DEF Kill, TypeOK
<1> HIDE DEF r
<1>4. OnlyMoves(a) /\ run'[a].pc = "killed" /\ run'[a].omit = run[a].omit
  BY <1>1, <1>2, <1>3 DEF OnlyMoves, TypeOK
<1>5. AtStep(a)' /\ OnTrack(a)'
  BY <1>1, <1>4 DEF IInv, AtStep, OnTrack, OnlyMoves, Version, Active, Ended
<1>6. LinkHasItsUnit'  BY <1>1 DEF LinkHasItsUnit
<1> QED  BY <1>1, <1>4, <1>5, <1>6, StepKeeps, Unsettled DEF TypeOK

LEMMA MainStep ==
  ASSUME IInv, NEW a \in Admins, NEW command \in {"install", "uninstall"}, NEW path \in Paths,
         main(a, command, path)
  PROVE  IInv'
<1>1. /\ ~Active(a) /\ runs' \in 0..MaxRuns /\ settled' = Open
      /\ UNCHANGED <<unit, inode, loaded, enabled, running, systemd, faults>>
      /\ TypeOK /\ Ordered
  BY InstallBounds DEF IInv, TypeOK, Active, main, system
<1> DEFINE busy == {b \in Admins : run[b].pc \notin Ended}
           first == [pc |-> "elevate", command |-> command, exec |-> path,
                     omit |-> FALSE, ino |-> 0, exit |-> 1,
                     alone |-> busy = {}, slips |-> {}, found |-> unit # Absent]
<1>2. /\ run' = [b \in Admins |-> IF b = a THEN first ELSE [run[b] EXCEPT !.alone = FALSE]]
      /\ excused' = (excused \/ busy # {})
  BY DEF main
<1>3. excused' \in BOOLEAN /\ (excused => excused') /\ (busy # {} => excused')
  BY <1>1, <1>2 DEF TypeOK
<1>4. /\ first \in RunRecords /\ first.pc = "elevate" /\ first.command = command
      /\ first.exec = path /\ first.omit = FALSE /\ first.slips = {}
      /\ first.alone = (busy = {}) /\ first.found = (unit # Absent)
  BY DEF RunRecords, Pcs
<1>5. /\ run'[a] = first
      /\ \A b \in Admins \ {a} :
           /\ run'[b] \in RunRecords
           /\ run'[b].pc = run[b].pc /\ run'[b].command = run[b].command
           /\ run'[b].exec = run[b].exec /\ run'[b].omit = run[b].omit
           /\ ~run'[b].alone
  <2>1. ASSUME NEW b \in Admins \ {a}
        PROVE /\ run'[b] \in RunRecords
              /\ run'[b].pc = run[b].pc /\ run'[b].command = run[b].command
              /\ run'[b].exec = run[b].exec /\ run'[b].omit = run[b].omit
              /\ ~run'[b].alone
    <3>1. run[b] \in RunRecords /\ run'[b] = [run[b] EXCEPT !.alone = FALSE]
      BY <1>1, <1>2 DEF TypeOK
    <3> QED  BY <3>1 DEF RunRecords
  <2> QED  BY <1>2, <2>1
<1> HIDE DEF first
<1>6. TypeOK'
  <2>1. Open \in [is : {"open"}]  BY DEF Open
  <2>2. run' \in [Admins -> RunRecords]  BY <1>2, <1>4, <1>5
  <2> QED  BY <1>1, <1>3, <2>1, <2>2 DEF TypeOK
<1>7. Exclusive'
  <2>1. ASSUME NEW b \in Admins, NEW c \in Admins, b # c, Active(b)', Active(c)'
        PROVE excused' /\ ~run'[b].alone
    <3>1. CASE b = a
      <4>1. c \in busy  BY <1>5, <2>1, <3>1 DEF Active
      <4> QED  BY <1>3, <1>4, <1>5, <3>1, <4>1
    <3>2. CASE b # a
      <4>1. b \in busy  BY <1>5, <2>1, <3>2 DEF Active
      <4> QED  BY <1>3, <1>5, <3>2, <4>1
    <3> QED  BY <3>1, <3>2
  <2> QED  BY <2>1 DEF Exclusive
<1>8. Ordered'
  <2>1. LinkHasItsUnit'  BY <1>1, <1>3 DEF Ordered, LinkHasItsUnit
  <2>2. ASSUME NEW b \in Admins, run'[b].pc = "remove" PROVE excused'
    <3>1. b # a  BY <1>4, <1>5, <2>2
    <3>2. b \in busy  BY <1>5, <2>2, <3>1 DEF Ended
    <3> QED  BY <1>3, <3>2
  <2> QED  BY <2>1, <2>2 DEF Ordered
<1>9. Lasting'  BY <1>1, StaysOpen
<1>10. ASSUME NEW b \in Admins PROVE AtStep(b)' /\ OnTrack(b)'
  <2>1. AtStep(b) /\ OnTrack(b)  BY DEF IInv
  <2>2. CASE b = a
    <3>1. AtStep(b)'  BY <1>4, <1>5, <2>2 DEF AtStep
    <3>2. OnTrack(b)'
      BY <1>1, <1>4, <1>5, <2>2 DEF OnTrack, InstallPrepared, UninstallPrepared
    <3> QED  BY <3>1, <3>2
  <2>3. CASE b # a
    BY <1>1, <1>5, <2>1, <2>3 DEF AtStep, OnTrack, Active, Version
  <2> QED  BY <2>2, <2>3
<1> QED  BY <1>6, <1>7, <1>8, <1>9, <1>10 DEF IInv

LEMMA StartStep == ASSUME IInv, StartService PROVE IInv'
<1>1. /\ UNCHANGED <<unit, inode, loaded, enabled, systemd, runs, faults, excused, settled>>
      /\ loaded.is = "whole" /\ running' = loaded.exec /\ TypeOK
  BY DEF IInv, StartService
<1>2. running' \in Paths
  <2>1. loaded \in [is : {"whole"}, exec : Paths, oom : BOOLEAN]
    BY <1>1, Differ DEF TypeOK, Texts
  <2> QED  BY <1>1, <2>1
<1>3. ASSUME NEW a \in Admins
      PROVE /\ run'[a] \in RunRecords
            /\ run'[a].pc = run[a].pc /\ run'[a].command = run[a].command
            /\ run'[a].exec = run[a].exec /\ run'[a].omit = run[a].omit
            /\ run'[a].slips = run[a].slips /\ run'[a].exit = run[a].exit
            /\ run'[a].alone => run[a].alone /\ ~Active(a)
  <2> DEFINE alone == run[a].alone /\ run[a].pc \in Ended
  <2>1. run[a] \in RunRecords /\ run'[a] = [run[a] EXCEPT !.alone = alone]
    BY <1>1 DEF TypeOK, StartService
  <2>2. alone \in BOOLEAN /\ (alone => run[a].alone /\ ~Active(a))
    BY DEF Active
  <2> HIDE DEF alone
  <2> QED  BY <2>1, <2>2 DEF RunRecords
<1>4. TypeOK'
  <2>1. run' \in [Admins -> RunRecords]  BY <1>3 DEF StartService
  <2> QED  BY <1>1, <1>2, <2>1 DEF TypeOK
<1>5. Exclusive'  BY <1>1, <1>3 DEF IInv, Exclusive, Active
<1>6. Ordered'  BY <1>1, <1>3 DEF IInv, Ordered, LinkHasItsUnit
<1>7. Lasting'
  <2>1. settled.is # "uninstalled"
    BY <1>1, Differ DEF IInv, Lasting, UninstalledStaysAway
  <2> QED  BY <1>1, <1>3, <2>1 DEF IInv, Lasting, InstalledComesBack, UninstalledStaysAway, Active
<1>8. \A a \in Admins : AtStep(a)' /\ OnTrack(a)'
  BY <1>1, <1>3 DEF IInv, AtStep, OnTrack, Active, Version
<1> QED  BY <1>4, <1>5, <1>6, <1>7, <1>8 DEF IInv

LEMMA RebootStep == ASSUME IInv, Reboot PROVE IInv'
<1>1. /\ UNCHANGED <<unit, inode, enabled, systemd, run, runs, faults, excused, settled>>
      /\ loaded' = unit /\ TypeOK
      /\ \A a \in Admins : ~Active(a)
  BY DEF IInv, Reboot, Active
<1>2. /\ running' \in Paths \cup {NoPath}
      /\ unit = Absent => running' = NoPath
  <2>1. unit.is = "whole" => unit \in [is : {"whole"}, exec : Paths, oom : BOOLEAN]
    BY <1>1, Differ DEF TypeOK, Texts
  <2> QED  BY <1>1, <2>1, Differ DEF Reboot
<1>3. TypeOK'  BY <1>1, <1>2 DEF TypeOK
<1>4. Exclusive' /\ Ordered'  BY <1>1 DEF IInv, Exclusive, Ordered, LinkHasItsUnit, Active
<1>5. Lasting'
  BY <1>1, <1>2 DEF IInv, Lasting, InstalledComesBack, UninstalledStaysAway, Active
<1>6. \A a \in Admins : AtStep(a)' /\ OnTrack(a)'
  BY <1>1 DEF IInv, AtStep, OnTrack, Active, Version
<1> QED  BY <1>3, <1>4, <1>5, <1>6 DEF IInv

-----------------------------------------------------------------------------
LEMMA InitInv == Init => IInv
<1> SUFFICES ASSUME Init PROVE IInv
  OBVIOUS
<1> DEFINE none == [pc |-> "idle", command |-> "install", exec |-> NoPath,
                    omit |-> FALSE, ino |-> 0, exit |-> 1,
                    alone |-> TRUE, slips |-> {}, found |-> FALSE]
<1>1. none \in RunRecords /\ none.pc = "idle" /\ none.omit = FALSE
  BY DEF RunRecords, Ended
<1>2. run = [a \in Admins |-> none]  BY DEF Init
<1> HIDE DEF none
<1>3. Open \in [is : {"open"}] /\ Open.is = "open"  BY DEF Open
<1>4. TypeOK
  <2>1. run \in [Admins -> RunRecords]  BY <1>1, <1>2
  <2>2. unit \in Texts /\ loaded \in Texts  BY Differ DEF Init
  <2>3. runs \in 0..MaxRuns /\ faults \in 0..MaxFaults /\ inode \in Nat
    BY InstallBounds DEF Init
  <2> QED  BY <1>3, <2>1, <2>2, <2>3 DEF Init, TypeOK
<1>5. \A a \in Admins : run[a].pc = "idle" /\ run[a].omit = FALSE /\ ~Active(a)
  BY <1>1, <1>2 DEF Active, Ended
<1>6. Exclusive  BY <1>5 DEF Exclusive
<1>7. Ordered  BY <1>5 DEF Ordered, LinkHasItsUnit, Init
<1>8. Lasting  BY <1>3, <1>5 DEF Lasting, InstalledComesBack, UninstalledStaysAway, Init
<1>9. \A a \in Admins : AtStep(a) /\ OnTrack(a)  BY <1>5 DEF AtStep, OnTrack
<1> QED  BY <1>4, <1>6, <1>7, <1>8, <1>9 DEF IInv

LEMMA Invariance == Spec => []IInv
<1>1. IInv /\ [Next]_vars => IInv'
  <2> SUFFICES ASSUME IInv, [Next]_vars PROVE IInv'
    OBVIOUS
  <2>1. ASSUME NEW a \in Admins, svc_os_install(a) PROVE IInv'
    BY <2>1, ElevateStep, VersionStep, OpenStep, WriteStep, CloseStep, ReloadStep, EnableStep
       DEF svc_os_install
  <2>2. ASSUME NEW a \in Admins, svc_os_uninstall(a) PROVE IInv'
    BY <2>2, StopStep, DisableStep, RemoveStep DEF svc_os_uninstall
  <2>3. CASE UNCHANGED vars
    BY <2>3 DEF vars, IInv, TypeOK, Exclusive, Ordered, LinkHasItsUnit, Lasting,
                InstalledComesBack, UninstalledStaysAway, AtStep, OnTrack, InstallPrepared,
                UninstallPrepared, Active, Version
  <2> QED
    BY <2>1, <2>2, <2>3, MainStep, ElevateStep, KillStep, StartStep, RebootStep DEF Next
<1> QED  BY InitInv, <1>1, PTL DEF Spec

\* Types: whatever runs overlap, fail or are killed.
THEOREM Typing == Spec => []TypeOK
<1>1. IInv => TypeOK  BY DEF IInv
<1> QED  BY <1>1, Invariance, PTL

\* An install that ran undisturbed and reported success is what systemd has until the
\* next run begins, for any history of failing, killed and overlapping runs before it.
THEOREM InstallHolds == Spec => []InstalledComesBack
<1>1. IInv => InstalledComesBack  BY DEF IInv, Lasting
<1> QED  BY <1>1, Invariance, PTL

\* After an uninstall that ran undisturbed and reported success nothing can be started.
THEOREM UninstallHolds == Spec => []UninstalledStaysAway
<1>1. IInv => UninstalledStaysAway  BY DEF IInv, Lasting
<1> QED  BY <1>1, Invariance, PTL

\* A run beside which there is no other and whose calls work succeeds, from every state
\* that any number of failures, kills and overlaps leave behind.
THEOREM EveryStateIsRepaired == Spec => []OneRunRepairs
<1>1. IInv => OneRunRepairs  BY DEF IInv, OnTrack, OneRunRepairs
<1> QED  BY <1>1, Invariance, PTL

\* No link is left without its unit file unless disable failed or two runs met.
THEOREM LinkGoesFirst == Spec => []LinkHasItsUnit
<1>1. IInv => LinkHasItsUnit  BY DEF IInv, Ordered
<1> QED  BY <1>1, Invariance, PTL
=============================================================================
