--------------------------- MODULE MCLinuxInstall ---------------------------
(* Two administrators, two copies of the program, and a systemd on each    *)
(* side of the version that knows ManagedOOMPreference=.                   *)
EXTENDS LinuxInstall

CONSTANTS ann, bob, optA, optB

MCAdmins == {ann, bob}
MCPaths == {optA, optB}
MCSymmetry == Permutations(MCAdmins) \cup Permutations(MCPaths)

MCVersions == {<<2, 4, 7>>, <<2, 4, 8>>}
=============================================================================
