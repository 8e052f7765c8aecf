-------------------------- MODULE MCWindowsService --------------------------
(* All the controls, or only those of a definition without on_event (the      *)
(* reports of both threads to the SCM are then all that interleaves).         *)
EXTENDS WindowsService, TLC

MCCodes == {0, 1, 2}
MCAll == StopControls \cup EventControls \cup {"PRESHUTDOWN", "PARAMCHANGE"}
MCReload == StopControls \cup {"PARAMCHANGE"}
=============================================================================
