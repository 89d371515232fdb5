----------------------------- MODULE MCInstallJobs -----------------------------
(* Instances of the install jobs for TLC.                                    *)
EXTENDS InstallJobs

CONSTANTS plain, qualified, j1, j2, j3, c1, c2, d1, d2
================================================================================
