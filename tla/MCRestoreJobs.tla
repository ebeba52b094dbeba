--------------------------- MODULE MCRestoreJobs ---------------------------
(* Small instances of RestoreJobs: one or two restores, one or two         *)
(* attempts, up to two restarts and two failing database calls.            *)
EXTENDS RestoreJobs

CONSTANTS j1, j2

OneJob == {j1}
TwoJobs == {j1, j2}

=============================================================================
