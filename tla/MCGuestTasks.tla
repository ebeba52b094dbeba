--------------------------- MODULE MCGuestTasks ---------------------------
(* Instances of GuestTasks: one deletion, one cleanup and one page over one *)
(* archive whose name does not tell its kind.                               *)
EXTENDS GuestTasks

CONSTANTS d1, c1, p1, f1, f2, anyArchive

OneDeleter == {d1}
OneCleanup == {c1}
OnePage == {p1}
NoPage == {}
TwoFetches == {f1, f2}
OneFetch == {f1}
UnknownArchive == {anyArchive}
UnknownKind == [a \in {anyArchive} |-> "unknown"]
OneKind == {"vm"}
BothModes == {"dialog", "direct"}
DialogOnly == {"dialog"}

=============================================================================
