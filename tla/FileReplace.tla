---------------------------- MODULE FileReplace -----------------------------
(***************************************************************************)
(* What uploads over an existing file promise (CHANGELOG.md:709): the file *)
(* is replaced as a whole.  The old one is removed only when a complete    *)
(* one lies beside it, and that one takes its place; the path may be empty *)
(* in between, or stay so after a crash, but it never holds a piece of a   *)
(* file or pieces of two.  What the promise rests on can be spoiled (see   *)
(* Uploads); from then on it says nothing.                                 *)
(***************************************************************************)
CONSTANTS Missing, Before, Complete

VARIABLES
  file,    \* what is at the path
  beside,  \* what is beside it
  spoiled

Init == file \in {Missing, Before} /\ spoiled = FALSE

\* Work goes on beside the path.
Prepare == file' = file

Remove == beside \in Complete /\ file' = Missing /\ beside' = beside

Replace == file = Missing /\ beside \in Complete /\ file' = beside

Next == spoiled' \/ (~spoiled /\ ~spoiled' /\ (Prepare \/ Remove \/ Replace))

Spec == Init /\ [][Next]_<<file, beside, spoiled>>

=============================================================================
