---------------------------- MODULE MCSelfUpdate ----------------------------
(* Instances of SelfUpdate: two requests through the app and a run of the  *)
(* apply script on the host.                                               *)
EXTENDS SelfUpdate, TLC

CONSTANTS p1, p2, cli, v1

TwoPosts == {p1, p2}
OneCli == {cli}
OneTag == {v1}
PostSymmetry == Permutations(TwoPosts)

=============================================================================
