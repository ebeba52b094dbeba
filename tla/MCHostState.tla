---------------------------- MODULE MCHostState ----------------------------
(* Instances of HostState: a local host with its admin, the prober and one *)
(* or two live requests; a peer host with prober, sync and one handler for *)
(* the announcements of the colleague.                                     *)
EXTENDS HostState, TLC

CONSTANTS admin, r1, r2, in1

NoAdmin == {}
OneAdmin == {admin}
NoRequests == {}
OneRequest == {r1}
TwoRequests == {r1, r2}
NoHandlers == {}
OneHandler == {in1}
RequestSymmetry == Permutations(TwoRequests)

=============================================================================
