---------------------------- MODULE MCDiskWatch -----------------------------
(* Instances of DiskWatch: one host with more guests than a cycle asks.      *)
EXTENDS DiskWatch

CONSTANTS h1, g1, g2

OneHost == {h1}
TwoGuests == [h \in OneHost |-> <<g1, g2>>]

=============================================================================
