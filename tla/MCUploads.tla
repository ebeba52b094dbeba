----------------------------- MODULE MCUploads ------------------------------
(* Instances of Uploads: two files of different sizes for one path.         *)
EXTENDS Uploads

CONSTANTS s1, s2, a, b

TwoSessions == {s1, s2}
TwoFiles == {a, b}
Sizes == [f \in TwoFiles |-> IF f = a THEN 3 ELSE 2]

=============================================================================
