---------------------------- MODULE MCBootLoader ----------------------------
(* A file for each core; in MCImagePlain the M4's lacks the dependency      *)
(* marker.                                                                  *)
EXTENDS BootLoader

MCFiles == {"a", "c"}
MCImage == [f \in MCFiles |-> [region |-> IF f = "a" THEN "m0" ELSE "m4", marked |-> TRUE]]
MCImagePlain == [f \in MCFiles |-> [region |-> IF f = "a" THEN "m0" ELSE "m4", marked |-> f = "a"]]
MCFile == {"a"}
MCImageOne == [f \in MCFile |-> [region |-> "m0", marked |-> TRUE]]
=============================================================================
