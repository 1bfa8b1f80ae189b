----------------------------- MODULE MCDtcStore -----------------------------
(***************************************************************************)
(* A small instance in the proportions of the program: pages of two cells, *)
(* so that the status (one cell of a sector of six) is shorter than a page *)
(* and the three snapshots end in a remainder; the pages of both items and *)
(* of their retry just fit their sectors; the buffer takes both items at   *)
(* once and no snapshots twice; and the pause between two stores is a      *)
(* little longer than an item and its retry take (50 calls against 20).    *)
(***************************************************************************)
EXTENDS DtcStore

MCItems == {"status", "snapshot"}
MCAddr  == [i \in MCItems |-> IF i = "status" THEN 0 ELSE 6]
MCArea  == [i \in MCItems |-> 6]
MCLen   == [i \in MCItems |-> IF i = "status" THEN 1 ELSE Cardinality(Dtcs)]
MCDtcs  == 0 .. 2
MCActive == {0, 2}
MCFailing == {0}
MCEarlier == {{2}}
=============================================================================
