------------------------------ MODULE MCAppDcm ------------------------------
(* AppDcm with every service physically and the broadcast ones functionally. *)
EXTENDS AppDcm

R(s) == [s |-> s, d |-> "none", quiet |-> FALSE]
MCDid == {"F190"}
MCTwo == {"F190", "F1A8"}

\* One request of each kind; by broadcast the quiet ones and two that are answered.
MCAll ==
  [h \in Chan |->
     IF h = "phys" THEN {R(s) : s \in Names \ {"2E"}} \cup {[R("2E") EXCEPT !.d = d] : d \in Dids}
     ELSE {[R(s) EXCEPT !.quiet = TRUE] : s \in {"1003", "11", "85off"}} \cup {R("11"), R("28off")}]
=============================================================================
