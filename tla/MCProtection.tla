---------------------------- MODULE MCProtection ----------------------------
(* Protection with short times, each kind of trouble in behaviours of its own. *)
EXTENDS Protection

MCFamilies == {"heat", "pcb", "dry", "bus", "current", "power"}
MCPower == {"power"}
MCCurrent == {"current"}
=============================================================================
