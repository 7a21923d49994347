----------------------------- MODULE MCPsuInit -----------------------------
(* A boot of the board's five PLLs with short polls. *)
EXTENDS PsuInit

MCPlls == <<"RPLL", "IOPLL", "APLL", "DPLL", "VPLL">>
=============================================================================
