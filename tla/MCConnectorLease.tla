--------------------------- MODULE MCConnectorLease ---------------------------
(* ConnectorLease with values for TLC: instance "p" may have two ticks in      *)
(* flight, "q" one.                                                            *)
EXTENDS ConnectorLease

MCInstanceOf == [r \in Run |-> IF r \in {"p1", "p2"} THEN "p" ELSE "q"]
MCOwnerOf    == [i \in Instance |-> IF i = "p" THEN "P" ELSE "Q"]
=============================================================================
