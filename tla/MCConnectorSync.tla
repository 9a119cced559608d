--------------------------- MODULE MCConnectorSync ---------------------------
(* ConnectorSync for TLC.  Ids, contents and runs are interchangeable, so the  *)
(* safety run with two runs explores one of each orbit.                        *)
EXTENDS ConnectorSync, TLC

MCSymmetry == Permutations(Ext) \cup Permutations(Content) \cup Permutations(Run)
=============================================================================
