---------------------------- MODULE MCGosipPanel ----------------------------
(* A configuration file of the POLAND boards writes registers of both      *)
(* pages.                                                                  *)
EXTENDS GosipPanel

MCFileRegs == [g \in {"qfw", "dac"} |-> 1]
=============================================================================
