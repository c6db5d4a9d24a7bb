---------------------------- MODULE MCDofiPanel ----------------------------
(* Two elements that share a register of the input signals, and one of the *)
(* OR matrix.  The length is the first the page shows as negative, until   *)
(* the user or the configuration file sets a short one; a failed access to *)
(* the only register of a bank leaves the 0 of the request.                *)
EXTENDS DofiPanel

MCKeys == {"in_invert_0", "in_length_0", "matrix_or_0"}
MCRegOf == [k \in MCKeys |-> IF k = "matrix_or_0" THEN "or_0" ELSE "signal_0"]
MCBankOf == [r \in {"signal_0", "or_0"} |-> IF r = "or_0" THEN "or" ELSE "signal"]
MCTables == <<"signal", "or">>
MCStarts == {[k \in MCKeys |-> IF k = "in_length_0" THEN 8388608 ELSE 0]}
MCFiles == {[k \in MCKeys |-> 1]}
MCLeftovers == {[k \in MCKeys |-> 0]}
=============================================================================
