--------------------------- MODULE FrontendPages ---------------------------
(***************************************************************************)
(* The control pages of the front-end plugins.  Each is a program of its   *)
(* own: a browser tab runs one of them, chosen when it is opened, and the  *)
(* others are not there.                                                   *)
(***************************************************************************)
EXTENDS DofiPanel, MonitorPanel, GosipPanel

VARIABLE app     (* the page that was opened *)

frontendVars == <<app, dofiVars, monitorVars, gosipVars>>

FrontendInit ==
  /\ app \in {"dofi", "monitor", "gosip"}
  /\ DofiInit /\ MonitorInit /\ GosipInit
  /\ app # "dofi" => hw = CHOOSE f \in Starts : TRUE
  /\ app # "monitor" => panel = "pexor"

DofiStep    == app = "dofi" /\ DofiNext /\ UNCHANGED <<app, monitorVars, gosipVars>>
MonitorStep == app = "monitor" /\ MonitorNext /\ UNCHANGED <<app, dofiVars, gosipVars>>
GosipStep   == app = "gosip" /\ GosipNext /\ UNCHANGED <<app, dofiVars, monitorVars>>

FrontendNext == DofiStep \/ MonitorStep \/ GosipStep

FrontendSpec ==
  /\ FrontendInit /\ [][FrontendNext]_frontendVars
  /\ app = "monitor" => MonitorFairness

(* The variables of all pages have their types (dofi.js:57-87, 651-661,    *)
(* mbs.js:4-12, 115-130, gosip.js:38-76).                                  *)
PanelsTypeOK == DofiTypeOK /\ MonitorTypeOK /\ GosipTypeOK
=============================================================================
