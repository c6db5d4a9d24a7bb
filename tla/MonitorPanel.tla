---------------------------- MODULE MonitorPanel ----------------------------
(***************************************************************************)
(* The two acquisition pages of the MBS (plugins/mbs/htm/mbs.js) and PEXOR *)
(* (plugins/pex/htm/pexor.js) plugins: the monitoring timer, the requests  *)
(* for the parameters of the server, the commands of the buttons and of    *)
(* the file form, and what the page shows in the end.                      *)
(*                                                                         *)
(* The pages have the same structure; `panel' tells which one runs.        *)
(* RefreshMonitor asks for every parameter at once and the answer to one   *)
(* of them, AppState, shows the view again, whether or not the others      *)
(* have arrived.  Rates, gauges and log windows are left out.              *)
(***************************************************************************)
EXTENDS Naturals, FiniteSets

CONSTANTS
  Params,       (* parameters of the server, on or off                     *)
  File,         (* the one the file form starts and stops                  *)
  AppState,     (* App/State, asked for last                               *)
  Updates,      (* bound: refreshes under way at the same time             *)
  MaxClicks,    (* bound: what the user does                               *)
  MaxChanges,   (* bound: how often the server changes by itself           *)
  MaxFails      (* bound: requests that fail                               *)

ASSUME MonitorAssumption ==
  /\ {File, AppState} \subseteq Params /\ File # AppState
  /\ MaxClicks \in Nat /\ MaxChanges \in Nat /\ MaxFails \in Nat

VARIABLES
  panel,        (* "mbs" or "pexor"                                        *)
  server,       (* the parameters of the server                            *)
  known,        (* the state object: fRunning, fFileOpen, fDabcState ...   *)
  view,         (* what RefreshView has shown                              *)
  requests,     (* requests for parameters under way                       *)
  command,      (* the command under way                                   *)
  monitoring,   (* fMonitoring                                             *)
  checkbox,     (* the Monitoring checkbox is checked                      *)
  timers,       (* intervals that are running                              *)
  lastTimer,    (* fUpdateTimer, 0 for null                                *)
  ready,        (* hpainter is set: the page is connected                  *)
  clicks, drift, failed     (* counters of the bounds                      *)

mode == <<monitoring, checkbox, timers, lastTimer>>
bounds == <<clicks, drift, failed>>
monitorVars == <<panel, server, known, view, requests, command, mode, ready, bounds>>

NoCommand == [par |-> AppState, on |-> FALSE, at |-> "none"]

-----------------------------------------------------------------------------
(* The view.  The MBS page does not show App/State.                        *)
Shows(p) == panel = "pexor" \/ p # AppState
ShowState(st) == view' = [p \in Params |-> IF Shows(p) THEN st[p] ELSE view[p]]

(* RefreshMonitor: nothing before the page is connected; then Update sends *)
(* a request for every parameter.                                          *)
FreeUpdate(u) == \A r \in requests : r.update # u
Requests(u) == {[update |-> u, par |-> p, val |-> FALSE, done |-> FALSE] : p \in Params}
RefreshMonitor ==
  IF ready
    THEN \E u \in Updates :
           /\ FreeUpdate(u) /\ \A v \in Updates : v < u => ~FreeUpdate(v)
           /\ requests' = requests \cup Requests(u)
    ELSE UNCHANGED requests

(* openOnline has loaded the items of the server.                          *)
OpenOnline ==
  /\ ~ready /\ ready' = TRUE
  /\ UNCHANGED <<panel, server, known, view, requests, command, mode, bounds>>

(* An interval fires.                                                      *)
Tick(t) ==
  /\ t \in timers /\ ready /\ RefreshMonitor
  /\ UNCHANGED <<panel, server, known, view, command, mode, ready, bounds>>

Click == clicks < MaxClicks /\ clicks' = clicks + 1

ButtonRefresh ==
  /\ Click /\ RefreshMonitor
  /\ UNCHANGED <<panel, server, known, view, command, mode, ready, drift, failed>>

(* ChangeMonitoring: a new interval, or an end of the one remembered last. *)
StartTimer ==
  /\ lastTimer' = lastTimer + 1
  /\ timers' = timers \cup {lastTimer + 1}
StopTimer == timers' = timers \ {lastTimer} /\ UNCHANGED lastTimer

(* The checkbox flips, and the mode follows it; the view is shown again.   *)
ToggleMonitoring ==
  /\ Click
  /\ checkbox' = ~checkbox /\ monitoring' = checkbox'
  /\ IF checkbox' THEN StartTimer ELSE StopTimer
  /\ ShowState(known)
  /\ UNCHANGED <<panel, server, known, requests, command, ready, drift, failed>>

-----------------------------------------------------------------------------
(* Commands.                                                               *)

SendCommand(p, on) ==
  /\ Click /\ command.at = "none"
  /\ command' = [par |-> p, on |-> on, at |-> "sent"]
  /\ UNCHANGED <<panel, server, known, view, requests, mode, ready, drift, failed>>

(* The buttons start and stop the acquisition; the file form decides by    *)
(* what the page knows whether it starts or stops the file.                *)
SendButton(on) == SendCommand(AppState, on)
SubmitFileForm == SendCommand(File, ~known[File])

(* The server executes the command or refuses it, which the pages do not   *)
(* look at.                                                                *)
CommandExecuted ==
  /\ command.at = "sent" /\ command' = [command EXCEPT !.at = "done"]
  /\ server' = [server EXCEPT ![command.par] = command.on]
  /\ UNCHANGED <<panel, known, view, requests, mode, ready, bounds>>
CommandRefused ==
  /\ command.at = "sent" /\ command' = [command EXCEPT !.at = "done"]
  /\ UNCHANGED <<panel, server, known, view, requests, mode, ready, bounds>>

CommandReturns ==
  /\ command.at = "done" /\ command' = NoCommand
  /\ RefreshMonitor
  /\ UNCHANGED <<panel, server, known, view, mode, ready, bounds>>

Fails == failed < MaxFails /\ failed' = failed + 1

(* mbs.js refreshes in a finally, pexor.js does not get there: JSON.parse  *)
(* throws on the empty answer.                                             *)
CommandFails ==
  /\ Fails /\ command.at # "none" /\ command' = NoCommand
  /\ IF panel = "mbs" THEN RefreshMonitor ELSE UNCHANGED requests
  /\ UNCHANGED <<panel, server, known, view, mode, ready, clicks, drift>>

-----------------------------------------------------------------------------
(* Requests for parameters.                                                *)

Answer(r) ==
  /\ ~r.done
  /\ requests' = (requests \ {r}) \cup {[r EXCEPT !.done = TRUE, !.val = server[r.par]]}
  /\ UNCHANGED <<panel, server, known, view, command, mode, ready, bounds>>

ArriveShowsLast(r) ==
  /\ r.done /\ requests' = requests \ {r}
  /\ known' = [known EXCEPT ![r.par] = r.val]
  /\ IF r.par = AppState /\ \A x \in requests' : x.update # r.update
       THEN ShowState(known') ELSE UNCHANGED view
  /\ UNCHANGED <<panel, server, command, mode, ready, bounds>>
Arrive(r) ==
  /\ r.done /\ requests' = requests \ {r}
  /\ known' = [known EXCEPT ![r.par] = r.val]
  /\ IF r.par = AppState THEN ShowState(known') ELSE UNCHANGED view
  /\ UNCHANGED <<panel, server, command, mode, ready, bounds>>

(* A request fails.  mbs.js catches the failure of the last one and shows  *)
(* the view all the same; in pexor.js the callback is not called.          *)
RequestFails(r) ==
  /\ Fails /\ requests' = requests \ {r}
  /\ IF panel = "mbs" /\ r.par = AppState THEN ShowState(known) ELSE UNCHANGED view
  /\ UNCHANGED <<panel, server, known, command, mode, ready, clicks, drift>>

(* Somebody else changes the server.                                       *)
ServerChanges(p) ==
  /\ drift < MaxChanges /\ drift' = drift + 1
  /\ server' = [server EXCEPT ![p] = ~@]
  /\ UNCHANGED <<panel, known, view, requests, command, mode, ready, clicks, failed>>

(* The checkbox is checked in both pages (main.htm); mbs.js starts the     *)
(* monitoring, pexor.js does not.                                          *)
UncheckedAtStart == FALSE
CheckedAtStart == TRUE
MonitorInit ==
  /\ panel \in {"mbs", "pexor"}
  /\ server = [p \in Params |-> FALSE] /\ known = server /\ view = server
  /\ requests = {} /\ command = NoCommand
  /\ checkbox = CheckedAtStart
  /\ monitoring = (panel = "mbs")
  /\ lastTimer = (IF panel = "mbs" THEN 1 ELSE 0)
  /\ timers = (IF panel = "mbs" THEN {1} ELSE {})
  /\ ready = FALSE /\ clicks = 0 /\ drift = 0 /\ failed = 0

MonitorNext ==
  \/ OpenOnline
  \/ \E t \in timers : Tick(t)
  \/ ButtonRefresh
  \/ ToggleMonitoring
  \/ \E on \in BOOLEAN : SendButton(on)
  \/ SubmitFileForm
  \/ CommandExecuted
  \/ CommandRefused
  \/ CommandReturns
  \/ CommandFails
  \/ \E r \in requests : \/ Answer(r)
                         \/ Arrive(r)
                         \/ RequestFails(r)
  \/ \E p \in Params : ServerChanges(p)

(* The browser fires the intervals and delivers answers, the server        *)
(* answers.                                                                *)
MonitorFairness ==
  /\ WF_monitorVars(OpenOnline)
  /\ WF_monitorVars(\E t \in timers : Tick(t))
  /\ WF_monitorVars(CommandExecuted \/ CommandRefused)
  /\ WF_monitorVars(CommandReturns)
  /\ \A u \in Updates, p \in Params :
       WF_monitorVars(\E r \in requests : r.update = u /\ r.par = p /\ (Answer(r) \/ Arrive(r)))

MonitorSpec == MonitorInit /\ [][MonitorNext]_monitorVars /\ MonitorFairness

-----------------------------------------------------------------------------
(* What the pages promise.                                                 *)

MonitorTypeOK ==
  /\ server \in [Params -> BOOLEAN] /\ known \in [Params -> BOOLEAN]
  /\ view \in [Params -> BOOLEAN]
  /\ \A r \in requests : r.update \in Updates /\ r.par \in Params

(* Exactly one interval runs while the page says it monitors, and none     *)
(* when it says it does not: ChangeMonitoring overwrites fUpdateTimer      *)
(* without a look, so this rests on the checkbox of the page and the mode  *)
(* never being told the same thing twice (mbs.js:237-247, 432, 558-562).   *)
TimerMatchesMode == timers = IF monitoring THEN {lastTimer} ELSE {}

(* While a page monitors and the server rests, the page comes to show the  *)
(* parameters of the server and keeps showing them, although answers       *)
(* overtake each other, some are lost, and the view is refreshed by one of *)
(* them only (mbs.js:88-111, 223-234, pexor.js:149-178, 241-263).          *)
MonitorShowsServer ==
  <>[]monitoring => <>[](\A p \in Params : Shows(p) => view[p] = server[p])
=============================================================================
