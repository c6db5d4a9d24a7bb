----------------------------- MODULE DabcPages -----------------------------
(***************************************************************************)
(* The pages of the web server of DABC itself (plugins/http/scripts/       *)
(* dabc.js) that keep state in the browser: the event builder network, the *)
(* control pages, and the items drawn with their history.  Each works by   *)
(* itself; a behaviour is about one of them, chosen at the beginning.      *)
(***************************************************************************)
EXTENDS BnetPanel, StatusPanel, ItemHistory

VARIABLE page     (* the page that was opened                              *)

dabcVars == <<page, bnetVars, statusVars, historyVars>>

DabcInit ==
  /\ page \in {"bnet", "status", "history"}
  /\ BnetInit /\ StatusInit /\ HistoryInit
  /\ page # "bnet" => served = CHOOSE list \in ServerLists : TRUE
  /\ page # "history" => hlimit = CHOOSE h \in HLimits : TRUE

BnetStep    == page = "bnet" /\ BnetNext /\ UNCHANGED <<page, statusVars, historyVars>>
StatusStep  == page = "status" /\ StatusNext /\ UNCHANGED <<page, bnetVars, historyVars>>
HistoryStep == page = "history" /\ HistoryNext /\ UNCHANGED <<page, bnetVars, statusVars>>

DabcNext == BnetStep \/ StatusStep \/ HistoryStep

DabcSpec ==
  /\ DabcInit /\ [][DabcNext]_dabcVars
  /\ page = "bnet" => BnetFairness
  /\ page = "status" => StatusFairness

-----------------------------------------------------------------------------
(* The variables of all pages have their types, and no history is longer   *)
(* than its owner allows (dabc.js:346-369, 121, 1030-1066).                *)
DabcTypeOK == BnetTypeOK /\ StatusTypeOK /\ HistoryTypeOK

(* The rows come to show the nodes they are labelled with, the ones of the *)
(* master, although answers for the old list may arrive in the rows of the *)
(* new one and requests are lost (dabc.js:634-749, 823-847).               *)
RowsSettle ==
  [](page = "bnet" /\ alive) => <>[](items = served /\ \A n \in DOMAIN items : info[n] = items[n])

(* Once its frame is closed or taken by another drawing a page becomes     *)
(* silent: no timer runs, however often it was opened, and no request is   *)
(* under way, those that an answer arriving late would cause included      *)
(* (dabc.js:143-148, 317-322, 371-381, 742-749, 841-847).                  *)
GoneIsSilent ==
  /\ <>~alive => <>[](~mainTimer /\ mainreq = "idle" /\ asked = {})
  /\ <>[](page = "status" /\ ~shown) => <>[](handlers = {} /\ inforeq = {})

(* A page that is open never stops asking, whatever requests failed: the   *)
(* guards mainreq and inforeq are always given back (dabc.js:151-165,      *)
(* 324-331, 850-857).                                                      *)
PollingGoesOn ==
  /\ [](page = "bnet" /\ alive) => []<>(mainreq = "sent")
  /\ <>[](page = "status" /\ shown) => []<>(inforeq # {})
=============================================================================
