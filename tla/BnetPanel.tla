----------------------------- MODULE BnetPanel -----------------------------
(***************************************************************************)
(* The page of the event builder network (class BnetPainter of dabc.js):   *)
(* the main request that is repeated by a timer, the requests for every    *)
(* node of the network that follow its answer, and the calibration panel   *)
(* of the hub that the user has chosen.                                    *)
(*                                                                         *)
(* The lists of input nodes and of builder nodes are treated alike; here   *)
(* there is one list.  The answer of a node is the node it came from: a    *)
(* row must show the node that it is labelled with.  Colours, rates, run   *)
(* control buttons and drawings are left out.                              *)
(***************************************************************************)
EXTENDS Naturals, Sequences, FiniteSets

CONSTANTS
  Nodes,           (* nodes of the network                                 *)
  Nobody,          (* no node, not in Nodes                                *)
  ServerLists,     (* lists of nodes that the master may have              *)
  Batches,         (* bound: rounds of requests under way at the same time *)
  MaxListChanges,  (* bound: how often the list changes                    *)
  MaxHubClicks,    (* bound: what the user does                            *)
  MaxBnetFails     (* bound: requests that fail                            *)

ASSUME BnetAssumption ==
  /\ Nobody \notin Nodes /\ ServerLists \subseteq Seq(Nodes)
  /\ MaxListChanges \in Nat /\ MaxHubClicks \in Nat /\ MaxBnetFails \in Nat

VARIABLES
  served,       (* the list of nodes that the master has                   *)
  items,        (* InputItems                                              *)
  info,         (* InputInfo: the node that a row shows                    *)
  calItem,      (* CalibrItem: the item with the chosen hub                *)
  mainreq,      (* the main request: idle, sent or answered                *)
  answer,       (* the list in its answer                                  *)
  asked,        (* requests for nodes under way                            *)
  alive,        (* hpainter and frame are set                              *)
  mainTimer,    (* main_timer runs                                         *)
  changed, hubClicks, bnetFailed    (* counters of the bounds              *)

bnetBounds == <<changed, hubClicks, bnetFailed>>
bnetVars == <<served, items, info, calItem, mainreq, answer, asked, alive, mainTimer, bnetBounds>>

Rows == UNION {DOMAIN list : list \in ServerLists}
NoInfo == [row \in Rows |-> Nobody]
FreeBatches == {b \in Batches : \A r \in asked : r.batch # b}
CalRow == 0      \* the calibration panel

-----------------------------------------------------------------------------
(* sendInfoRequests: a request for every node of the list and one for the  *)
(* chosen hub.  Nothing stops it while the last ones are under way.        *)
InfoRequests(b, list, cal) ==
  {[batch |-> b, row |-> n, of |-> list[n]] : n \in DOMAIN list}
    \cup IF cal = Nobody THEN {} ELSE {[batch |-> b, row |-> CalRow, of |-> cal]}

(* sendMainRequest, from the timer of the page.                            *)
SendMainRequest ==
  /\ mainTimer /\ FreeBatches # {}
  /\ mainreq = "idle" /\ mainreq' = "sent"
  /\ UNCHANGED <<served, items, info, calItem, answer, asked, alive, mainTimer, bnetBounds>>

MasterAnswers ==
  /\ mainreq = "sent" /\ mainreq' = "answered"
  /\ answer' = served
  /\ UNCHANGED <<served, items, info, calItem, asked, alive, mainTimer, bnetBounds>>

(* processMainRequest: a new list clears what was known and makes the page *)
(* again.  After cleanup that ends at hpainter.reload, which is not there, *)
(* and the requests for the nodes are not sent.                            *)
MainArrivesAsksOnce ==
  /\ mainreq = "answered" /\ mainreq' = "idle"
  /\ items' = answer /\ answer' = <<>>
  /\ IF items' # items THEN info' = NoInfo /\ calItem' = Nobody ELSE UNCHANGED <<info, calItem>>
  /\ IF items' = items
       THEN UNCHANGED asked
       ELSE \E b \in FreeBatches : asked' = asked \cup InfoRequests(b, items', calItem')
  /\ UNCHANGED <<served, alive, mainTimer, bnetBounds>>
MainArrives ==
  /\ mainreq = "answered" /\ mainreq' = "idle"
  /\ items' = answer /\ answer' = <<>>
  /\ IF items' # items THEN info' = NoInfo /\ calItem' = Nobody ELSE UNCHANGED <<info, calItem>>
  /\ IF items' # items /\ ~alive
       THEN UNCHANGED asked
       ELSE LET b == CHOOSE c \in FreeBatches : TRUE
            IN  asked' = asked \cup InfoRequests(b, items', calItem')
  /\ UNCHANGED <<served, alive, mainTimer, bnetBounds>>

BnetFails == bnetFailed < MaxBnetFails /\ bnetFailed' = bnetFailed + 1

(* The failure is caught, the page turns grey and may ask again.           *)
MainFailsForGood ==
  /\ BnetFails /\ mainreq = "sent" /\ mainreq' = "failed"
  /\ UNCHANGED <<served, items, info, calItem, answer, asked, alive, mainTimer, changed, hubClicks>>
MainFails ==
  /\ BnetFails /\ mainreq \in {"sent", "answered"} /\ mainreq' = "idle"
  /\ answer' = <<>>
  /\ UNCHANGED <<served, items, info, calItem, asked, alive, mainTimer, changed, hubClicks>>

(* processReq: the row takes the answer whatever it was asked for.         *)
InfoArrives(r) ==
  /\ asked' = asked \ {r}
  /\ info' = IF r.row = CalRow THEN info ELSE [info EXCEPT ![r.row] = r.of]
  /\ UNCHANGED <<served, items, calItem, mainreq, answer, alive, mainTimer, bnetBounds>>

(* Nobody catches the failure of such a request; a node that has left does *)
(* not answer.                                                             *)
InfoFails(r) ==
  /\ asked' = asked \ {r}
  /\ \/ BnetFails
     \/ r.of \notin {served[n] : n \in DOMAIN served} /\ UNCHANGED bnetFailed
  /\ UNCHANGED <<served, items, info, calItem, mainreq, answer, alive, mainTimer, changed, hubClicks>>

-----------------------------------------------------------------------------
(* displayCalItem, from a label of a row or from the labels that clear the *)
(* panel.  The label of a hub exists once the row has an answer; its item  *)
(* is made of the one of the row.                                          *)
HubClick == alive /\ hubClicks < MaxHubClicks /\ hubClicks' = hubClicks + 1
DisplayCalItem(row) ==
  /\ HubClick /\ row \in DOMAIN items /\ info[row] # Nobody
  /\ calItem' = items[row]
  /\ UNCHANGED <<served, items, info, mainreq, answer, asked, alive, mainTimer, changed, bnetFailed>>
ClearCalItem ==
  /\ HubClick /\ calItem' = Nobody
  /\ UNCHANGED <<served, items, info, mainreq, answer, asked, alive, mainTimer, changed, bnetFailed>>

(* cleanup, when the frame of the page is closed or used for another one.  *)
CleanupKeepsTimer ==
  /\ alive /\ alive' = FALSE
  /\ UNCHANGED <<served, items, info, calItem, mainreq, answer, asked, mainTimer, bnetBounds>>
Cleanup ==
  /\ alive /\ alive' = FALSE
  /\ mainTimer' = FALSE
  /\ UNCHANGED <<served, items, info, calItem, mainreq, answer, asked, bnetBounds>>

(* Nodes join and leave.                                                   *)
ListChanges(list) ==
  /\ changed < MaxListChanges /\ changed' = changed + 1
  /\ list # served /\ served' = list
  /\ UNCHANGED <<items, info, calItem, mainreq, answer, asked, alive, mainTimer, hubClicks, bnetFailed>>

BnetInit ==
  /\ served \in ServerLists
  /\ items = <<>> /\ info = NoInfo /\ calItem = Nobody
  /\ mainreq = "idle" /\ answer = <<>> /\ asked = {}
  /\ alive = TRUE /\ mainTimer = TRUE
  /\ changed = 0 /\ hubClicks = 0 /\ bnetFailed = 0

BnetNext ==
  \/ SendMainRequest
  \/ MasterAnswers
  \/ MainArrives
  \/ MainFails
  \/ \E r \in asked : \/ InfoArrives(r)
                      \/ InfoFails(r)
  \/ \E row \in Rows : DisplayCalItem(row)
  \/ ClearCalItem
  \/ Cleanup
  \/ \E list \in ServerLists : ListChanges(list)

(* The interval fires, the servers answer or the browser reports that they *)
(* do not.                                                                 *)
BnetFairness ==
  /\ WF_bnetVars(SendMainRequest)
  /\ WF_bnetVars(MasterAnswers)
  /\ WF_bnetVars(MainArrives)
  /\ \A b \in Batches, row \in Rows \cup {CalRow} :
       WF_bnetVars(\E r \in asked : r.batch = b /\ r.row = row /\ (InfoArrives(r) \/ InfoFails(r)))

BnetSpec == BnetInit /\ [][BnetNext]_bnetVars /\ BnetFairness

-----------------------------------------------------------------------------
BnetTypeOK ==
  /\ served \in ServerLists /\ items \in ServerLists \cup {<<>>}
  /\ info \in [Rows -> Nodes \cup {Nobody}]
  /\ calItem \in Nodes \cup {Nobody}
  /\ \A r \in asked : r.batch \in Batches /\ r.row \in Rows \cup {CalRow} /\ r.of \in Nodes
=============================================================================
