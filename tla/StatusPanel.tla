---------------------------- MODULE StatusPanel ----------------------------
(***************************************************************************)
(* The control pages of a hadaq combiner and of a stream (HadaqDAQControl  *)
(* and StreamControl of dabc.js): every opening of the page starts a       *)
(* handler, an interval of its own that asks for the status until it finds *)
(* that the elements of the page are gone.                                 *)
(*                                                                         *)
(* Opening the page again in the same frame makes new elements with the    *)
(* old names, so that the handlers of earlier openings go on.  The buttons *)
(* only send commands, and what the status says is drawn; both are left    *)
(* out.                                                                    *)
(***************************************************************************)
EXTENDS Naturals, FiniteSets

CONSTANTS
  MaxOpenings,     (* bound: how often the page is opened                  *)
  MaxStatusFails   (* bound: requests that fail                            *)

ASSUME StatusAssumption ==
  MaxOpenings \in Nat \ {0} /\ MaxStatusFails \in Nat

VARIABLES
  shown,        (* the elements of the page are in the frame               *)
  opened,       (* how often the page was opened                           *)
  handlers,     (* intervals that are running, by opening                  *)
  inforeq,      (* openings whose request is under way                     *)
  statusFailed  (* counter of the bound                                    *)

statusVars == <<shown, opened, handlers, inforeq, statusFailed>>

Openings == 1..MaxOpenings

Open ==
  /\ opened + 1 \in Openings /\ opened' = opened + 1
  /\ shown' = TRUE
  /\ handlers' = handlers \cup {opened'}
  /\ UNCHANGED <<inforeq, statusFailed>>

(* The frame is cleared or used for another drawing.                       *)
ElementsGone ==
  /\ shown /\ shown' = FALSE
  /\ UNCHANGED <<opened, handlers, inforeq, statusFailed>>

(* The handler of an opening fires.                                        *)
StopsItself(h) ==
  /\ h \in handlers /\ ~shown
  /\ handlers' = handlers \ {h}
  /\ UNCHANGED <<shown, opened, inforeq, statusFailed>>
AsksStatus(h) ==
  /\ h \in handlers /\ shown
  /\ h \notin inforeq /\ inforeq' = inforeq \cup {h}
  /\ UNCHANGED <<shown, opened, handlers, statusFailed>>

(* The answer is drawn where the elements still are; the request is over   *)
(* whether it succeeded or not.                                            *)
StatusArrives(h) ==
  /\ h \in inforeq /\ inforeq' = inforeq \ {h}
  /\ UNCHANGED <<shown, opened, handlers, statusFailed>>
StatusFails(h) ==
  /\ statusFailed < MaxStatusFails /\ statusFailed' = statusFailed + 1
  /\ h \in inforeq /\ inforeq' = inforeq \ {h}
  /\ UNCHANGED <<shown, opened, handlers>>

StatusInit ==
  /\ shown = TRUE /\ opened = 1 /\ handlers = {1}
  /\ inforeq = {} /\ statusFailed = 0

StatusNext ==
  \/ Open
  \/ ElementsGone
  \/ \E h \in Openings : \/ StopsItself(h)
                         \/ AsksStatus(h)
                         \/ StatusArrives(h)
                         \/ StatusFails(h)

(* The intervals fire, the server answers.                                 *)
StatusFairness ==
  \A h \in Openings :
    /\ WF_statusVars(StopsItself(h) \/ AsksStatus(h))
    /\ WF_statusVars(StatusArrives(h))

StatusSpec == StatusInit /\ [][StatusNext]_statusVars /\ StatusFairness

-----------------------------------------------------------------------------
StatusTypeOK ==
  /\ shown \in BOOLEAN /\ opened \in Openings
  /\ handlers \subseteq 1..opened /\ inforeq \subseteq 1..opened
=============================================================================
