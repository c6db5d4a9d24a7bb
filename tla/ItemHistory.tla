---------------------------- MODULE ItemHistory ----------------------------
(***************************************************************************)
(* The history of an item of the server (Hierarchy.cxx of DABC) and the    *)
(* copy of it that the browser keeps (makeItemRequest, afterItemRequest    *)
(* and ExtractSeries of dabc.js).                                          *)
(*                                                                         *)
(* At every change the server stores in a ring what the value was before,  *)
(* under the version of the change.  The browser asks for the entries      *)
(* after the version it knows and joins them with its own; where that      *)
(* cannot be, the server says that there is a gap.  The values are         *)
(* numbered in the order in which the item took them: a series is right    *)
(* when no number is missing, doubled or out of order.                     *)
(*                                                                         *)
(* Items that another node publishes, whose history passes the binary      *)
(* format first, are left out.                                             *)
(***************************************************************************)
EXTENDS Naturals, Sequences, FiniteSets

CONSTANTS
  Capacity,        (* entries of the ring, at least 1                      *)
  HLimits,         (* lengths that the browser may ask for                 *)
  MaxSteps,        (* bound: changes and restarts of the server            *)
  MaxRestarts,     (* bound: restarts of the server                        *)
  MaxLostReplies   (* bound: requests that fail                            *)

ASSUME HistoryAssumption ==
  /\ Capacity \in Nat \ {0} /\ HLimits \subseteq Nat \ {0}
  /\ MaxSteps \in Nat /\ MaxRestarts \in Nat /\ MaxLostReplies \in Nat

VARIABLES
  version,      (* version of the whole hierarchy                          *)
  nodeVersion,  (* fNodeVersion of the item                                *)
  value,        (* its value                                               *)
  recorded,     (* fPrev is set: the next change makes an entry            *)
  ring,         (* the history: entries [version, val]                     *)
  hlimit,       (* hlimit of the item in the browser                       *)
  known,        (* request_version                                         *)
  kept,         (* item.history, values only; <<>> for null                *)
  series,       (* what is drawn                                           *)
  request,      (* the request under way and then its answer               *)
  steps, restarts, lost    (* counters of the bounds                       *)

serverVars == <<version, nodeVersion, value, recorded, ring, steps, restarts>>
browserVars == <<hlimit, known, kept, series>>
historyVars == <<serverVars, browserVars, request, lost>>

NoRequest == [at |-> "none"]

LastOf(s, n) == SubSeq(s, (IF Len(s) > n THEN Len(s) - n ELSE 0) + 1, Len(s))

-----------------------------------------------------------------------------
(* The server.                                                             *)

ServerStep == steps < MaxSteps /\ steps' = steps + 1

(* MarkVersionIfChanged with changed fields.                               *)
Record(entry) == ring' = LastOf(Append(ring, entry), Capacity)
ServerChange ==
  /\ ServerStep
  /\ version' = version + 1 /\ nodeVersion' = version'
  /\ value' = value + 1 /\ recorded' = TRUE
  /\ IF recorded THEN Record([version |-> version', val |-> value]) ELSE UNCHANGED ring
  /\ UNCHANGED <<restarts, browserVars, request, lost>>

(* Something below the item changes; something elsewhere changes.          *)
ServerTouch ==
  /\ ServerStep /\ version' = version + 1
  /\ nodeVersion' \in {version', nodeVersion}
  /\ UNCHANGED <<value, recorded, ring, restarts, browserVars, request, lost>>

(* A new process counts its versions anew.  The item has gone through      *)
(* other values in between.                                                *)
ServerRestart ==
  /\ ServerStep /\ restarts < MaxRestarts /\ restarts' = restarts + 1
  /\ version' = 1 /\ nodeVersion' = 1 /\ value' = value + 2
  /\ recorded' = TRUE /\ ring' = <<>>
  /\ UNCHANGED <<browserVars, request, lost>>

(* SaveTo: the entries after the version asked for, among the last ones    *)
(* the browser wants, none being the same as no history; a gap unless one  *)
(* is older than that version.                                             *)
Window == LastOf(ring, request.hlimit)
EntryIsOlder(entry) == entry.version < request.version
HistoryGap == ~\E n \in DOMAIN Window : EntryIsOlder(Window[n])
EntryIsNews(entry) == request.version = 0 \/ entry.version > request.version
Values(entries) == [n \in DOMAIN entries |-> entries[n].val]

(* Versions grow along the ring: the news are the last of the entries.     *)
FirstNews == CHOOSE n \in 1..Len(Window) + 1 :
  \A m \in DOMAIN Window : EntryIsNews(Window[m]) <=> m >= n
News == SubSeq(Window, FirstNews, Len(Window))
ServerReply ==
  /\ request.at = "sent"
  /\ request' = [at |-> "answered", version |-> nodeVersion, val |-> value,
                 gap |-> HistoryGap, history |-> Values(News)]
  /\ UNCHANGED <<serverVars, browserVars, lost>>

-----------------------------------------------------------------------------
(* The browser.                                                            *)

(* makeItemRequest: the version is sent once, a request that fails makes   *)
(* the next one ask for everything.                                        *)
MakeItemRequest ==
  /\ request.at = "none"
  /\ request' = [at |-> "sent", version |-> known, hlimit |-> hlimit]
  /\ known' = 0
  /\ UNCHANGED <<serverVars, hlimit, kept, series, lost>>

JoinsUntrimmed(arr, gap) ==
  IF kept = <<>> \/ Len(arr) >= hlimit \/ gap THEN arr ELSE kept \o arr
JoinsOverGap(arr, gap) ==
  IF kept = <<>> \/ Len(arr) >= hlimit THEN arr
  ELSE LastOf(kept, hlimit - Len(arr)) \o arr
Joins(arr, gap) ==
  IF kept = <<>> \/ Len(arr) >= hlimit \/ gap THEN arr
  ELSE LastOf(kept, hlimit - Len(arr)) \o arr

(* ExtractSeries: the history and then the value itself.                   *)
ExtractSeries(history, val) == Append(history, val)
AfterItemRequest ==
  /\ request.at = "answered" /\ request' = NoRequest
  /\ known' = request.version
  /\ kept' = IF request.history = <<>> THEN kept ELSE Joins(request.history, request.gap)
  /\ series' = ExtractSeries(kept', request.val)
  /\ UNCHANGED <<serverVars, hlimit, lost>>

RequestLost ==
  /\ lost < MaxLostReplies /\ lost' = lost + 1
  /\ request.at # "none" /\ request' = NoRequest
  /\ UNCHANGED <<serverVars, browserVars>>

HistoryInit ==
  /\ version = 0 /\ nodeVersion = 0 /\ value = 1 /\ recorded = FALSE /\ ring = <<>>
  /\ hlimit \in HLimits /\ known = 0 /\ kept = <<>> /\ series = <<>>
  /\ request = NoRequest /\ steps = 0 /\ restarts = 0 /\ lost = 0

HistoryNext ==
  \/ ServerChange
  \/ ServerTouch
  \/ ServerRestart
  \/ ServerReply
  \/ MakeItemRequest
  \/ AfterItemRequest
  \/ RequestLost

HistorySpec == HistoryInit /\ [][HistoryNext]_historyVars

-----------------------------------------------------------------------------
HistoryTypeOK ==
  /\ nodeVersion \in 0..version /\ Len(ring) <= Capacity
  /\ known \in 0..steps
  /\ Len(kept) <= hlimit

(* What is drawn shows the values one after the other as the item took     *)
(* them, up to the one of the answer: entries that fell out of the ring,   *)
(* that the browser trimmed, or that belonged to a request that failed     *)
(* leave no hole and none comes twice, as long as the server runs          *)
(* (dabc.js:1030-1066, Hierarchy.cxx:113-152).                             *)
Consecutive(s) == \A n \in 1..Len(s) - 1 : s[n + 1] = s[n] + 1
SeriesIsConsecutive == restarts = 0 => Consecutive(series)

(* What the comment at Hierarchy.cxx:128-131 says: when the server does    *)
(* not have the history back to the version that the browser names, so     *)
(* that the entries of the answer do not continue those of the browser, it *)
(* indicates the gap.  It goes by the version numbers alone.               *)
GapIsTold ==
  request.at = "answered" =>
    request.gap \/ Consecutive(ExtractSeries(kept \o request.history, request.val))
=============================================================================
