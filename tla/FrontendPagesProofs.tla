------------------------ MODULE FrontendPagesProofs ------------------------
(***************************************************************************)
(* Proofs about the control pages of the front-ends, for any boards,       *)
(* parameters, registers and bounds.                                       *)
(***************************************************************************)
EXTENDS FrontendPages, DofiPanelProofs
-----------------------------------------------------------------------------
(* The page of the POLAND boards.                                          *)
Readings == Bit \cup {Unread}
RegSets == UNION {[gs -> Readings] : gs \in SUBSET Groups}
Ops == {"read", "write", "trigger", "other", "file"}
SentSet == [slot : Slots, op : Ops, to : Boards \cup {Everyone}, regs : RegSets,
            done : BOOLEAN, alone : BOOLEAN, whole : BOOLEAN]

(* A read is of one board, a trigger command goes to all of them.          *)
Addressed(r) ==
  /\ r.op = "read" => r.to \in Boards /\ (r.done => r.regs \in [Groups -> Readings])
  /\ r.op = "trigger" => r.to = Everyone /\ r.regs \in [{"trig"} -> Bit]

(* What is alone was not met by any other request, so that nobody changed  *)
(* the label since, nor the boards when all of them have executed it.      *)
LabelFollows(r) ==
  r.op = "trigger" =>
    /\ r.regs["trig"] = setup["trig"]
    /\ r.done /\ r.whole => \A b \in Boards : boards[b]["trig"] = setup["trig"]
GosipInv ==
  /\ GosipTypeOK /\ chosen \in Boards /\ broadcast \in BOOLEAN
  /\ \A r \in sent : r \in SentSet /\ Addressed(r)
  /\ \A r \in sent : r.alone => sent = {r} /\ LabelFollows(r)

LEMMA ToBitTyped ==
  /\ \A v \in Readings : ToBit(v) \in Bit
  /\ \A v \in Bit : ToBit(v) = v /\ v \in Readings
BY GosipAssumption DEF GosipAssumption, ToBit, Bit, Readings

LEMMA PutTyped ==
  ASSUME NEW V, NEW D, NEW f \in [D -> V], NEW g, \A x \in DOMAIN g : g[x] \in V
  PROVE  /\ Put(f, g) \in [D -> V]
         /\ \A x \in D : Put(f, g)[x] = IF x \in DOMAIN g THEN g[x] ELSE f[x]
BY DEF Put

LEMMA RegsTyped ==
  ASSUME NEW gs \in SUBSET Groups, NEW f \in [Groups -> Readings]
  PROVE  Regs(gs, f) \in [gs -> Readings] /\ Regs(gs, f) \in RegSets
<1>1. Regs(gs, f) \in [gs -> Readings]
  BY DEF Regs
<1> QED
  BY <1>1 DEF RegSets

(* RefreshForm brings readings into the form.                              *)
LEMMA FormRefreshed ==
  ASSUME NEW st \in [Groups -> Readings], form \in [FormGroups -> Readings], RefreshForm(st)
  PROVE  form' \in [FormGroups -> Readings]
<1> DEFINE fresh == [g \in {"modes", "qfw", "dac"} |-> IF g = "modes" THEN ToBit(st[g]) ELSE st[g]]
<1>1. \A x \in {"modes", "qfw", "dac"} : st[x] \in Readings /\ ToBit(st[x]) \in Readings
  BY ToBitTyped DEF Groups
<1>2. \A x \in DOMAIN fresh : fresh[x] \in Readings
  BY <1>1
<1>3. form' = Put(form, fresh)
  BY DEF RefreshForm
<1> HIDE DEF fresh
<1> QED
  BY <1>2, <1>3, PutTyped

(* What is under way when another request is sent is alone no more.        *)
LEMMA MetTyped ==
  ASSUME GosipInv, NEW q \in Met
  PROVE  q \in SentSet /\ Addressed(q) /\ q.alone = FALSE
<1>1. PICK r \in sent : q = [r EXCEPT !.alone = FALSE]
  BY DEF Met
<1>2. r \in SentSet /\ Addressed(r)
  BY DEF GosipInv
<1> QED
  BY <1>1, <1>2 DEF SentSet, Addressed

(* A new request is alone if there is no other, and nobody else is.        *)
LEMMA CommandSent ==
  ASSUME GosipInv, NEW op \in Ops, NEW to \in Boards \cup {Everyone}, NEW regs \in RegSets,
         GosipCommand(op, to, regs),
         GosipTypeOK', chosen' \in Boards, broadcast' \in BOOLEAN,
         op = "read" => to \in Boards,
         op = "trigger" => to = Everyone /\ regs \in [{"trig"} -> Bit]
                           /\ regs["trig"] = setup'["trig"]
  PROVE  GosipInv'
<1>1. PICK s \in Slots : sent' = Met \cup {Message(s, op, to, regs, sent = {})}
  BY DEF GosipCommand
<1>2. PICK n : n = Message(s, op, to, regs, sent = {})
  OBVIOUS
<1>3. /\ n \in SentSet /\ n.op = op /\ n.to = to /\ n.regs = regs /\ n.done = FALSE
      /\ n.alone = (sent = {})
  BY <1>2 DEF Message, SentSet
<1>4. Addressed(n) /\ (n.alone => LabelFollows(n)')
  BY <1>3 DEF Addressed, LabelFollows
<1>5. sent' = Met \cup {n}
  BY <1>1, <1>2
<1>6. \A r \in sent' : r \in SentSet /\ Addressed(r)
  BY <1>3, <1>4, <1>5, MetTyped
<1>7. ASSUME NEW r \in sent', r.alone PROVE sent' = {r} /\ LabelFollows(r)'
  <2>1. r = n
    BY <1>5, <1>7, MetTyped
  <2>2. sent = {}
    BY <1>3, <1>7, <2>1
  <2>3. sent' = {n}
    BY <1>5, <2>2 DEF Met
  <2> QED
    BY <1>4, <1>7, <2>1, <2>3
<1>8. \A r \in sent' : Addressed(r)'
  BY <1>6 DEF Addressed
<1> QED
  BY <1>6, <1>7, <1>8 DEF GosipInv, SentSet

(* The actions that send a request.                                        *)
LEMMA ShowKeepsGosipInv == ASSUME GosipInv, Show PROVE GosipInv'
<1>1. target' = chosen
  BY DEF Show, ReadSlave
<1>2. [g \in Groups |-> 0] \in RegSets
  <2>1. [g \in Groups |-> 0] \in [Groups -> Readings]
    BY DEF Readings, Bit
  <2> QED
    BY <2>1 DEF RegSets
<1>3. GosipCommand("read", chosen, [g \in Groups |-> 0])
  BY <1>1 DEF Show
<1>4. GosipTypeOK' /\ chosen' \in Boards /\ broadcast' \in BOOLEAN
  BY <1>1 DEF Show, GosipInv, GosipTypeOK
<1> QED
  BY <1>2, <1>3, <1>4, CommandSent DEF GosipInv, Ops

LEMMA ApplyKeepsGosipInv ==
  ASSUME GosipInv, NEW kind \in {"QFW", "DAC", "CAL"}, Apply(kind)
  PROVE  GosipInv'
<1>1. target' \in Boards \cup {Everyone}
  BY DEF Apply, ReadSlave, GosipInv
<1>2. form \in [FormGroups -> Readings] /\ setup \in [Groups -> Readings]
  BY DEF GosipInv, GosipTypeOK, Readings
<1>3. setup' \in [Groups -> Readings]
  BY <1>2, PutTyped DEF Apply
<1>4. WrittenGroups(kind) \in SUBSET Groups
  BY DEF WrittenGroups, Groups
<1>5. Regs(WrittenGroups(kind), setup') \in RegSets
  BY <1>3, <1>4, RegsTyped
<1>6. GosipTypeOK' /\ chosen' \in Boards /\ broadcast' \in BOOLEAN
  BY <1>1, <1>3 DEF Apply, GosipInv, GosipTypeOK, Readings
<1>7. GosipCommand("write", target', Regs(WrittenGroups(kind), setup'))
  BY DEF Apply
<1> QED
  BY <1>1, <1>5, <1>6, <1>7, CommandSent DEF Ops

LEMMA TriggerKeepsGosipInv == ASSUME GosipInv, Trigger PROVE GosipInv'
<1>1. "trig" \in Groups /\ setup \in [Groups -> Readings]
  BY DEF GosipInv, GosipTypeOK, Groups, Readings
<1>2. 1 - ToBit(setup["trig"]) \in Bit
  <2>1. ToBit(setup["trig"]) \in Bit
    BY <1>1, ToBitTyped
  <2> QED
    BY <2>1 DEF Bit
<1>3. setup' = [setup EXCEPT !["trig"] = 1 - ToBit(setup["trig"])]
  BY DEF Trigger
<1>4. setup' \in [Groups -> Readings] /\ setup'["trig"] \in Bit
  BY <1>1, <1>2, <1>3 DEF Readings
<1>5. /\ Regs({"trig"}, setup') \in [{"trig"} -> Bit] /\ Regs({"trig"}, setup') \in RegSets
      /\ Regs({"trig"}, setup')["trig"] = setup'["trig"]
  <2>1. Regs({"trig"}, setup') \in RegSets
    BY <1>1, <1>4, RegsTyped
  <2> QED
    BY <1>4, <2>1 DEF Regs
<1>6. GosipTypeOK' /\ chosen' \in Boards /\ broadcast' \in BOOLEAN
  BY <1>4 DEF Trigger, GosipInv, GosipTypeOK, Readings
<1>7. GosipCommand("trigger", Everyone, Regs({"trig"}, setup'))
  BY DEF Trigger, TriggerTarget
<1> QED
  BY <1>5, <1>6, <1>7, CommandSent DEF Ops

LEMMA OtherKeepsGosipInv ==
  ASSUME GosipInv, OtherCommand \/ ScanOffset \/ ResetPEX \/ ConfigureBoards
  PROVE  GosipInv'
<1>1. target' \in Boards \cup {Everyone}
  BY DEF OtherCommand, ScanOffset, ResetPEX, ConfigureBoards, ReadSlave, GosipInv, GosipTypeOK
<1>2. Regs({}, setup) \in RegSets
  BY RegsTyped DEF GosipInv, GosipTypeOK, Readings
<1>3. GosipTypeOK' /\ chosen' \in Boards /\ broadcast' \in BOOLEAN
  BY <1>1 DEF OtherCommand, ScanOffset, ResetPEX, ConfigureBoards, GosipInv, GosipTypeOK
<1>4. CASE OtherCommand \/ ResetPEX
  <2>1. GosipCommand("other", target', Regs({}, setup))
    BY <1>4 DEF OtherCommand, ResetPEX
  <2> QED
    BY <1>1, <1>2, <1>3, <2>1, CommandSent DEF Ops
<1>5. CASE ScanOffset
  <2>1. PICK s, t \in Slots :
          sent' = Met \cup {Message(x, "other", target', Regs({}, setup), FALSE) : x \in {s, t}}
    BY <1>5 DEF ScanOffset
  <2>2. ASSUME NEW x \in {s, t}, NEW n, n = Message(x, "other", target', Regs({}, setup), FALSE)
        PROVE  n \in SentSet /\ Addressed(n) /\ ~n.alone
    <3>1. n \in SentSet /\ n.op = "other" /\ n.alone = FALSE
      BY <1>1, <1>2, <2>1, <2>2 DEF Message, SentSet, Ops
    <3> QED
      BY <3>1 DEF Addressed
  <2>3. \A r \in sent' : r \in SentSet /\ Addressed(r) /\ ~r.alone
    BY <2>1, <2>2, MetTyped
  <2> QED
    BY <1>3, <2>3 DEF GosipInv, SentSet, Addressed
<1>6. CASE ConfigureBoards
  <2>1. FileRegs \in RegSets
    BY GosipAssumption DEF GosipAssumption, RegSets, Readings
  <2>2. GosipCommand("file", target', FileRegs)
    BY <1>6 DEF ConfigureBoards
  <2> QED
    BY <1>1, <1>3, <2>1, <2>2, CommandSent DEF Ops
<1> QED
  BY <1>4, <1>5, <1>6

(* The user changes the form and what is chosen.                           *)
LEMMA FormKeepsGosipInv ==
  ASSUME GosipInv,
         \/ \E b \in Boards : ChooseBoard(b)
         \/ ToggleBroadcast \/ HexForm \/ Unconfirmed
         \/ \E g \in FormGroups : EditForm(g)
  PROVE  GosipInv'
<1>1. boards' = boards /\ setup' = setup /\ sent' = sent
  BY DEF ChooseBoard, ToggleBroadcast, HexForm, Unconfirmed, EditForm
<1>2. chosen' \in Boards /\ broadcast' \in BOOLEAN /\ target' \in Boards \cup {Everyone}
  BY DEF ChooseBoard, ToggleBroadcast, HexForm, Unconfirmed, EditForm, ReadSlave,
         GosipInv, GosipTypeOK
<1>3. form \in [FormGroups -> Readings] /\ setup \in [Groups -> Readings]
  BY DEF GosipInv, GosipTypeOK, Readings
<1>4. form' \in [FormGroups -> Readings]
  <2>1. CASE \E g \in FormGroups : EditForm(g)
    <3>1. PICK g \in FormGroups, v \in Bit : form' = [form EXCEPT ![g] = v]
      BY <2>1 DEF EditForm
    <3> QED
      BY <1>3, <3>1 DEF Readings
  <2>2. CASE HexForm
    BY <1>3, <2>2, FormRefreshed DEF HexForm
  <2> QED
    BY <1>3, <2>1, <2>2 DEF ChooseBoard, ToggleBroadcast, Unconfirmed
<1> QED
  BY <1>1, <1>2, <1>4 DEF GosipInv, GosipTypeOK, LabelFollows, Readings

(* What a board takes of a list.                                           *)
LEMMA BoardTakes ==
  ASSUME NEW f \in [Groups -> Bit], NEW regs \in RegSets, NEW got \in SUBSET (DOMAIN regs)
  PROVE  /\ Put(f, Taken(regs, got)) \in [Groups -> Bit]
         /\ \A x \in Groups \cap got : Put(f, Taken(regs, got))[x] = ToBit(regs[x])
<1>1. \A x \in DOMAIN regs : regs[x] \in Readings
  BY DEF RegSets
<1>2. /\ DOMAIN Taken(regs, got) = got
      /\ \A x \in got : Taken(regs, got)[x] = ToBit(regs[x]) /\ Taken(regs, got)[x] \in Bit
  BY <1>1, ToBitTyped DEF Taken
<1> QED
  BY <1>2, PutTyped

(* The boards execute a request; a trigger command that no board failed    *)
(* has reached all of them.                                                *)
LEMMA ExecuteKeepsGosipInv ==
  ASSUME GosipInv, NEW r \in sent, BoardsExecute(r)
  PROVE  GosipInv'
<1>1. r \in SentSet /\ Addressed(r) /\ ~r.done
  BY DEF GosipInv, BoardsExecute
<1>2. PICK got \in [{b \in Boards : r.to \in {b, Everyone}} -> Parts(DOMAIN r.regs)] :
        /\ sent' = (sent \ {r}) \cup
             {[r EXCEPT !.regs = IF r.op = "read"
                          THEN [g \in Groups |-> IF g \in got[r.to] THEN boards[r.to][g] ELSE Unread]
                          ELSE r.regs,
                        !.done = TRUE, !.whole = \A b \in DOMAIN got : got[b] = DOMAIN r.regs]}
        /\ boards' = [b \in Boards |-> IF r.op # "read" /\ b \in DOMAIN got
                                          THEN Put(boards[b], Taken(r.regs, got[b]))
                                          ELSE boards[b]]
  BY DEF BoardsExecute
<1>3. PICK regs : regs = IF r.op = "read"
                    THEN [g \in Groups |-> IF g \in got[r.to] THEN boards[r.to][g] ELSE Unread]
                    ELSE r.regs
  OBVIOUS
<1>4. PICK whole : whole = (\A b \in DOMAIN got : got[b] = DOMAIN r.regs)
  OBVIOUS
<1>5. PICK n : n = [r EXCEPT !.regs = regs, !.done = TRUE, !.whole = whole]
  OBVIOUS
<1>6. sent' = (sent \ {r}) \cup {n}
  BY <1>2, <1>3, <1>4, <1>5
<1>7. \A b \in Boards : boards[b] \in [Groups -> Bit]
  BY DEF GosipInv, GosipTypeOK
<1>8. \A b \in DOMAIN got : got[b] \in SUBSET (DOMAIN r.regs) /\ b \in Boards
  BY DEF Parts
<1>9. regs \in RegSets /\ (r.op = "read" => regs \in [Groups -> Readings])
  <2>1. CASE r.op = "read"
    <3>1. r.to \in Boards
      BY <1>1, <2>1 DEF Addressed
    <3>2. \A g \in Groups : boards[r.to][g] \in Readings /\ Unread \in Readings
      BY <1>7, <3>1 DEF Readings
    <3>3. regs \in [Groups -> Readings]
      BY <1>3, <2>1, <3>2
    <3> QED
      BY <3>3 DEF RegSets
  <2>2. CASE r.op # "read"
    BY <1>1, <1>3, <2>2 DEF SentSet
  <2> QED
    BY <2>1, <2>2
<1>10. whole \in BOOLEAN
  BY <1>4
<1>11. /\ n \in SentSet /\ n.alone = r.alone /\ n.op = r.op /\ n.to = r.to /\ n.regs = regs
      /\ n.whole = whole
  BY <1>1, <1>5, <1>9, <1>10 DEF SentSet
<1>12. Addressed(n)
  BY <1>1, <1>3, <1>9, <1>11 DEF Addressed
<1>13. boards' \in [Boards -> [Groups -> Bit]]
  <2>1. r.regs \in RegSets
    BY <1>1 DEF SentSet
  <2>2. \A b \in DOMAIN got : Put(boards[b], Taken(r.regs, got[b])) \in [Groups -> Bit]
    BY <1>7, <1>8, <2>1, BoardTakes
  <2> QED
    BY <1>2, <1>7, <2>2
<1>14. GosipTypeOK' /\ chosen' \in Boards /\ broadcast' \in BOOLEAN /\ setup' = setup
  BY <1>13 DEF BoardsExecute, GosipInv, GosipTypeOK
<1>15. ASSUME NEW q \in sent', q.alone PROVE sent' = {q} /\ LabelFollows(q)'
  <2>1. q = n /\ sent = {r} /\ LabelFollows(r)
    BY <1>6, <1>11, <1>15 DEF GosipInv
  <2>2. ASSUME n.op = "trigger", n.whole
        PROVE  n.regs = r.regs /\ \A b \in Boards : boards'[b]["trig"] = r.regs["trig"]
    <3>1. r.op = "trigger" /\ n.regs = r.regs
      BY <1>3, <1>11, <2>2
    <3>2. r.to = Everyone /\ r.regs \in [{"trig"} -> Bit] /\ r.regs \in RegSets
      BY <1>1, <3>1 DEF Addressed, SentSet
    <3>3. DOMAIN got = Boards /\ \A b \in Boards : got[b] = {"trig"}
      BY <1>2, <1>4, <1>11, <2>2, <3>2
    <3>4. "trig" \in Groups /\ ToBit(r.regs["trig"]) = r.regs["trig"]
      BY <3>2, ToBitTyped DEF Groups
    <3>5. ASSUME NEW b \in Boards PROVE boards'[b]["trig"] = r.regs["trig"]
      <4>1. boards'[b] = Put(boards[b], Taken(r.regs, got[b]))
        BY <1>2, <3>1, <3>3
      <4>2. boards[b] \in [Groups -> Bit] /\ got[b] \in SUBSET (DOMAIN r.regs) /\ "trig" \in Groups \cap got[b]
        BY <1>7, <1>8, <3>3, <3>4
      <4>3. Put(boards[b], Taken(r.regs, got[b]))["trig"] = ToBit(r.regs["trig"])
        BY <3>2, <4>2, BoardTakes
      <4> QED
        BY <3>4, <4>1, <4>3
    <3> QED
      BY <3>1, <3>5
  <2>3. sent' = {n}
    BY <1>6, <2>1
  <2>4. n.op = "trigger" => n.regs = r.regs
    BY <1>3, <1>11
  <2> QED
    BY <1>11, <1>14, <2>1, <2>2, <2>3, <2>4 DEF LabelFollows
<1>16. \A q \in sent' : q \in SentSet /\ Addressed(q)
  BY <1>6, <1>11, <1>12 DEF GosipInv
<1> QED
  BY <1>14, <1>15, <1>16 DEF GosipInv, SentSet, Addressed

(* The answer to a read is what the page has now; a trigger command that   *)
(* is alone has no read beside it.                                         *)
LEMMA AnswerKeepsGosipInv ==
  ASSUME GosipInv, NEW r \in sent, GosipReply(r) \/ GosipFails(r)
  PROVE  GosipInv'
<1>1. r \in SentSet /\ Addressed(r) /\ sent' = sent \ {r} /\ boards' = boards
  BY DEF GosipInv, GosipReply, GosipFails
<1>2. form \in [FormGroups -> Readings] /\ setup \in [Groups -> Readings]
  BY DEF GosipInv, GosipTypeOK, Readings
<1>3. setup' \in [Groups -> Readings] /\ form' \in [FormGroups -> Readings]
  <2>1. CASE GosipReply(r) /\ r.op = "read"
    <3>1. setup' = r.regs /\ r.regs \in [Groups -> Readings] /\ RefreshForm(r.regs)
      BY <1>1, <2>1 DEF GosipReply, Addressed
    <3> QED
      BY <1>2, <3>1, FormRefreshed
  <2> QED
    BY <1>2, <2>1 DEF GosipReply, GosipFails
<1>4. GosipTypeOK' /\ chosen' \in Boards /\ broadcast' \in BOOLEAN
  BY <1>1, <1>3 DEF GosipReply, GosipFails, GosipInv, GosipTypeOK, Readings
<1>5. \A q \in sent' : ~q.alone
  BY <1>1 DEF GosipInv
<1> QED
  BY <1>1, <1>4, <1>5 DEF GosipInv, SentSet, Addressed

LEMMA InitGosipInv == GosipInit => GosipInv
BY DEF GosipInit, GosipInv, GosipTypeOK, Bit

LEMMA NextGosipInv == GosipInv /\ [GosipNext]_gosipVars => GosipInv'
<1> SUFFICES ASSUME GosipInv, [GosipNext]_gosipVars PROVE GosipInv'
  OBVIOUS
<1>1. CASE UNCHANGED gosipVars
  BY <1>1 DEF gosipVars, GosipInv, GosipTypeOK, SentSet, Addressed, LabelFollows
<1>2. CASE GosipNext
  BY <1>2, ShowKeepsGosipInv, ApplyKeepsGosipInv, TriggerKeepsGosipInv, OtherKeepsGosipInv,
     FormKeepsGosipInv, ExecuteKeepsGosipInv, AnswerKeepsGosipInv DEF GosipNext
<1> QED
  BY <1>1, <1>2

-----------------------------------------------------------------------------
(* The types of the acquisition pages.                                     *)
RequestSet == [update : Updates, par : Params, val : BOOLEAN, done : BOOLEAN]
CommandSet == [par : Params, on : BOOLEAN, at : {"none", "sent", "done"}]
MonitorInv ==
  /\ server \in [Params -> BOOLEAN] /\ known \in [Params -> BOOLEAN] /\ view \in [Params -> BOOLEAN]
  /\ requests \subseteq RequestSet /\ command \in CommandSet

LEMMA RefreshTyped ==
  ASSUME requests \subseteq RequestSet, RefreshMonitor
  PROVE  requests' \subseteq RequestSet
<1>1. ASSUME NEW u \in Updates, NEW r \in Requests(u) PROVE r \in RequestSet
  <2>1. PICK p \in Params : r = [update |-> u, par |-> p, val |-> FALSE, done |-> FALSE]
    BY DEF Requests
  <2> QED
    BY <2>1 DEF RequestSet
<1> QED
  BY <1>1 DEF RefreshMonitor

LEMMA ShowTyped ==
  ASSUME NEW st \in [Params -> BOOLEAN], view \in [Params -> BOOLEAN], ShowState(st)
  PROVE  view' \in [Params -> BOOLEAN]
BY DEF ShowState

LEMMA CommandKeepsMonitorInv ==
  ASSUME MonitorInv, \/ \E on \in BOOLEAN : SendButton(on)
                     \/ SubmitFileForm
                     \/ CommandExecuted
                     \/ CommandRefused
                     \/ CommandReturns
                     \/ CommandFails
  PROVE  MonitorInv'
<1>1. known' = known /\ view' = view
  BY DEF SendButton, SubmitFileForm, SendCommand, CommandExecuted, CommandRefused,
         CommandReturns, CommandFails
<1>2. File \in Params /\ AppState \in Params
  BY MonitorAssumption DEF MonitorAssumption
<1>3. NoCommand \in CommandSet
  BY <1>2 DEF NoCommand, CommandSet
<1>4. CASE SubmitFileForm \/ \E on \in BOOLEAN : SendButton(on)
  <2>1. PICK p \in Params, on \in BOOLEAN : SendCommand(p, on)
    BY <1>2, <1>4 DEF SendButton, SubmitFileForm, MonitorInv
  <2>2. command' \in CommandSet /\ server' = server /\ requests' = requests
    BY <2>1 DEF SendCommand, CommandSet
  <2> QED
    BY <1>1, <2>2 DEF MonitorInv
<1>5. CASE CommandExecuted \/ CommandRefused
  <2>1. command' = [command EXCEPT !.at = "done"] /\ requests' = requests
    BY <1>5 DEF CommandExecuted, CommandRefused
  <2>2. command' \in CommandSet
    BY <2>1 DEF MonitorInv, CommandSet
  <2>3. server' = server \/ server' = [server EXCEPT ![command.par] = command.on]
    BY <1>5 DEF CommandExecuted, CommandRefused
  <2>4. server' \in [Params -> BOOLEAN]
    BY <2>3 DEF MonitorInv, CommandSet
  <2> QED
    BY <1>1, <2>1, <2>2, <2>4 DEF MonitorInv
<1>6. CASE CommandReturns \/ CommandFails
  <2>1. command' = NoCommand /\ server' = server
    BY <1>6 DEF CommandReturns, CommandFails
  <2>2. RefreshMonitor \/ requests' = requests
    BY <1>6 DEF CommandReturns, CommandFails
  <2>3. requests' \subseteq RequestSet
    BY <2>2, RefreshTyped DEF MonitorInv
  <2> QED
    BY <1>1, <1>3, <2>1, <2>3 DEF MonitorInv
<1> QED
  BY <1>4, <1>5, <1>6

LEMMA AnswerKeepsMonitorInv ==
  ASSUME MonitorInv, NEW r \in requests, Answer(r) \/ Arrive(r) \/ RequestFails(r)
  PROVE  MonitorInv'
<1>1. server' = server /\ command' = command
  BY DEF Answer, Arrive, RequestFails
<1>2. r \in RequestSet
  BY DEF MonitorInv
<1>3. CASE Answer(r)
  <2>1. PICK n : n = [r EXCEPT !.done = TRUE, !.val = server[r.par]]
    OBVIOUS
  <2>2. server[r.par] \in BOOLEAN
    BY <1>2 DEF MonitorInv, RequestSet
  <2>3. n \in RequestSet
    BY <1>2, <2>1, <2>2 DEF RequestSet
  <2>4. requests' = (requests \ {r}) \cup {n} /\ known' = known /\ view' = view
    BY <1>3, <2>1 DEF Answer
  <2> QED
    BY <1>1, <2>3, <2>4 DEF MonitorInv
<1>4. CASE Arrive(r)
  <2>1. requests' = requests \ {r} /\ known' = [known EXCEPT ![r.par] = r.val]
    BY <1>4 DEF Arrive
  <2>2. known' \in [Params -> BOOLEAN]
    BY <1>2, <2>1 DEF MonitorInv, RequestSet
  <2>3. ShowState(known') \/ view' = view
    BY <1>4 DEF Arrive
  <2>4. view' \in [Params -> BOOLEAN]
    BY <2>2, <2>3 DEF ShowState, MonitorInv
  <2> QED
    BY <1>1, <2>1, <2>2, <2>4 DEF MonitorInv
<1>5. CASE RequestFails(r)
  <2>1. requests' = requests \ {r} /\ known' = known
    BY <1>5 DEF RequestFails
  <2>2. ShowState(known) \/ view' = view
    BY <1>5 DEF RequestFails
  <2>3. view' \in [Params -> BOOLEAN]
    BY <2>2, ShowTyped DEF MonitorInv
  <2> QED
    BY <1>1, <2>1, <2>3 DEF MonitorInv
<1> QED
  BY <1>3, <1>4, <1>5

LEMMA InitMonitorInv == MonitorInit => MonitorInv
<1>1. NoCommand \in CommandSet
  BY MonitorAssumption DEF MonitorAssumption, NoCommand, CommandSet
<1> QED
  BY <1>1 DEF MonitorInit, MonitorInv

LEMMA NextMonitorInv == MonitorInv /\ [MonitorNext]_monitorVars => MonitorInv'
<1> SUFFICES ASSUME MonitorInv, [MonitorNext]_monitorVars PROVE MonitorInv'
  OBVIOUS
<1>1. CASE \/ \E t \in timers : Tick(t)
           \/ ButtonRefresh
  <2>1. /\ server' = server /\ known' = known /\ view' = view /\ command' = command
        /\ RefreshMonitor
    BY <1>1 DEF Tick, ButtonRefresh
  <2> QED
    BY <2>1, RefreshTyped DEF MonitorInv
<1>2. CASE ToggleMonitoring
  <2>1. ShowState(known) /\ server' = server /\ known' = known /\ command' = command /\ requests' = requests
    BY <1>2 DEF ToggleMonitoring
  <2> QED
    BY <2>1, ShowTyped DEF MonitorInv
<1>3. CASE OpenOnline \/ \E p \in Params : ServerChanges(p)
  BY <1>3 DEF OpenOnline, ServerChanges, MonitorInv
<1>4. CASE \/ \E on \in BOOLEAN : SendButton(on)
           \/ SubmitFileForm
           \/ CommandExecuted
           \/ CommandRefused
           \/ CommandReturns
           \/ CommandFails
  BY <1>4, CommandKeepsMonitorInv
<1>5. CASE \E r \in requests : Answer(r) \/ Arrive(r) \/ RequestFails(r)
  BY <1>5, AnswerKeepsMonitorInv
<1>6. CASE UNCHANGED monitorVars
  BY <1>6 DEF monitorVars, MonitorInv
<1> QED
  BY <1>1, <1>2, <1>3, <1>4, <1>5, <1>6 DEF MonitorNext

-----------------------------------------------------------------------------
(* The timer of the acquisition pages.                                     *)
(*                                                                         *)
(* TimerMatchesMode does not survive a click by itself: what makes it do so*)
(* is that a page that monitors has its checkbox checked, which is why     *)
(* ChangeMonitoring never starts an interval over a running one.           *)
TimerInv ==
  /\ lastTimer \in Nat
  /\ monitoring \in BOOLEAN /\ checkbox \in BOOLEAN
  /\ monitoring => checkbox
  /\ timers = IF monitoring THEN {lastTimer} ELSE {}

(* Both pages begin so: the checkbox is checked in either (main.htm).      *)
LEMMA TimerInvInit == MonitorInit => TimerInv
<1> SUFFICES ASSUME MonitorInit PROVE TimerInv
  OBVIOUS
<1>1. checkbox = TRUE
  BY DEF MonitorInit, CheckedAtStart
<1>2. CASE panel = "mbs"
  <2>1. monitoring = TRUE /\ lastTimer = 1 /\ timers = {1}
    BY <1>2 DEF MonitorInit
  <2> QED
    BY <1>1, <2>1 DEF TimerInv
<1>3. CASE panel = "pexor"
  <2>1. monitoring = FALSE /\ lastTimer = 0 /\ timers = {}
    BY <1>3 DEF MonitorInit
  <2> QED
    BY <1>1, <2>1 DEF TimerInv
<1> QED
  BY <1>2, <1>3 DEF MonitorInit

(* A click on the checkbox (mbs.js:237-247, 558-562, pexor.js:269-283,     *)
(* 582-585).                                                               *)
LEMMA ToggleKeepsTimerInv == TimerInv /\ ToggleMonitoring => TimerInv'
<1> SUFFICES ASSUME TimerInv, ToggleMonitoring PROVE TimerInv'
  OBVIOUS
<1>1. checkbox' = ~checkbox /\ monitoring' = checkbox'
  BY DEF ToggleMonitoring
<1>2. CASE checkbox
  <2>1. checkbox' = FALSE /\ monitoring' = FALSE
    BY <1>1, <1>2 DEF TimerInv
  <2>2. timers' = timers \ {lastTimer} /\ lastTimer' = lastTimer
    BY <2>1 DEF ToggleMonitoring, StopTimer
  <2>3. timers' = {}
    BY <2>2 DEF TimerInv
  <2> QED
    BY <2>1, <2>2, <2>3 DEF TimerInv
<1>3. CASE ~checkbox
  <2>1. checkbox' = TRUE /\ monitoring' = TRUE /\ timers = {}
    BY <1>1, <1>3 DEF TimerInv
  <2>2. timers' = {lastTimer + 1} /\ lastTimer' = lastTimer + 1
    BY <2>1 DEF ToggleMonitoring, StartTimer
  <2> QED
    BY <2>1, <2>2 DEF TimerInv
<1> QED
  BY <1>2, <1>3

(* Nothing else touches the timer, the mode or the checkbox.               *)
LEMMA OthersLeaveTheMode == MonitorNext /\ ~ToggleMonitoring => UNCHANGED mode
<1> SUFFICES ASSUME MonitorNext, ~ToggleMonitoring PROVE UNCHANGED mode
  OBVIOUS
<1>1. CASE OpenOnline
  BY <1>1 DEF OpenOnline
<1>2. CASE \E t \in timers : Tick(t)
  BY <1>2 DEF Tick
<1>3. CASE ButtonRefresh
  BY <1>3 DEF ButtonRefresh
<1>4. CASE SubmitFileForm \/ \E on \in BOOLEAN : SendButton(on)
  BY <1>4 DEF SendButton, SubmitFileForm, SendCommand
<1>5. CASE CommandExecuted \/ CommandRefused \/ CommandReturns \/ CommandFails
  BY <1>5 DEF CommandExecuted, CommandRefused, CommandReturns, CommandFails
<1>6. CASE \E r \in requests : Answer(r) \/ Arrive(r) \/ RequestFails(r)
  BY <1>6 DEF Answer, Arrive, RequestFails
<1>7. CASE \E p \in Params : ServerChanges(p)
  BY <1>7 DEF ServerChanges
<1> QED
  BY <1>1, <1>2, <1>3, <1>4, <1>5, <1>6, <1>7 DEF MonitorNext

LEMMA NextTimerInv == TimerInv /\ [MonitorNext]_monitorVars => TimerInv'
<1> SUFFICES ASSUME TimerInv, [MonitorNext]_monitorVars PROVE TimerInv'
  OBVIOUS
<1>1. CASE ToggleMonitoring
  BY <1>1, ToggleKeepsTimerInv
<1>2. CASE UNCHANGED mode
  BY <1>2 DEF TimerInv, mode
<1>3. CASE UNCHANGED monitorVars
  BY <1>2, <1>3 DEF monitorVars
<1> QED
  BY <1>1, <1>2, <1>3, OthersLeaveTheMode

-----------------------------------------------------------------------------
(* The pages side by side: a page takes its own steps only.                *)
LEMMA PagesRun ==
  FrontendSpec => /\ DofiSpec
                  /\ GosipSpec
                  /\ MonitorInit /\ [][MonitorNext]_monitorVars
<1>1. FrontendInit => DofiInit /\ GosipInit /\ MonitorInit
  BY DEF FrontendInit
<1>2. [FrontendNext]_frontendVars => [DofiNext]_dofiVars /\ [GosipNext]_gosipVars /\ [MonitorNext]_monitorVars
  BY DEF FrontendNext, frontendVars, DofiStep, GosipStep, MonitorStep
<1> QED
  BY <1>1, <1>2, PTL DEF FrontendSpec, DofiSpec, GosipSpec

(* The types of all pages, along the invariants of each.                   *)
THEOREM PanelsType == FrontendSpec => []PanelsTypeOK
<1>1. PageInv /\ GosipInv /\ MonitorInv => PanelsTypeOK
  <2>1. MonitorInv => MonitorTypeOK
    BY DEF MonitorInv, MonitorTypeOK, RequestSet
  <2>2. GosipInv => GosipTypeOK
    BY DEF GosipInv
  <2> QED
    BY <2>1, <2>2, PageInvType DEF PanelsTypeOK
<1>2. FrontendSpec => []PageInv /\ []GosipInv /\ []MonitorInv
  BY PagesRun, InitPageInv, NextPageInv, InitGosipInv, NextGosipInv, InitMonitorInv, NextMonitorInv,
     PTL DEF DofiSpec, GosipSpec
<1> QED
  BY <1>1, <1>2, PTL

(* The trigger label tells the truth once the answer of an undisturbed     *)
(* trigger command is in (gosip.js:443-544, 763-786): while a request is   *)
(* alone nobody changes the label, and its write went to all boards.       *)
THEOREM LabelTrue == FrontendSpec => TriggerLabelTrue
<1> DEFINE Promise == \A r \in sent : r.op = "trigger" /\ r.alone /\ r.whole /\ Answered(r)
                          => \A b \in Boards : boards[b]["trig"] = setup["trig"]
<1>1. GosipInv => Promise
  BY DEF GosipInv, LabelFollows, Answered
<1> HIDE DEF Promise
<1>2. GosipSpec => [][Promise]_gosipVars
  BY <1>1, InitGosipInv, NextGosipInv, PTL DEF GosipSpec
<1> QED
  BY <1>2, PagesRun, PTL DEF TriggerLabelTrue, Promise

(* Exactly one interval runs while a page monitors, none otherwise         *)
(* (mbs.js:237-247, pexor.js:269-283).                                     *)
THEOREM TimerSafe == FrontendSpec => []TimerMatchesMode
<1>1. TimerInv => TimerMatchesMode
  BY DEF TimerInv, TimerMatchesMode
<1> QED
  BY <1>1, PagesRun, TimerInvInit, NextTimerInv, PTL

(* What the page of a DOFI board promises holds in a tab that runs it.     *)
COROLLARY BoardPromises ==
  FrontendSpec => []NoLostWritten /\ UntroubledApplyWritten /\ UndisturbedRefreshShows
BY PagesRun, KnownValuesOnly, UntroubledApply, UndisturbedRefresh, PTL
=============================================================================
