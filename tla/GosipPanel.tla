----------------------------- MODULE GosipPanel -----------------------------
(***************************************************************************)
(* The control page of POLAND boards (plugins/gosip/htm/gosip.js): the     *)
(* settings the page keeps (Setup), the form, the board the next command   *)
(* goes to (fSFP and fDEV, two numbers; both -1 for all boards), and the   *)
(* HTTP requests that carry a list of register writes or reads.  The       *)
(* server is gosip::Player (plugins/gosip/src/Player.cxx), which runs the  *)
(* gosipcmd tool for one register after the other.                         *)
(*                                                                         *)
(* A register group stands for several registers: "trig" is the trigger    *)
(* acceptance, "modes" the trigger modes, "qfw" mode, loops and times of   *)
(* the QFW page, "dac" mode and values of the DAC page, "cal" the start    *)
(* value of its calibration, which a read brings into the settings but not *)
(* into the form.                                                          *)
(***************************************************************************)
EXTENDS Naturals, FiniteSets, Sequences

CONSTANTS
  Boards,       (* the front-ends behind one server                        *)
  Everyone,     (* the broadcast address -1                                *)
  FileRegs,     (* what a configuration file writes                        *)
  Unread,       (* NaN, which the page makes of a register not read        *)
  Slots,        (* bound: requests under way at the same time              *)
  MaxActs       (* bound: what the user does                               *)

Groups == {"trig", "modes", "qfw", "dac", "cal"}
FormGroups == Groups \ {"trig"}
Bit == {0, 1}

(* The order in which the lists of the page name the last register of a    *)
(* group.                                                                  *)
ListOrder == <<"modes", "trig", "qfw", "cal", "dac">>

ASSUME GosipAssumption ==
  /\ Everyone \notin Boards /\ Boards # {} /\ MaxActs \in Nat
  /\ DOMAIN FileRegs \subseteq Groups /\ FileRegs \in [DOMAIN FileRegs -> Bit]
  /\ Unread \notin Bit

VARIABLES
  boards,       (* registers of each board                                 *)
  setup,        (* the PolandSetup object; its "trig" is the trigger label *)
  form,         (* the input elements                                      *)
  chosen,       (* the board selected in the page                          *)
  broadcast,    (* the broadcast checkbox                                  *)
  target,       (* fSFP and fDEV                                           *)
  sent,         (* requests under way; `alone' until another meets it,     *)
                (* `whole' until a register of it fails                    *)
  acts          (* what the user did (for the bound)                       *)

gosipVars == <<boards, setup, form, chosen, broadcast, target, sent, acts>>

Acts == acts < MaxActs /\ acts' = acts + 1
Regs(gs, f) == [g \in gs |-> f[g]]
Put(f, g) == [x \in DOMAIN f |-> IF x \in DOMAIN g THEN g[x] ELSE f[x]]

(* GosipCommand.                                                           *)
FreeSlot(s) == \A r \in sent : r.slot # s
Message(s, op, to, regs, alone) ==
  [slot |-> s, op |-> op, to |-> to, regs |-> regs, done |-> FALSE,
   alone |-> alone, whole |-> TRUE]
Met == {[r EXCEPT !.alone = FALSE] : r \in sent}
GosipCommand(op, to, regs) ==
  \E s \in Slots : FreeSlot(s) /\ sent' = Met \cup {Message(s, op, to, regs, sent = {})}

(* ReadSlave.                                                              *)
ReadSlave == target' = IF broadcast THEN Everyone ELSE chosen

-----------------------------------------------------------------------------
(* The page.                                                               *)

ChooseBoard(b) ==
  /\ Acts /\ ~broadcast /\ chosen # b /\ chosen' = b
  /\ UNCHANGED <<boards, setup, form, broadcast, target, sent>>
ToggleBroadcast ==
  /\ Acts /\ broadcast' = ~broadcast
  /\ UNCHANGED <<boards, setup, form, chosen, target, sent>>

(* The trigger modes cannot be edited for all boards.                      *)
EditForm(g) ==
  /\ Acts /\ ~(broadcast /\ g = "modes")
  /\ \E v \in Bit \ {form[g]} : form' = [form EXCEPT ![g] = v]
  /\ UNCHANGED <<boards, setup, chosen, broadcast, target, sent>>

(* RefreshView: everything but the start value of the calibration.  The    *)
(* modes are check boxes: a bit of NaN is 0.                               *)
ToBit(v) == IF v = Unread THEN 0 ELSE v
RefreshForm(st) ==
  form' = Put(form, [g \in {"modes", "qfw", "dac"} |-> IF g = "modes" THEN ToBit(st[g]) ELSE st[g]])
HexForm ==
  /\ Acts /\ RefreshForm(setup)
  /\ UNCHANGED <<boards, setup, chosen, broadcast, target, sent>>

(* buttonShow, disabled for all boards.                                    *)
Show ==
  /\ Acts /\ ~broadcast /\ ReadSlave
  /\ GosipCommand("read", target', [g \in Groups |-> 0])
  /\ UNCHANGED <<boards, setup, form, chosen, broadcast>>

(* buttonApply evaluates both pages of the form and writes the one in      *)
(* front; trigger modes are written to a single board only, values of the  *)
(* calibration only when the DAC page is in the mode that starts it, which *)
(* is the kind "CAL" here.                                                 *)
WrittenGroups(kind) ==
  CASE kind = "QFW" -> IF target' = Everyone THEN {"qfw"} ELSE {"qfw", "modes"}
    [] kind = "DAC" -> {"dac"}
    [] kind = "CAL" -> {"dac", "cal"}
Apply(kind) ==
  /\ Acts /\ ReadSlave
  /\ setup' = Put(setup, form)
  /\ GosipCommand("write", target', Regs(WrittenGroups(kind), setup'))
  /\ UNCHANGED <<boards, form, chosen, broadcast>>

(* buttonTrigger inverts what the label says (NaN is OFF), for all boards; *)
(* target is set to -1 and put back in between.                            *)
TriggerTargetKept == target
TriggerTarget == Everyone
Trigger ==
  /\ Acts
  /\ setup' = [setup EXCEPT !["trig"] = 1 - ToBit(@)]
  /\ GosipCommand("trigger", TriggerTarget, Regs({"trig"}, setup'))
  /\ UNCHANGED <<boards, form, chosen, broadcast, target>>

(* buttonInitChain, buttonReset and buttonDataDump send commands to the    *)
(* chosen board that concern no setting of the page.                       *)
OtherCommand ==
  /\ Acts /\ ReadSlave
  /\ GosipCommand("other", target', Regs({}, setup))
  /\ UNCHANGED <<boards, setup, form, chosen, broadcast>>

(* buttonScanOffset sends the scan and, without waiting for it, the dump   *)
(* of its results.                                                         *)
ScanOffset ==
  /\ Acts /\ ReadSlave
  /\ \E s, t \in Slots :
       /\ s # t /\ FreeSlot(s) /\ FreeSlot(t)
       /\ sent' = Met \cup {Message(x, "other", target', Regs({}, setup), FALSE) : x \in {s, t}}
  /\ UNCHANGED <<boards, setup, form, chosen, broadcast>>

(* buttonResetPEX does not look which board is chosen.                     *)
ResetPEX ==
  /\ Acts /\ GosipCommand("other", target, Regs({}, setup))
  /\ UNCHANGED <<boards, setup, form, chosen, broadcast, target>>

(* A command that the user does not confirm has set the target all the     *)
(* same.                                                                   *)
Unconfirmed ==
  /\ Acts /\ ReadSlave
  /\ UNCHANGED <<boards, setup, form, chosen, broadcast, sent>>

(* buttonConfigure goes to the board of the command before.                *)
ConfigureBoards ==
  /\ Acts /\ GosipCommand("file", target, FileRegs)
  /\ UNCHANGED <<boards, setup, form, chosen, broadcast, target>>

-----------------------------------------------------------------------------
(* Requests.                                                               *)

(* The Player gives a list up at the first register that fails and answers *)
(* true all the same: what a board has executed is a first part of the     *)
(* list, not the same for every board of a broadcast.  A group counts when *)
(* all of it was executed; NaN is written as 0.                            *)
Parts(gs) == {gs \cap {ListOrder[i] : i \in 1..n} : n \in 0..Len(ListOrder)}
Taken(regs, gs) == [g \in gs |-> ToBit(regs[g])]
BoardsExecute(r) ==
  /\ ~r.done
  /\ \E got \in [{b \in Boards : r.to \in {b, Everyone}} -> Parts(DOMAIN r.regs)] :
       LET whole == \A b \in DOMAIN got : got[b] = DOMAIN r.regs
           regs  == IF r.op = "read"
                      THEN [g \in Groups |-> IF g \in got[r.to] THEN boards[r.to][g] ELSE Unread]
                      ELSE r.regs
       IN  /\ sent' = (sent \ {r}) \cup {[r EXCEPT !.regs = regs, !.done = TRUE, !.whole = whole]}
           /\ boards' = [b \in Boards |-> IF r.op # "read" /\ b \in DOMAIN got
                                             THEN Put(boards[b], Taken(r.regs, got[b]))
                                             ELSE boards[b]]
  /\ UNCHANGED <<setup, form, chosen, broadcast, target, acts>>

GosipReply(r) ==
  /\ r.done /\ sent' = sent \ {r}
  /\ IF r.op = "read" THEN setup' = r.regs /\ RefreshForm(r.regs)
                      ELSE UNCHANGED <<setup, form>>
  /\ UNCHANGED <<boards, chosen, broadcast, target, acts>>

(* A request that fails, executed or not, leaves the settings of the page  *)
(* as they are, also the trigger label that was changed ahead.             *)
GosipFails(r) ==
  /\ sent' = sent \ {r}
  /\ UNCHANGED <<boards, setup, form, chosen, broadcast, target, acts>>

GosipInit ==
  /\ \E b \in Boards : chosen = b
  /\ boards = [b \in Boards |-> [g \in Groups |-> 0]]
  /\ setup = [g \in Groups |-> IF g = "trig" THEN 1 ELSE 0]
  /\ form = [g \in FormGroups |-> 0]
  /\ broadcast = FALSE /\ sent = {} /\ acts = 0
  /\ target = chosen

GosipNext ==
  \/ \E b \in Boards : ChooseBoard(b)
  \/ ToggleBroadcast
  \/ \E g \in FormGroups : EditForm(g)
  \/ HexForm
  \/ Show
  \/ \E kind \in {"QFW", "DAC", "CAL"} : Apply(kind)
  \/ OtherCommand
  \/ ScanOffset
  \/ ResetPEX
  \/ Unconfirmed
  \/ Trigger
  \/ ConfigureBoards
  \/ \E r \in sent : \/ BoardsExecute(r)
                     \/ GosipReply(r)
                     \/ GosipFails(r)

GosipSpec == GosipInit /\ [][GosipNext]_gosipVars

-----------------------------------------------------------------------------
(* What the page promises.                                                 *)

GosipTypeOK ==
  /\ boards \in [Boards -> [Groups -> Bit]]
  /\ setup \in [Groups -> Bit \cup {Unread}] /\ form \in [FormGroups -> Bit \cup {Unread}]
  /\ target \in Boards \cup {Everyone}

Answered(r) == r.done /\ \A x \in sent' : x.slot # r.slot

(* The trigger label tells the truth about every board once the answer of  *)
(* an undisturbed trigger command that no board failed is in: the label    *)
(* changes before anything is sent, the write must reach all boards        *)
(* whichever was chosen, and no read may bring an older acceptance back    *)
(* (gosip.js:443-544, 763-786).                                            *)
TriggerLabelTrue ==
  [][\A r \in sent : r.op = "trigger" /\ r.alone /\ r.whole /\ Answered(r)
        => \A b \in Boards : boards[b]["trig"] = setup["trig"]]_gosipVars
=============================================================================
