----------------------------- MODULE DofiPanel -----------------------------
(***************************************************************************)
(* The control page of a DOFI board (plugins/dofi/htm/dofi.js): the copy   *)
(* of the registers the page keeps (DofiState), the input elements it      *)
(* shows and the list of the ones the user changed (DofiDisplay), and the  *)
(* HTTP requests that read and write the registers.  Requests are sent in  *)
(* parallel: the server may execute and answer them in any order.          *)
(*                                                                         *)
(* An element is a field of a register: a check box, or a number of 24     *)
(* bits that the page shows and reads in units of DOFI_TIME_UNIT.  A write *)
(* carries a whole register, a read a whole bank (input signals, OR        *)
(* matrix, AND matrix).  A request that failed leaves an empty bank:       *)
(* `Lost' stands for a value that is not there.  The server, which the     *)
(* requests reach, is plugins/dofi/src/TerminalModule.cxx.  The scalers,   *)
(* their rates and the monitoring timer are left out.                      *)
(***************************************************************************)
EXTENDS Integers, Sequences, FiniteSets, SequencesExt

CONSTANTS
  Keys,         (* input elements, named like their class: in_invert_3     *)
  Numbers,      (* the delays and lengths among them                       *)
  RegOf,        (* the register an element belongs to                      *)
  BankOf,       (* the bank a register belongs to                          *)
  Tables,       (* the banks, in the order RefreshView fills their tables  *)
  Entries,      (* whole numbers the user types                            *)
  Lost,
  Starts,       (* settings of the board when the page is loaded           *)
  Files,        (* settings that a configuration file lists                *)
  Leftovers,    (* what a failed SPI access may leave in com.value         *)
  Calls,        (* bound: calls that are open at the same time             *)
  MaxInputs     (* bound: what the user does                               *)

(* What a field of a register holds: 24 bits.                              *)
HalfRange == 8388608
FullRange == 2 * HalfRange
Codes == 0..FullRange - 1

ASSUME DofiAssumption ==
  /\ Numbers \subseteq Keys /\ Entries \subseteq Int /\ Lost \notin Int
  /\ Starts \subseteq [Keys -> Codes] /\ Starts # {} /\ Leftovers \subseteq [Keys -> Codes]
  /\ \A f \in Files : \A k \in DOMAIN f : k \in Keys /\ f[k] \in Codes
  /\ Tables \in Seq({BankOf[RegOf[k]] : k \in Keys})
  /\ \A k \in Keys : \E i \in DOMAIN Tables : Tables[i] = BankOf[RegOf[k]]
  /\ Calls \subseteq Nat /\ Calls # {} /\ MaxInputs \in Nat

VARIABLES
  hw,           (* the registers of the board, by element                  *)
  copy,         (* fSignalControl, fOutputORBits, fOutputANDBits           *)
  shown,        (* what stands in the elements; Lost: there is no element  *)
  changes,      (* fChanges                                                *)
  net,          (* the requests under way                                  *)
  calls,        (* the promises that wait for requests; `ok' remembers     *)
                (* whether nothing disturbed the call so far               *)
  inputs        (* what the user did (for the bound)                       *)

pageVars == <<copy, shown, changes>>
dofiVars == <<hw, pageVars, net, calls, inputs>>

BankKey(k) == BankOf[RegOf[k]]
KeysOfReg(r)  == {k \in Keys : RegOf[k] = r}
KeysOfBank(b) == {k \in Keys : BankKey(k) = b}
Part(f, ks) == [k \in ks |-> f[k]]
Over(f, g)  == [k \in Keys |-> IF k \in DOMAIN g THEN g[k] ELSE f[k]]
NoWant == [k \in {} |-> Lost]

Request(c, op, order, val) ==
  [call |-> c, op |-> op, order |-> order, val |-> val, done |-> FALSE]
Reads(c) == {Request(c, "read", i, [k \in KeysOfBank(Tables[i]) |-> Lost]) :
               i \in DOMAIN Tables}

-----------------------------------------------------------------------------
(* Numbers are shown and entered in time units.  The getters take the 24   *)
(* bits as a signed number (BigInt.asIntN); the setters divide towards     *)
(* zero and keep 24 bits.                                                  *)
TimeUnit == 10
Signed(x) == IF x < HalfRange THEN x ELSE x - FullRange
Display(k, x) == IF k \in Numbers THEN TimeUnit * Signed(x) ELSE x

Units(v) == IF v >= 0 THEN v \div TimeUnit ELSE -((-v) \div TimeUnit)
Enter(k, v) == IF k \in Numbers THEN Units(v) % FullRange ELSE v

(* What stands in an element, and what the user may put there.             *)
Values(k) == IF k \in Numbers THEN Int ELSE Codes
Typed(k) == IF k \in Numbers THEN Entries ELSE {0, 1}

-----------------------------------------------------------------------------
(* The page itself.                                                        *)

NoCall == [kind |-> "none", want |-> NoWant, ok |-> FALSE]
Of(c)   == {m \in net : m.call = c}
Open(c) == calls[c].kind # "none" \/ Of(c) # {}
FreeCall(c) == ~Open(c) /\ \A d \in Calls : d < c => Open(d)

(* A call starts: it is undisturbed if it is the only one, and disturbs    *)
(* the others.                                                             *)
StartCall(c, kind, want) ==
  calls' = [d \in Calls |->
    IF d = c THEN [kind |-> kind, want |-> want,
                   ok |-> \A e \in Calls \ {c} : ~Open(e)]
             ELSE [calls[d] EXCEPT !.ok = FALSE]]

UserDoes == inputs < MaxInputs /\ inputs' = inputs + 1

(* RefreshView: each table is emptied and filled row by row from the copy; *)
(* a value that is not there throws, which leaves this table empty and the *)
(* ones behind it as they are.  FillInputsTable, the first, has cleared    *)
(* the changes by then.                                                    *)
BankLost(b, cp) == \E k \in KeysOfBank(b) : cp[k] = Lost
Filled(i, cp) == \A j \in 1..i : ~BankLost(Tables[j], cp)
TableOf(k) == CHOOSE i \in DOMAIN Tables : Tables[i] = BankKey(k)
RefreshView(cp) ==
  /\ shown' = [k \in Keys |->
       CASE Filled(TableOf(k), cp)     -> Display(k, cp[k])
         [] Filled(TableOf(k) - 1, cp) /\ ~Filled(TableOf(k), cp) -> Lost
         [] OTHER                      -> shown[k]]
  /\ changes' = IF Filled(1, cp) THEN <<>> ELSE changes

(* The user changes an element; MarkChanged notes it once.                 *)
EditMarksTwice(k, v) ==
  /\ UserDoes /\ shown[k] # Lost /\ v # shown[k]
  /\ shown' = [shown EXCEPT ![k] = v]
  /\ changes' = Append(changes, k)
  /\ UNCHANGED <<hw, copy, net, calls>>
Edit(k, v) ==
  /\ UserDoes /\ shown[k] # Lost /\ v # shown[k]
  /\ shown' = [shown EXCEPT ![k] = v]
  /\ changes' = IF Contains(changes, k) THEN changes ELSE Append(changes, k)
  /\ UNCHANGED <<hw, copy, net, calls>>

(* Marks up to the first whose bank is lost: there the arithmetic throws.  *)
SettableAll(marks) == DOMAIN marks
Settable(marks) ==
  {i \in DOMAIN marks : \A j \in 1..i : copy[marks[j]] # Lost}

(* The copy after the marks up to the i-th were put into it.               *)
CopyAfter(marks, is) ==
  Over(copy, [k \in {marks[i] : i \in is} |-> Enter(k, shown[k])])

(* The request for mark i carries the whole register as it is by then.     *)
RegisterAtOfOldCopy(marks, i) ==
  Part(CopyAfter(marks, {i}), KeysOfReg(RegOf[marks[i]]))
RegisterAt(marks, i) ==
  Part(CopyAfter(marks, Settable(marks) \cap 1..i), KeysOfReg(RegOf[marks[i]]))
Writes(c, marks) ==
  {Request(c, "write", i, RegisterAt(marks, i)) : i \in Settable(marks)}

(* ApplySetup: EvaluateChanges throws when a marked element is gone;       *)
(* SetRegisters puts the values into the copy one by one and sends each    *)
(* register.  When it throws halfway, nobody waits for what it sent.       *)
ApplySetup(c) ==
  /\ UserDoes /\ FreeCall(c) /\ changes # <<>>
  /\ \A k \in ToSet(changes) : shown[k] # Lost
  /\ copy' = CopyAfter(changes, Settable(changes))
  /\ net' = net \cup Writes(c, changes)
  /\ StartCall(c, IF Settable(changes) = DOMAIN changes THEN "apply" ELSE "none",
               Part(shown, ToSet(changes)))
  /\ UNCHANGED <<hw, shown, changes>>

(* RefreshAll and Dump read everything (Update); Dump shows nothing but a  *)
(* log text.                                                               *)
Update(c, kind) ==
  /\ UserDoes /\ FreeCall(c)
  /\ net' = net \cup Reads(c)
  /\ StartCall(c, kind, NoWant)
  /\ UNCHANGED <<hw, pageVars>>
RefreshAll(c) == Update(c, "refresh")
Dump(c) == Update(c, "none")

(* The number format of the scalers changes: the view is filled at once.   *)
HexMode ==
  /\ UserDoes /\ RefreshView(copy)
  /\ UNCHANGED <<hw, copy, net, calls>>

(* ResetDofi opens the SPI device again, Configure loads a file: the page  *)
(* does not look at what they change.                                      *)
Command(c, setting) ==
  /\ UserDoes /\ FreeCall(c)
  /\ net' = net \cup {Request(c, "command", 1, setting)}
  /\ StartCall(c, "none", NoWant)
  /\ UNCHANGED <<hw, pageVars>>
ResetDofi(c) == Command(c, NoWant)
Configure(c) == \E f \in Files : Command(c, f)

-----------------------------------------------------------------------------
(* The requests.                                                           *)

Disturbed(c) == [calls EXCEPT ![c].ok = FALSE]
Ended(c, cs) == [cs EXCEPT ![c].kind = "none", ![c].want = NoWant]

(* A write that overtakes an earlier one of the same register will be      *)
(* undone by it.                                                           *)
Overtakes(m) == \E n \in Of(m.call) :
  m.op = "write" /\ ~n.done /\ n.order < m.order /\ DOMAIN n.val = DOMAIN m.val

(* The server executes a request, register by register.  Where the SPI     *)
(* access fails (bad), a read answers what an earlier one has left in      *)
(* com.value, and nothing is written; a configuration file is left there.  *)
(* The answer counts its results as ever, and the page looks no further.   *)
Execute(m) ==
  /\ ~m.done
  /\ \E bad \in SUBSET {RegOf[k] : k \in DOMAIN m.val} :
       LET fine == {k \in DOMAIN m.val : RegOf[k] \notin bad}
       IN  /\ IF m.op = "read"
                THEN \E left \in Leftovers :
                       /\ net' = (net \ {m}) \cup
                            {[m EXCEPT !.val = Part(Over(left, Part(hw, fine)), DOMAIN m.val), !.done = TRUE]}
                       /\ UNCHANGED hw
                ELSE /\ net' = (net \ {m}) \cup {[m EXCEPT !.done = TRUE]}
                     /\ hw' = Over(hw, Part(m.val, fine))
           /\ calls' = IF Overtakes(m) \/ bad # {} THEN Disturbed(m.call) ELSE calls
  /\ UNCHANGED <<pageVars, inputs>>

(* The last answer to SetRegisters: "Setup has been applied".              *)
Completes(c, cs) ==
  IF cs[c].kind = "apply" /\ Cardinality(Of(c)) = 1
    THEN calls' = Ended(c, cs) /\ changes' = <<>>
    ELSE calls' = cs /\ UNCHANGED changes

(* An answer arrives.                                                      *)
Reply(m) ==
  /\ m.done
  /\ net' = net \ {m}
  /\ copy' = IF m.op = "read" THEN Over(copy, m.val) ELSE copy
  /\ Completes(m.call, calls)
  /\ UNCHANGED <<hw, shown, inputs>>

(* A request fails, before or after the server has executed it, or the     *)
(* SPI device is not open: DofiCommand goes on with no results.            *)
Fail(m) ==
  /\ net' = net \ {m}
  /\ copy' = IF m.op = "read" THEN Over(copy, [k \in DOMAIN m.val |-> Lost]) ELSE copy
  /\ Completes(m.call, Disturbed(m.call))
  /\ UNCHANGED <<hw, shown, inputs>>

RefreshedEarly(c) ==
  /\ calls[c].kind = "refresh"
  /\ RefreshView(copy)
  /\ calls' = Ended(c, calls)
  /\ UNCHANGED <<hw, copy, net, inputs>>
(* RefreshAll goes on when everything was answered; the two reads of       *)
(* scalers, which are left out here, may be the last.                      *)
Refreshed(c) ==
  /\ calls[c].kind = "refresh" /\ Of(c) = {}
  /\ RefreshView(copy)
  /\ calls' = Ended(c, calls)
  /\ UNCHANGED <<hw, copy, net, inputs>>

(* The page is loaded: RefreshAll was called, and then RefreshView.        *)
First == CHOOSE c \in Calls : \A d \in Calls : c <= d
DofiInit ==
  /\ hw \in Starts
  /\ copy = [k \in Keys |-> 0] /\ shown = copy /\ changes = <<>>
  /\ net = Reads(First)
  /\ calls = [c \in Calls |-> IF c = First
                THEN [kind |-> "refresh", want |-> NoWant, ok |-> TRUE] ELSE NoCall]
  /\ inputs = 0

DofiNext ==
  \/ \E k \in Keys : \E v \in Typed(k) : Edit(k, v)
  \/ \E c \in Calls : \/ ApplySetup(c)
                      \/ RefreshAll(c)
                      \/ Dump(c)
                      \/ ResetDofi(c)
                      \/ Configure(c)
                      \/ Refreshed(c)
  \/ HexMode
  \/ \E m \in net : \/ Execute(m)
                    \/ Reply(m)
                    \/ Fail(m)

DofiSpec == DofiInit /\ [][DofiNext]_dofiVars

-----------------------------------------------------------------------------
(* What the page promises.                                                 *)

DofiTypeOK ==
  /\ hw \in [Keys -> Codes] /\ DOMAIN copy = Keys /\ DOMAIN shown = Keys
  /\ \A k \in Keys : copy[k] \in Codes \/ copy[k] = Lost
  /\ \A k \in Keys : shown[k] \in Values(k) \/ shown[k] = Lost
  /\ ToSet(changes) \subseteq Keys /\ Len(changes) = Cardinality(ToSet(changes))
  /\ \A m \in net : m.call \in Calls
  /\ \A c \in Calls : calls[c].kind \in {"none", "refresh", "apply"}

(* A value the page does not know is never sent to the board or written:   *)
(* after a failed request, SetRegisters throws before it sends the         *)
(* register (the arithmetic on an empty array at dofi.js:75-108), whatever *)
(* was edited, and whatever reads and writes are under way.                *)
NoLostWritten ==
  /\ \A m \in net : m.op = "write" => \A k \in DOMAIN m.val : m.val[k] # Lost
  /\ \A k \in Keys : hw[k] # Lost

(* The registers hold what the user had set, if it was within the limits   *)
(* of the input elements (min and max at dofi.js:1091-1092).               *)
Permitted(k, v) == k \in Numbers => v \in 0..TimeUnit * (FullRange - 1)
Applied(c) == calls[c].kind = "apply" /\ calls'[c].kind = "none"
Written(c) == \A k \in DOMAIN calls[c].want :
  Permitted(k, calls[c].want[k]) =>
    hw[k] = IF k \in Numbers THEN calls[c].want[k] \div TimeUnit ELSE calls[c].want[k]

(* "Setup has been applied" is true of an ApplySetup that nothing          *)
(* disturbed: with no other call open, no request failed, at the board or  *)
(* on its way, and no write overtaken, the board holds every value the     *)
(* user had set, in time units, also when several of them share a register *)
(* (dofi.js:111-145, 449-590, 770-793).                                    *)
UntroubledApplyWritten ==
  [][\A c \in Calls : Applied(c) /\ calls'[c].ok => Written(c)]_dofiVars

(* The text the page logs at dofi.js:781, taken at its word.               *)
AppliedMeansWritten == [][\A c \in Calls : Applied(c) => Written(c)]_dofiVars

RefreshedAlone(c) == calls[c].kind = "refresh" /\ calls'[c].kind = "none" /\ calls[c].ok

(* A refresh that nothing disturbed leaves every element, of every bank,   *)
(* with a value that stands for its register: applied again as it is, it   *)
(* would write what the board holds.  Below 0x800000 that value is the     *)
(* time itself.  From there on the getters of dofi.js:122-157 show a       *)
(* negative one, although the comment at dofi.js:33-34 and the limits at   *)
(* dofi.js:1091-1092 say that delays and lengths are 0 to 16777215.        *)
UndisturbedRefreshShows ==
  [][\A c \in Calls : RefreshedAlone(c) => \A k \in Keys :
       /\ Enter(k, shown'[k]) = hw[k]
       /\ k \in Numbers /\ hw[k] < HalfRange => shown'[k] = TimeUnit * hw[k]]_dofiVars
=============================================================================
