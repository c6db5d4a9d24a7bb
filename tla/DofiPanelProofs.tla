-------------------------- MODULE DofiPanelProofs --------------------------
(***************************************************************************)
(* Proofs about the page of a DOFI board, for any registers, banks and     *)
(* calls: a value that the page does not know never reaches the board, an  *)
(* apply that nothing disturbed is written, and a refresh that nothing     *)
(* disturbed shows values that stand for the registers of the board.       *)
(***************************************************************************)
EXTENDS DofiPanel, SequenceLemmas

(* A request is what Request makes; writes and commands carry known values,*)
(* and a read carries a whole bank, of known values once it was executed.  *)
GoodRequest(m) ==
  /\ DOMAIN m = {"call", "op", "order", "val", "done"}
  /\ m.op \in {"read", "write", "command"} /\ m.done \in BOOLEAN
  /\ m.op # "read" => \A k \in DOMAIN m.val : m.val[k] # Lost
  /\ m.op = "read" => \E b : DOMAIN m.val = KeysOfBank(b)
  /\ m.op = "read" /\ m.done => \A k \in DOMAIN m.val : m.val[k] # Lost

(* Why NoLostWritten holds: a bank is known as a whole or lost as a whole, *)
(* so that the fields that a register write takes along from the copy are  *)
(* known when the marked one is.                                           *)
BanksWhole(cp) ==
  \A k, l \in Keys : BankKey(k) = BankKey(l) => (cp[k] = Lost <=> cp[l] = Lost)
DofiInv ==
  /\ \A k \in Keys : hw[k] # Lost
  /\ BanksWhole(copy)
  /\ changes \in Seq(Keys)
  /\ \A m \in net : GoodRequest(m)

(* The types that needs: a value entered is a number.                      *)
Wants   == UNION {[ks -> Int \cup {Lost}] : ks \in SUBSET Keys}
CallSet == [kind : {"none", "refresh", "apply"}, want : Wants, ok : BOOLEAN]
Known   == Codes \cup {Lost}
PageTypes ==
  /\ hw \in [Keys -> Codes] /\ copy \in [Keys -> Known]
  /\ DOMAIN shown = Keys /\ \A k \in Keys : shown[k] \in Values(k) \/ shown[k] = Lost
  /\ calls \in [Calls -> CallSet]
  /\ IsFiniteSet(ToSet(changes)) /\ Len(changes) = Cardinality(ToSet(changes))
RequestTyped(m) ==
  /\ m.call \in Calls
  /\ \A k \in DOMAIN m.val : k \in Keys /\ m.val[k] \in Known
  /\ m.op = "write" => m.order \in Nat /\ \E k \in Keys : DOMAIN m.val = KeysOfReg(RegOf[k])

-----------------------------------------------------------------------------
(* A field of a register is a number; what stands in an element is one     *)
(* too, and is entered as a field.                                         *)
LEMMA RangeOfField == HalfRange \in Nat /\ HalfRange > 0 /\ FullRange \in Nat /\ FullRange = HalfRange + HalfRange
BY SMT DEF HalfRange, FullRange

LEMMA CodesKnown == Codes \subseteq Int /\ Lost \notin Codes /\ Lost \notin Int
<1>1. Codes \subseteq Int
  BY RangeOfField DEF Codes
<1> QED
  BY <1>1, DofiAssumption DEF DofiAssumption

LEMMA EnterTyped ==
  ASSUME NEW k, NEW v \in Values(k)
  PROVE  Enter(k, v) \in Codes /\ v \in Int
<1>1. CASE k \in Numbers
  <2>1. v \in Int
    BY <1>1 DEF Values
  <2>2. Units(v) \in Int
    BY <2>1 DEF Units, TimeUnit
  <2>3. Units(v) % FullRange \in 0..FullRange - 1
    BY <2>2, RangeOfField
  <2> QED
    BY <1>1, <2>1, <2>3 DEF Enter, Codes
<1>2. CASE k \notin Numbers
  BY <1>2, CodesKnown DEF Enter, Values
<1> QED
  BY <1>1, <1>2

LEMMA DisplayTyped ==
  ASSUME NEW k, NEW x \in Codes
  PROVE  Display(k, x) \in Values(k)
BY CodesKnown, RangeOfField DEF Display, Values, Signed, TimeUnit

(* What is shown of a field stands for it.                                 *)
LEMMA DisplayedField ==
  ASSUME NEW k, NEW x \in Codes
  PROVE  /\ Enter(k, Display(k, x)) = x
         /\ k \in Numbers /\ x < HalfRange => Display(k, x) = TimeUnit * x
<1>1. CASE k \notin Numbers
  BY <1>1 DEF Enter, Display
<1>2. CASE k \in Numbers
  <2>1. x \in Int /\ 0 <= x /\ x < FullRange
    BY RangeOfField DEF Codes
  <2>2. PICK n \in Int : n = Signed(x) /\ (x < HalfRange => n = x) /\ (x >= HalfRange => n = x - FullRange)
    BY <2>1, RangeOfField DEF Signed
  <2>3. Units(10 * n) = n
    <3>1. CASE n >= 0
      BY <3>1 DEF Units, TimeUnit
    <3>2. CASE n < 0
      <4>1. PICK p \in Nat : n = -p
        BY <3>2
      <4>2. ~(10 * n >= 0) /\ -(10 * n) = 10 * p /\ (10 * p) \div 10 = p
        BY <3>2, <4>1
      <4> QED
        BY <4>1, <4>2 DEF Units, TimeUnit
    <3> QED
      BY <3>1, <3>2
  <2>4. n % FullRange = x
    BY <2>1, <2>2, SMT DEF FullRange, HalfRange
  <2>5. Display(k, x) = 10 * n
    BY <1>2, <2>2 DEF Display, TimeUnit
  <2>6. Enter(k, Display(k, x)) = x
    BY <1>2, <2>3, <2>4, <2>5 DEF Enter
  <2>7. x < HalfRange => Display(k, x) = TimeUnit * x
    BY <2>2, <2>5 DEF TimeUnit
  <2> QED
    BY <2>6, <2>7
<1> QED
  BY <1>1, <1>2

(* A number within the limits of its element is entered in time units.     *)
LEMMA PermittedEntry ==
  ASSUME NEW k, NEW v, Permitted(k, v)
  PROVE  Enter(k, v) = IF k \in Numbers THEN v \div TimeUnit ELSE v
<1>1. CASE k \notin Numbers
  BY <1>1 DEF Enter
<1>2. CASE k \in Numbers
  <2>1. v \in Nat /\ v <= 10 * (FullRange - 1)
    BY <1>2, RangeOfField DEF Permitted, TimeUnit
  <2>2. v \div 10 \in Nat /\ (v \div 10) % FullRange = v \div 10
    BY <2>1, SMT DEF FullRange, HalfRange
  <2>3. Units(v) = v \div 10
    BY <2>1 DEF Units, TimeUnit
  <2> QED
    BY <1>2, <2>2, <2>3 DEF Enter, TimeUnit
<1> QED
  BY <1>1, <1>2

-----------------------------------------------------------------------------
(* Over takes a key from the second function if it is there.               *)
LEMMA OverAt ==
  ASSUME NEW f, NEW g, NEW k \in Keys
  PROVE  Over(f, g)[k] = IF k \in DOMAIN g THEN g[k] ELSE f[k]
  BY DEF Over

(* An answer to a read, or its failure, replaces a whole bank of the copy. *)
LEMMA WholeBankOver ==
  ASSUME NEW f, NEW g, NEW b, BanksWhole(f), DOMAIN g = KeysOfBank(b),
         (\A k \in DOMAIN g : g[k] = Lost) \/ (\A k \in DOMAIN g : g[k] # Lost)
  PROVE  BanksWhole(Over(f, g))
<1> SUFFICES ASSUME NEW k \in Keys, NEW l \in Keys, BankKey(k) = BankKey(l)
             PROVE  Over(f, g)[k] = Lost <=> Over(f, g)[l] = Lost
  BY DEF BanksWhole
<1>1. k \in DOMAIN g <=> l \in DOMAIN g
  BY DEF KeysOfBank
<1>2. CASE k \in DOMAIN g
  BY <1>1, <1>2, OverAt
<1>3. CASE k \notin DOMAIN g
  BY <1>1, <1>3, OverAt DEF BanksWhole
<1> QED
  BY <1>2, <1>3

(* Putting known values over known ones loses and finds nothing.           *)
LEMMA CopyAfterKeepsBanks ==
  ASSUME DofiInv, PageTypes, NEW is \in SUBSET Settable(changes),
         \A i \in DOMAIN changes : shown[changes[i]] # Lost
  PROVE  \A k \in Keys : CopyAfter(changes, is)[k] = Lost <=> copy[k] = Lost
<1> DEFINE g == [k \in {changes[i] : i \in is} |-> Enter(k, shown[k])]
<1> TAKE k \in Keys
<1>1. CopyAfter(changes, is)[k] = IF k \in DOMAIN g THEN g[k] ELSE copy[k]
  BY OverAt DEF CopyAfter
<1>2. CASE k \in DOMAIN g
  <2>1. PICK i \in is : k = changes[i]
    BY <1>2
  <2>2. i \in DOMAIN changes /\ i \in 1..i /\ copy[changes[i]] # Lost
    BY DEF Settable, DofiInv
  <2>3. g[k] = Enter(k, shown[k]) /\ shown[k] \in Values(k)
    BY <1>2, <2>1, <2>2 DEF PageTypes
  <2>4. g[k] # Lost
    BY <2>3, EnterTyped, CodesKnown
  <2> QED
    BY <1>1, <1>2, <2>1, <2>2, <2>4
<1>3. CASE k \notin DOMAIN g
  BY <1>1, <1>3
<1> QED
  BY <1>2, <1>3

(* The requests of SetRegisters carry known values only.                   *)
LEMMA WritesAreGood ==
  ASSUME DofiInv, PageTypes, NEW c, \A i \in DOMAIN changes : shown[changes[i]] # Lost,
         NEW m \in Writes(c, changes)
  PROVE  GoodRequest(m)
<1>1. PICK i \in Settable(changes) : m = Request(c, "write", i, RegisterAt(changes, i))
  BY DEF Writes
<1> DEFINE is == Settable(changes) \cap 1..i
           ks == KeysOfReg(RegOf[changes[i]])
<1>2. i \in DOMAIN changes /\ changes[i] \in Keys /\ copy[changes[i]] # Lost
  <2>1. i \in DOMAIN changes /\ i \in 1..i
    BY DEF Settable, DofiInv
  <2> QED
    BY <2>1 DEF Settable, DofiInv
<1>3. m.val = [k \in ks |-> CopyAfter(changes, is)[k]]
  BY <1>1 DEF Request, RegisterAt, Part
<1>4. ASSUME NEW k \in ks PROVE m.val[k] # Lost
  <2>1. k \in Keys /\ BankKey(k) = BankKey(changes[i])
    BY DEF KeysOfReg, BankKey
  <2>2. copy[k] # Lost
    BY <1>2, <2>1 DEF DofiInv, BanksWhole
  <2>3. CopyAfter(changes, is)[k] # Lost
    BY <2>1, <2>2, CopyAfterKeepsBanks
  <2> QED
    BY <1>3, <2>3
<1>5. m.op = "write" /\ m.done = FALSE /\ DOMAIN m.val = ks
  BY <1>1, <1>3 DEF Request
<1> QED
  BY <1>1, <1>4, <1>5 DEF GoodRequest, Request

(* So are reads, which carry nothing yet, and commands.                    *)
LEMMA ReadsAreGood ==
  ASSUME NEW c, NEW m \in Reads(c)
  PROVE  GoodRequest(m)
<1>1. PICK i \in DOMAIN Tables :
        m = Request(c, "read", i, [k \in KeysOfBank(Tables[i]) |-> Lost])
  BY DEF Reads
<1>2. m.op = "read" /\ m.done = FALSE /\ DOMAIN m.val = KeysOfBank(Tables[i])
  BY <1>1 DEF Request
<1> QED
  BY <1>1, <1>2 DEF GoodRequest, Request

LEMMA CommandsAreGood ==
  ASSUME NEW c, NEW setting, \A k \in DOMAIN setting : setting[k] # Lost
  PROVE  GoodRequest(Request(c, "command", 1, setting))
<1> DEFINE m == Request(c, "command", 1, setting)
<1>1. m.op = "command" /\ m.done = FALSE /\ m.val = setting
  BY DEF Request
<1>2. \A k \in DOMAIN m.val : m.val[k] # Lost
  BY <1>1
<1> HIDE DEF m
<1>3. DOMAIN m = {"call", "op", "order", "val", "done"}
  BY DEF m, Request
<1>4. GoodRequest(m)
  BY <1>1, <1>2, <1>3 DEF GoodRequest
<1> QED
  BY <1>4 DEF m

-----------------------------------------------------------------------------
LEMMA DofiInvInit == DofiInit => DofiInv
<1> SUFFICES ASSUME DofiInit PROVE DofiInv
  OBVIOUS
<1>1. \A k \in Keys : hw[k] # Lost
  BY DofiAssumption, CodesKnown DEF DofiAssumption, DofiInit
<1>2. BanksWhole(copy)
  BY DEF BanksWhole, DofiInit
<1>3. changes \in Seq(Keys)
  BY DEF DofiInit
<1>4. \A m \in net : GoodRequest(m)
  BY ReadsAreGood DEF DofiInit
<1> QED
  BY <1>1, <1>2, <1>3, <1>4 DEF DofiInv

(* The actions of the user that send requests.                             *)
LEMMA ApplyKeepsDofiInv ==
  ASSUME DofiInv, PageTypes, NEW c \in Calls, ApplySetup(c)
  PROVE  DofiInv'
<1>1. \A i \in DOMAIN changes : shown[changes[i]] # Lost
  BY DEF ApplySetup, ToSet
<1>2. \A k \in Keys : copy'[k] = Lost <=> copy[k] = Lost
  BY <1>1, CopyAfterKeepsBanks DEF ApplySetup
<1>3. BanksWhole(copy')
  BY <1>2 DEF DofiInv, BanksWhole
<1>4. \A m \in net' : GoodRequest(m)
  BY <1>1, WritesAreGood DEF ApplySetup, DofiInv
<1>5. hw' = hw /\ changes' = changes
  BY DEF ApplySetup
<1> QED
  BY <1>3, <1>4, <1>5 DEF DofiInv

LEMMA UpdateKeepsDofiInv ==
  ASSUME DofiInv, NEW c \in Calls, RefreshAll(c) \/ Dump(c)
  PROVE  DofiInv'
<1>1. hw' = hw /\ copy' = copy /\ changes' = changes /\ net' = net \cup Reads(c)
  BY DEF RefreshAll, Dump, Update, pageVars
<1>2. \A m \in net' : GoodRequest(m)
  BY <1>1, ReadsAreGood DEF DofiInv
<1> QED
  BY <1>1, <1>2 DEF DofiInv

(* What a command sets: a configuration file, or nothing.                  *)
LEMMA CommandSets ==
  ASSUME NEW c, ResetDofi(c) \/ Configure(c)
  PROVE  \E setting : /\ Command(c, setting)
                      /\ \A k \in DOMAIN setting : k \in Keys /\ setting[k] \in Codes
<1>1. CASE ResetDofi(c)
  <2>1. DOMAIN NoWant = {}
    BY DEF NoWant
  <2> QED
    BY <1>1, <2>1 DEF ResetDofi
<1>2. CASE Configure(c)
  BY <1>2, DofiAssumption DEF DofiAssumption, Configure
<1> QED
  BY <1>1, <1>2

LEMMA CommandKeepsDofiInv ==
  ASSUME DofiInv, NEW c \in Calls, ResetDofi(c) \/ Configure(c)
  PROVE  DofiInv'
<1>1. PICK setting : /\ Command(c, setting)
                     /\ \A k \in DOMAIN setting : k \in Keys /\ setting[k] \in Codes
  BY CommandSets
<1>2. /\ hw' = hw /\ copy' = copy /\ changes' = changes
      /\ net' = net \cup {Request(c, "command", 1, setting)}
  BY <1>1 DEF Command, pageVars
<1>3. \A m \in net' : GoodRequest(m)
  BY <1>1, <1>2, CommandsAreGood, CodesKnown DEF DofiInv
<1> QED
  BY <1>2, <1>3 DEF DofiInv

(* Editing, and filling the view, touch the marks at most.                 *)
LEMMA ViewKeepsDofiInv ==
  ASSUME DofiInv,
         \/ \E k \in Keys : \E v \in Typed(k) : Edit(k, v)
         \/ HexMode
         \/ \E c \in Calls : Refreshed(c)
  PROVE  DofiInv'
<1>1. hw' = hw /\ copy' = copy /\ net' = net
  BY DEF Edit, HexMode, Refreshed
<1>2. changes' \in Seq(Keys)
  <2>1. CASE \E k \in Keys : \E v \in Typed(k) : Edit(k, v)
    BY <2>1 DEF Edit, DofiInv
  <2>2. CASE HexMode \/ \E c \in Calls : Refreshed(c)
    <3>1. RefreshView(copy)
      BY <2>2 DEF HexMode, Refreshed
    <3>2. changes' = IF Filled(1, copy) THEN <<>> ELSE changes
      BY <3>1 DEF RefreshView
    <3> QED
      BY <3>2 DEF DofiInv
  <2> QED
    BY <2>1, <2>2
<1> QED
  BY <1>1, <1>2 DEF DofiInv

-----------------------------------------------------------------------------
(* An answer arrives, or a request fails.                                  *)
LEMMA AnswerKeepsDofiInv ==
  ASSUME DofiInv, NEW m \in net, Reply(m) \/ Fail(m)
  PROVE  DofiInv'
<1>1. hw' = hw /\ net' = net \ {m}
  BY DEF Reply, Fail
<1>2. changes' \in Seq(Keys)
  <2>1. \E cs : Completes(m.call, cs)
    BY DEF Reply, Fail
  <2>2. changes' = <<>> \/ changes' = changes
    BY <2>1 DEF Completes
  <2>3. <<>> \in Seq(Keys) /\ changes \in Seq(Keys)
    BY DEF DofiInv
  <2> QED
    BY <2>2, <2>3
<1>3. GoodRequest(m)
  BY DEF DofiInv
<1>4. BanksWhole(copy')
  <2>1. CASE m.op = "read"
    <3>1. PICK b : DOMAIN m.val = KeysOfBank(b)
      BY <1>3, <2>1 DEF GoodRequest
    <3>2. CASE Reply(m)
      <4>1. copy' = Over(copy, m.val) /\ \A k \in DOMAIN m.val : m.val[k] # Lost
        BY <1>3, <2>1, <3>2 DEF Reply, GoodRequest
      <4> QED
        BY <3>1, <4>1, WholeBankOver DEF DofiInv
    <3>3. CASE Fail(m)
      <4> DEFINE lost == [k \in DOMAIN m.val |-> Lost]
      <4>1. copy' = Over(copy, lost)
        BY <2>1, <3>3 DEF Fail
      <4>2. DOMAIN lost = KeysOfBank(b) /\ \A k \in DOMAIN lost : lost[k] = Lost
        BY <3>1
      <4> HIDE DEF lost
      <4> QED
        BY <4>1, <4>2, WholeBankOver DEF DofiInv
    <3> QED
      BY <3>2, <3>3
  <2>2. CASE m.op # "read"
    BY <2>2 DEF Reply, Fail, DofiInv
  <2> QED
    BY <2>1, <2>2
<1> QED
  BY <1>1, <1>4, <1>2 DEF DofiInv

-----------------------------------------------------------------------------
(* What an undisturbed call has done so far.                               *)
(* Nothing disturbed a call that is open while all others are closed.      *)
OpenAlone == \A c \in Calls : calls[c].ok /\ Open(c) => \A e \in Calls \ {c} : ~Open(e)

(* A bank is read again or shows the board, and so does every answer.      *)
RefreshRight(c) ==
  calls[c].kind = "refresh" /\ calls[c].ok =>
    /\ \A m \in net : m.op = "read" /\ (m.done => \A k \in DOMAIN m.val : m.val[k] = hw[k])
    /\ \A k \in Keys : copy[k] = hw[k] \/ \E m \in net : DOMAIN m.val = KeysOfBank(BankKey(k))

(* The value set for an element is in its register and nothing will write  *)
(* it again, or it is in the last write of the register under way.         *)
Pending(k) == {m \in net : ~m.done /\ k \in DOMAIN m.val}
Settled(c, k) ==
  \/ hw[k] = Enter(k, calls[c].want[k]) /\ Pending(k) = {}
  \/ \E m \in Pending(k) : m.val[k] = Enter(k, calls[c].want[k]) /\ \A n \in Pending(k) : n.order <= m.order
ApplyRight(c) ==
  calls[c].kind = "apply" /\ calls[c].ok =>
    /\ IsFiniteSet(net) /\ \A m \in net : m.op = "write"
    /\ \A m, n \in net : m.order = n.order => m = n
    /\ \A k \in DOMAIN calls[c].want : Settled(c, k)

PageInv ==
  /\ DofiInv /\ PageTypes /\ (\A m \in net : RequestTyped(m)) /\ OpenAlone
  /\ \A c \in Calls : RefreshRight(c) /\ ApplyRight(c)

(* All that is under way while a call is undisturbed belongs to it.        *)
LEMMA NetIsOwn ==
  ASSUME PageInv, NEW c \in Calls, calls[c].ok, Open(c)
  PROVE  /\ \A m \in net : m.call = c
         /\ Of(c) = net
<1>1. \A m \in net : m.call \in Calls /\ m \in Of(m.call)
  BY DEF PageInv, RequestTyped, Of
<1>2. \A m \in net : Open(m.call)
  BY <1>1 DEF Open
<1>3. \A m \in net : m.call = c
  BY <1>1, <1>2 DEF PageInv, OpenAlone
<1> QED
  BY <1>3 DEF Of

LEMMA NothingUnderWay ==
  ASSUME PageInv, \A e \in Calls : ~Open(e)
  PROVE  net = {}
BY DEF PageInv, RequestTyped, Open, Of

(* A call starts.                                                          *)
LEMMA Started ==
  ASSUME PageInv, NEW c \in Calls, ~Open(c), NEW kind \in {"none", "refresh", "apply"},
         NEW want \in Wants, StartCall(c, kind, want), NEW new, net' = net \cup new,
         \A m \in new : RequestTyped(m) /\ m.call = c
  PROVE  /\ calls' \in [Calls -> CallSet] /\ OpenAlone' /\ (\A m \in net' : RequestTyped(m))
         /\ calls'[c].kind = kind /\ calls'[c].want = want
         /\ calls'[c].ok => net = {} /\ net' = new
         /\ \A d \in Calls : d # c => ~calls'[d].ok
<1>1. calls \in [Calls -> CallSet]
  BY DEF PageInv, PageTypes
<1> DEFINE n == [kind |-> kind, want |-> want, ok |-> \A e \in Calls \ {c} : ~Open(e)]
<1>2. n \in CallSet
  BY DEF CallSet
<1>3. \A d \in Calls : [calls[d] EXCEPT !.ok = FALSE] \in CallSet
  BY <1>1 DEF CallSet
<1>4. calls' = [d \in Calls |-> IF d = c THEN n ELSE [calls[d] EXCEPT !.ok = FALSE]]
  BY DEF StartCall
<1>5. calls' \in [Calls -> CallSet]
  BY <1>2, <1>3, <1>4
<1>6. /\ calls'[c].kind = kind /\ calls'[c].want = want
      /\ calls'[c].ok = \A e \in Calls \ {c} : ~Open(e)
  BY <1>4
<1>7. ASSUME NEW d \in Calls, d # c PROVE ~calls'[d].ok /\ calls'[d].kind = calls[d].kind
  BY <1>1, <1>4, <1>7 DEF CallSet
<1>8. calls'[c].ok => net = {} /\ net' = new
  BY <1>6, NothingUnderWay
<1>9. \A d \in Calls : d # c => Of(d)' = Of(d)
  BY DEF Of
<1>10. \A d \in Calls : d # c => Open(d)' = Open(d)
  BY <1>7, <1>9 DEF Open
<1>11. OpenAlone'
  BY <1>6, <1>7, <1>10 DEF OpenAlone
<1> QED
  BY <1>5, <1>6, <1>7, <1>8, <1>11 DEF PageInv, RequestTyped

LEMMA ReadsOfAll ==
  ASSUME NEW c \in Calls
  PROVE  /\ \A m \in Reads(c) : RequestTyped(m) /\ m.call = c /\ m.op = "read" /\ m.done = FALSE
         /\ \A k \in Keys : \E m \in Reads(c) : DOMAIN m.val = KeysOfBank(BankKey(k))
<1>1. ASSUME NEW i \in DOMAIN Tables
      PROVE  LET m == Request(c, "read", i, [k \in KeysOfBank(Tables[i]) |-> Lost])
             IN  /\ RequestTyped(m) /\ m.call = c /\ m.op = "read" /\ m.done = FALSE
                 /\ DOMAIN m.val = KeysOfBank(Tables[i])
  BY DEF Request, RequestTyped, Known, KeysOfBank
<1>2. \A k \in Keys : \E i \in DOMAIN Tables : Tables[i] = BankKey(k)
  BY DofiAssumption DEF BankKey
<1> QED
  BY <1>1, <1>2 DEF Reads

LEMMA WantsNothing == NoWant \in Wants
<1>1. {} \in SUBSET Keys /\ NoWant \in [{} -> Int \cup {Lost}]
  BY DEF NoWant
<1> QED
  BY <1>1 DEF Wants

LEMMA UpdateKeepsPageInv ==
  ASSUME PageInv, NEW c \in Calls, RefreshAll(c) \/ Dump(c)
  PROVE  PageInv'
<1>1. PICK kind \in {"refresh", "none"} : Update(c, kind)
  BY DEF RefreshAll, Dump
<1>2. /\ ~Open(c) /\ net' = net \cup Reads(c) /\ StartCall(c, kind, NoWant)
      /\ hw' = hw /\ copy' = copy /\ shown' = shown /\ changes' = changes
  BY <1>1 DEF Update, FreeCall, pageVars
<1>3. NoWant \in Wants
  BY WantsNothing
<1>4. \A m \in Reads(c) : RequestTyped(m) /\ m.call = c
  BY ReadsOfAll
<1>5. /\ calls' \in [Calls -> CallSet] /\ OpenAlone' /\ (\A m \in net' : RequestTyped(m))
      /\ calls'[c].kind = kind
      /\ calls'[c].ok => net' = Reads(c)
      /\ \A d \in Calls : d # c => ~calls'[d].ok
  BY <1>2, <1>3, <1>4, Started
<1>6. DofiInv'
  BY UpdateKeepsDofiInv DEF PageInv
<1>7. PageTypes'
  BY <1>2, <1>5 DEF PageInv, PageTypes
<1>8. \A d \in Calls : ApplyRight(d)'
  BY <1>5 DEF ApplyRight
<1>9. ASSUME calls'[c].ok PROVE RefreshRight(c)'
  <2>1. net' = Reads(c) /\ \A m \in Reads(c) : m.op = "read" /\ ~m.done
    BY <1>5, <1>9, ReadsOfAll
  <2>2. \A k \in Keys : \E m \in net' : DOMAIN m.val = KeysOfBank(BankKey(k))
    BY <2>1, ReadsOfAll
  <2> QED
    BY <2>1, <2>2 DEF RefreshRight
<1>10. \A d \in Calls : RefreshRight(d)'
  BY <1>5, <1>9 DEF RefreshRight
<1> QED
  BY <1>5, <1>6, <1>7, <1>8, <1>10 DEF PageInv, RequestTyped

LEMMA CommandKeepsPageInv ==
  ASSUME PageInv, NEW c \in Calls, ResetDofi(c) \/ Configure(c)
  PROVE  PageInv'
<1>1. PICK setting : /\ Command(c, setting)
                     /\ \A k \in DOMAIN setting : k \in Keys /\ setting[k] \in Codes
  BY CommandSets
<1> DEFINE new == {Request(c, "command", 1, setting)}
<1>2. /\ ~Open(c) /\ net' = net \cup new /\ StartCall(c, "none", NoWant)
      /\ hw' = hw /\ copy' = copy /\ shown' = shown /\ changes' = changes
  BY <1>1 DEF Command, FreeCall, pageVars
<1>3. NoWant \in Wants
  BY WantsNothing
<1>4. \A m \in new : RequestTyped(m) /\ m.call = c
  BY <1>1 DEF Request, RequestTyped, Known
<1> HIDE DEF new
<1>5. /\ calls' \in [Calls -> CallSet] /\ OpenAlone' /\ (\A m \in net' : RequestTyped(m))
      /\ calls'[c].kind = "none" /\ \A d \in Calls : d # c => ~calls'[d].ok
  BY <1>2, <1>3, <1>4, Started
<1>6. DofiInv'
  BY CommandKeepsDofiInv DEF PageInv
<1>7. PageTypes'
  BY <1>2, <1>5 DEF PageInv, PageTypes
<1>8. \A d \in Calls : ApplyRight(d)' /\ RefreshRight(d)'
  BY <1>5 DEF ApplyRight, RefreshRight
<1> QED
  BY <1>5, <1>6, <1>7, <1>8 DEF PageInv, RequestTyped

(* The register that mark i sends.                                         *)
LEMMA RegisterSent ==
  ASSUME PageTypes, changes \in Seq(Keys),
         NEW is \in SUBSET DOMAIN changes, \A i \in is : shown[changes[i]] # Lost, NEW ks \in SUBSET Keys
  PROVE  /\ CopyAfter(changes, is) \in [Keys -> Known]
         /\ Part(CopyAfter(changes, is), ks) \in [ks -> Known]
         /\ \A k \in ks : k \in {changes[i] : i \in is} =>
              Part(CopyAfter(changes, is), ks)[k] = Enter(k, shown[k])
<1> DEFINE g == [k \in {changes[i] : i \in is} |-> Enter(k, shown[k])]
<1>1. {changes[i] : i \in is} \subseteq Keys
  OBVIOUS
<1>2. \A k \in DOMAIN g : g[k] = Enter(k, shown[k]) /\ g[k] \in Known
  <2> SUFFICES ASSUME NEW k \in DOMAIN g PROVE g[k] = Enter(k, shown[k]) /\ g[k] \in Known
    OBVIOUS
  <2>1. g[k] = Enter(k, shown[k]) /\ shown[k] \in Values(k)
    BY <1>1 DEF PageTypes
  <2> QED
    BY <2>1, EnterTyped DEF Known
<1>3. CopyAfter(changes, is) = [k \in Keys |-> IF k \in DOMAIN g THEN g[k] ELSE copy[k]]
  BY DEF CopyAfter, Over
<1> HIDE DEF g
<1>4. CopyAfter(changes, is) \in [Keys -> Known]
  BY <1>2, <1>3 DEF PageTypes
<1>5. Part(CopyAfter(changes, is), ks) \in [ks -> Known]
  BY <1>4 DEF Part
<1>6. \A k \in ks : k \in {changes[i] : i \in is} => CopyAfter(changes, is)[k] = Enter(k, shown[k])
  BY <1>1, <1>2, <1>3 DEF g
<1> QED
  BY <1>4, <1>5, <1>6 DEF Part

(* The requests of an apply: one per mark, each with its register.         *)
LEMMA WritesOfMarks ==
  ASSUME PageTypes, NEW c \in Calls, changes \in Seq(Keys),
         \A i \in DOMAIN changes : shown[changes[i]] # Lost
  PROVE  /\ \A m \in Writes(c, changes) : RequestTyped(m) /\ m.call = c /\ m.op = "write" /\ ~m.done
         /\ \A m \in Writes(c, changes) : m.order \in Settable(changes)
              /\ m = Request(c, "write", m.order, RegisterAt(changes, m.order))
         /\ \A i \in Settable(changes) :
              LET m == Request(c, "write", i, RegisterAt(changes, i))
              IN  /\ m \in Writes(c, changes) /\ m.order = i
                  /\ DOMAIN m.val = KeysOfReg(RegOf[changes[i]])
                  /\ \A k \in DOMAIN m.val :
                       k \in {changes[j] : j \in Settable(changes) \cap 1..i} =>
                         m.val[k] = Enter(k, shown[k])
<1>1. Settable(changes) \subseteq DOMAIN changes /\ DOMAIN changes \subseteq Nat
  BY DEF Settable
<1>2. ASSUME NEW i \in Settable(changes)
      PROVE  LET m == Request(c, "write", i, RegisterAt(changes, i))
             IN  /\ m \in Writes(c, changes) /\ m.order = i /\ RequestTyped(m)
                 /\ m.call = c /\ m.op = "write" /\ ~m.done
                 /\ DOMAIN m.val = KeysOfReg(RegOf[changes[i]])
                 /\ \A k \in DOMAIN m.val :
                      k \in {changes[j] : j \in Settable(changes) \cap 1..i} =>
                         m.val[k] = Enter(k, shown[k])
  <2> DEFINE is == Settable(changes) \cap 1..i
             ks == KeysOfReg(RegOf[changes[i]])
  <2>1. is \in SUBSET DOMAIN changes /\ ks \in SUBSET Keys /\ changes[i] \in Keys
    BY <1>1 DEF KeysOfReg
  <2>2. PICK v \in [ks -> Known] :
          /\ v = RegisterAt(changes, i)
          /\ \A k \in ks : k \in {changes[j] : j \in is} => v[k] = Enter(k, shown[k])
    BY <2>1, RegisterSent DEF RegisterAt
  <2>3. PICK m : m = Request(c, "write", i, v)
    OBVIOUS
  <2>4. /\ m.order = i /\ m.call = c /\ m.op = "write" /\ m.done = FALSE /\ m.val = v
        /\ m \in Writes(c, changes)
    BY <2>2, <2>3 DEF Request, Writes
  <2>5. RequestTyped(m)
    BY <1>1, <2>1, <2>4 DEF RequestTyped
  <2> QED
    BY <2>2, <2>3, <2>4, <2>5
<1>3. \A m \in Writes(c, changes) : \E i \in Settable(changes) :
        m = Request(c, "write", i, RegisterAt(changes, i))
  BY DEF Writes
<1> QED
  BY <1>2, <1>3

LEMMA WritesFinite ==
  ASSUME NEW c, changes \in Seq(Keys)
  PROVE  IsFiniteSet(Writes(c, changes))
<1> DEFINE f == [i \in Settable(changes) |-> Request(c, "write", i, RegisterAt(changes, i))]
<1>1. f \in Surjection(Settable(changes), Writes(c, changes))
  BY DEF Surjection, Writes
<1> HIDE DEF f
<1>2. IsFiniteSet(1..Len(changes)) /\ Settable(changes) \in SUBSET (1..Len(changes))
  BY FS_Interval DEF Settable
<1>3. IsFiniteSet(Settable(changes))
  BY <1>2, FS_Subset
<1> QED
  BY <1>1, <1>3, FS_Surjection

(* The last mark of a register.                                            *)
LEMMA LastMark ==
  ASSUME changes \in Seq(Keys), NEW k \in ToSet(changes)
  PROVE  \E i \in DOMAIN changes :
           /\ RegOf[changes[i]] = RegOf[k]
           /\ \A j \in DOMAIN changes : RegOf[changes[j]] = RegOf[k] => j <= i
<1> DEFINE T == {i \in DOMAIN changes : RegOf[changes[i]] = RegOf[k]}
<1>1. PICK n \in Nat : n = Len(changes) /\ DOMAIN changes = 1..n
  OBVIOUS
<1> DEFINE B == {n - i : i \in T}
<1>2. B \in SUBSET Nat
  BY <1>1
<1>3. B # {}
  BY DEF ToSet
<1>4. PICK b \in B : \A d \in B : b <= d
  BY <1>2, <1>3, LeastNumber
<1>5. PICK i \in T : b = n - i
  OBVIOUS
<1>6. ASSUME NEW j \in T PROVE j <= i
  <2>1. n - j \in B
    OBVIOUS
  <2>2. n - i <= n - j
    BY <1>4, <1>5, <2>1
  <2> QED
    BY <1>1, <2>2
<1> QED
  BY <1>5, <1>6

(* What is set last in a register carries all that is set in it.           *)
LEMMA WritesSettle ==
  ASSUME PageTypes, NEW c \in Calls, changes \in Seq(Keys), Settable(changes) = DOMAIN changes,
         \A i \in DOMAIN changes : shown[changes[i]] # Lost, NEW k \in ToSet(changes)
  PROVE  \E m \in Writes(c, changes) :
           /\ ~m.done /\ k \in DOMAIN m.val /\ m.val[k] = Enter(k, shown[k])
           /\ \A n \in Writes(c, changes) : k \in DOMAIN n.val => n.order <= m.order
<1>1. PICK i \in DOMAIN changes :
        /\ RegOf[changes[i]] = RegOf[k]
        /\ \A j \in DOMAIN changes : RegOf[changes[j]] = RegOf[k] => j <= i
  BY LastMark
<1>2. PICK m \in Writes(c, changes) :
        /\ m.order = i /\ DOMAIN m.val = KeysOfReg(RegOf[changes[i]])
        /\ \A x \in DOMAIN m.val :
             x \in {changes[j] : j \in Settable(changes) \cap 1..i} => m.val[x] = Enter(x, shown[x])
  BY WritesOfMarks
<1>3. k \in Keys /\ k \in DOMAIN m.val
  BY <1>1, <1>2 DEF KeysOfReg, ToSet
<1>4. PICK j \in DOMAIN changes : changes[j] = k
  BY DEF ToSet
<1>5. j \in Settable(changes) \cap 1..i
  BY <1>1, <1>4
<1>6. m.val[k] = Enter(k, shown[k])
  BY <1>2, <1>3, <1>4, <1>5
<1>7. ASSUME NEW n \in Writes(c, changes), k \in DOMAIN n.val PROVE n.order <= m.order
  <2>1. n.order \in DOMAIN changes /\ DOMAIN n.val = KeysOfReg(RegOf[changes[n.order]])
    BY WritesOfMarks
  <2>2. RegOf[changes[n.order]] = RegOf[k]
    BY <1>7, <2>1 DEF KeysOfReg
  <2> QED
    BY <1>1, <1>2, <2>1, <2>2
<1>8. ~m.done
  BY WritesOfMarks
<1> QED
  BY <1>3, <1>6, <1>7, <1>8

LEMMA ApplyKeepsPageInv ==
  ASSUME PageInv, NEW c \in Calls, ApplySetup(c)
  PROVE  PageInv'
<1> DEFINE new == Writes(c, changes)
           want == Part(shown, ToSet(changes))
<1>1. PICK kind \in {"apply", "none"} :
        /\ StartCall(c, kind, want)
        /\ kind = "apply" => Settable(changes) = DOMAIN changes
  BY DEF ApplySetup
<1>2. /\ ~Open(c) /\ net' = net \cup new /\ copy' = CopyAfter(changes, Settable(changes))
      /\ hw' = hw /\ shown' = shown /\ changes' = changes
  BY DEF ApplySetup, FreeCall
<1>3. /\ changes \in Seq(Keys) /\ PageTypes
      /\ \A i \in DOMAIN changes : shown[changes[i]] # Lost
  BY DEF PageInv, DofiInv, ApplySetup, ToSet
<1>4. want \in Wants /\ DOMAIN want = ToSet(changes) /\ \A k \in ToSet(changes) : want[k] = shown[k]
  <2>1. ToSet(changes) \in SUBSET Keys
    BY <1>3 DEF ToSet
  <2>2. want \in [ToSet(changes) -> Int \cup {Lost}]
    <3>1. \A k \in ToSet(changes) : shown[k] \in Int \cup {Lost}
      BY <1>3, <2>1, EnterTyped DEF PageTypes
    <3> QED
      BY <3>1 DEF Part
  <2>3. want \in Wants
    BY <2>1, <2>2 DEF Wants
  <2> QED
    BY <2>3 DEF Part
<1>5. \A m \in new : RequestTyped(m) /\ m.call = c
  BY <1>3, WritesOfMarks
<1> HIDE DEF new, want
<1>6. /\ calls' \in [Calls -> CallSet] /\ OpenAlone' /\ (\A m \in net' : RequestTyped(m))
      /\ calls'[c].kind = kind /\ calls'[c].want = want
      /\ calls'[c].ok => net' = new
      /\ \A d \in Calls : d # c => ~calls'[d].ok
  BY <1>1, <1>2, <1>4, <1>5, Started
<1>7. DofiInv'
  BY ApplyKeepsDofiInv DEF PageInv
<1>8. CopyAfter(changes, Settable(changes)) \in [Keys -> Known]
  <2>1. /\ Settable(changes) \in SUBSET DOMAIN changes /\ Keys \in SUBSET Keys
        /\ \A i \in Settable(changes) : shown[changes[i]] # Lost
    BY <1>3 DEF Settable
  <2> QED
    BY <1>3, <2>1, RegisterSent
<1>9. PageTypes'
  BY <1>2, <1>3, <1>6, <1>8 DEF PageTypes
<1>10. \A d \in Calls : RefreshRight(d)'
  BY <1>6 DEF RefreshRight
<1>11. ASSUME calls'[c].ok, kind = "apply" PROVE ApplyRight(c)'
  <2>1. net' = Writes(c, changes) /\ Settable(changes) = DOMAIN changes
    BY <1>1, <1>6, <1>11 DEF new
  <2>2. IsFiniteSet(net') /\ \A m \in net' : m.op = "write"
    BY <1>3, <2>1, WritesFinite, WritesOfMarks
  <2>3. \A m, n \in net' : m.order = n.order => m = n
    <3> SUFFICES ASSUME NEW m \in net', NEW n \in net', m.order = n.order PROVE m = n
      OBVIOUS
    <3>1. /\ m = Request(c, "write", m.order, RegisterAt(changes, m.order))
          /\ n = Request(c, "write", n.order, RegisterAt(changes, n.order))
      BY <1>3, <2>1, WritesOfMarks
    <3> QED
      BY <3>1
  <2>4. ASSUME NEW k \in DOMAIN want PROVE Settled(c, k)'
    <3>1. k \in ToSet(changes) /\ want[k] = shown[k]
      BY <1>4, <2>4
    <3>2. PICK m \in net' :
            /\ ~m.done /\ k \in DOMAIN m.val /\ m.val[k] = Enter(k, shown[k])
            /\ \A n \in net' : k \in DOMAIN n.val => n.order <= m.order
      BY <1>3, <2>1, <3>1, WritesSettle
    <3>3. m \in Pending(k)' /\ \A n \in Pending(k)' : n.order <= m.order
      BY <3>2 DEF Pending
    <3> QED
      BY <1>6, <3>1, <3>2, <3>3 DEF Settled
  <2> QED
    BY <1>6, <2>2, <2>3, <2>4 DEF ApplyRight
<1>12. \A d \in Calls : ApplyRight(d)'
  BY <1>6, <1>11 DEF ApplyRight
<1> QED
  BY <1>6, <1>7, <1>9, <1>10, <1>12 DEF PageInv, RequestTyped

-----------------------------------------------------------------------------
(* Steps that open no call.                                                *)
LEMMA StillAlone ==
  ASSUME OpenAlone,
         \A c \in Calls : (calls'[c].ok => calls[c].ok) /\ (Open(c)' => Open(c))
  PROVE  OpenAlone'
BY DEF OpenAlone

LEMMA EndedCall ==
  ASSUME NEW c \in Calls, NEW cs \in [Calls -> CallSet]
  PROVE  /\ Ended(c, cs) \in [Calls -> CallSet]
         /\ Ended(c, cs)[c].kind = "none" /\ Ended(c, cs)[c].ok = cs[c].ok
         /\ \A d \in Calls : d # c => Ended(c, cs)[d] = cs[d]
<1>1. PICK n : n = [cs[c] EXCEPT !.kind = "none", !.want = NoWant]
  OBVIOUS
<1>2. n \in CallSet /\ n.kind = "none" /\ n.ok = cs[c].ok
  BY <1>1, WantsNothing DEF CallSet
<1>3. Ended(c, cs) = [cs EXCEPT ![c] = n]
  BY <1>1 DEF Ended
<1> QED
  BY <1>2, <1>3

(* A table that was filled shows known values.                             *)
LEMMA FilledBank ==
  ASSUME NEW k \in Keys, NEW cp, Filled(TableOf(k), cp)
  PROVE  cp[k] # Lost
<1>1. TableOf(k) \in DOMAIN Tables /\ Tables[TableOf(k)] = BankKey(k)
  BY DofiAssumption DEF DofiAssumption, TableOf, BankKey
<1>2. TableOf(k) \in 1..TableOf(k)
  <2>1. Tables \in Seq({BankOf[RegOf[l]] : l \in Keys})
    BY DofiAssumption DEF DofiAssumption
  <2> QED
    BY <1>1, <2>1
<1>3. ~BankLost(BankKey(k), cp)
  BY <1>1, <1>2 DEF Filled
<1> QED
  BY <1>3 DEF BankLost, KeysOfBank

LEMMA ViewTyped ==
  ASSUME PageTypes, RefreshView(copy)
  PROVE  /\ DOMAIN shown' = Keys /\ \A k \in Keys : shown'[k] \in Values(k) \/ shown'[k] = Lost
         /\ IsFiniteSet(ToSet(changes')) /\ Len(changes') = Cardinality(ToSet(changes'))
<1>1. DOMAIN shown' = Keys /\ \A k \in Keys : shown'[k] \in Values(k) \/ shown'[k] = Lost
  <2>1. DOMAIN shown' = Keys
    BY DEF RefreshView
  <2>2. ASSUME NEW k \in Keys PROVE shown'[k] \in Values(k) \/ shown'[k] = Lost
    <3>1. \/ Filled(TableOf(k), copy) /\ shown'[k] = Display(k, copy[k])
          \/ shown'[k] = Lost
          \/ shown'[k] = shown[k]
      BY DEF RefreshView
    <3>2. Filled(TableOf(k), copy) => copy[k] \in Codes
      BY FilledBank DEF PageTypes, Known
    <3> QED
      BY <3>1, <3>2, DisplayTyped DEF PageTypes
  <2> QED
    BY <2>1, <2>2
<1>2. changes' = <<>> \/ changes' = changes
  BY DEF RefreshView
<1>3. ToSet(<<>>) = {} /\ Len(<<>>) = 0
  BY DEF ToSet
<1>4. CASE changes' = <<>>
  <2>1. ToSet(changes') = {} /\ Len(changes') = 0
    BY <1>3, <1>4
  <2> QED
    BY <1>1, <2>1, FS_EmptySet
<1> QED
  BY <1>1, <1>2, <1>4 DEF PageTypes

LEMMA EditTyped ==
  ASSUME PageTypes, changes \in Seq(Keys), NEW k \in Keys, NEW v \in Typed(k), Edit(k, v)
  PROVE  PageTypes'
<1>1. /\ DOMAIN shown' = Keys /\ \A l \in Keys : shown'[l] \in Values(l) \/ shown'[l] = Lost
      /\ hw' = hw /\ copy' = copy /\ calls' = calls
  <2>1. v \in Values(k)
    <3>1. 0 \in Codes /\ 1 \in Codes
      BY RangeOfField DEF Codes
    <3>2. CASE k \in Numbers
      BY <3>2, DofiAssumption DEF DofiAssumption, Typed, Values
    <3>3. CASE k \notin Numbers
      BY <3>1, <3>3 DEF Typed, Values
    <3> QED
      BY <3>2, <3>3
  <2> QED
    BY <2>1 DEF Edit, PageTypes
<1>2. IsFiniteSet(ToSet(changes')) /\ Len(changes') = Cardinality(ToSet(changes'))
  <2>1. CASE Contains(changes, k)
    BY <2>1 DEF Edit, PageTypes
  <2>2. CASE ~Contains(changes, k)
    <3>1. changes' = Append(changes, k) /\ k \notin ToSet(changes)
      BY <2>2 DEF Edit, Contains, ToSet
    <3>2. ToSet(changes') = ToSet(changes) \cup {k} /\ Len(changes') = Len(changes) + 1
      BY <3>1, AppendMembers
    <3> QED
      BY <3>1, <3>2, FS_AddElement DEF PageTypes
  <2> QED
    BY <2>1, <2>2
<1> QED
  BY <1>1, <1>2 DEF PageTypes

LEMMA ViewKeepsPageInv ==
  ASSUME PageInv,
         \/ \E k \in Keys : \E v \in Typed(k) : Edit(k, v)
         \/ HexMode
         \/ \E c \in Calls : Refreshed(c)
  PROVE  PageInv'
<1>1. hw' = hw /\ copy' = copy /\ net' = net
  BY DEF Edit, HexMode, Refreshed
<1>2. DofiInv'
  BY ViewKeepsDofiInv DEF PageInv
<1>3. PageTypes /\ changes \in Seq(Keys) /\ calls \in [Calls -> CallSet] /\ OpenAlone
  BY DEF PageInv, PageTypes, DofiInv
<1>4. /\ calls' \in [Calls -> CallSet]
      /\ \A c \in Calls : calls'[c] = calls[c] \/ (calls'[c].kind = "none" /\ calls'[c].ok = calls[c].ok)
  <2>1. CASE \E c \in Calls : Refreshed(c)
    <3>1. PICK c \in Calls : calls' = Ended(c, calls)
      BY <2>1 DEF Refreshed
    <3> QED
      BY <1>3, <3>1, EndedCall
  <2>2. CASE ~\E c \in Calls : Refreshed(c)
    <3>1. calls' = calls
      BY <2>2 DEF Edit, HexMode
    <3> QED
      BY <1>3, <3>1
  <2> QED
    BY <2>1, <2>2
<1>5. PageTypes'
  <2>1. CASE \E k \in Keys : \E v \in Typed(k) : Edit(k, v)
    BY <1>3, <2>1, EditTyped
  <2>2. CASE HexMode \/ \E c \in Calls : Refreshed(c)
    <3>1. RefreshView(copy)
      BY <2>2 DEF HexMode, Refreshed
    <3>2. /\ DOMAIN shown' = Keys /\ \A k \in Keys : shown'[k] \in Values(k) \/ shown'[k] = Lost
          /\ IsFiniteSet(ToSet(changes')) /\ Len(changes') = Cardinality(ToSet(changes'))
      BY <1>3, <3>1, ViewTyped
    <3> QED
      BY <1>1, <1>3, <1>4, <3>2 DEF PageTypes
  <2> QED
    BY <2>1, <2>2
<1>6. OpenAlone'
  <2>1. \A c \in Calls : (calls'[c].ok => calls[c].ok) /\ (Open(c)' => Open(c))
    BY <1>1, <1>4 DEF Open, Of
  <2> QED
    BY <1>3, <2>1, StillAlone
<1>7. ASSUME NEW c \in Calls PROVE RefreshRight(c)' /\ ApplyRight(c)'
  <2>1. CASE calls'[c] = calls[c]
    <3>1. RefreshRight(c)'
      BY <1>1, <2>1 DEF PageInv, RefreshRight
    <3>2. \A k : Settled(c, k) => Settled(c, k)'
      BY <1>1, <2>1 DEF Settled, Pending
    <3>3. ApplyRight(c)'
      BY <1>1, <2>1, <3>2 DEF PageInv, ApplyRight
    <3> QED
      BY <3>1, <3>3
  <2>2. CASE calls'[c].kind = "none"
    BY <2>2 DEF RefreshRight, ApplyRight
  <2> QED
    BY <1>4, <2>1, <2>2
<1>8. \A m \in net' : RequestTyped(m)
  BY <1>1 DEF PageInv
<1> QED
  BY <1>2, <1>5, <1>6, <1>7, <1>8 DEF PageInv, RequestTyped

-----------------------------------------------------------------------------
(* The server executes a request, undisturbed or not.                      *)
LEMMA DisturbedCall ==
  ASSUME NEW c \in Calls, calls \in [Calls -> CallSet]
  PROVE  /\ Disturbed(c) \in [Calls -> CallSet] /\ ~Disturbed(c)[c].ok
         /\ \A d \in Calls : /\ Disturbed(c)[d].kind = calls[d].kind
                             /\ Disturbed(c)[d].want = calls[d].want
                             /\ d # c => Disturbed(c)[d] = calls[d]
<1>1. PICK n : n = [calls[c] EXCEPT !.ok = FALSE]
  OBVIOUS
<1>2. /\ n \in CallSet /\ ~n.ok
      /\ n.kind = calls[c].kind /\ n.want = calls[c].want
  BY <1>1 DEF CallSet
<1>3. Disturbed(c) = [calls EXCEPT ![c] = n]
  BY <1>1 DEF Disturbed
<1> QED
  BY <1>2, <1>3

(* The answer to a read, and the board after a write.                      *)
LEMMA BankAnswered ==
  ASSUME NEW f \in [Keys -> Codes], NEW g \in [Keys -> Codes],
         NEW ks \in SUBSET Keys, NEW fine \in SUBSET ks
  PROVE  /\ Part(Over(f, Part(g, fine)), ks) \in [ks -> Codes]
         /\ \A k \in fine : Part(Over(f, Part(g, fine)), ks)[k] = g[k]
<1>1. PICK h : h = Part(g, fine)
  OBVIOUS
<1>2. DOMAIN h = fine /\ \A k \in fine : h[k] = g[k]
  BY <1>1 DEF Part
<1>3. \A k \in Keys : Over(f, h)[k] \in Codes
  BY <1>2, OverAt
<1>4. \A k \in fine : Over(f, h)[k] = g[k]
  BY <1>2, OverAt
<1> QED
  BY <1>1, <1>3, <1>4 DEF Part

LEMMA BoardWritten ==
  ASSUME NEW f \in [Keys -> Codes], NEW val, NEW fine \in SUBSET DOMAIN val,
         \A k \in DOMAIN val : k \in Keys /\ val[k] \in Codes
  PROVE  /\ Over(f, Part(val, fine)) \in [Keys -> Codes]
         /\ fine = DOMAIN val => Over(f, Part(val, fine)) = Over(f, val)
<1>1. PICK h : h = Part(val, fine)
  OBVIOUS
<1>2. DOMAIN h = fine /\ \A k \in fine : h[k] = val[k]
  BY <1>1 DEF Part
<1>3. Over(f, h) = [k \in Keys |-> IF k \in DOMAIN h THEN h[k] ELSE f[k]]
  BY DEF Over
<1>4. Over(f, h) \in [Keys -> Codes]
  BY <1>2, <1>3
<1>5. fine = DOMAIN val => Over(f, h) = Over(f, val)
  BY <1>2 DEF Over
<1> QED
  BY <1>1, <1>4, <1>5

(* The request is answered with known values; if its call is still         *)
(* undisturbed, no register failed.                                        *)
ExecutedAs(m, n) ==
  /\ net' = (net \ {m}) \cup {n}
  /\ n.call = m.call /\ n.op = m.op /\ n.order = m.order /\ n.done = TRUE
  /\ DOMAIN n.val = DOMAIN m.val /\ RequestTyped(n) /\ GoodRequest(n)
  /\ hw' \in [Keys -> Codes]
  /\ m.op = "read" => hw' = hw
  /\ calls'[m.call].ok =>
       /\ ~Overtakes(m)
       /\ m.op = "read" => \A k \in DOMAIN m.val : n.val[k] = hw[k]
       /\ m.op # "read" => hw' = Over(hw, m.val)

LEMMA ExecutedRequest ==
  ASSUME PageInv, NEW m \in net, Execute(m)
  PROVE  \E n : ExecutedAs(m, n)
<1>1. /\ DOMAIN m = {"call", "op", "order", "val", "done"} /\ m.op \in {"read", "write", "command"}
      /\ RequestTyped(m) /\ GoodRequest(m)
      /\ hw \in [Keys -> Codes] /\ calls \in [Calls -> CallSet]
      /\ m.call \in Calls /\ DOMAIN m.val \in SUBSET Keys
  BY DEF PageInv, DofiInv, GoodRequest, PageTypes, RequestTyped
<1>2. PICK bad, fine :
        /\ fine = {k \in DOMAIN m.val : RegOf[k] \notin bad}
        /\ IF m.op = "read"
             THEN \E left \in Leftovers :
                    /\ net' = (net \ {m}) \cup
                         {[m EXCEPT !.val = Part(Over(left, Part(hw, fine)), DOMAIN m.val), !.done = TRUE]}
                    /\ UNCHANGED hw
             ELSE /\ net' = (net \ {m}) \cup {[m EXCEPT !.done = TRUE]}
                  /\ hw' = Over(hw, Part(m.val, fine))
        /\ calls' = IF Overtakes(m) \/ bad # {} THEN Disturbed(m.call) ELSE calls
  BY Zenon DEF Execute
<1>3. fine \in SUBSET DOMAIN m.val /\ (calls'[m.call].ok => ~Overtakes(m) /\ fine = DOMAIN m.val)
  <2>1. (Overtakes(m) \/ bad # {}) => calls' = Disturbed(m.call)
    BY <1>2
  <2>2. fine = {k \in DOMAIN m.val : RegOf[k] \notin bad}
    BY <1>2
  <2> QED
    BY <1>1, <2>1, <2>2, DisturbedCall
<1>4. CASE m.op = "read"
  <2>1. PICK left \in Leftovers :
          /\ net' = (net \ {m}) \cup
               {[m EXCEPT !.val = Part(Over(left, Part(hw, fine)), DOMAIN m.val), !.done = TRUE]}
          /\ hw' = hw
    BY <1>2, <1>4
  <2>2. left \in [Keys -> Codes]
    BY DofiAssumption DEF DofiAssumption
  <2>3. PICK v \in [DOMAIN m.val -> Codes] :
          /\ v = Part(Over(left, Part(hw, fine)), DOMAIN m.val)
          /\ \A k \in fine : v[k] = hw[k]
    BY <1>1, <1>3, <2>2, BankAnswered
  <2>4. PICK n : n = [m EXCEPT !.val = v, !.done = TRUE]
    OBVIOUS
  <2>5. net' = (net \ {m}) \cup {n}
    BY <2>1, <2>3, <2>4
  <2>6. /\ n.call = m.call /\ n.op = m.op /\ n.order = m.order
        /\ n.val = v /\ n.done = TRUE /\ DOMAIN n = DOMAIN m
    BY <1>1, <2>4
  <2>7. \A k \in DOMAIN v : v[k] \in Known /\ v[k] # Lost
    BY CodesKnown DEF Known
  <2>8. RequestTyped(n)
    BY <1>1, <1>4, <2>6, <2>7 DEF RequestTyped
  <2>9. GoodRequest(n)
    BY <1>1, <1>4, <2>6, <2>7 DEF GoodRequest
  <2>10. calls'[m.call].ok => \A k \in DOMAIN m.val : n.val[k] = hw[k]
    BY <1>3, <2>3, <2>6
  <2>11. DOMAIN n.val = DOMAIN m.val
    BY <2>6
  <2> QED
    BY <1>1, <1>3, <1>4, <2>1, <2>5, <2>6, <2>8, <2>9, <2>10, <2>11 DEF ExecutedAs
<1>5. CASE m.op # "read"
  <2>1. PICK n : n = [m EXCEPT !.done = TRUE]
    OBVIOUS
  <2>2. hw' = Over(hw, Part(m.val, fine)) /\ net' = (net \ {m}) \cup {n}
    BY <1>2, <1>5, <2>1
  <2>3. /\ n.call = m.call /\ n.op = m.op /\ n.order = m.order
        /\ n.val = m.val /\ n.done = TRUE /\ DOMAIN n = DOMAIN m
    BY <1>1, <2>1
  <2>4. \A k \in DOMAIN m.val : k \in Keys /\ m.val[k] \in Codes
    BY <1>1, <1>5 DEF RequestTyped, GoodRequest, Known
  <2>5. /\ hw' \in [Keys -> Codes]
        /\ fine = DOMAIN m.val => hw' = Over(hw, m.val)
    BY <1>1, <1>3, <2>2, <2>4, BoardWritten
  <2>6. RequestTyped(n)
    BY <1>1, <2>3 DEF RequestTyped
  <2>7. GoodRequest(n)
    BY <1>1, <1>5, <2>3 DEF GoodRequest
  <2> QED
    BY <1>3, <1>5, <2>2, <2>3, <2>5, <2>6, <2>7 DEF ExecutedAs
<1> QED
  BY <1>4, <1>5

LEMMA ExecuteKeepsDofiInv ==
  ASSUME PageInv, NEW m \in net, Execute(m)
  PROVE  DofiInv'
<1>1. PICK n : ExecutedAs(m, n)
  BY ExecutedRequest
<1>2. copy' = copy /\ changes' = changes
  BY DEF Execute, pageVars
<1>3. \A k \in Keys : hw'[k] # Lost
  BY <1>1, CodesKnown DEF ExecutedAs
<1>4. \A p \in net' : GoodRequest(p)
  BY <1>1 DEF ExecutedAs, PageInv, DofiInv
<1> QED
  BY <1>2, <1>3, <1>4 DEF PageInv, DofiInv

LEMMA ExecutedCalls ==
  ASSUME PageInv, NEW m \in net, Execute(m)
  PROVE  /\ calls' \in [Calls -> CallSet]
         /\ \A c \in Calls : /\ calls'[c].kind = calls[c].kind /\ calls'[c].want = calls[c].want
                             /\ calls'[c].ok => calls[c].ok
<1>1. calls \in [Calls -> CallSet] /\ m.call \in Calls
  BY DEF PageInv, PageTypes, RequestTyped
<1>2. calls' = Disturbed(m.call) \/ calls' = calls
  BY DEF Execute
<1>3. CASE calls' = Disturbed(m.call)
  BY <1>1, <1>3, DisturbedCall
<1> QED
  BY <1>1, <1>2, <1>3

(* A refresh: the answer shows the board.                                  *)
LEMMA ExecuteKeepsRefresh ==
  ASSUME PageInv, NEW m \in net, Execute(m), NEW c \in Calls
  PROVE  RefreshRight(c)'
<1> SUFFICES ASSUME calls'[c].kind = "refresh", calls'[c].ok
             PROVE  /\ \A p \in net' : p.op = "read" /\ (p.done => \A k \in DOMAIN p.val : p.val[k] = hw'[k])
                    /\ \A k \in Keys : copy'[k] = hw'[k] \/ \E p \in net' : DOMAIN p.val = KeysOfBank(BankKey(k))
  BY DEF RefreshRight
<1>1. calls[c].kind = "refresh" /\ calls[c].ok
  BY ExecutedCalls
<1>2. /\ \A p \in net : p.op = "read" /\ (p.done => \A k \in DOMAIN p.val : p.val[k] = hw[k])
      /\ \A k \in Keys : copy[k] = hw[k] \/ \E p \in net : DOMAIN p.val = KeysOfBank(BankKey(k))
  BY <1>1 DEF PageInv, RefreshRight
<1>3. PICK n : ExecutedAs(m, n)
  BY ExecutedRequest
<1>4. hw' = hw /\ copy' = copy /\ n.op = "read" /\ \A k \in DOMAIN n.val : n.val[k] = hw[k]
  <2>1. m.call = c
    BY <1>1, NetIsOwn DEF Open
  <2> QED
    BY <1>2, <1>3, <2>1 DEF Execute, pageVars, ExecutedAs
<1>5. \A p \in net : \E q \in net' : DOMAIN q.val = DOMAIN p.val
  BY <1>3 DEF ExecutedAs
<1>6. \A p \in net' : p = n \/ p \in net
  BY <1>3 DEF ExecutedAs
<1>7. \A k \in Keys : copy'[k] = hw'[k] \/ \E p \in net' : DOMAIN p.val = KeysOfBank(BankKey(k))
  BY <1>2, <1>4, <1>5
<1> QED
  BY <1>2, <1>4, <1>6, <1>7

(* Writes of an element are writes of its register.                        *)
LEMMA SameRegister ==
  ASSUME NEW m, NEW n, RequestTyped(m), RequestTyped(n), m.op = "write", n.op = "write",
         NEW k, k \in DOMAIN m.val, k \in DOMAIN n.val
  PROVE  DOMAIN m.val = DOMAIN n.val
<1>1. PICK i \in Keys, j \in Keys :
        DOMAIN m.val = KeysOfReg(RegOf[i]) /\ DOMAIN n.val = KeysOfReg(RegOf[j])
  BY DEF RequestTyped
<1>2. RegOf[i] = RegOf[k] /\ RegOf[j] = RegOf[k]
  BY <1>1 DEF KeysOfReg
<1> QED
  BY <1>1, <1>2

(* An apply: a write is undone by one that it overtook, if at all.         *)
LEMMA ExecuteSettles ==
  ASSUME PageInv, NEW m \in net, Execute(m), NEW c \in Calls, m.call = c, ~Overtakes(m),
         \A p \in net : p.op = "write" /\ p.call = c,
         \A p, q \in net : p.order = q.order => p = q,
         NEW n, net' = (net \ {m}) \cup {n}, n.done = TRUE, hw' = Over(hw, m.val),
         NEW k \in Keys, Settled(c, k), calls'[c].want = calls[c].want
  PROVE  Settled(c, k)'
<1>1. PICK w : w = Enter(k, calls[c].want[k]) /\ w = Enter(k, calls'[c].want[k])
  OBVIOUS
<1> SUFFICES \/ hw'[k] = w /\ Pending(k)' = {}
             \/ \E p \in Pending(k)' : p.val[k] = w /\ \A q \in Pending(k)' : q.order <= p.order
  BY <1>1 DEF Settled
<1>2. \/ hw[k] = w /\ Pending(k) = {}
      \/ \E p \in Pending(k) : p.val[k] = w /\ \A q \in Pending(k) : q.order <= p.order
  BY <1>1 DEF Settled
<1>3. ~m.done
  BY DEF Execute
<1>4. \A p : p \in Pending(k)' <=> p \in Pending(k) /\ p # m
  BY DEF Pending
<1>5. hw'[k] = IF k \in DOMAIN m.val THEN m.val[k] ELSE hw[k]
  BY OverAt
<1>6. CASE hw[k] = w /\ Pending(k) = {}
  <2>1. k \notin DOMAIN m.val
    BY <1>3, <1>6 DEF Pending
  <2>2. Pending(k)' = {}
    BY <1>4, <1>6
  <2> QED
    BY <1>5, <1>6, <2>1, <2>2
<1>7. ASSUME NEW p \in Pending(k), p.val[k] = w, \A q \in Pending(k) : q.order <= p.order
      PROVE  \/ hw'[k] = w /\ Pending(k)' = {}
             \/ \E r \in Pending(k)' : r.val[k] = w /\ \A q \in Pending(k)' : q.order <= r.order
  <2>1. CASE p # m
    BY <1>4, <1>7, <2>1
  <2>2. CASE p = m
    <3>1. hw'[k] = w
      BY <1>5, <1>7, <2>2 DEF Pending
    <3>2. ASSUME NEW q \in Pending(k)' PROVE FALSE
      <4>1. q \in Pending(k) /\ q # m /\ q \in net /\ ~q.done /\ k \in DOMAIN q.val
        BY <1>4, <3>2 DEF Pending
      <4>2. RequestTyped(q) /\ RequestTyped(m) /\ q.op = "write" /\ m.op = "write"
        BY <4>1 DEF PageInv
      <4>3. q.order <= m.order /\ q.order # m.order
        BY <1>7, <2>2, <4>1
      <4>4. q.order < m.order
        BY <4>2, <4>3 DEF RequestTyped
      <4>5. DOMAIN q.val = DOMAIN m.val
        BY <2>2, <4>1, <4>2, SameRegister DEF Pending
      <4>6. q \in Of(m.call)
        BY <4>1 DEF Of
      <4> QED
        BY <4>1, <4>2, <4>4, <4>5, <4>6 DEF Overtakes
    <3>3. Pending(k)' = {}
      BY <3>2
    <3> QED
      BY <3>1, <3>3
  <2> QED
    BY <2>1, <2>2
<1> QED
  BY <1>6, <1>7, <1>2

LEMMA ExecuteKeepsApply ==
  ASSUME PageInv, NEW m \in net, Execute(m), NEW c \in Calls
  PROVE  ApplyRight(c)'
<1> SUFFICES ASSUME calls'[c].kind = "apply", calls'[c].ok PROVE ApplyRight(c)'
  BY DEF ApplyRight
<1>1. calls[c].kind = "apply" /\ calls[c].ok /\ calls'[c].want = calls[c].want
  BY ExecutedCalls
<1>2. /\ IsFiniteSet(net) /\ \A p \in net : p.op = "write"
      /\ \A p, q \in net : p.order = q.order => p = q
      /\ \A k \in DOMAIN calls[c].want : Settled(c, k)
  BY <1>1 DEF PageInv, ApplyRight
<1>3. \A p \in net : p.call = c
  BY <1>1, NetIsOwn DEF Open
<1>4. PICK n : ExecutedAs(m, n)
  BY ExecutedRequest
<1>5. IsFiniteSet(net')
  <2>1. IsFiniteSet(net \ {m})
    BY <1>2, FS_Subset
  <2> QED
    BY <1>4, <2>1, FS_AddElement DEF ExecutedAs
<1>6. \A p \in net' : p.op = "write"
  BY <1>2, <1>4 DEF ExecutedAs
<1>7. \A p, q \in net' : p.order = q.order => p = q
  BY <1>2, <1>4 DEF ExecutedAs
<1>8. ASSUME NEW k \in DOMAIN calls'[c].want PROVE Settled(c, k)'
  <2>1. k \in DOMAIN calls[c].want /\ Settled(c, k)
    BY <1>1, <1>2, <1>8
  <2>2. k \in Keys
    BY <2>1 DEF PageInv, PageTypes, CallSet, Wants
  <2>3. /\ n.done = TRUE /\ hw' = Over(hw, m.val) /\ m.call = c /\ ~Overtakes(m)
        /\ net' = (net \ {m}) \cup {n} /\ calls'[c].want = calls[c].want
    BY <1>1, <1>2, <1>3, <1>4 DEF ExecutedAs
  <2>4. \A p \in net : p.op = "write" /\ p.call = c
    BY <1>2, <1>3
  <2>5. \A p, q \in net : p.order = q.order => p = q
    BY <1>2
  <2> QED
    BY <2>1, <2>2, <2>3, <2>4, <2>5, ExecuteSettles
<1> QED
  BY <1>5, <1>6, <1>7, <1>8 DEF ApplyRight

LEMMA ExecuteKeepsPageInv ==
  ASSUME PageInv, NEW m \in net, Execute(m)
  PROVE  PageInv'
<1>1. copy' = copy /\ shown' = shown /\ changes' = changes
  BY DEF Execute, pageVars
<1>2. DofiInv'
  BY ExecuteKeepsDofiInv
<1>3. /\ calls' \in [Calls -> CallSet]
      /\ \A c \in Calls : /\ calls'[c].kind = calls[c].kind /\ calls'[c].want = calls[c].want
                          /\ calls'[c].ok => calls[c].ok
  BY ExecutedCalls
<1>4. PICK n : ExecutedAs(m, n)
  BY ExecutedRequest
<1>5. hw' \in [Keys -> Codes]
  BY <1>4 DEF ExecutedAs
<1>6. PageTypes'
  BY <1>1, <1>3, <1>5 DEF PageInv, PageTypes
<1>7. \A p \in net' : RequestTyped(p)
  BY <1>4 DEF PageInv, ExecutedAs
<1>8. OpenAlone'
  <2>1. \A c \in Calls : Of(c)' # {} => Of(c) # {}
    BY <1>4 DEF Of, ExecutedAs
  <2>2. \A c \in Calls : (calls'[c].ok => calls[c].ok) /\ (Open(c)' => Open(c))
    BY <1>3, <2>1 DEF Open
  <2> QED
    BY <2>2, StillAlone DEF PageInv
<1>9. \A c \in Calls : RefreshRight(c)' /\ ApplyRight(c)'
  BY ExecuteKeepsRefresh, ExecuteKeepsApply
<1> QED
  BY <1>2, <1>6, <1>7, <1>8, <1>9 DEF PageInv, RequestTyped

-----------------------------------------------------------------------------
(* A request is answered, or it fails.                                     *)
LEMMA CompletedCalls ==
  ASSUME PageTypes, NEW c \in Calls, NEW cs \in [Calls -> CallSet], Completes(c, cs)
  PROVE  /\ calls' \in [Calls -> CallSet]
         /\ \A d \in Calls : calls'[d] = cs[d] \/ (calls'[d].kind = "none" /\ calls'[d].ok = cs[d].ok)
         /\ IsFiniteSet(ToSet(changes')) /\ Len(changes') = Cardinality(ToSet(changes'))
<1>1. CASE calls' = Ended(c, cs) /\ changes' = <<>>
  <2>1. /\ calls' \in [Calls -> CallSet]
        /\ \A d \in Calls : calls'[d] = cs[d] \/ (calls'[d].kind = "none" /\ calls'[d].ok = cs[d].ok)
    BY <1>1, EndedCall
  <2>2. ToSet(changes') = {} /\ Len(changes') = 0
    BY <1>1 DEF ToSet
  <2> QED
    BY <2>1, <2>2, FS_EmptySet
<1>2. CASE calls' = cs /\ changes' = changes
  BY <1>2 DEF PageTypes
<1> QED
  BY <1>1, <1>2 DEF Completes

LEMMA AnswerTyped ==
  ASSUME PageInv, NEW m \in net, Reply(m) \/ Fail(m), calls' \in [Calls -> CallSet],
         IsFiniteSet(ToSet(changes')), Len(changes') = Cardinality(ToSet(changes'))
  PROVE  PageTypes'
<1>1. hw' = hw /\ shown' = shown
  BY DEF Reply, Fail
<1>2. copy \in [Keys -> Known] /\ Lost \in Known /\ \A k \in DOMAIN m.val : m.val[k] \in Known
  BY DEF PageInv, PageTypes, RequestTyped, Known
<1>3. copy' = copy \/ copy' = Over(copy, m.val) \/ copy' = Over(copy, [k \in DOMAIN m.val |-> Lost])
  BY DEF Reply, Fail
<1>4. copy' \in [Keys -> Known]
  <2>1. CASE copy' = copy
    BY <1>2, <2>1
  <2>2. ASSUME NEW g, copy' = Over(copy, g), \A k \in DOMAIN g : g[k] \in Known
        PROVE  copy' \in [Keys -> Known]
    <3>1. copy' = [k \in Keys |-> IF k \in DOMAIN g THEN g[k] ELSE copy[k]]
      BY <2>2 DEF Over
    <3> QED
      BY <1>2, <2>2, <3>1
  <2>3. PICK lost : lost = [k \in DOMAIN m.val |-> Lost]
    OBVIOUS
  <2>4. \A k \in DOMAIN lost : lost[k] \in Known
    BY <1>2, <2>3
  <2> QED
    BY <1>2, <1>3, <2>1, <2>2, <2>3, <2>4
<1> QED
  BY <1>1, <1>4 DEF PageInv, PageTypes

(* Only an undisturbed call that stays open has something to keep.         *)
LEMMA FailKeepsPageInv ==
  ASSUME PageInv, NEW m \in net, Fail(m)
  PROVE  PageInv'
<1>1. /\ PageTypes /\ calls \in [Calls -> CallSet] /\ m.call \in Calls
  BY DEF PageInv, PageTypes, RequestTyped
<1>2. PICK cs : cs = Disturbed(m.call)
  OBVIOUS
<1>3. /\ cs \in [Calls -> CallSet] /\ ~cs[m.call].ok
      /\ \A d \in Calls : /\ cs[d].kind = calls[d].kind
                          /\ cs[d].want = calls[d].want
                          /\ d # m.call => cs[d] = calls[d]
  BY <1>1, <1>2, DisturbedCall
<1>4. Completes(m.call, cs) /\ net' = net \ {m}
  BY <1>2 DEF Fail
<1>5. /\ calls' \in [Calls -> CallSet]
      /\ \A d \in Calls : calls'[d] = cs[d] \/ (calls'[d].kind = "none" /\ calls'[d].ok = cs[d].ok)
      /\ IsFiniteSet(ToSet(changes')) /\ Len(changes') = Cardinality(ToSet(changes'))
  BY <1>1, <1>3, <1>4, CompletedCalls
<1>6. \A d \in Calls : calls'[d].ok => calls[d].ok /\ d # m.call
  BY <1>3, <1>5
<1>7. \A d \in Calls : calls'[d].kind # "none" => calls[d].kind # "none"
  BY <1>3, <1>5
<1>8. DofiInv'
  BY AnswerKeepsDofiInv DEF PageInv
<1>9. PageTypes'
  BY <1>5, AnswerTyped
<1>10. \A p \in net' : RequestTyped(p)
  BY <1>4 DEF PageInv
<1>11. OpenAlone'
  <2>1. \A d \in Calls : Of(d)' # {} => Of(d) # {}
    BY <1>4 DEF Of
  <2>2. \A d \in Calls : (calls'[d].ok => calls[d].ok) /\ (Open(d)' => Open(d))
    BY <1>6, <1>7, <2>1 DEF Open
  <2> QED
    BY <2>2, StillAlone DEF PageInv
<1>12. ASSUME NEW d \in Calls, calls'[d].ok, calls'[d].kind # "none" PROVE FALSE
  <2>1. calls[d].ok /\ Open(d) /\ d # m.call
    BY <1>6, <1>7, <1>12 DEF Open
  <2> QED
    BY <2>1, NetIsOwn
<1>13. \A d \in Calls : RefreshRight(d)' /\ ApplyRight(d)'
  BY <1>12 DEF RefreshRight, ApplyRight
<1> QED
  BY <1>8, <1>9, <1>10, <1>11, <1>13 DEF PageInv, RequestTyped

LEMMA ReplyKeepsRefresh ==
  ASSUME PageInv, NEW m \in net, Reply(m), NEW c \in Calls, RefreshRight(c), calls'[c] = calls[c]
  PROVE  RefreshRight(c)'
<1> SUFFICES ASSUME calls'[c].kind = "refresh", calls'[c].ok
             PROVE  /\ \A p \in net' : p.op = "read" /\ (p.done => \A k \in DOMAIN p.val : p.val[k] = hw'[k])
                    /\ \A k \in Keys : copy'[k] = hw'[k] \/ \E p \in net' : DOMAIN p.val = KeysOfBank(BankKey(k))
  BY DEF RefreshRight
<1>1. /\ \A p \in net : p.op = "read" /\ (p.done => \A k \in DOMAIN p.val : p.val[k] = hw[k])
      /\ \A k \in Keys : copy[k] = hw[k] \/ \E p \in net : DOMAIN p.val = KeysOfBank(BankKey(k))
  BY DEF RefreshRight
<1>2. net' = net \ {m} /\ hw' = hw /\ m.done
  BY DEF Reply
<1>3. copy' = Over(copy, m.val)
  BY <1>1 DEF Reply
<1>4. ASSUME NEW k \in Keys
      PROVE  copy'[k] = hw'[k] \/ \E p \in net' : DOMAIN p.val = KeysOfBank(BankKey(k))
  <2>1. CASE k \in DOMAIN m.val
    BY <1>1, <1>2, <1>3, <2>1, OverAt
  <2>2. CASE k \notin DOMAIN m.val
    <3>1. copy'[k] = copy[k]
      BY <1>3, <2>2, OverAt
    <3>2. k \in KeysOfBank(BankKey(k))
      BY DEF KeysOfBank
    <3> QED
      BY <1>1, <1>2, <2>2, <3>1, <3>2
  <2> QED
    BY <2>1, <2>2
<1> QED
  BY <1>1, <1>2, <1>4

LEMMA ReplyKeepsApply ==
  ASSUME PageInv, NEW m \in net, Reply(m), NEW c \in Calls, ApplyRight(c), calls'[c] = calls[c]
  PROVE  ApplyRight(c)'
<1> SUFFICES ASSUME calls'[c].kind = "apply", calls'[c].ok PROVE ApplyRight(c)'
  BY DEF ApplyRight
<1>1. /\ IsFiniteSet(net) /\ \A p \in net : p.op = "write"
      /\ \A p, q \in net : p.order = q.order => p = q
      /\ \A k \in DOMAIN calls[c].want : Settled(c, k)
  BY DEF ApplyRight
<1>2. net' = net \ {m} /\ hw' = hw /\ m.done
  BY DEF Reply
<1>3. IsFiniteSet(net')
  BY <1>1, <1>2, FS_Subset
<1>4. \A k : Pending(k)' = Pending(k)
  BY <1>2 DEF Pending
<1>5. \A k : Settled(c, k) => Settled(c, k)'
  BY <1>2, <1>4 DEF Settled
<1> QED
  BY <1>1, <1>2, <1>3, <1>5 DEF ApplyRight

LEMMA ReplyKeepsPageInv ==
  ASSUME PageInv, NEW m \in net, Reply(m)
  PROVE  PageInv'
<1>1. /\ PageTypes /\ calls \in [Calls -> CallSet] /\ m.call \in Calls
  BY DEF PageInv, PageTypes, RequestTyped
<1>2. Completes(m.call, calls) /\ net' = net \ {m}
  BY DEF Reply
<1>3. /\ calls' \in [Calls -> CallSet]
      /\ \A d \in Calls : calls'[d] = calls[d] \/ (calls'[d].kind = "none" /\ calls'[d].ok = calls[d].ok)
      /\ IsFiniteSet(ToSet(changes')) /\ Len(changes') = Cardinality(ToSet(changes'))
  BY <1>1, <1>2, CompletedCalls
<1>4. DofiInv'
  BY AnswerKeepsDofiInv DEF PageInv
<1>5. PageTypes'
  BY <1>3, AnswerTyped
<1>6. \A p \in net' : RequestTyped(p)
  BY <1>2 DEF PageInv
<1>7. OpenAlone'
  <2>1. \A d \in Calls : Of(d)' # {} => Of(d) # {}
    BY <1>2 DEF Of
  <2>2. \A d \in Calls : (calls'[d].ok => calls[d].ok) /\ (Open(d)' => Open(d))
    BY <1>3, <2>1 DEF Open
  <2> QED
    BY <2>2, StillAlone DEF PageInv
<1>8. ASSUME NEW d \in Calls PROVE RefreshRight(d)' /\ ApplyRight(d)'
  <2>1. CASE calls'[d] = calls[d]
    BY <2>1, ReplyKeepsRefresh, ReplyKeepsApply DEF PageInv
  <2>2. CASE calls'[d].kind = "none"
    BY <2>2 DEF RefreshRight, ApplyRight
  <2> QED
    BY <1>3, <2>1, <2>2
<1> QED
  BY <1>4, <1>5, <1>6, <1>7, <1>8 DEF PageInv, RequestTyped

-----------------------------------------------------------------------------
LEMMA FirstIsCall == First \in Calls
BY DofiAssumption, LeastNumber DEF DofiAssumption, First

LEMMA InitPageInv == DofiInit => PageInv
<1> SUFFICES ASSUME DofiInit PROVE PageInv
  OBVIOUS
<1>1. DofiInv
  BY DofiInvInit
<1>2. First \in Calls /\ net = Reads(First)
  BY FirstIsCall DEF DofiInit
<1>3. \A m \in net : RequestTyped(m) /\ m.call = First /\ m.op = "read" /\ m.done = FALSE
  BY <1>2, ReadsOfAll
<1>4. \A k \in Keys : \E m \in net : DOMAIN m.val = KeysOfBank(BankKey(k))
  BY <1>2, ReadsOfAll
<1>5. /\ calls \in [Calls -> CallSet] /\ calls[First].kind = "refresh"
      /\ \A c \in Calls : c # First => calls[c].kind = "none" /\ ~calls[c].ok
  <2>1. [kind |-> "refresh", want |-> NoWant, ok |-> TRUE] \in CallSet /\ NoCall \in CallSet
    BY WantsNothing DEF CallSet, NoCall
  <2>2. calls = [c \in Calls |-> IF c = First
                   THEN [kind |-> "refresh", want |-> NoWant, ok |-> TRUE] ELSE NoCall]
    BY DEF DofiInit
  <2>3. calls \in [Calls -> CallSet]
    BY <2>1, <2>2
  <2> QED
    BY <1>2, <2>2, <2>3 DEF NoCall
<1>6. PageTypes
  <2>1. ToSet(changes) = {} /\ Len(changes) = 0
    BY DEF DofiInit, ToSet
  <2>2. IsFiniteSet(ToSet(changes)) /\ Len(changes) = Cardinality(ToSet(changes))
    BY <2>1, FS_EmptySet
  <2>3. hw \in [Keys -> Codes]
    BY DofiAssumption DEF DofiInit, DofiAssumption
  <2>4. /\ copy \in [Keys -> Known]
        /\ DOMAIN shown = Keys /\ \A k \in Keys : shown[k] \in Values(k) \/ shown[k] = Lost
    <3>1. 0 \in Codes
      BY RangeOfField DEF Codes
    <3> QED
      BY <3>1 DEF DofiInit, Known, Values
  <2> QED
    BY <1>5, <2>2, <2>3, <2>4 DEF PageTypes
<1>7. OpenAlone
  <2>1. \A c \in Calls : c # First => ~Open(c)
    BY <1>3, <1>5 DEF Open, Of
  <2> QED
    BY <1>5, <2>1 DEF OpenAlone
<1>8. \A c \in Calls : RefreshRight(c) /\ ApplyRight(c)
  <2>1. ASSUME NEW c \in Calls PROVE RefreshRight(c)
    BY <1>3, <1>4 DEF RefreshRight
  <2>2. ASSUME NEW c \in Calls PROVE ApplyRight(c)
    BY <1>5 DEF ApplyRight
  <2> QED
    BY <2>1, <2>2
<1> QED
  BY <1>1, <1>3, <1>6, <1>7, <1>8 DEF PageInv

LEMMA NextPageInv == PageInv /\ [DofiNext]_dofiVars => PageInv'
<1> SUFFICES ASSUME PageInv, [DofiNext]_dofiVars PROVE PageInv'
  OBVIOUS
<1>1. CASE \E c \in Calls : ApplySetup(c)
  BY <1>1, ApplyKeepsPageInv
<1>2. CASE \E c \in Calls : RefreshAll(c) \/ Dump(c)
  BY <1>2, UpdateKeepsPageInv
<1>3. CASE \E c \in Calls : ResetDofi(c) \/ Configure(c)
  BY <1>3, CommandKeepsPageInv
<1>4. CASE \/ \E k \in Keys : \E v \in Typed(k) : Edit(k, v)
           \/ HexMode
           \/ \E c \in Calls : Refreshed(c)
  BY <1>4, ViewKeepsPageInv
<1>5. CASE \E m \in net : Execute(m)
  BY <1>5, ExecuteKeepsPageInv
<1>6. CASE \E m \in net : Reply(m)
  BY <1>6, ReplyKeepsPageInv
<1>7. CASE \E m \in net : Fail(m)
  BY <1>7, FailKeepsPageInv
<1>8. CASE UNCHANGED dofiVars
  <2>1. /\ hw' = hw /\ copy' = copy /\ shown' = shown /\ changes' = changes
        /\ net' = net /\ calls' = calls
    BY <1>8 DEF dofiVars, pageVars
  <2>2. DofiInv' /\ PageTypes' /\ OpenAlone'
    BY <2>1 DEF PageInv, DofiInv, PageTypes, OpenAlone, Open, Of
  <2>3. \A c \in Calls : RefreshRight(c)'
    BY <2>1 DEF PageInv, RefreshRight
  <2>4. \A c \in Calls : ApplyRight(c)'
    <3>1. \A c, k : Settled(c, k) => Settled(c, k)'
      BY <2>1 DEF Settled, Pending
    <3> QED
      BY <2>1, <3>1 DEF PageInv, ApplyRight
  <2>5. \A m \in net' : RequestTyped(m)
    BY <2>1 DEF PageInv
  <2> QED
    BY <2>2, <2>3, <2>4, <2>5 DEF PageInv, RequestTyped
<1> QED
  BY <1>1, <1>2, <1>3, <1>4, <1>5, <1>6, <1>7, <1>8 DEF DofiNext

LEMMA PageInvType == PageInv => DofiTypeOK
<1> SUFFICES ASSUME PageInv PROVE DofiTypeOK
  OBVIOUS
<1>1. changes \in Seq(Keys) /\ calls \in [Calls -> CallSet]
  BY DEF PageInv, DofiInv, PageTypes
<1>2. ToSet(changes) \subseteq Keys
  BY <1>1 DEF ToSet
<1>3. \A c \in Calls : calls[c].kind \in {"none", "refresh", "apply"}
  BY <1>1 DEF CallSet
<1>4. \A m \in net : m.call \in Calls
  BY DEF PageInv, RequestTyped
<1> QED
  BY <1>2, <1>3, <1>4 DEF PageInv, PageTypes, Known, DofiTypeOK

(* A call ends when its last answer comes, or when its view is filled.     *)
LEMMA CallsEnd ==
  ASSUME PageInv, [DofiNext]_dofiVars, NEW c \in Calls,
         calls[c].kind # "none", calls'[c].kind = "none"
  PROVE  \/ Refreshed(c)
         \/ \E m \in net : /\ Reply(m) \/ Fail(m)
                           /\ m.call = c /\ calls[c].kind = "apply" /\ Cardinality(Of(c)) = 1
<1>1. /\ calls \in [Calls -> CallSet] /\ \A m \in net : m.call \in Calls
  BY DEF PageInv, PageTypes, RequestTyped
<1>2. ASSUME NEW d \in Calls, NEW kind, NEW want, ~Open(d), StartCall(d, kind, want) PROVE FALSE
  <2>1. c # d
    BY <1>2 DEF Open
  <2>2. calls'[c] = [calls[c] EXCEPT !.ok = FALSE]
    BY <1>2, <2>1 DEF StartCall
  <2> QED
    BY <1>1, <2>2 DEF CallSet
<1>3. CASE \E d \in Calls : ApplySetup(d) \/ RefreshAll(d) \/ Dump(d) \/ ResetDofi(d) \/ Configure(d)
  <2>1. PICK d \in Calls : ApplySetup(d) \/ RefreshAll(d) \/ Dump(d) \/ ResetDofi(d) \/ Configure(d)
    BY <1>3
  <2>2. ~Open(d) /\ \E kind, want : StartCall(d, kind, want)
    BY <2>1 DEF ApplySetup, RefreshAll, Dump, Update, ResetDofi, Configure, Command, FreeCall
  <2> QED
    BY <1>2, <2>2
<1>4. CASE \/ \E k \in Keys : \E v \in Typed(k) : Edit(k, v)
           \/ HexMode
           \/ UNCHANGED dofiVars
  <2>1. calls' = calls
    BY <1>4 DEF Edit, HexMode, dofiVars
  <2> QED
    BY <2>1
<1>5. CASE \E d \in Calls : Refreshed(d)
  <2>1. PICK d \in Calls : Refreshed(d) /\ calls' = Ended(d, calls)
    BY <1>5 DEF Refreshed
  <2>2. d # c => calls'[c] = calls[c]
    BY <1>1, <2>1, EndedCall
  <2> QED
    BY <2>1, <2>2
<1>6. CASE \E m \in net : Execute(m)
  BY <1>6, ExecutedCalls
<1>7. ASSUME NEW m \in net, NEW cs \in [Calls -> CallSet], Completes(m.call, cs),
             \A d \in Calls : cs[d].kind = calls[d].kind
      PROVE  m.call = c /\ calls[c].kind = "apply" /\ Cardinality(Of(c)) = 1
  <2>1. CASE cs[m.call].kind = "apply" /\ Cardinality(Of(m.call)) = 1
    <3>1. calls' = Ended(m.call, cs)
      BY <1>7, <2>1 DEF Completes
    <3>2. m.call # c => calls'[c] = cs[c]
      BY <1>1, <1>7, <3>1, EndedCall
    <3> QED
      BY <1>1, <1>7, <2>1, <3>2
  <2>2. CASE ~(cs[m.call].kind = "apply" /\ Cardinality(Of(m.call)) = 1)
    BY <1>7, <2>2 DEF Completes
  <2> QED
    BY <2>1, <2>2
<1>8. CASE \E m \in net : Reply(m)
  BY <1>1, <1>7, <1>8 DEF Reply
<1>9. CASE \E m \in net : Fail(m)
  <2>1. PICK m \in net : Fail(m)
    BY <1>9
  <2>2. PICK cs : cs = Disturbed(m.call)
    OBVIOUS
  <2>3. Completes(m.call, cs)
    BY <2>1, <2>2 DEF Fail
  <2>4. cs \in [Calls -> CallSet] /\ \A d \in Calls : cs[d].kind = calls[d].kind
    BY <1>1, <2>2, DisturbedCall
  <2> QED
    BY <1>7, <2>1, <2>3, <2>4
<1> QED
  BY <1>3, <1>4, <1>5, <1>6, <1>8, <1>9 DEF DofiNext

-----------------------------------------------------------------------------
(* "Setup has been applied" is true of an ApplySetup that nothing          *)
(* disturbed (dofi.js:449-590, 770-793): when its last answer comes, no    *)
(* write is under way that could still decide a value, so that each value  *)
(* set is in its register.                                                 *)
THEOREM UntroubledApply == DofiSpec => UntroubledApplyWritten
<1> DEFINE Promise == \A c \in Calls : Applied(c) /\ calls'[c].ok => Written(c)
<1>1. PageInv /\ [DofiNext]_dofiVars => Promise
  <2> SUFFICES ASSUME PageInv, [DofiNext]_dofiVars, NEW c \in Calls, Applied(c), calls'[c].ok
               PROVE  Written(c)
    OBVIOUS
  <2>1. calls[c].kind = "apply" /\ calls'[c].kind = "none"
    BY DEF Applied
  <2>2. PICK m \in net : /\ Reply(m) \/ Fail(m)
                         /\ m.call = c /\ Cardinality(Of(c)) = 1
    BY <2>1, CallsEnd DEF Refreshed
  <2>3. calls \in [Calls -> CallSet] /\ PageTypes
    BY DEF PageInv, PageTypes
  <2>4. ~Fail(m)
    <3> SUFFICES ASSUME Fail(m) PROVE FALSE
      OBVIOUS
    <3>1. PICK cs : cs = Disturbed(c)
      OBVIOUS
    <3>2. cs \in [Calls -> CallSet] /\ ~cs[c].ok
      BY <2>3, <3>1, DisturbedCall
    <3>3. Completes(c, cs)
      BY <2>2, <3>1 DEF Fail
    <3>4. \A d \in Calls : calls'[d] = cs[d] \/ (calls'[d].kind = "none" /\ calls'[d].ok = cs[d].ok)
      BY <2>3, <3>2, <3>3, CompletedCalls
    <3> QED
      BY <3>2, <3>4
  <2>5. Reply(m) /\ m.done
    BY <2>2, <2>4 DEF Reply
  <2>6. calls[c].ok
    <3>1. Completes(c, calls)
      BY <2>2, <2>5 DEF Reply
    <3>2. \A d \in Calls : calls'[d] = calls[d] \/ (calls'[d].kind = "none" /\ calls'[d].ok = calls[d].ok)
      BY <2>3, <3>1, CompletedCalls
    <3> QED
      BY <3>2
  <2>7. /\ IsFiniteSet(net)
        /\ \A k \in DOMAIN calls[c].want : Settled(c, k)
    BY <2>1, <2>6 DEF PageInv, ApplyRight
  <2>8. Of(c) = net
    BY <2>1, <2>6, NetIsOwn DEF Open
  <2>9. net = {m}
    <3>1. \E x : net = {x}
      BY <2>2, <2>7, <2>8, FS_Singleton
    <3> QED
      BY <3>1
  <2>10. \A k : Pending(k) = {}
    BY <2>5, <2>9 DEF Pending
  <2>11. \A k \in DOMAIN calls[c].want : hw[k] = Enter(k, calls[c].want[k])
    BY <2>7, <2>10 DEF Settled
  <2> QED
    BY <2>11, PermittedEntry DEF Written
<1> HIDE DEF Promise
<1>2. DofiSpec => [][Promise]_dofiVars
  BY <1>1, InitPageInv, NextPageInv, PTL DEF DofiSpec
<1> QED
  BY <1>2, PTL DEF UntroubledApplyWritten, Promise

(* A value the page does not know is never sent to the board or written to *)
(* it (dofi.js:75-108).                                                    *)
THEOREM KnownValuesOnly == DofiSpec => []NoLostWritten
<1>1. PageInv => NoLostWritten
  BY DEF PageInv, DofiInv, GoodRequest, NoLostWritten
<1> QED
  BY <1>1, InitPageInv, NextPageInv, PTL DEF DofiSpec

(* A refresh that nothing disturbed shows, for every register of the board,*)
(* a value that stands for it, which is the time in it below 0x800000      *)
(* (dofi.js:111-157, 311-383, 612-626, 703-706): all of its answers were   *)
(* read while no one wrote.                                                *)
THEOREM UndisturbedRefresh == DofiSpec => UndisturbedRefreshShows
<1> DEFINE Promise == \A c \in Calls : RefreshedAlone(c) => \A k \in Keys :
             /\ Enter(k, shown'[k]) = hw[k]
             /\ k \in Numbers /\ hw[k] < HalfRange => shown'[k] = TimeUnit * hw[k]
<1>1. PageInv /\ [DofiNext]_dofiVars => Promise
  <2> SUFFICES ASSUME PageInv, [DofiNext]_dofiVars, NEW c \in Calls, RefreshedAlone(c),
                      NEW k \in Keys
               PROVE  /\ Enter(k, shown'[k]) = hw[k]
                      /\ k \in Numbers /\ hw[k] < HalfRange => shown'[k] = TimeUnit * hw[k]
    OBVIOUS
  <2>1. Refreshed(c) /\ calls[c].kind = "refresh" /\ calls[c].ok
    BY CallsEnd DEF RefreshedAlone
  <2>2. net = {}
    BY <2>1, NetIsOwn DEF Open, Refreshed
  <2>3. \A l \in Keys : copy[l] = hw[l]
    BY <2>1, <2>2 DEF PageInv, RefreshRight
  <2>4. \A l \in Keys : copy[l] # Lost
    BY <2>3 DEF PageInv, DofiInv
  <2>5. \A i : Filled(i, copy)
    BY <2>4 DEF Filled, BankLost, KeysOfBank
  <2>6. shown'[k] = Display(k, hw[k])
    BY <2>1, <2>3, <2>5 DEF Refreshed, RefreshView
  <2>7. hw[k] \in Codes
    BY DEF PageInv, PageTypes
  <2> QED
    BY <2>6, <2>7, DisplayedField
<1> HIDE DEF Promise
<1>2. DofiSpec => [][Promise]_dofiVars
  BY <1>1, InitPageInv, NextPageInv, PTL DEF DofiSpec
<1> QED
  BY <1>2, PTL DEF UndisturbedRefreshShows, Promise
=============================================================================
