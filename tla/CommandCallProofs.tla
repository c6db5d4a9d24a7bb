------------------------- MODULE CommandCallProofs -------------------------
(***************************************************************************)
(* Proofs about CommandCall, for any workers, commands and routes.         *)
(***************************************************************************)
EXTENDS CommandCall, SequenceLemmas
-----------------------------------------------------------------------------
(* One owner: a command waits in a queue, is in the hands of a thread, or  *)
(* is kept.                                                                *)
Queued(w, c) == \E e \in ToSet(cmds[w]) : e.cmd = c /\ e.kind # "assign"
Framed(w, c) == \E f \in Frames(w) : f.cmd = c /\ f.kind \in {"exec", "reply"}
Kept(w, c)   == c \in held[w]
Waits(w, c)  == \E f \in Frames(w) : f.cmd = c /\ f.kind = "wait"

OneOwner == \A c \in Cmds : \A v, w \in Workers :
  /\ Queued(v, c) /\ Queued(w, c) => v = w
  /\ Framed(v, c) /\ Framed(w, c) => v = w
  /\ Kept(v, c) /\ Kept(w, c) => v = w
  /\ ~(Queued(v, c) /\ Framed(w, c)) /\ ~(Queued(v, c) /\ Kept(w, c))
  /\ ~(Framed(v, c) /\ Kept(w, c))
OneCaller == \A c \in Cmds : \A v, w \in Workers : Waits(v, c) /\ Waits(w, c) => v = w

(* A queue has one entry of a command, and one more if its worker assigned *)
(* the command itself.                                                     *)
OneEntries == \A w \in Workers : \A e, f \in ToSet(cmds[w]) :
  e.cmd = f.cmd /\ (e.kind = "assign" <=> f.kind = "assign") => e = f

(* The frames of a stack: a command is executed or replied once, waited    *)
(* for once, and executed in the event of a command.                       *)
Owning(f) == f.kind \in {"exec", "reply"}
Alike(f, g) == /\ f.cmd = g.cmd /\ f.cmd # NoCmd
               /\ \/ Owning(f) /\ Owning(g)
                  \/ f.kind = "wait" /\ g.kind = "wait"
OneFrame(s) == \A i, j \in DOMAIN s : Alike(s[i], s[j]) => i = j
ExecInEvent(s) == \A i \in DOMAIN s : s[i].kind = "exec" /\ s[i].cmd # NoCmd =>
  /\ i > 1 /\ s[i - 1].kind = "event" /\ s[i - 1].cmd # NoCmd
FrameRight(f) == /\ f.kind \in {"wait", "reply"} => f.cmd # NoCmd
                 /\ f.kind # "reply" => f.rec = NoRec
Stacked(s) == OneFrame(s) /\ ExecInEvent(s) /\ \A i \in DOMAIN s : FrameRight(s[i])
AllStacked == \A w \in Workers : Stacked(stack[w])

(* Nobody has heard of a command that is not created yet.                  *)
FreshCalls == \A c \in Cmds \ used :
  callers[c] = <<>> /\ ~exeReady[c] /\ result[c] = "none"
FreshRoles == \A c \in Cmds \ used : \A w \in Workers :
  /\ ~Framed(w, c) /\ ~Kept(w, c) /\ ~Waits(w, c)
  /\ \A e \in ToSet(cmds[w]) : e.cmd # c

AInv == /\ TypeOK /\ OneOwner /\ OneCaller /\ OneEntries /\ AllStacked
        /\ FreshCalls /\ FreshRoles /\ EventsMatchQueue

CallsTyped ==
  /\ used \subseteq Cmds /\ callers \in [Cmds -> Seq(Recs)]
  /\ exeReady \in [Cmds -> BOOLEAN] /\ result \in [Cmds -> {"none", "done", "refused"}]
LivesTyped ==
  /\ life \in [Workers -> {"normal", "asked", "halting", "gone"}]
  /\ active \in [Workers -> BOOLEAN]

(* A worker that is leaving accepts nothing, and leaves nothing behind.    *)
LeavingIsClosed == \A w \in Workers : life[w] \in {"halting", "gone"} => ~active[w]
BInv == AInv /\ PostponedHasDrain /\ LeavingIsClosed /\ GoneIsQuiet

-----------------------------------------------------------------------------
(* Sequences whose entries are distinct: what stays in its order.          *)
LEMMA DistinctAppend ==
  ASSUME NEW S, NEW s \in Seq(S), NEW x \in S, NEW t, t = Append(s, x)
  PROVE  /\ Distinct(s) /\ x \notin ToSet(s) => Distinct(t)
         /\ \A e, f : Before(t, e, f) => Before(s, e, f) \/ f = x
         /\ \A e, f : Before(s, e, f) => Before(t, e, f)
         /\ \A e \in ToSet(s) : Before(t, e, x)
<1>1. /\ Len(s) \in Nat /\ DOMAIN s = 1..Len(s) /\ DOMAIN t = 1..Len(s) + 1
      /\ \A i \in 1..Len(s) : t[i] = s[i]
      /\ t[Len(s) + 1] = x
  BY AppendMembers
<1>2. ASSUME Distinct(s), x \notin ToSet(s) PROVE Distinct(t)
  <2> SUFFICES ASSUME NEW i \in DOMAIN t, NEW j \in DOMAIN t, t[i] = t[j] PROVE i = j
    BY DEF Distinct
  <2>1. i \in 1..Len(s) \/ i = Len(s) + 1
    BY <1>1
  <2>2. j \in 1..Len(s) \/ j = Len(s) + 1
    BY <1>1
  <2>3. \A k \in 1..Len(s) : s[k] # x
    BY <1>1, <1>2 DEF ToSet
  <2> QED
    BY <1>1, <1>2, <2>1, <2>2, <2>3 DEF Distinct
<1>3. ASSUME NEW e, NEW f, Before(t, e, f) PROVE Before(s, e, f) \/ f = x
  <2>1. PICK i \in DOMAIN t, j \in DOMAIN t : t[i] = e /\ t[j] = f /\ i < j
    BY <1>3 DEF Before
  <2>2. CASE j = Len(s) + 1
    BY <1>1, <2>1, <2>2
  <2>3. CASE j # Len(s) + 1
    <3>1. i \in 1..Len(s) /\ j \in 1..Len(s)
      BY <1>1, <2>1, <2>3
    <3> QED
      BY <1>1, <2>1, <3>1 DEF Before
  <2> QED
    BY <2>2, <2>3
<1>4. ASSUME NEW e, NEW f, Before(s, e, f) PROVE Before(t, e, f)
  <2>1. PICK i \in DOMAIN s, j \in DOMAIN s : s[i] = e /\ s[j] = f /\ i < j
    BY <1>4 DEF Before
  <2>2. i \in DOMAIN t /\ j \in DOMAIN t /\ t[i] = e /\ t[j] = f
    BY <1>1, <2>1
  <2> QED
    BY <2>1, <2>2 DEF Before
<1>5. ASSUME NEW e \in ToSet(s) PROVE Before(t, e, x)
  <2>1. PICK i \in DOMAIN s : s[i] = e
    BY DEF ToSet
  <2>2. /\ i \in DOMAIN t /\ Len(s) + 1 \in DOMAIN t /\ i < Len(s) + 1
        /\ t[i] = e /\ t[Len(s) + 1] = x
    BY <1>1, <2>1
  <2> QED
    BY <2>2 DEF Before
<1> QED
  BY <1>2, <1>3, <1>4, <1>5

LEMMA StillBefore ==
  ASSUME NEW S, NEW s \in Seq(S), NEW x \in S, NEW t, t = Append(s, x),
         NEW e, NEW f, Before(s, e, f)
  PROVE  Before(t, e, f)
BY DistinctAppend

LEMMA BeforeLast ==
  ASSUME NEW S, NEW s \in Seq(S), NEW x \in S, NEW t, t = Append(s, x), NEW e \in ToSet(s)
  PROVE  Before(t, e, x)
BY DistinctAppend

LEMMA DistinctTail ==
  ASSUME NEW S, NEW s \in Seq(S), s # <<>>, Distinct(s), NEW t, t = Tail(s)
  PROVE  /\ Distinct(t) /\ ToSet(t) = ToSet(s) \ {Head(s)}
         /\ \A e, f : Before(s, e, f) /\ e # Head(s) => Before(t, e, f)
<1>1. /\ Len(s) \in Nat \ {0} /\ DOMAIN s = 1..Len(s) /\ DOMAIN t = 1..Len(s) - 1
      /\ \A i \in 1..Len(s) - 1 : t[i] = s[i + 1]
      /\ Head(s) = s[1] /\ ToSet(s) = ToSet(t) \cup {Head(s)}
  BY TailMembers
<1>2. Distinct(t)
  <2> SUFFICES ASSUME NEW i \in DOMAIN t, NEW j \in DOMAIN t, t[i] = t[j] PROVE i = j
    BY DEF Distinct
  <2>1. i + 1 \in DOMAIN s /\ j + 1 \in DOMAIN s /\ s[i + 1] = s[j + 1]
    BY <1>1
  <2>2. i + 1 = j + 1
    BY <2>1 DEF Distinct
  <2> QED
    BY <1>1, <2>2
<1>3. Head(s) \notin ToSet(t)
  <2> SUFFICES ASSUME NEW i \in DOMAIN t, t[i] = s[1] PROVE FALSE
    BY <1>1 DEF ToSet
  <2>1. i + 1 \in DOMAIN s /\ 1 \in DOMAIN s /\ s[i + 1] = s[1]
    BY <1>1
  <2>2. i + 1 = 1
    BY <2>1 DEF Distinct
  <2> QED
    BY <1>1, <2>2
<1>4. ASSUME NEW e, NEW f, Before(s, e, f), e # Head(s) PROVE Before(t, e, f)
  <2>1. PICK i \in DOMAIN s, j \in DOMAIN s : s[i] = e /\ s[j] = f /\ i < j
    BY <1>4 DEF Before
  <2>2. i # 1
    BY <1>1, <1>4, <2>1
  <2>3. i - 1 \in DOMAIN t /\ j - 1 \in DOMAIN t /\ i - 1 < j - 1
    BY <1>1, <2>1, <2>2
  <2>4. t[i - 1] = e /\ t[j - 1] = f
    <3>1. t[i - 1] = s[(i - 1) + 1] /\ t[j - 1] = s[(j - 1) + 1]
      BY <1>1, <2>3
    <3>2. (i - 1) + 1 = i /\ (j - 1) + 1 = j
      BY <1>1
    <3> QED
      BY <2>1, <3>1, <3>2
  <2> QED
    BY <2>3, <2>4 DEF Before
<1> QED
  BY <1>1, <1>2, <1>3, <1>4

LEMMA DistinctRemoved ==
  ASSUME NEW S, NEW s \in Seq(S), Distinct(s), NEW x, NEW t, t = RemoveFirst(s, x)
  PROVE  /\ t \in Seq(S) /\ Distinct(t) /\ ToSet(t) = ToSet(s) \ {x}
         /\ \A e, f : Before(t, e, f) => Before(s, e, f)
<1>1. CASE x \notin ToSet(s)
  <2>1. t = s
    BY <1>1 DEF RemoveFirst, ToSet
  <2> QED
    BY <1>1, <2>1
<1>2. CASE x \in ToSet(s)
  <2>1. PICK p \in 1..Len(s) : s[p] = x /\ t = RemoveAt(s, p)
    BY <1>2, RemovedFirst
  <2>2. /\ t \in Seq(S) /\ Len(t) = Len(s) - 1
        /\ \A j \in 1..Len(s) - 1 : t[j] = IF j < p THEN s[j] ELSE s[j + 1]
    BY <2>1, RemovedAt
  <2> DEFINE at(j) == IF j < p THEN j ELSE j + 1
  <2>3. Len(s) \in Nat /\ DOMAIN s = 1..Len(s) /\ DOMAIN t = 1..Len(s) - 1
    BY <2>2
  <2>4. ASSUME NEW j \in DOMAIN t PROVE at(j) \in DOMAIN s /\ at(j) # p /\ t[j] = s[at(j)]
    BY <2>2, <2>3
  <2>5. ASSUME NEW i \in DOMAIN t, NEW j \in DOMAIN t
        PROVE  (i < j => at(i) < at(j)) /\ (at(i) = at(j) => i = j)
    BY <2>3
  <2>6. ASSUME NEW k \in DOMAIN s, k # p PROVE \E j \in DOMAIN t : at(j) = k
    <3>1. CASE k < p
      <4>1. k \in DOMAIN t /\ at(k) = k
        BY <2>3, <3>1
      <4> QED
        BY <4>1
    <3>2. CASE ~(k < p)
      <4>1. k - 1 \in DOMAIN t /\ at(k - 1) = k
        BY <2>3, <2>6, <3>2
      <4> QED
        BY <4>1
    <3> QED
      BY <3>1, <3>2
  <2> HIDE DEF at
  <2>7. Distinct(t)
    <3> SUFFICES ASSUME NEW i \in DOMAIN t, NEW j \in DOMAIN t, t[i] = t[j] PROVE i = j
      BY DEF Distinct
    <3>1. at(i) = at(j)
      BY <2>4 DEF Distinct
    <3> QED
      BY <2>5, <3>1
  <2>8. ToSet(t) = ToSet(s) \ {x}
    <3>1. ASSUME NEW e \in ToSet(t) PROVE e \in ToSet(s) /\ e # x
      <4>1. PICK j \in DOMAIN t : t[j] = e
        BY DEF ToSet
      <4>2. at(j) \in DOMAIN s /\ at(j) # p /\ e = s[at(j)]
        BY <2>4, <4>1
      <4> QED
        BY <2>1, <2>3, <4>2 DEF ToSet, Distinct
    <3>2. ASSUME NEW e \in ToSet(s), e # x PROVE e \in ToSet(t)
      <4>1. PICK k \in DOMAIN s : s[k] = e
        BY DEF ToSet
      <4>2. k # p
        BY <2>1, <3>2, <4>1
      <4>3. PICK j \in DOMAIN t : at(j) = k
        BY <2>6, <4>2
      <4> QED
        BY <2>4, <4>1, <4>3 DEF ToSet
    <3> QED
      BY <3>1, <3>2
  <2>9. ASSUME NEW e, NEW f, Before(t, e, f) PROVE Before(s, e, f)
    <3>1. PICK i \in DOMAIN t, j \in DOMAIN t : t[i] = e /\ t[j] = f /\ i < j
      BY <2>9 DEF Before
    <3>2. /\ at(i) \in DOMAIN s /\ at(j) \in DOMAIN s /\ at(i) < at(j)
          /\ s[at(i)] = e /\ s[at(j)] = f
      BY <2>4, <2>5, <3>1
    <3> QED
      BY <3>2 DEF Before
  <2> QED
    BY <2>2, <2>7, <2>8, <2>9
<1> QED
  BY <1>1, <1>2

LEMMA DistinctReplaced ==
  ASSUME NEW S, NEW s \in Seq(S), Distinct(s), NEW x \in S, x \notin ToSet(s),
         NEW p \in DOMAIN s, NEW t, t = [s EXCEPT ![p] = x]
  PROVE  /\ t \in Seq(S) /\ Distinct(t)
         /\ \A e : e \in ToSet(t) <=> (e \in ToSet(s) /\ e # s[p]) \/ e = x
<1>1. /\ t \in Seq(S) /\ DOMAIN t = DOMAIN s
      /\ \A i \in DOMAIN s : t[i] = IF i = p THEN x ELSE s[i]
      /\ \A i \in DOMAIN s : s[i] # x
  BY DEF ToSet
<1>2. Distinct(t)
  BY <1>1 DEF Distinct
<1>3. ToSet(t) = (ToSet(s) \ {s[p]}) \cup {x}
  <2>1. ASSUME NEW e \in ToSet(t) PROVE e \in (ToSet(s) \ {s[p]}) \cup {x}
    <3>1. PICK i \in DOMAIN t : t[i] = e
      BY DEF ToSet
    <3>2. CASE i = p
      BY <1>1, <3>1, <3>2
    <3>3. CASE i # p
      <4>1. s[i] = e /\ s[i] # s[p]
        BY <1>1, <3>1, <3>3 DEF Distinct
      <4> QED
        BY <1>1, <4>1 DEF ToSet
    <3> QED
      BY <3>2, <3>3
  <2>2. ASSUME NEW e \in ToSet(s), e # s[p] PROVE e \in ToSet(t)
    <3>1. PICK i \in DOMAIN s : s[i] = e
      BY DEF ToSet
    <3>2. t[i] = e
      BY <1>1, <2>2, <3>1
    <3> QED
      BY <1>1, <3>2 DEF ToSet
  <2>3. x \in ToSet(t)
    BY <1>1 DEF ToSet
  <2> QED
    BY <2>1, <2>2, <2>3
<1> QED
  BY <1>1, <1>2, <1>3

LEMMA ReplacedBefore ==
  ASSUME NEW S, NEW s \in Seq(S), Distinct(s), NEW x \in S, x \notin ToSet(s),
         NEW p \in DOMAIN s, NEW t, t = [s EXCEPT ![p] = x],
         NEW e, NEW f, Before(t, e, f), e # x, f # x
  PROVE  Before(s, e, f)
<1>1. DOMAIN t = DOMAIN s /\ \A i \in DOMAIN s : t[i] = IF i = p THEN x ELSE s[i]
  OBVIOUS
<1> QED
  BY <1>1 DEF Before

-----------------------------------------------------------------------------
(* The queue of a worker and its events.                                   *)
LEMMA PushBoth ==
  ASSUME NEW q \in Seq(Entries), NEW ev \in Seq(Events), Matches(q, ev),
         NEW e \in Events, e \notin ToSet(q),
         NEW r, r = Append(q, e), NEW t, t = Append(ev, e)
  PROVE  /\ r \in Seq(Entries) /\ t \in Seq(Events) /\ Matches(r, t)
         /\ ToSet(r) = ToSet(q) \cup {e}
<1>1. e \in Entries /\ e.kind \in {"submit", "reply"}
  BY DEF Events, Entries
<1>2. /\ r \in Seq(Entries) /\ ToSet(r) = ToSet(q) \cup {e}
      /\ t \in Seq(Events) /\ ToSet(t) = ToSet(ev) \cup {e}
  BY <1>1, AppendMembers
<1>3. Fetched(r) = Fetched(q) \cup {e}
  BY <1>1, <1>2 DEF Fetched
<1>4. Distinct(r) /\ Distinct(t)
  BY <1>1, DistinctAppend DEF Matches, Fetched
<1>5. \A f, g : Before(r, f, g) => Before(q, f, g) \/ g = e
  BY <1>1, DistinctAppend
<1>6. \A f \in ToSet(ev) : Before(t, f, e)
  BY BeforeLast
<1>7. \A f, g : Before(ev, f, g) => Before(t, f, g)
  BY DistinctAppend
<1>8. ASSUME NEW f \in Fetched(r), NEW g \in Fetched(r), f.kind = "submit", g.kind = "submit",
             Before(r, f, g)
      PROVE  Before(t, f, g)
  <2>1. CASE g = e
    <3>1. f # e
      <4>1. PICK i \in DOMAIN r, j \in DOMAIN r : r[i] = f /\ r[j] = g /\ i < j
        BY <1>8 DEF Before
      <4>2. i # j
        BY <1>2, <4>1
      <4> QED
        BY <1>4, <2>1, <4>1, <4>2 DEF Distinct
    <3>2. f \in ToSet(ev)
      BY <1>3, <3>1 DEF Matches
    <3> QED
      BY <1>6, <2>1, <3>2
  <2>2. CASE g # e
    <3>1. Before(q, f, g)
      BY <1>8, <1>5, <2>2
    <3>2. f # e
      <4>1. f \in ToSet(q)
        BY <3>1 DEF Before, ToSet
      <4> QED
        BY <4>1
    <3>3. Before(ev, f, g)
      BY <1>3, <1>8, <2>2, <3>1, <3>2 DEF Matches
    <3> QED
      BY <1>7, <3>3
  <2> QED
    BY <2>1, <2>2
<1>9. ToSet(t) = Fetched(r)
  BY <1>2, <1>3 DEF Matches
<1> QED
  BY <1>2, <1>4, <1>8, <1>9 DEF Matches

LEMMA PushOne ==
  ASSUME NEW q \in Seq(Entries), NEW ev \in Seq(Events), Matches(q, ev),
         NEW e \in Entries, e.kind \in {"assign", "postponed"}, e \notin ToSet(q),
         NEW r, r = Append(q, e)
  PROVE  r \in Seq(Entries) /\ Matches(r, ev) /\ ToSet(r) = ToSet(q) \cup {e}
<1>1. r \in Seq(Entries) /\ ToSet(r) = ToSet(q) \cup {e}
  BY AppendMembers
<1>2. Fetched(r) = Fetched(q)
  BY <1>1 DEF Fetched
<1>3. Distinct(q) => Distinct(r)
  BY DistinctAppend
<1>4. \A f, g : Before(r, f, g) => Before(q, f, g) \/ g = e
  BY DistinctAppend
<1>5. ASSUME NEW f \in Fetched(r), NEW g \in Fetched(r), f.kind = "submit", g.kind = "submit",
             Before(r, f, g)
      PROVE  Before(ev, f, g)
  <2>1. g # e
    BY <1>5
  <2>2. Before(q, f, g)
    BY <1>4, <1>5, <2>1
  <2> QED
    BY <1>2, <1>5, <2>2 DEF Matches
<1> QED
  BY <1>1, <1>2, <1>3, <1>5 DEF Matches

LEMMA TakeBoth ==
  ASSUME NEW q \in Seq(Entries), NEW ev \in Seq(Events), Matches(q, ev), ev # <<>>,
         NEW r, r = RemoveFirst(q, Head(ev)), NEW t, t = Tail(ev)
  PROVE  /\ r \in Seq(Entries) /\ t \in Seq(Events) /\ Matches(r, t)
         /\ ToSet(r) = ToSet(q) \ {Head(ev)} /\ Head(ev) \in ToSet(q) /\ Head(ev) \in Events
<1>1. Head(ev) \in ToSet(ev) /\ Head(ev) \in Events /\ t \in Seq(Events)
  BY TailMembers
<1>2. Head(ev) \in ToSet(q) /\ Head(ev).kind \in {"submit", "reply"}
  BY <1>1 DEF Matches, Fetched
<1>3. /\ r \in Seq(Entries) /\ Distinct(r) /\ ToSet(r) = ToSet(q) \ {Head(ev)}
      /\ \A f, g : Before(r, f, g) => Before(q, f, g)
  BY DistinctRemoved DEF Matches
<1>4. /\ Distinct(t) /\ ToSet(t) = ToSet(ev) \ {Head(ev)}
      /\ \A f, g : Before(ev, f, g) /\ f # Head(ev) => Before(t, f, g)
  BY DistinctTail DEF Matches
<1>5. Fetched(r) = Fetched(q) \ {Head(ev)}
  BY <1>3 DEF Fetched
<1>6. ASSUME NEW f \in Fetched(r), NEW g \in Fetched(r), f.kind = "submit", g.kind = "submit",
             Before(r, f, g)
      PROVE  Before(t, f, g)
  <2>1. f \in Fetched(q) /\ g \in Fetched(q) /\ f # Head(ev)
    BY <1>5
  <2>2. Before(q, f, g)
    BY <1>3, <1>6
  <2>3. Before(ev, f, g)
    BY <1>6, <2>1, <2>2 DEF Matches
  <2> QED
    BY <1>4, <2>1, <2>3
<1>7. ToSet(t) = Fetched(r)
  BY <1>4, <1>5 DEF Matches
<1>8. Matches(r, t)
  BY <1>3, <1>4, <1>6, <1>7 DEF Matches
<1> QED
  BY <1>1, <1>2, <1>3, <1>8

LEMMA TakeOne ==
  ASSUME NEW q \in Seq(Entries), NEW ev \in Seq(Events), Matches(q, ev),
         NEW e, e.kind \in {"assign", "postponed"},
         NEW r, r = RemoveFirst(q, e)
  PROVE  r \in Seq(Entries) /\ Matches(r, ev) /\ ToSet(r) = ToSet(q) \ {e}
<1>1. /\ r \in Seq(Entries) /\ Distinct(r) /\ ToSet(r) = ToSet(q) \ {e}
      /\ \A f, g : Before(r, f, g) => Before(q, f, g)
  BY DistinctRemoved DEF Matches
<1>2. Fetched(r) = Fetched(q)
  BY <1>1 DEF Fetched
<1>3. ASSUME NEW f \in Fetched(r), NEW g \in Fetched(r), f.kind = "submit", g.kind = "submit",
             Before(r, f, g)
      PROVE  Before(ev, f, g)
  BY <1>1, <1>2, <1>3 DEF Matches
<1>4. Matches(r, ev)
  BY <1>1, <1>2, <1>3 DEF Matches
<1> QED
  BY <1>1, <1>4

(* The assigned entry of a command becomes the one of its reply.           *)
Changed(q, c) ==
  LET I == {i \in DOMAIN q : q[i].cmd = c}
  IN  IF I # {} THEN ReplaceAt(q, Min(I), Entry(c, "reply")) ELSE Append(q, Entry(c, "reply"))

LEMMA ChangeBoth ==
  ASSUME NEW q \in Seq(Entries), NEW ev \in Seq(Events), Matches(q, ev), NEW c \in Cmds,
         \A e \in ToSet(q) : e.cmd = c => e = Entry(c, "assign"),
         NEW r, r = Changed(q, c),
         NEW t, t = Append(ev, Entry(c, "reply"))
  PROVE  /\ r \in Seq(Entries) /\ t \in Seq(Events) /\ Matches(r, t)
         /\ ToSet(r) = (ToSet(q) \ {Entry(c, "assign")}) \cup {Entry(c, "reply")}
<1> DEFINE x == Entry(c, "reply")
           a == Entry(c, "assign")
<1>1. x \in Events /\ x \in Entries /\ a \in Entries /\ x # a /\ x.cmd = c /\ a.cmd = c
      /\ x.kind = "reply" /\ a.kind = "assign"
  BY DEF Entry, Events, Entries
<1>2. x \notin ToSet(q)
  BY <1>1
<1>3. PICK I : I = {i \in DOMAIN q : q[i].cmd = c}
  OBVIOUS
<1>4. r = IF I # {} THEN ReplaceAt(q, Min(I), x) ELSE Append(q, x)
  BY <1>3 DEF Changed
<1> HIDE DEF x, a
<1>5. CASE I = {}
  <2>1. r = Append(q, x)
    BY <1>4, <1>5
  <2>2. a \notin ToSet(q)
    BY <1>1, <1>3, <1>5 DEF ToSet
  <2>3. /\ r \in Seq(Entries) /\ t \in Seq(Events) /\ Matches(r, t)
        /\ ToSet(r) = ToSet(q) \cup {x}
    BY <1>1, <1>2, <2>1, PushBoth DEF x
  <2> QED
    BY <2>2, <2>3 DEF x, a
<1>6. CASE I # {}
  <2>1. PICK p \in DOMAIN q : p = Min(I) /\ q[p].cmd = c
    <3>1. I \in SUBSET Nat
      BY <1>3
    <3>2. Min(I) \in I
      BY <1>6, <3>1, LeastOf
    <3> QED
      BY <1>3, <3>2
  <2>2. q[p] = a
    BY <2>1 DEF ToSet, a
  <2>3. r = [q EXCEPT ![p] = x]
    BY <1>4, <1>6, <2>1 DEF ReplaceAt
  <2>4. /\ r \in Seq(Entries) /\ Distinct(r) /\ ToSet(r) = (ToSet(q) \ {q[p]}) \cup {x}
        /\ \A f, g : Before(r, f, g) /\ f # x /\ g # x => Before(q, f, g)
    <3>1. Distinct(q)
      BY DEF Matches
    <3>2. r \in Seq(Entries) /\ Distinct(r)
      BY <1>1, <1>2, <2>3, <3>1, DistinctReplaced
    <3>3. x \in Entries
      BY <1>1
    <3>4. \A e : e \in ToSet(r) <=> (e \in ToSet(q) /\ e # q[p]) \/ e = x
      BY <1>2, <2>3, <3>1, <3>3, DistinctReplaced
    <3>5. \A f, g : Before(r, f, g) /\ f # x /\ g # x => Before(q, f, g)
      BY <1>2, <2>3, <3>1, <3>3, ReplacedBefore
    <3> QED
      BY <3>2, <3>4, <3>5
  <2>5. t \in Seq(Events) /\ ToSet(t) = ToSet(ev) \cup {x}
    BY <1>1, AppendMembers DEF x
  <2>6. x \notin ToSet(ev)
    BY <1>2 DEF Matches, Fetched
  <2>7. Distinct(t) /\ \A f, g : Before(ev, f, g) => Before(t, f, g)
    <3>1. Distinct(ev) /\ t = Append(ev, x)
      BY DEF Matches, x
    <3>2. Distinct(t)
      BY <1>1, <2>6, <3>1, DistinctAppend
    <3>3. \A f, g : Before(ev, f, g) => Before(t, f, g)
      BY <1>1, <3>1, StillBefore
    <3> QED
      BY <3>2, <3>3
  <2>8. Fetched(r) = Fetched(q) \cup {x}
    BY <1>1, <2>2, <2>4 DEF Fetched
  <2>9. ASSUME NEW f \in Fetched(r), NEW g \in Fetched(r), f.kind = "submit", g.kind = "submit",
               Before(r, f, g)
        PROVE  Before(t, f, g)
    <3>1. f # x /\ g # x
      BY <1>1, <2>9
    <3>2. Before(q, f, g) /\ f \in Fetched(q) /\ g \in Fetched(q)
      BY <2>4, <2>8, <2>9, <3>1
    <3>3. Before(ev, f, g)
      BY <2>9, <3>2 DEF Matches
    <3> QED
      BY <2>7, <3>3
  <2>10. ToSet(t) = Fetched(r)
    BY <2>5, <2>8 DEF Matches
  <2>11. Matches(r, t)
    BY <2>4, <2>7, <2>9, <2>10 DEF Matches
  <2> QED
    BY <2>2, <2>4, <2>5, <2>11 DEF x, a
<1> QED
  BY <1>5, <1>6

-----------------------------------------------------------------------------
(* The stack of a thread.                                                  *)
LEMMA StackPush ==
  ASSUME NEW s \in Seq(FrameSet), Stacked(s), NEW f \in FrameSet, FrameRight(f),
         \A g \in ToSet(s) : ~Alike(g, f),
         f.kind = "exec" /\ f.cmd # NoCmd =>
           s # <<>> /\ Last(s).kind = "event" /\ Last(s).cmd # NoCmd,
         NEW t, t = Append(s, f)
  PROVE  t \in Seq(FrameSet) /\ Stacked(t) /\ ToSet(t) = ToSet(s) \cup {f}
         /\ t # <<>> /\ Last(t) = f
<1>1. /\ Len(s) \in Nat /\ DOMAIN s = 1..Len(s) /\ DOMAIN t = 1..Len(s) + 1
      /\ Len(t) = Len(s) + 1
      /\ \A i \in 1..Len(s) : t[i] = s[i]
      /\ t[Len(s) + 1] = f /\ t \in Seq(FrameSet) /\ ToSet(t) = ToSet(s) \cup {f} /\ t # <<>>
  BY AppendMembers
<1>2. Last(t) = f
  BY <1>1 DEF Last
<1>3. OneFrame(t)
  <2> SUFFICES ASSUME NEW i \in DOMAIN t, NEW j \in DOMAIN t, Alike(t[i], t[j]) PROVE i = j
    BY DEF OneFrame
  <2>1. \A k \in 1..Len(s) : ~Alike(s[k], f) /\ ~Alike(f, s[k])
    BY <1>1 DEF ToSet, Alike, Owning
  <2>2. i \in 1..Len(s) \/ i = Len(s) + 1
    BY <1>1
  <2>3. j \in 1..Len(s) \/ j = Len(s) + 1
    BY <1>1
  <2> QED
    BY <1>1, <2>1, <2>2, <2>3 DEF Stacked, OneFrame
<1>4. ExecInEvent(t)
  <2> SUFFICES ASSUME NEW i \in DOMAIN t, t[i].kind = "exec", t[i].cmd # NoCmd
               PROVE  i > 1 /\ t[i - 1].kind = "event" /\ t[i - 1].cmd # NoCmd
    BY DEF ExecInEvent
  <2>1. CASE i \in 1..Len(s)
    <3>1. i > 1 /\ s[i - 1].kind = "event" /\ s[i - 1].cmd # NoCmd
      BY <1>1, <2>1 DEF Stacked, ExecInEvent
    <3>2. i - 1 \in 1..Len(s)
      BY <1>1, <2>1, <3>1
    <3> QED
      BY <1>1, <3>1, <3>2
  <2>2. CASE i = Len(s) + 1
    <3>1. s # <<>> /\ Last(s).kind = "event" /\ Last(s).cmd # NoCmd
      BY <1>1, <2>2
    <3>2. Len(s) \in 1..Len(s) /\ Last(s) = s[Len(s)] /\ i - 1 = Len(s) /\ i > 1
      BY <1>1, <2>2, <3>1 DEF Last
    <3> QED
      BY <1>1, <3>1, <3>2
  <2> QED
    BY <1>1, <2>1, <2>2
<1>5. \A i \in DOMAIN t : FrameRight(t[i])
  BY <1>1 DEF Stacked
<1> QED
  BY <1>1, <1>2, <1>3, <1>4, <1>5 DEF Stacked

LEMMA StackPop ==
  ASSUME NEW s \in Seq(FrameSet), Stacked(s), s # <<>>, NEW t, t = Front(s)
  PROVE  /\ t \in Seq(FrameSet) /\ Stacked(t)
         /\ \A f : f \in ToSet(s) <=> f \in ToSet(t) \/ f = Last(s)
         /\ \A f \in ToSet(t) : ~Alike(f, Last(s))
         /\ Last(s) \in ToSet(s) /\ Last(s) \in FrameSet /\ FrameRight(Last(s))
<1>1. /\ Len(s) \in Nat \ {0} /\ DOMAIN s = 1..Len(s) /\ DOMAIN t = 1..Len(s) - 1
      /\ \A i \in 1..Len(s) - 1 : t[i] = s[i]
      /\ Last(s) = s[Len(s)] /\ Last(s) \in FrameSet /\ t \in Seq(FrameSet)
  BY FrontMembers
<1>2. DOMAIN s = (DOMAIN t) \cup {Len(s)} /\ Len(s) \notin DOMAIN t
  BY <1>1
<1>3. \A f : f \in ToSet(s) <=> f \in ToSet(t) \/ f = Last(s)
  BY <1>1, <1>2 DEF ToSet
<1>4. \A f \in ToSet(t) : ~Alike(f, Last(s))
  BY <1>1, <1>2 DEF ToSet, Stacked, OneFrame
<1>5. OneFrame(t) /\ \A i \in DOMAIN t : FrameRight(t[i])
  BY <1>1, <1>2 DEF Stacked, OneFrame
<1>6. ExecInEvent(t)
  <2> SUFFICES ASSUME NEW i \in DOMAIN t, t[i].kind = "exec", t[i].cmd # NoCmd
               PROVE  i > 1 /\ t[i - 1].kind = "event" /\ t[i - 1].cmd # NoCmd
    BY DEF ExecInEvent
  <2>1. i > 1 /\ s[i - 1].kind = "event" /\ s[i - 1].cmd # NoCmd
    BY <1>1, <1>2 DEF Stacked, ExecInEvent
  <2>2. i - 1 \in 1..Len(s) - 1
    BY <1>1, <2>1
  <2> QED
    BY <1>1, <2>1, <2>2
<1>7. FrameRight(Last(s))
  BY <1>1, <1>2 DEF Stacked
<1> QED
  BY <1>1, <1>3, <1>4, <1>5, <1>6, <1>7 DEF Stacked

-----------------------------------------------------------------------------
(* What a step changes: one stack, one queue with its events, one owner.   *)
LEMMA StackChange ==
  ASSUME AInv, NEW w \in Workers, NEW t \in Seq(FrameSet), Stacked(t), SetStack(w, t)
  PROVE  /\ stack' \in [Workers -> Seq(FrameSet)] /\ AllStacked'
         /\ stack'[w] = t /\ Frames(w)' = ToSet(t)
         /\ \A v \in Workers : v # w => stack'[v] = stack[v] /\ Frames(v)' = Frames(v)
<1>1. stack \in [Workers -> Seq(FrameSet)] /\ stack' = [stack EXCEPT ![w] = t]
  BY DEF AInv, TypeOK, SetStack
<1>2. /\ stack' \in [Workers -> Seq(FrameSet)] /\ stack'[w] = t
      /\ \A v \in Workers : v # w => stack'[v] = stack[v]
  BY <1>1
<1>3. Frames(w)' = ToSet(t) /\ \A v \in Workers : v # w => Frames(v)' = Frames(v)
  BY <1>2 DEF Frames
<1>4. AllStacked'
  BY <1>2 DEF AInv, AllStacked
<1> QED
  BY <1>2, <1>3, <1>4

LEMMA QueueChange ==
  ASSUME NEW Q \in [Workers -> Seq(Entries)], NEW V \in [Workers -> Seq(Events)],
         \A v \in Workers : Matches(Q[v], V[v]),
         NEW d \in Workers, NEW q \in Seq(Entries), NEW ev \in Seq(Events), Matches(q, ev),
         cmds' = [Q EXCEPT ![d] = q], events' = [V EXCEPT ![d] = ev]
  PROVE  /\ cmds' \in [Workers -> Seq(Entries)] /\ events' \in [Workers -> Seq(Events)]
         /\ EventsMatchQueue' /\ cmds'[d] = q
         /\ \A v \in Workers : v # d => cmds'[v] = Q[v]
<1>1. /\ cmds' \in [Workers -> Seq(Entries)] /\ events' \in [Workers -> Seq(Events)]
      /\ cmds'[d] = q /\ events'[d] = ev
      /\ \A v \in Workers : v # d => cmds'[v] = Q[v] /\ events'[v] = V[v]
  OBVIOUS
<1>2. EventsMatchQueue'
  BY <1>1 DEF EventsMatchQueue
<1> QED
  BY <1>1, <1>2

LEMMA Handover ==
  ASSUME OneOwner, NEW c,
         \A x \in Cmds : x # c => \A v \in Workers :
           /\ Queued(v, x)' => Queued(v, x)
           /\ Framed(v, x)' => Framed(v, x)
           /\ Kept(v, x)' => Kept(v, x),
         NEW h \in Workers,
         \/ \A v \in Workers : (Queued(v, c)' => v = h) /\ ~Framed(v, c)' /\ ~Kept(v, c)'
         \/ \A v \in Workers : (Framed(v, c)' => v = h) /\ ~Queued(v, c)' /\ ~Kept(v, c)'
         \/ \A v \in Workers : (Kept(v, c)' => v = h) /\ ~Queued(v, c)' /\ ~Framed(v, c)'
  PROVE  OneOwner'
<1> SUFFICES ASSUME NEW x \in Cmds, NEW v \in Workers, NEW w \in Workers
             PROVE  /\ Queued(v, x)' /\ Queued(w, x)' => v = w
                    /\ Framed(v, x)' /\ Framed(w, x)' => v = w
                    /\ Kept(v, x)' /\ Kept(w, x)' => v = w
                    /\ ~(Queued(v, x)' /\ Framed(w, x)') /\ ~(Queued(v, x)' /\ Kept(w, x)')
                    /\ ~(Framed(v, x)' /\ Kept(w, x)')
  BY DEF OneOwner
<1>1. CASE x = c
  BY <1>1
<1>2. CASE x # c
  BY <1>2 DEF OneOwner
<1> QED
  BY <1>1, <1>2

LEMMA SameOwner ==
  ASSUME OneOwner,
         \A x \in Cmds : \A v \in Workers :
           /\ Queued(v, x)' => Queued(v, x)
           /\ Framed(v, x)' => Framed(v, x)
           /\ Kept(v, x)' => Kept(v, x)
  PROVE  OneOwner'
BY DEF OneOwner

LEMMA StackOnly ==
  ASSUME AInv, NEW w \in Workers, NEW t \in Seq(FrameSet), Stacked(t), SetStack(w, t),
         UNCHANGED <<used, cmds, events, held>>,
         \A f \in ToSet(t) : f.cmd \in Cmds =>
           (Owning(f) => Framed(w, f.cmd)) /\ (f.kind = "wait" => Waits(w, f.cmd)),
         CallsTyped', FreshCalls', LivesTyped'
  PROVE  AInv'
<1>1. /\ stack' \in [Workers -> Seq(FrameSet)] /\ AllStacked'
      /\ Frames(w)' = ToSet(t)
      /\ \A v \in Workers : v # w => Frames(v)' = Frames(v)
  BY StackChange
<1>2. TypeOK'
  BY <1>1 DEF AInv, TypeOK, CallsTyped, LivesTyped
<1>3. ASSUME NEW x \in Cmds, NEW v \in Workers
      PROVE  /\ Queued(v, x)' => Queued(v, x)
             /\ Framed(v, x)' => Framed(v, x)
             /\ Kept(v, x)' => Kept(v, x)
             /\ Waits(v, x)' => Waits(v, x)
  <2>1. Queued(v, x)' = Queued(v, x) /\ Kept(v, x)' = Kept(v, x)
    BY DEF Queued, Kept
  <2>2. CASE v = w
    BY <1>1, <2>1, <2>2 DEF Framed, Waits, Owning
  <2>3. CASE v # w
    BY <1>1, <2>1, <2>3 DEF Framed, Waits
  <2> QED
    BY <2>2, <2>3
<1>4. OneOwner'
  BY <1>3, SameOwner DEF AInv
<1>5. OneCaller'
  BY <1>3 DEF AInv, OneCaller
<1>6. FreshRoles'
  BY <1>3 DEF AInv, FreshRoles
<1>7. OneEntries' /\ EventsMatchQueue'
  BY DEF AInv, OneEntries, EventsMatchQueue
<1> QED
  BY <1>1, <1>2, <1>4, <1>5, <1>6, <1>7 DEF AInv

-----------------------------------------------------------------------------
(* Steps that only change the top of a stack.                              *)
LEMMA PopFacts ==
  ASSUME AInv, NEW w \in Workers, stack[w] # <<>>
  PROVE  /\ stack[w] \in Seq(FrameSet) /\ Stacked(stack[w])
         /\ Pop(w) \in Seq(FrameSet) /\ Stacked(Pop(w))
         /\ Top(w) \in FrameSet /\ FrameRight(Top(w)) /\ Top(w) \in Frames(w)
         /\ \A f \in ToSet(Pop(w)) : f \in Frames(w) /\ ~Alike(f, Top(w))
         /\ \A f \in Frames(w) : f \in ToSet(Pop(w)) \/ f = Top(w)
<1>1. stack[w] \in Seq(FrameSet) /\ Stacked(stack[w])
  BY DEF AInv, TypeOK, AllStacked
<1>2. PICK s \in Seq(FrameSet) : s = stack[w] /\ Stacked(s) /\ s # <<>>
  BY <1>1
<1>3. PICK t : t = Front(s)
  OBVIOUS
<1>4. /\ t \in Seq(FrameSet) /\ Stacked(t)
      /\ Last(s) \in ToSet(s) /\ Last(s) \in FrameSet /\ FrameRight(Last(s))
  BY <1>2, <1>3, StackPop
<1>5. /\ \A f : f \in ToSet(s) <=> f \in ToSet(t) \/ f = Last(s)
      /\ \A f \in ToSet(t) : ~Alike(f, Last(s))
  BY <1>2, <1>3, StackPop
<1> QED
  BY <1>1, <1>2, <1>3, <1>4, <1>5 DEF Pop, Top, Frames

LEMMA PopOnly ==
  ASSUME AInv, NEW w \in Workers, stack[w] # <<>>, SetStack(w, Pop(w)),
         UNCHANGED <<used, cmds, events, held>>,
         CallsTyped', FreshCalls', LivesTyped'
  PROVE  AInv'
<1>1. Pop(w) \in Seq(FrameSet) /\ Stacked(Pop(w)) /\ \A f \in ToSet(Pop(w)) : f \in Frames(w)
  BY PopFacts
<1>2. \A f \in ToSet(Pop(w)) : f.cmd \in Cmds =>
        (Owning(f) => Framed(w, f.cmd)) /\ (f.kind = "wait" => Waits(w, f.cmd))
  BY <1>1 DEF Framed, Waits, Owning
<1> QED
  BY <1>1, <1>2, StackOnly

(* A frame that owns a command turns into the one of its reply.            *)
LEMMA BecomeFacts ==
  ASSUME AInv, NEW w \in Workers, stack[w] # <<>>, Owning(Top(w)), Top(w).cmd \in Cmds,
         NEW f \in FrameSet, f.kind = "reply", f.cmd = Top(w).cmd
  PROVE  /\ Become(w, f) \in Seq(FrameSet) /\ Stacked(Become(w, f))
         /\ ToSet(Become(w, f)) = ToSet(Pop(w)) \cup {f}
<1>1. /\ Pop(w) \in Seq(FrameSet) /\ Stacked(Pop(w))
      /\ \A g \in ToSet(Pop(w)) : ~Alike(g, Top(w))
  BY PopFacts
<1>2. f.cmd # NoCmd /\ FrameRight(f)
  BY CallAssumption DEF FrameRight
<1>3. \A g \in ToSet(Pop(w)) : ~Alike(g, f)
  BY <1>1, <1>2 DEF Alike, Owning
<1>4. PICK s \in Seq(FrameSet) : s = Pop(w) /\ Stacked(s)
  BY <1>1
<1>5. PICK t : t = Append(s, f)
  OBVIOUS
<1>6. t \in Seq(FrameSet) /\ Stacked(t) /\ ToSet(t) = ToSet(s) \cup {f}
  BY <1>2, <1>3, <1>4, <1>5, StackPush
<1> QED
  BY <1>4, <1>5, <1>6 DEF Become

LEMMA BecomeOnly ==
  ASSUME AInv, NEW w \in Workers, stack[w] # <<>>, Owning(Top(w)), Top(w).cmd \in Cmds,
         NEW f \in FrameSet, f.kind = "reply", f.cmd = Top(w).cmd,
         SetStack(w, Become(w, f)), UNCHANGED <<used, cmds, events, held>>,
         CallsTyped', FreshCalls', LivesTyped'
  PROVE  AInv'
<1>1. /\ Become(w, f) \in Seq(FrameSet) /\ Stacked(Become(w, f))
      /\ \A g \in ToSet(Become(w, f)) : g \in ToSet(Pop(w)) \/ g = f
  BY BecomeFacts
<1>2. Top(w) \in Frames(w) /\ \A g \in ToSet(Pop(w)) : g \in Frames(w)
  BY PopFacts
<1>3. \A g \in ToSet(Become(w, f)) : g.cmd \in Cmds =>
        (Owning(g) => Framed(w, g.cmd)) /\ (g.kind = "wait" => Waits(w, g.cmd))
  BY <1>1, <1>2 DEF Framed, Waits, Owning
<1> QED
  BY <1>1, <1>3, StackOnly

LEMMA FrameFacts ==
  ASSUME NEW k \in {"event", "exec", "wait", "reply"}, NEW c \in Cmds \cup {NoCmd}
  PROVE  /\ Frame(k, c) \in FrameSet /\ Frame(k, c).kind = k /\ Frame(k, c).cmd = c
         /\ Frame(k, c).rec = NoRec
         /\ (k \in {"event", "exec"} \/ c \in Cmds) => FrameRight(Frame(k, c))
BY CallAssumption DEF Frame, FrameSet, FrameRight

LEMMA EntryFacts ==
  ASSUME NEW c \in Cmds, NEW k \in {"submit", "postponed", "assign", "reply"}
  PROVE  /\ Entry(c, k) \in Entries /\ Entry(c, k).cmd = c /\ Entry(c, k).kind = k
         /\ k \in {"submit", "reply"} => Entry(c, k) \in Events
         /\ \A e \in Entries : e.cmd = c /\ e.kind = k => e = Entry(c, k)
BY DEF Entry, Entries, Events

LEMMA CallsSame ==
  ASSUME AInv, UNCHANGED <<used, callers, exeReady, result>>
  PROVE  CallsTyped' /\ FreshCalls'
BY DEF AInv, TypeOK, CallsTyped, FreshCalls

LEMMA LivesSame ==
  ASSUME AInv, UNCHANGED lives
  PROVE  LivesTyped'
BY DEF AInv, TypeOK, LivesTyped, lives

-----------------------------------------------------------------------------
(* A step of one command: the others stay where they are.                  *)
LEMMA Moved ==
  ASSUME AInv, NEW c \in Cmds, c \in used', used \subseteq used',
         \A v \in Workers : \A e \in ToSet(cmds'[v]) : e.cmd # c => e \in ToSet(cmds[v]),
         \A v \in Workers : \A f \in Frames(v)' : f.cmd \in Cmds /\ f.cmd # c => f \in Frames(v),
         \A v \in Workers : held'[v] \subseteq held[v] \cup {c},
         \A v \in Workers : \A e, f \in ToSet(cmds'[v]) :
           e.cmd = c /\ f.cmd = c /\ (e.kind = "assign" <=> f.kind = "assign") => e = f,
         NEW h \in Workers,
         \/ \A v \in Workers : (Queued(v, c)' => v = h) /\ ~Framed(v, c)' /\ ~Kept(v, c)'
         \/ \A v \in Workers : (Framed(v, c)' => v = h) /\ ~Queued(v, c)' /\ ~Kept(v, c)'
         \/ \A v \in Workers : (Kept(v, c)' => v = h) /\ ~Queued(v, c)' /\ ~Framed(v, c)',
         NEW u \in Workers,
         \A v \in Workers : Waits(v, c)' => Waits(v, c) \/ (v = u /\ c \notin used)
  PROVE  OneOwner' /\ OneCaller' /\ OneEntries' /\ FreshRoles'
<1>1. ASSUME NEW x \in Cmds, x # c, NEW v \in Workers
      PROVE  /\ Queued(v, x)' => Queued(v, x)
             /\ Framed(v, x)' => Framed(v, x)
             /\ Kept(v, x)' => Kept(v, x)
             /\ Waits(v, x)' => Waits(v, x)
             /\ \A e \in ToSet(cmds'[v]) : e.cmd = x => e \in ToSet(cmds[v])
  BY <1>1 DEF Queued, Framed, Kept, Waits
<1>2. OneOwner'
  <2>1. OneOwner
    BY DEF AInv
  <2>2. \A x \in Cmds : x # c => \A v \in Workers :
          (Queued(v, x)' => Queued(v, x)) /\ (Framed(v, x)' => Framed(v, x))
          /\ (Kept(v, x)' => Kept(v, x))
    BY <1>1
  <2> QED
    BY <2>1, <2>2, Handover
<1>3. OneCaller'
  <2> SUFFICES ASSUME NEW x \in Cmds, NEW v \in Workers, NEW w \in Workers,
                      Waits(v, x)', Waits(w, x)'
               PROVE  v = w
    BY DEF OneCaller
  <2>1. CASE x # c
    BY <1>1, <2>1 DEF AInv, OneCaller
  <2>2. CASE x = c /\ c \in used
    BY <2>2 DEF AInv, OneCaller
  <2>3. CASE x = c /\ c \notin used
    <3>1. ~Waits(v, c) /\ ~Waits(w, c)
      BY <2>3 DEF AInv, FreshRoles
    <3> QED
      BY <2>3, <3>1
  <2> QED
    BY <2>1, <2>2, <2>3
<1>4. OneEntries'
  <2> SUFFICES ASSUME NEW v \in Workers, NEW e \in ToSet(cmds'[v]), NEW f \in ToSet(cmds'[v]),
                      e.cmd = f.cmd, e.kind = "assign" <=> f.kind = "assign"
               PROVE  e = f
    BY DEF OneEntries
  <2>1. CASE e.cmd = c
    BY <2>1
  <2>2. CASE e.cmd # c
    BY <2>2 DEF AInv, OneEntries
  <2> QED
    BY <2>1, <2>2
<1>5. FreshRoles'
  BY <1>1 DEF AInv, FreshRoles
<1> QED
  BY <1>2, <1>3, <1>4, <1>5

(* Where the commands are: at an owner there is no other owner, and a      *)
(* command that has one is created.                                        *)
LEMMA OwnerAlone ==
  ASSUME AInv, NEW c \in Cmds, NEW w \in Workers
  PROVE  /\ Queued(w, c) => c \in used /\ \A v \in Workers :
              (Queued(v, c) => v = w) /\ ~Framed(v, c) /\ ~Kept(v, c)
         /\ Framed(w, c) => c \in used /\ \A v \in Workers :
              (Framed(v, c) => v = w) /\ ~Queued(v, c) /\ ~Kept(v, c)
         /\ Kept(w, c) => c \in used /\ \A v \in Workers :
              (Kept(v, c) => v = w) /\ ~Queued(v, c) /\ ~Framed(v, c)
<1>1. c \notin used => ~Queued(w, c) /\ ~Framed(w, c) /\ ~Kept(w, c)
  BY DEF AInv, FreshRoles, Queued
<1> QED
  BY <1>1 DEF AInv, OneOwner

LEMMA Parts ==
  ASSUME AInv, NEW w \in Workers
  PROVE  /\ cmds \in [Workers -> Seq(Entries)] /\ events \in [Workers -> Seq(Events)]
         /\ stack \in [Workers -> Seq(FrameSet)] /\ held \in [Workers -> SUBSET Cmds]
         /\ cmds[w] \in Seq(Entries) /\ events[w] \in Seq(Events)
         /\ Matches(cmds[w], events[w])
         /\ stack[w] \in Seq(FrameSet) /\ Stacked(stack[w])
BY DEF AInv, TypeOK, EventsMatchQueue, AllStacked

LEMMA Collected ==
  ASSUME CallsTyped', LivesTyped', FreshCalls',
         cmds' \in [Workers -> Seq(Entries)], events' \in [Workers -> Seq(Events)],
         EventsMatchQueue', stack' \in [Workers -> Seq(FrameSet)], AllStacked',
         held' \in [Workers -> SUBSET Cmds],
         OneOwner' /\ OneCaller' /\ OneEntries' /\ FreshRoles'
  PROVE  AInv'
BY DEF AInv, TypeOK, CallsTyped, LivesTyped

-----------------------------------------------------------------------------
(* ProcessCommand of the command of an entry that was just taken.          *)
Processed(w, c, s, q) ==
  \/ ToSet(cmds'[w]) = ToSet(q) /\ Frames(w)' = ToSet(s) /\ life[w] # "normal"
  \/ /\ ToSet(cmds'[w]) = ToSet(q) \cup {Entry(c, "postponed")}
     /\ Frames(w)' = ToSet(s) /\ Level(w)
  \/ /\ ToSet(cmds'[w]) = ToSet(q)
     /\ Frames(w)' = ToSet(s) \cup {Frame("exec", c)} /\ life[w] = "normal"

LEMMA ProcessEffect ==
  ASSUME AInv, NEW w \in Workers, NEW c \in Cmds, NEW k \in {"submit", "postponed"},
         Entry(c, k) \in ToSet(cmds[w]),
         NEW q \in Seq(Entries), NEW ev \in Seq(Events), Matches(q, ev),
         ToSet(q) = ToSet(cmds[w]) \ {Entry(c, k)},
         events' = [events EXCEPT ![w] = ev],
         NEW s \in Seq(FrameSet), Stacked(s), s # <<>>,
         Last(s).kind = "event", Last(s).cmd # NoCmd,
         \A f \in ToSet(s) : f \in Frames(w) \/ f = Frame("event", c),
         ProcessCommand(w, c, s, q)
  PROVE  /\ cmds' \in [Workers -> Seq(Entries)] /\ events' \in [Workers -> Seq(Events)]
         /\ EventsMatchQueue'
         /\ stack' \in [Workers -> Seq(FrameSet)] /\ AllStacked'
         /\ \A v \in Workers : v # w => cmds'[v] = cmds[v] /\ Frames(v)' = Frames(v)
         /\ Processed(w, c, s, q)
<1>1. /\ cmds \in [Workers -> Seq(Entries)] /\ events \in [Workers -> Seq(Events)]
      /\ \A v \in Workers : Matches(cmds[v], events[v])
  BY DEF AInv, TypeOK, EventsMatchQueue
<1>2. \A x \in ToSet(q) : x.cmd # c \/ x.kind = "assign"
  <2>1. \A x \in ToSet(cmds[w]) : x.cmd = c /\ x.kind # "assign" => x = Entry(c, k)
    BY DEF AInv, OneEntries, Entry
  <2> QED
    BY <2>1
<1>3. \A f \in ToSet(s) : ~(f.cmd = c /\ Owning(f))
  <2>1. Queued(w, c)
    BY DEF Queued, Entry
  <2>2. ~Framed(w, c)
    BY <2>1, OwnerAlone
  <2> QED
    BY <2>2 DEF Framed, Owning, Frame
<1>4. CASE SetStack(w, s) /\ cmds' = [cmds EXCEPT ![w] = q] /\ life[w] # "normal"
  <2>1. /\ cmds' \in [Workers -> Seq(Entries)] /\ events' \in [Workers -> Seq(Events)]
        /\ EventsMatchQueue' /\ cmds'[w] = q
        /\ \A v \in Workers : v # w => cmds'[v] = cmds[v]
    BY <1>1, <1>4, QueueChange
  <2>2. /\ stack' \in [Workers -> Seq(FrameSet)] /\ AllStacked' /\ Frames(w)' = ToSet(s)
        /\ \A v \in Workers : v # w => Frames(v)' = Frames(v)
    BY <1>4, StackChange
  <2> QED
    BY <1>4, <2>1, <2>2 DEF Processed
<1>5. CASE /\ SetStack(w, s) /\ Level(w)
           /\ cmds' = [cmds EXCEPT ![w] = Append(q, Entry(c, "postponed"))]
  <2>1. PICK r : r = Append(q, Entry(c, "postponed"))
    OBVIOUS
  <2>2. r \in Seq(Entries) /\ Matches(r, ev) /\ ToSet(r) = ToSet(q) \cup {Entry(c, "postponed")}
    <3>1. PICK e \in Entries : e = Entry(c, "postponed") /\ e.kind = "postponed" /\ e.cmd = c
      BY EntryFacts
    <3>2. e \notin ToSet(q)
      BY <1>2, <3>1
    <3> QED
      BY <2>1, <3>1, <3>2, PushOne
  <2>3. /\ cmds' \in [Workers -> Seq(Entries)] /\ events' \in [Workers -> Seq(Events)]
        /\ EventsMatchQueue' /\ cmds'[w] = r
        /\ \A v \in Workers : v # w => cmds'[v] = cmds[v]
    BY <1>1, <1>5, <2>1, <2>2, QueueChange
  <2>4. /\ stack' \in [Workers -> Seq(FrameSet)] /\ AllStacked' /\ Frames(w)' = ToSet(s)
        /\ \A v \in Workers : v # w => Frames(v)' = Frames(v)
    BY <1>5, StackChange
  <2> QED
    BY <1>5, <2>2, <2>3, <2>4 DEF Processed
<1>6. CASE /\ SetStack(w, Append(s, Frame("exec", c))) /\ cmds' = [cmds EXCEPT ![w] = q]
           /\ life[w] = "normal"
  <2>1. PICK t : t = Append(s, Frame("exec", c))
    OBVIOUS
  <2>2. t \in Seq(FrameSet) /\ Stacked(t) /\ ToSet(t) = ToSet(s) \cup {Frame("exec", c)}
    <3>1. PICK f \in FrameSet : f = Frame("exec", c) /\ FrameRight(f) /\ f.cmd = c /\ f.kind = "exec"
      BY FrameFacts
    <3>2. \A g \in ToSet(s) : ~Alike(g, f)
      BY <1>3, <3>1 DEF Alike, Owning
    <3> QED
      BY <2>1, <3>1, <3>2, StackPush
  <2>3. /\ cmds' \in [Workers -> Seq(Entries)] /\ events' \in [Workers -> Seq(Events)]
        /\ EventsMatchQueue' /\ cmds'[w] = q
        /\ \A v \in Workers : v # w => cmds'[v] = cmds[v]
    BY <1>1, <1>6, QueueChange
  <2>4. /\ stack' \in [Workers -> Seq(FrameSet)] /\ AllStacked' /\ Frames(w)' = ToSet(t)
        /\ \A v \in Workers : v # w => Frames(v)' = Frames(v)
    BY <1>6, <2>1, <2>2, StackChange
  <2> QED
    BY <1>6, <2>2, <2>3, <2>4 DEF Processed
<1> QED
  BY <1>4, <1>5, <1>6 DEF ProcessCommand

LEMMA ProcessStep ==
  ASSUME AInv, NEW w \in Workers, NEW c \in Cmds, NEW k \in {"submit", "postponed"},
         Entry(c, k) \in ToSet(cmds[w]),
         NEW q \in Seq(Entries), NEW ev \in Seq(Events), Matches(q, ev),
         ToSet(q) = ToSet(cmds[w]) \ {Entry(c, k)},
         events' = [events EXCEPT ![w] = ev],
         NEW s \in Seq(FrameSet), Stacked(s), s # <<>>,
         Last(s).kind = "event", Last(s).cmd # NoCmd,
         \A f \in ToSet(s) : f \in Frames(w) \/ f = Frame("event", c),
         ProcessCommand(w, c, s, q), UNCHANGED <<calls, held, lives>>
  PROVE  AInv'
<1>1. /\ cmds' \in [Workers -> Seq(Entries)] /\ events' \in [Workers -> Seq(Events)]
      /\ EventsMatchQueue'
      /\ stack' \in [Workers -> Seq(FrameSet)] /\ AllStacked'
  BY ProcessEffect
<1>2. \A v \in Workers : v # w => cmds'[v] = cmds[v] /\ Frames(v)' = Frames(v)
  BY ProcessEffect
<1>3. \/ ToSet(cmds'[w]) = ToSet(q) /\ Frames(w)' = ToSet(s)
      \/ ToSet(cmds'[w]) = ToSet(q) \cup {Entry(c, "postponed")} /\ Frames(w)' = ToSet(s)
      \/ ToSet(cmds'[w]) = ToSet(q) /\ Frames(w)' = ToSet(s) \cup {Frame("exec", c)}
  <2>1. Processed(w, c, s, q)
    BY ProcessEffect
  <2> QED
    BY <2>1 DEF Processed
<1>4. PICK p, x : /\ p = Entry(c, "postponed") /\ p.cmd = c /\ p.kind = "postponed"
                  /\ x = Frame("exec", c) /\ x.cmd = c /\ x.kind = "exec"
  BY EntryFacts, FrameFacts
<1>5. \A e \in ToSet(q) : e \in ToSet(cmds[w]) /\ (e.cmd = c => e.kind = "assign")
  <2>1. \A e \in ToSet(cmds[w]) : e.cmd = c /\ e.kind # "assign" => e = Entry(c, k)
    BY DEF AInv, OneEntries, Entry
  <2> QED
    BY <2>1
<1>6. /\ c \in used
      /\ \A v \in Workers : (Queued(v, c) => v = w) /\ ~Framed(v, c) /\ ~Kept(v, c)
  <2>1. Queued(w, c)
    BY DEF Queued, Entry
  <2> QED
    BY <2>1, OwnerAlone
<1>7. \A f \in ToSet(s) : f \in Frames(w) \/ (f.cmd = c /\ f.kind = "event")
  BY DEF Frame
<1>8. \A v \in Workers : \A e \in ToSet(cmds'[v]) :
        e \in ToSet(cmds[v]) \/ (v = w /\ e = p)
  BY <1>2, <1>3, <1>4, <1>5
<1>9. \A v \in Workers : \A f \in Frames(v)' :
        f \in Frames(v) \/ (v = w /\ (f = x \/ (f.cmd = c /\ f.kind = "event")))
  BY <1>2, <1>3, <1>4, <1>7
<1>10. UNCHANGED <<used, held>>
  BY DEF calls
<1>11. \A v \in Workers : \A e, f \in ToSet(cmds'[v]) :
         e.cmd = c /\ f.cmd = c /\ (e.kind = "assign" <=> f.kind = "assign") => e = f
  <2> SUFFICES ASSUME NEW v \in Workers, NEW e \in ToSet(cmds'[v]), NEW f \in ToSet(cmds'[v]),
                      e.cmd = c, f.cmd = c, e.kind = "assign" <=> f.kind = "assign"
               PROVE  e = f
    OBVIOUS
  <2>1. CASE v # w
    BY <1>2, <2>1 DEF AInv, OneEntries
  <2>2. CASE v = w
    <3>1. (e \in ToSet(q) \/ e = p) /\ (f \in ToSet(q) \/ f = p)
      BY <1>3, <1>4, <2>2
    <3>2. CASE e \in ToSet(q) /\ f \in ToSet(q)
      BY <1>5, <2>2, <3>2 DEF AInv, OneEntries
    <3> QED
      BY <1>4, <1>5, <3>1, <3>2
  <2> QED
    BY <2>1, <2>2
<1>12. ~Kept(w, c)' /\ \A v \in Workers : ~Kept(v, c)' /\ (Waits(v, c)' => Waits(v, c))
  <2>1. \A v \in Workers : ~Kept(v, c)'
    BY <1>6, <1>10 DEF Kept
  <2>2. \A v \in Workers : Waits(v, c)' => Waits(v, c)
    BY <1>4, <1>9 DEF Waits
  <2> QED
    BY <2>1, <2>2
<1>13. \/ \A v \in Workers : (Queued(v, c)' => v = w) /\ ~Framed(v, c)'
       \/ \A v \in Workers : (Framed(v, c)' => v = w) /\ ~Queued(v, c)'
  <2>1. \A v \in Workers : (Queued(v, c)' => v = w) /\ (Framed(v, c)' => v = w)
    BY <1>2, <1>6 DEF Queued, Framed
  <2>2. CASE Frames(w)' = ToSet(s)
    <3>1. ~Framed(w, c)'
      BY <1>6, <1>7, <2>2 DEF Framed
    <3> QED
      BY <2>1, <3>1
  <2>3. CASE ToSet(cmds'[w]) = ToSet(q)
    <3>1. ~Queued(w, c)'
      BY <1>5, <2>3 DEF Queued
    <3> QED
      BY <2>1, <3>1
  <2> QED
    BY <1>3, <2>2, <2>3
<1>14. OneOwner' /\ OneCaller' /\ OneEntries' /\ FreshRoles'
  <2>1. c \in used' /\ used \subseteq used' /\ \A v \in Workers : held'[v] \subseteq held[v] \cup {c}
    BY <1>6, <1>10
  <2>2. /\ \A v \in Workers : \A e \in ToSet(cmds'[v]) : e.cmd # c => e \in ToSet(cmds[v])
        /\ \A v \in Workers : \A f \in Frames(v)' : f.cmd \in Cmds /\ f.cmd # c => f \in Frames(v)
    BY <1>4, <1>8, <1>9
  <2>3. \A v \in Workers : Waits(v, c)' => Waits(v, c) \/ (v = w /\ c \notin used)
    BY <1>12
  <2>4. \/ \A v \in Workers : (Queued(v, c)' => v = w) /\ ~Framed(v, c)' /\ ~Kept(v, c)'
        \/ \A v \in Workers : (Framed(v, c)' => v = w) /\ ~Queued(v, c)' /\ ~Kept(v, c)'
        \/ \A v \in Workers : (Kept(v, c)' => v = w) /\ ~Queued(v, c)' /\ ~Framed(v, c)'
    BY <1>12, <1>13
  <2> QED
    BY <1>11, <2>1, <2>2, <2>3, <2>4, Moved
<1>15. CallsTyped' /\ FreshCalls' /\ LivesTyped' /\ held' \in [Workers -> SUBSET Cmds]
  BY CallsSame, LivesSame, Parts DEF calls
<1> QED
  BY <1>1, <1>14, <1>15, Collected

-----------------------------------------------------------------------------
(* The two steps that process a command of the queue: in the event that    *)
(* was fired for it, and at the end of the event of another one.           *)
Processing(w, c, k, q, ev, s) ==
  /\ Entry(c, k) \in ToSet(cmds[w]) /\ ToSet(q) = ToSet(cmds[w]) \ {Entry(c, k)}
  /\ Matches(q, ev) /\ events' = [events EXCEPT ![w] = ev]
  /\ Stacked(s) /\ s # <<>> /\ Last(s).kind = "event" /\ Last(s).cmd # NoCmd
  /\ \A f \in ToSet(s) : f \in Frames(w) \/ f = Frame("event", c)
  /\ \A f \in Frames(w) : f \in ToSet(s)
  /\ ProcessCommand(w, c, s, q)
  /\ UNCHANGED <<calls, held, lives>>

LEMMA SubmitIsProcessed ==
  ASSUME AInv, NEW w \in Workers, SubmitEvent(w)
  PROVE  \E c \in Cmds : \E q \in Seq(Entries), ev \in Seq(Events), s \in Seq(FrameSet) :
           Processing(w, c, "submit", q, ev, s)
<1>1. /\ cmds[w] \in Seq(Entries) /\ events[w] \in Seq(Events) /\ Matches(cmds[w], events[w])
      /\ stack[w] \in Seq(FrameSet) /\ Stacked(stack[w])
  BY Parts
<1>2. PICK c : c = Head(events[w]).cmd
  OBVIOUS
<1>3. /\ events[w] # <<>> /\ Head(events[w]).kind = "submit"
      /\ events' = [events EXCEPT ![w] = Tail(events[w])]
      /\ ProcessCommand(w, c, Push(w, Frame("event", c)), Without(w, c, "submit"))
      /\ UNCHANGED <<calls, held, lives>>
  BY <1>2 DEF SubmitEvent
<1>4. PICK u \in Seq(Entries) : u = cmds[w]
  BY <1>1
<1>5. PICK a \in Seq(Events) : a = events[w] /\ a # <<>> /\ Matches(u, a)
  BY <1>1, <1>3, <1>4
<1>6. PICK q, ev : q = RemoveFirst(u, Head(a)) /\ ev = Tail(a)
  OBVIOUS
<1>7. /\ q \in Seq(Entries) /\ ev \in Seq(Events) /\ Matches(q, ev)
      /\ ToSet(q) = ToSet(u) \ {Head(a)} /\ Head(a) \in ToSet(u) /\ Head(a) \in Events
  BY <1>4, <1>5, <1>6, TakeBoth
<1>8. c \in Cmds /\ Head(a) = Entry(c, "submit")
  BY <1>2, <1>3, <1>5, <1>7 DEF Events, Entry
<1>9. q = Without(w, c, "submit")
  BY <1>4, <1>6, <1>8 DEF Without
<1>10. PICK f \in FrameSet : /\ f = Frame("event", c) /\ FrameRight(f)
                            /\ f.kind = "event" /\ f.cmd = c
  BY <1>8, FrameFacts
<1>11. PICK r \in Seq(FrameSet) : r = stack[w] /\ Stacked(r)
  BY <1>1
<1>12. PICK s : s = Append(r, f)
  OBVIOUS
<1>13. /\ s \in Seq(FrameSet) /\ Stacked(s) /\ ToSet(s) = ToSet(r) \cup {f}
       /\ s # <<>> /\ Last(s) = f
  <2>1. \A g \in ToSet(r) : ~Alike(g, f)
    BY <1>10 DEF Alike, Owning
  <2> QED
    BY <1>10, <1>11, <1>12, <2>1, StackPush
<1>14. s = Push(w, Frame("event", c))
  BY <1>10, <1>11, <1>12 DEF Push
<1>15. c # NoCmd
  BY <1>8, CallAssumption
<1>16. Processing(w, c, "submit", q, ev, s)
  <2>1. /\ Entry(c, "submit") \in ToSet(cmds[w])
        /\ ToSet(q) = ToSet(cmds[w]) \ {Entry(c, "submit")}
        /\ Matches(q, ev) /\ events' = [events EXCEPT ![w] = ev]
    BY <1>3, <1>4, <1>5, <1>6, <1>7, <1>8
  <2>2. /\ Stacked(s) /\ s # <<>> /\ Last(s).kind = "event" /\ Last(s).cmd # NoCmd
        /\ \A g \in ToSet(s) : g \in Frames(w) \/ g = Frame("event", c)
        /\ \A g \in Frames(w) : g \in ToSet(s)
    BY <1>10, <1>11, <1>13, <1>15 DEF Frames
  <2>3. ProcessCommand(w, c, s, q)
    BY <1>3, <1>9, <1>14
  <2> QED
    BY <1>3, <2>1, <2>2, <2>3 DEF Processing
<1> QED
  BY <1>7, <1>8, <1>13, <1>16

LEMMA PostponedIsProcessed ==
  ASSUME AInv, NEW w \in Workers, NextPostponed(w)
  PROVE  \E c \in Cmds : \E q \in Seq(Entries), ev \in Seq(Events), s \in Seq(FrameSet) :
           Processing(w, c, "postponed", q, ev, s)
<1>1. /\ cmds[w] \in Seq(Entries) /\ events[w] \in Seq(Events) /\ Matches(cmds[w], events[w])
      /\ stack[w] \in Seq(FrameSet) /\ Stacked(stack[w]) /\ events \in [Workers -> Seq(Events)]
  BY Parts
<1>2. PICK I : I = Postponed(w)
  OBVIOUS
<1>3. PICK i \in DOMAIN cmds[w] : i = Min(I) /\ cmds[w][i].kind = "postponed"
  <2>1. I # {} /\ I \in SUBSET Nat
    BY <1>1, <1>2 DEF NextPostponed, Postponed
  <2>2. Min(I) \in I
    BY <2>1, LeastOf
  <2> QED
    BY <1>2, <2>2 DEF Postponed
<1>4. PICK c : c = cmds[w][i].cmd
  OBVIOUS
<1>5. /\ stack[w] # <<>> /\ Top(w).kind = "event" /\ Top(w).cmd # NoCmd
      /\ ProcessCommand(w, c, stack[w], Without(w, c, "postponed"))
      /\ UNCHANGED <<calls, events, held, lives>>
  BY <1>2, <1>3, <1>4 DEF NextPostponed, TopIs
<1>6. c \in Cmds /\ cmds[w][i] = Entry(c, "postponed")
  <2>1. cmds[w][i] \in Entries
    BY <1>1
  <2> QED
    BY <1>3, <1>4, <2>1 DEF Entries, Entry
<1>7. Entry(c, "postponed") \in ToSet(cmds[w])
  BY <1>6 DEF ToSet
<1>8. PICK e : e = Entry(c, "postponed") /\ e.kind = "postponed"
  BY <1>6, EntryFacts
<1>9. PICK q : q = RemoveFirst(cmds[w], e)
  OBVIOUS
<1>10. q \in Seq(Entries) /\ Matches(q, events[w]) /\ ToSet(q) = ToSet(cmds[w]) \ {e}
  BY <1>1, <1>8, <1>9, TakeOne
<1>11. Processing(w, c, "postponed", q, events[w], stack[w])
  <2>1. /\ ToSet(q) = ToSet(cmds[w]) \ {Entry(c, "postponed")}
        /\ events' = [events EXCEPT ![w] = events[w]]
    BY <1>1, <1>5, <1>8, <1>10
  <2>2. Last(stack[w]).kind = "event" /\ Last(stack[w]).cmd # NoCmd
    BY <1>5 DEF Top
  <2>3. ProcessCommand(w, c, stack[w], q)
    BY <1>5, <1>8, <1>9 DEF Without
  <2> QED
    BY <1>1, <1>5, <1>7, <1>10, <2>1, <2>2, <2>3 DEF Processing, Frames
<1> QED
  BY <1>1, <1>6, <1>10, <1>11

LEMMA SubmitEventAInv ==
  ASSUME AInv, NEW w \in Workers, SubmitEvent(w)
  PROVE  AInv'
<1>1. PICK c \in Cmds : \E q \in Seq(Entries), ev \in Seq(Events), s \in Seq(FrameSet) :
         Processing(w, c, "submit", q, ev, s)
  BY SubmitIsProcessed
<1>2. PICK q \in Seq(Entries), ev \in Seq(Events), s \in Seq(FrameSet) :
         Processing(w, c, "submit", q, ev, s)
  BY <1>1
<1> QED
  BY <1>2, ProcessStep DEF Processing

LEMMA NextPostponedAInv ==
  ASSUME AInv, NEW w \in Workers, NextPostponed(w)
  PROVE  AInv'
<1>1. PICK c \in Cmds : \E q \in Seq(Entries), ev \in Seq(Events), s \in Seq(FrameSet) :
         Processing(w, c, "postponed", q, ev, s)
  BY PostponedIsProcessed
<1>2. PICK q \in Seq(Entries), ev \in Seq(Events), s \in Seq(FrameSet) :
         Processing(w, c, "postponed", q, ev, s)
  BY <1>1
<1> QED
  BY <1>2, ProcessStep DEF Processing

-----------------------------------------------------------------------------
(* The steps that only change a stack, and those of a worker's life.       *)

(* An event that is not one of a submitted command, and what it starts.    *)
LEMMA PushTwo ==
  ASSUME NEW s \in Seq(FrameSet), Stacked(s), NEW f \in FrameSet, FrameRight(f),
         \A g \in ToSet(s) : ~Alike(g, f), f.kind = "exec" => f.cmd = NoCmd,
         NEW t, t = s \o <<Frame("event", NoCmd), f>>
  PROVE  /\ t \in Seq(FrameSet) /\ Stacked(t)
         /\ ToSet(t) = ToSet(s) \cup {Frame("event", NoCmd), f}
<1>1. PICK e \in FrameSet : /\ e = Frame("event", NoCmd) /\ FrameRight(e)
                           /\ e.kind = "event" /\ e.cmd = NoCmd
  BY FrameFacts
<1>2. PICK r : r = Append(s, e)
  OBVIOUS
<1>3. r \in Seq(FrameSet) /\ Stacked(r) /\ ToSet(r) = ToSet(s) \cup {e}
  <2>1. \A g \in ToSet(s) : ~Alike(g, e)
    BY <1>1 DEF Alike
  <2> QED
    BY <1>1, <1>2, <2>1, StackPush
<1>4. t = Append(r, f)
  BY <1>1, <1>2
<1>5. t \in Seq(FrameSet) /\ Stacked(t) /\ ToSet(t) = ToSet(r) \cup {f}
  <2>1. \A g \in ToSet(r) : ~Alike(g, f)
    BY <1>1, <1>3 DEF Alike, Owning
  <2> QED
    BY <1>3, <1>4, <2>1, StackPush
<1> QED
  BY <1>1, <1>3, <1>5

LEMMA UserEventAInv ==
  ASSUME AInv, NEW w \in Workers, UserEvent(w)
  PROVE  AInv'
<1>1. PICK s \in Seq(FrameSet) : s = stack[w] /\ Stacked(s) /\ s = <<>>
  BY Parts DEF UserEvent
<1>2. PICK f \in FrameSet : /\ f = Frame("exec", NoCmd) /\ FrameRight(f)
                           /\ f.kind = "exec" /\ f.cmd = NoCmd
  BY FrameFacts
<1>3. PICK t : t = s \o <<Frame("event", NoCmd), f>>
  OBVIOUS
<1>4. t = <<Frame("event", NoCmd), Frame("exec", NoCmd)>>
  BY <1>1, <1>2, <1>3
<1>5. /\ t \in Seq(FrameSet) /\ Stacked(t)
      /\ ToSet(t) = ToSet(s) \cup {Frame("event", NoCmd), f}
  <2>1. \A g \in ToSet(s) : ~Alike(g, f)
    BY <1>2 DEF Alike
  <2> QED
    BY <1>1, <1>2, <1>3, <2>1, PushTwo
<1>6. SetStack(w, t) /\ UNCHANGED <<calls, queues, held, lives>>
  BY <1>4 DEF UserEvent
<1>7. \A g \in ToSet(t) : g.cmd \in Cmds =>
        (Owning(g) => Framed(w, g.cmd)) /\ (g.kind = "wait" => Waits(w, g.cmd))
  BY <1>1, <1>2, <1>5, FrameFacts, CallAssumption DEF Framed, Waits, Owning, Frames, Frame
<1>8. CallsTyped' /\ FreshCalls' /\ LivesTyped' /\ UNCHANGED <<used, cmds, events, held>>
  BY <1>6, CallsSame, LivesSame DEF calls, queues
<1> QED
  BY <1>5, <1>6, <1>7, <1>8, StackOnly

LEMMA EventDoneAInv ==
  ASSUME AInv, NEW w \in Workers, EventDone(w)
  PROVE  AInv'
<1>1. stack[w] # <<>> /\ SetStack(w, Pop(w)) /\ UNCHANGED <<calls, queues, held, lives>>
  BY DEF EventDone, TopIs
<1>2. CallsTyped' /\ FreshCalls' /\ LivesTyped' /\ UNCHANGED <<used, cmds, events, held>>
  BY <1>1, CallsSame, LivesSame DEF calls, queues
<1> QED
  BY <1>1, <1>2, PopOnly

LEMMA UserHandlerReturnsAInv ==
  ASSUME AInv, NEW w \in Workers, UserHandlerReturns(w)
  PROVE  AInv'
<1>1. stack[w] # <<>> /\ SetStack(w, Pop(w)) /\ UNCHANGED <<calls, queues, held, lives>>
  BY DEF UserHandlerReturns, Running, TopIs
<1>2. CallsTyped' /\ FreshCalls' /\ LivesTyped' /\ UNCHANGED <<used, cmds, events, held>>
  BY <1>1, CallsSame, LivesSame DEF calls, queues
<1> QED
  BY <1>1, <1>2, PopOnly

LEMMA SyncCallReturnsAInv ==
  ASSUME AInv, NEW w \in Workers, SyncCallReturns(w)
  PROVE  AInv'
<1>1. stack[w] # <<>> /\ SetStack(w, Pop(w)) /\ UNCHANGED <<calls, queues, held, lives>>
  BY DEF SyncCallReturns, TopIs
<1>2. CallsTyped' /\ FreshCalls' /\ LivesTyped' /\ UNCHANGED <<used, cmds, events, held>>
  BY <1>1, CallsSame, LivesSame DEF calls, queues
<1> QED
  BY <1>1, <1>2, PopOnly

LEMMA LifeStepAInv ==
  ASSUME AInv, NEW w \in Workers, DestroyAsked(w) \/ Halt(w)
  PROVE  AInv'
<1>1. UNCHANGED <<calls, queues, stack, held>>
  BY DEF DestroyAsked, Halt
<1>2. LivesTyped'
  BY DEF AInv, TypeOK, LivesTyped, DestroyAsked, Halt
<1>3. CallsTyped' /\ FreshCalls'
  BY <1>1, CallsSame DEF calls
<1>4. UNCHANGED <<used, cmds, events, stack, held>>
  BY <1>1 DEF calls, queues
<1>5. TypeOK'
  BY <1>2, <1>3, <1>4 DEF AInv, TypeOK, CallsTyped, LivesTyped
<1>6. AllStacked' /\ OneEntries' /\ EventsMatchQueue'
  BY <1>4 DEF AInv, AllStacked, OneEntries, EventsMatchQueue
<1>7. OneOwner' /\ OneCaller' /\ FreshRoles'
  BY <1>4 DEF AInv, OneOwner, OneCaller, FreshRoles, Queued, Framed, Kept, Waits, Frames
<1> QED
  BY <1>3, <1>5, <1>6, <1>7 DEF AInv

LEMMA StutterAInv ==
  ASSUME AInv, UNCHANGED vars
  PROVE  AInv'
BY DEF AInv, TypeOK, OneOwner, OneCaller, OneEntries, AllStacked, FreshCalls, FreshRoles,
       EventsMatchQueue, Queued, Framed, Kept, Waits, Frames, vars

-----------------------------------------------------------------------------
(* The steps at the top of a stack that also write to the command.         *)
LEMMA CallChanges ==
  ASSUME AInv, NEW c \in used', used' \subseteq Cmds, used \subseteq used',
         NEW r \in Seq(Recs), callers' = [callers EXCEPT ![c] = r],
         NEW e \in BOOLEAN, exeReady' = [exeReady EXCEPT ![c] = e],
         NEW n \in {"none", "done", "refused"}, result' = [result EXCEPT ![c] = n]
  PROVE  CallsTyped' /\ FreshCalls'
<1>1. /\ callers \in [Cmds -> Seq(Recs)] /\ exeReady \in [Cmds -> BOOLEAN]
      /\ result \in [Cmds -> {"none", "done", "refused"}]
  BY DEF AInv, TypeOK
<1>2. CallsTyped'
  BY <1>1 DEF CallsTyped
<1>3. FreshCalls'
  <2> SUFFICES ASSUME NEW x \in Cmds, x \notin used'
               PROVE  callers'[x] = <<>> /\ ~exeReady'[x] /\ result'[x] = "none"
    BY DEF FreshCalls
  <2>1. x # c /\ x \in Cmds \ used
    OBVIOUS
  <2>2. callers[x] = <<>> /\ ~exeReady[x] /\ result[x] = "none"
    BY <2>1 DEF AInv, FreshCalls
  <2> QED
    BY <1>1, <2>1, <2>2
<1> QED
  BY <1>2, <1>3

(* The command at the top of a stack.                                      *)
LEMMA TopCommand ==
  ASSUME AInv, NEW w \in Workers, stack[w] # <<>>, Top(w).kind \in {"wait", "reply"}
                                   \/ (Top(w).kind = "exec" /\ Top(w).cmd # NoCmd)
  PROVE  /\ Top(w).cmd \in Cmds /\ Top(w).cmd \in used
         /\ Top(w) \in Frames(w) /\ Top(w) \in FrameSet
         /\ callers[Top(w).cmd] \in Seq(Recs)
<1>1. Top(w) \in FrameSet /\ FrameRight(Top(w)) /\ Top(w) \in Frames(w)
  BY PopFacts
<1>2. Top(w).cmd \in Cmds
  BY <1>1 DEF FrameSet, FrameRight
<1>3. Top(w).cmd \in used
  BY <1>1, <1>2 DEF AInv, FreshRoles, Framed, Waits
<1> QED
  BY <1>1, <1>2, <1>3 DEF AInv, TypeOK

LEMMA HandlerReturnsAInv ==
  ASSUME AInv, NEW w \in Workers, HandlerReturns(w)
  PROVE  AInv'
<1>1. PICK c \in Cmds : /\ stack[w] # <<>> /\ Top(w).kind = "exec" /\ Top(w).cmd = c
                        /\ result' = [result EXCEPT ![c] = "done"]
                        /\ SetStack(w, Become(w, Frame("reply", c)))
                        /\ UNCHANGED <<used, callers, exeReady, queues, held, lives>>
  BY DEF HandlerReturns, Running, TopIs
<1>2. c # NoCmd
  BY CallAssumption
<1>3. c \in used /\ callers[c] \in Seq(Recs)
  BY <1>1, <1>2, TopCommand
<1>4. CallsTyped' /\ FreshCalls'
  <2>1. used' \subseteq Cmds /\ used \subseteq used' /\ c \in used' /\ exeReady[c] \in BOOLEAN
    BY <1>1, <1>3 DEF AInv, TypeOK
  <2>2. /\ callers' = [callers EXCEPT ![c] = callers[c]]
        /\ exeReady' = [exeReady EXCEPT ![c] = exeReady[c]]
    BY <1>1 DEF AInv, TypeOK
  <2> QED
    BY <1>1, <1>3, <2>1, <2>2, CallChanges
<1>5. LivesTyped' /\ UNCHANGED <<used, cmds, events, held>>
  BY <1>1, LivesSame DEF queues
<1>6. PICK f \in FrameSet : f = Frame("reply", c) /\ f.kind = "reply" /\ f.cmd = c
  BY FrameFacts
<1>7. Owning(Top(w)) /\ Top(w).cmd \in Cmds /\ f.cmd = Top(w).cmd
  BY <1>1, <1>6 DEF Owning
<1> QED
  BY <1>1, <1>4, <1>5, <1>6, <1>7, BecomeOnly

LEMMA RemovedRecs ==
  ASSUME NEW s \in Seq(Recs), NEW r
  PROVE  /\ RemoveFirst(s, r) \in Seq(Recs) /\ Len(RemoveFirst(s, r)) <= Len(s)
         /\ s = <<>> => RemoveFirst(s, r) = <<>>
         /\ s = <<r>> => RemoveFirst(s, r) = <<>>
<1>1. CASE r \notin ToSet(s)
  <2>1. RemoveFirst(s, r) = s
    BY <1>1 DEF RemoveFirst, ToSet
  <2>2. s # <<r>>
    BY <1>1 DEF ToSet
  <2> QED
    BY <2>1, <2>2
<1>2. CASE r \in ToSet(s)
  <2>1. PICK p \in 1..Len(s) : s[p] = r /\ RemoveFirst(s, r) = RemoveAt(s, p)
    BY <1>2, RemovedFirst
  <2>2. RemoveFirst(s, r) \in Seq(Recs) /\ Len(RemoveFirst(s, r)) = Len(s) - 1
    BY <2>1, RemovedAt
  <2>3. s # <<>> /\ Len(s) \in Nat
    BY <2>1
  <2>4. s = <<r>> => Len(RemoveFirst(s, r)) = 0
    BY <2>2
  <2> QED
    BY <2>2, <2>3, <2>4
<1> QED
  BY <1>1, <1>2

LEMMA SyncCallTimesOutAInv ==
  ASSUME AInv, NEW w \in Workers, SyncCallTimesOut(w)
  PROVE  AInv'
<1>1. PICK c : c = Top(w).cmd
  OBVIOUS
<1>2. /\ stack[w] # <<>> /\ Top(w).kind = "wait" /\ SetStack(w, Pop(w))
      /\ callers' = [callers EXCEPT ![c] = RemoveFirst(callers[c], Rec(w, TRUE))]
      /\ UNCHANGED <<used, exeReady, result, queues, held, lives>>
  BY <1>1 DEF SyncCallTimesOut, TopIs
<1>3. c \in Cmds /\ c \in used /\ callers[c] \in Seq(Recs)
  BY <1>1, <1>2, TopCommand
<1>4. RemoveFirst(callers[c], Rec(w, TRUE)) \in Seq(Recs)
  BY <1>3, RemovedRecs
<1>5. CallsTyped' /\ FreshCalls'
  <2>1. /\ used' \subseteq Cmds /\ used \subseteq used' /\ c \in used'
        /\ exeReady[c] \in BOOLEAN /\ result[c] \in {"none", "done", "refused"}
    BY <1>2, <1>3 DEF AInv, TypeOK
  <2>2. /\ result' = [result EXCEPT ![c] = result[c]]
        /\ exeReady' = [exeReady EXCEPT ![c] = exeReady[c]]
    BY <1>2 DEF AInv, TypeOK
  <2> QED
    BY <1>2, <1>4, <2>1, <2>2, CallChanges
<1>6. LivesTyped' /\ UNCHANGED <<used, cmds, events, held>>
  BY <1>2, LivesSame DEF queues
<1> QED
  BY <1>2, <1>5, <1>6, PopOnly

LEMMA ReplyTakesAInv ==
  ASSUME AInv, NEW w \in Workers, ReplyTakes(w)
  PROVE  AInv'
<1>1. PICK c : c = Top(w).cmd
  OBVIOUS
<1>2. /\ stack[w] # <<>> /\ Top(w).kind = "reply" /\ Top(w).rec = NoRec
      /\ UNCHANGED <<used, exeReady, result, queues, held, lives>>
      /\ \/ callers[c] = <<>> /\ SetStack(w, Pop(w)) /\ UNCHANGED callers
         \/ /\ callers[c] # <<>>
            /\ SetStack(w, Become(w, [Top(w) EXCEPT !.rec = Last(callers[c])]))
            /\ callers' = [callers EXCEPT ![c] = Front(callers[c])]
  BY <1>1 DEF ReplyTakes, TopIs
<1>3. c \in Cmds /\ c \in used /\ callers[c] \in Seq(Recs) /\ Top(w) \in FrameSet
  BY <1>1, <1>2, TopCommand
<1>4. LivesTyped' /\ UNCHANGED <<used, cmds, events, held>>
  BY <1>2, LivesSame DEF queues
<1>5. CASE callers[c] = <<>> /\ SetStack(w, Pop(w)) /\ UNCHANGED callers
  <2>1. CallsTyped' /\ FreshCalls'
    BY <1>2, <1>5, CallsSame
  <2> QED
    BY <1>2, <1>4, <1>5, <2>1, PopOnly
<1>6. CASE /\ callers[c] # <<>>
           /\ SetStack(w, Become(w, [Top(w) EXCEPT !.rec = Last(callers[c])]))
           /\ callers' = [callers EXCEPT ![c] = Front(callers[c])]
  <2>1. Front(callers[c]) \in Seq(Recs) /\ Last(callers[c]) \in Recs
    BY <1>3, <1>6, FrontMembers
  <2>2. CallsTyped' /\ FreshCalls'
    <3>1. /\ used' \subseteq Cmds /\ used \subseteq used' /\ c \in used'
          /\ exeReady[c] \in BOOLEAN /\ result[c] \in {"none", "done", "refused"}
      BY <1>2, <1>3 DEF AInv, TypeOK
    <3>2. /\ result' = [result EXCEPT ![c] = result[c]]
          /\ exeReady' = [exeReady EXCEPT ![c] = exeReady[c]]
      BY <1>2 DEF AInv, TypeOK
    <3> QED
      BY <1>6, <2>1, <3>1, <3>2, CallChanges
  <2>3. PICK f \in FrameSet : /\ f = [Top(w) EXCEPT !.rec = Last(callers[c])]
                              /\ f.kind = "reply" /\ f.cmd = c
    BY <1>1, <1>2, <1>3, <2>1 DEF FrameSet
  <2>4. Owning(Top(w)) /\ Top(w).cmd \in Cmds /\ f.cmd = Top(w).cmd
    BY <1>1, <1>2, <1>3, <2>3 DEF Owning
  <2> QED
    BY <1>2, <1>4, <1>6, <2>2, <2>3, <2>4, BecomeOnly
<1> QED
  BY <1>2, <1>5, <1>6

-----------------------------------------------------------------------------
(* A reply that comes back as an event, and a kept command.                *)

(* Two frames come on top: an event that is not one of a command, and the  *)
(* reply of a command that was not in the hands of the thread.             *)
LEMMA ReplyPushed ==
  ASSUME AInv, NEW w \in Workers, NEW c \in Cmds, ~Framed(w, c),
         SetStack(w, stack[w] \o <<Frame("event", NoCmd), Frame("reply", c)>>)
  PROVE  /\ stack' \in [Workers -> Seq(FrameSet)] /\ AllStacked'
         /\ \A v \in Workers : v # w => Frames(v)' = Frames(v)
         /\ \A f : f \in Frames(w)' <=>
              f \in Frames(w) \/ f = Frame("event", NoCmd) \/ f = Frame("reply", c)
<1>1. PICK s \in Seq(FrameSet) : s = stack[w] /\ Stacked(s)
  BY Parts
<1>2. PICK f \in FrameSet : f = Frame("reply", c) /\ FrameRight(f) /\ f.kind = "reply" /\ f.cmd = c
  BY FrameFacts
<1>3. PICK t : t = s \o <<Frame("event", NoCmd), f>>
  OBVIOUS
<1>4. t \in Seq(FrameSet) /\ Stacked(t) /\ ToSet(t) = ToSet(s) \cup {Frame("event", NoCmd), f}
  <2>1. \A g \in ToSet(s) : ~Alike(g, f)
    BY <1>1, <1>2 DEF Alike, Owning, Framed, Frames
  <2> QED
    BY <1>1, <1>2, <1>3, <2>1, PushTwo
<1>5. SetStack(w, t)
  BY <1>1, <1>2, <1>3
<1>6. /\ stack' \in [Workers -> Seq(FrameSet)] /\ AllStacked' /\ Frames(w)' = ToSet(t)
      /\ \A v \in Workers : v # w => Frames(v)' = Frames(v)
  BY <1>4, <1>5, StackChange
<1> QED
  BY <1>1, <1>2, <1>4, <1>6 DEF Frames

LEMMA ReplyEventEffect ==
  ASSUME AInv, NEW w \in Workers, ReplyEvent(w)
  PROVE  \E c \in Cmds :
    /\ Entry(c, "reply") \in ToSet(cmds[w])
    /\ SetStack(w, stack[w] \o <<Frame("event", NoCmd), Frame("reply", c)>>)
    /\ cmds' \in [Workers -> Seq(Entries)] /\ events' \in [Workers -> Seq(Events)]
    /\ EventsMatchQueue'
    /\ ToSet(cmds'[w]) = ToSet(cmds[w]) \ {Entry(c, "reply")}
    /\ \A v \in Workers : v # w => cmds'[v] = cmds[v]
<1>1. /\ cmds \in [Workers -> Seq(Entries)] /\ events \in [Workers -> Seq(Events)]
      /\ cmds[w] \in Seq(Entries) /\ events[w] \in Seq(Events) /\ Matches(cmds[w], events[w])
      /\ \A v \in Workers : Matches(cmds[v], events[v])
  BY DEF AInv, TypeOK, EventsMatchQueue
<1>2. PICK c : c = Head(events[w]).cmd
  OBVIOUS
<1>3. /\ events[w] # <<>> /\ Head(events[w]).kind = "reply"
      /\ events' = [events EXCEPT ![w] = Tail(events[w])]
      /\ cmds' = [cmds EXCEPT ![w] = Without(w, c, "reply")]
      /\ SetStack(w, stack[w] \o <<Frame("event", NoCmd), Frame("reply", c)>>)
  BY <1>2 DEF ReplyEvent
<1>4. PICK u \in Seq(Entries) : u = cmds[w]
  BY <1>1
<1>5. PICK a \in Seq(Events) : a = events[w] /\ a # <<>> /\ Matches(u, a)
  BY <1>1, <1>3, <1>4
<1>6. PICK q, ev : q = RemoveFirst(u, Head(a)) /\ ev = Tail(a)
  OBVIOUS
<1>7. /\ q \in Seq(Entries) /\ ev \in Seq(Events) /\ Matches(q, ev)
      /\ ToSet(q) = ToSet(u) \ {Head(a)} /\ Head(a) \in ToSet(u) /\ Head(a) \in Events
  BY <1>4, <1>5, <1>6, TakeBoth
<1>8. c \in Cmds /\ Head(a) = Entry(c, "reply")
  BY <1>2, <1>3, <1>5, <1>7 DEF Events, Entry
<1>9. q = Without(w, c, "reply")
  BY <1>4, <1>6, <1>8 DEF Without
<1>10. cmds' = [cmds EXCEPT ![w] = q] /\ events' = [events EXCEPT ![w] = ev]
  BY <1>3, <1>5, <1>6, <1>9
<1>11. /\ cmds' \in [Workers -> Seq(Entries)] /\ events' \in [Workers -> Seq(Events)]
       /\ EventsMatchQueue' /\ cmds'[w] = q
       /\ \A v \in Workers : v # w => cmds'[v] = cmds[v]
  BY <1>1, <1>7, <1>10, QueueChange
<1> QED
  BY <1>3, <1>4, <1>7, <1>8, <1>11

LEMMA ReplyEventAInv ==
  ASSUME AInv, NEW w \in Workers, ReplyEvent(w)
  PROVE  AInv'
<1>1. PICK c \in Cmds :
    /\ Entry(c, "reply") \in ToSet(cmds[w])
    /\ SetStack(w, stack[w] \o <<Frame("event", NoCmd), Frame("reply", c)>>)
    /\ cmds' \in [Workers -> Seq(Entries)] /\ events' \in [Workers -> Seq(Events)]
    /\ EventsMatchQueue'
    /\ ToSet(cmds'[w]) = ToSet(cmds[w]) \ {Entry(c, "reply")}
    /\ \A v \in Workers : v # w => cmds'[v] = cmds[v]
  BY ReplyEventEffect
<1>2. /\ c \in used
      /\ \A v \in Workers : (Queued(v, c) => v = w) /\ ~Framed(v, c) /\ ~Kept(v, c)
  <2>1. Queued(w, c)
    BY <1>1 DEF Queued, Entry
  <2> QED
    BY <2>1, OwnerAlone
<1>3. /\ stack' \in [Workers -> Seq(FrameSet)] /\ AllStacked'
      /\ \A v \in Workers : v # w => Frames(v)' = Frames(v)
      /\ \A f : f \in Frames(w)' <=>
           f \in Frames(w) \/ f = Frame("event", NoCmd) \/ f = Frame("reply", c)
  BY <1>1, <1>2, ReplyPushed
<1>4. PICK x, y : /\ x = Frame("reply", c) /\ x.cmd = c /\ x.kind = "reply"
                  /\ y = Frame("event", NoCmd) /\ y.cmd = NoCmd /\ y.kind = "event"
  BY FrameFacts
<1>5. UNCHANGED <<used, callers, exeReady, result, held, lives>>
  BY DEF ReplyEvent, calls
<1>6. /\ \A v \in Workers : \A e \in ToSet(cmds'[v]) : e \in ToSet(cmds[v])
      /\ \A v \in Workers : \A f \in Frames(v)' : f \in Frames(v) \/ (v = w /\ f \in {x, y})
  BY <1>1, <1>3, <1>4
<1>7. \A v \in Workers : \A e, f \in ToSet(cmds'[v]) :
        e.cmd = c /\ f.cmd = c /\ (e.kind = "assign" <=> f.kind = "assign") => e = f
  BY <1>6 DEF AInv, OneEntries
<1>8. \A v \in Workers : (Framed(v, c)' => v = w) /\ ~Queued(v, c)' /\ ~Kept(v, c)'
  <2>1. \A v \in Workers : (Framed(v, c)' => v = w) /\ ~Kept(v, c)'
    BY <1>2, <1>5, <1>6 DEF Framed, Kept
  <2>2. \A v \in Workers : Queued(v, c)' => v = w
    BY <1>2, <1>6 DEF Queued
  <2>3. ~Queued(w, c)'
    <3>1. \A e \in ToSet(cmds[w]) : e.cmd = c /\ e.kind # "assign" => e = Entry(c, "reply")
      BY <1>1 DEF AInv, OneEntries, Entry
    <3> QED
      BY <1>1, <3>1 DEF Queued
  <2> QED
    BY <2>1, <2>2, <2>3
<1>9. \A v \in Workers : Waits(v, c)' => Waits(v, c)
  BY <1>4, <1>6 DEF Waits
<1>10. OneOwner' /\ OneCaller' /\ OneEntries' /\ FreshRoles'
  <2>1. c \in used' /\ used \subseteq used' /\ \A v \in Workers : held'[v] \subseteq held[v] \cup {c}
    BY <1>2, <1>5
  <2>2. /\ \A v \in Workers : \A e \in ToSet(cmds'[v]) : e.cmd # c => e \in ToSet(cmds[v])
        /\ \A v \in Workers : \A f \in Frames(v)' : f.cmd \in Cmds /\ f.cmd # c => f \in Frames(v)
    BY <1>4, <1>6, CallAssumption
  <2>3. \A v \in Workers : Waits(v, c)' => Waits(v, c) \/ (v = w /\ c \notin used)
    BY <1>9
  <2>4. \/ \A v \in Workers : (Queued(v, c)' => v = w) /\ ~Framed(v, c)' /\ ~Kept(v, c)'
        \/ \A v \in Workers : (Framed(v, c)' => v = w) /\ ~Queued(v, c)' /\ ~Kept(v, c)'
        \/ \A v \in Workers : (Kept(v, c)' => v = w) /\ ~Queued(v, c)' /\ ~Framed(v, c)'
    BY <1>8
  <2> QED
    BY <1>7, <2>1, <2>2, <2>3, <2>4, Moved
<1>11. CallsTyped' /\ FreshCalls' /\ LivesTyped' /\ held' \in [Workers -> SUBSET Cmds]
  BY <1>5, CallsSame, LivesSame, Parts
<1> QED
  BY <1>1, <1>3, <1>10, <1>11, Collected

LEMMA KeptIsAnsweredAInv ==
  ASSUME AInv, NEW w \in Workers, KeptIsAnswered(w)
  PROVE  AInv'
<1>1. PICK c \in held[w] :
    /\ held' = [held EXCEPT ![w] = @ \ {c}]
    /\ result' = [result EXCEPT ![c] = "done"]
    /\ SetStack(w, stack[w] \o <<Frame("event", NoCmd), Frame("reply", c)>>)
    /\ UNCHANGED <<used, callers, exeReady, queues, lives>>
  BY DEF KeptIsAnswered
<1>2. /\ c \in Cmds /\ c \in used /\ callers[c] \in Seq(Recs)
      /\ \A v \in Workers : (Kept(v, c) => v = w) /\ ~Queued(v, c) /\ ~Framed(v, c)
  <2>1. c \in Cmds /\ Kept(w, c)
    BY Parts DEF Kept
  <2> QED
    BY <2>1, OwnerAlone DEF AInv, TypeOK
<1>3. /\ stack' \in [Workers -> Seq(FrameSet)] /\ AllStacked'
      /\ \A v \in Workers : v # w => Frames(v)' = Frames(v)
      /\ \A f : f \in Frames(w)' <=>
           f \in Frames(w) \/ f = Frame("event", NoCmd) \/ f = Frame("reply", c)
  BY <1>1, <1>2, ReplyPushed
<1>4. PICK x, y : /\ x = Frame("reply", c) /\ x.cmd = c /\ x.kind = "reply"
                  /\ y = Frame("event", NoCmd) /\ y.cmd = NoCmd /\ y.kind = "event"
  BY <1>2, FrameFacts
<1>5. /\ UNCHANGED <<used, callers, exeReady, cmds, events, lives>>
      /\ held' \in [Workers -> SUBSET Cmds]
      /\ \A v \in Workers : held'[v] \subseteq held[v] /\ c \notin held'[w]
  BY <1>1, Parts DEF queues
<1>6. \A v \in Workers : \A f \in Frames(v)' : f \in Frames(v) \/ (v = w /\ f \in {x, y})
  BY <1>3, <1>4
<1>7. /\ cmds' \in [Workers -> Seq(Entries)] /\ events' \in [Workers -> Seq(Events)]
      /\ EventsMatchQueue'
      /\ \A v \in Workers : \A e, f \in ToSet(cmds'[v]) :
           e.cmd = c /\ f.cmd = c /\ (e.kind = "assign" <=> f.kind = "assign") => e = f
  BY <1>5 DEF AInv, OneEntries, TypeOK, EventsMatchQueue
<1>8. \A v \in Workers : (Framed(v, c)' => v = w) /\ ~Queued(v, c)' /\ ~Kept(v, c)'
  <2>1. \A v \in Workers : (Framed(v, c)' => v = w) /\ ~Kept(v, c)'
    BY <1>2, <1>5, <1>6 DEF Framed, Kept
  <2>2. \A v \in Workers : ~Queued(v, c)'
    BY <1>2, <1>5 DEF Queued
  <2> QED
    BY <2>1, <2>2
<1>9. \A v \in Workers : Waits(v, c)' => Waits(v, c)
  BY <1>4, <1>6 DEF Waits
<1>10. OneOwner' /\ OneCaller' /\ OneEntries' /\ FreshRoles'
  <2>1. c \in used' /\ used \subseteq used' /\ \A v \in Workers : held'[v] \subseteq held[v] \cup {c}
    BY <1>2, <1>5
  <2>2. /\ \A v \in Workers : \A e \in ToSet(cmds'[v]) : e.cmd # c => e \in ToSet(cmds[v])
        /\ \A v \in Workers : \A f \in Frames(v)' : f.cmd \in Cmds /\ f.cmd # c => f \in Frames(v)
    BY <1>4, <1>5, <1>6, CallAssumption
  <2>3. \A v \in Workers : Waits(v, c)' => Waits(v, c) \/ (v = w /\ c \notin used)
    BY <1>9
  <2>4. \/ \A v \in Workers : (Queued(v, c)' => v = w) /\ ~Framed(v, c)' /\ ~Kept(v, c)'
        \/ \A v \in Workers : (Framed(v, c)' => v = w) /\ ~Queued(v, c)' /\ ~Kept(v, c)'
        \/ \A v \in Workers : (Kept(v, c)' => v = w) /\ ~Queued(v, c)' /\ ~Framed(v, c)'
    BY <1>8
  <2> QED
    BY <1>2, <1>7, <2>1, <2>2, <2>3, <2>4, Moved
<1>11. CallsTyped' /\ FreshCalls'
  <2>1. /\ used' \subseteq Cmds /\ used \subseteq used' /\ c \in used' /\ exeReady[c] \in BOOLEAN
    BY <1>2, <1>5 DEF AInv, TypeOK
  <2>2. /\ callers' = [callers EXCEPT ![c] = callers[c]]
        /\ exeReady' = [exeReady EXCEPT ![c] = exeReady[c]]
    BY <1>5 DEF AInv, TypeOK
  <2> QED
    BY <1>1, <1>2, <2>1, <2>2, CallChanges
<1>12. LivesTyped'
  BY <1>5, LivesSame
<1> QED
  BY <1>3, <1>5, <1>7, <1>10, <1>11, <1>12, Collected

(* The frame of an owner goes away: the command is not in the hands of     *)
(* this thread any more.                                                   *)
LEMMA OwnerPopped ==
  ASSUME AInv, NEW w \in Workers, stack[w] # <<>>, Owning(Top(w)),
         NEW c \in Cmds, Top(w).cmd = c
  PROVE  /\ Framed(w, c) /\ c \in used
         /\ \A v \in Workers : (Framed(v, c) => v = w) /\ ~Queued(v, c) /\ ~Kept(v, c)
         /\ \A f \in ToSet(Pop(w)) : ~(f.cmd = c /\ Owning(f))
<1>1. /\ Top(w) \in Frames(w) /\ \A f \in ToSet(Pop(w)) : ~Alike(f, Top(w))
  BY PopFacts
<1>2. Framed(w, c)
  BY <1>1 DEF Framed, Owning
<1>3. \A f \in ToSet(Pop(w)) : ~(f.cmd = c /\ Owning(f))
  BY <1>1, CallAssumption DEF Alike
<1> QED
  BY <1>2, <1>3, OwnerAlone

LEMMA HandlerKeepsAInv ==
  ASSUME AInv, NEW w \in Workers, HandlerKeeps(w)
  PROVE  AInv'
<1>1. PICK c \in Cmds : /\ stack[w] # <<>> /\ Top(w).kind = "exec" /\ Top(w).cmd = c
                        /\ held' = [held EXCEPT ![w] = @ \cup {c}]
                        /\ SetStack(w, Pop(w)) /\ UNCHANGED <<calls, queues, lives>>
  BY DEF HandlerKeeps, Running, TopIs
<1>2. /\ c \in used
      /\ \A v \in Workers : (Framed(v, c) => v = w) /\ ~Queued(v, c) /\ ~Kept(v, c)
      /\ \A f \in ToSet(Pop(w)) : ~(f.cmd = c /\ Owning(f))
  BY <1>1, OwnerPopped DEF Owning
<1>3. /\ Pop(w) \in Seq(FrameSet) /\ Stacked(Pop(w)) /\ \A f \in ToSet(Pop(w)) : f \in Frames(w)
  BY <1>1, PopFacts
<1>4. /\ stack' \in [Workers -> Seq(FrameSet)] /\ AllStacked' /\ Frames(w)' = ToSet(Pop(w))
      /\ \A v \in Workers : v # w => Frames(v)' = Frames(v)
  BY <1>1, <1>3, StackChange
<1>5. /\ UNCHANGED <<used, callers, exeReady, result, cmds, events, lives>>
      /\ held' \in [Workers -> SUBSET Cmds]
      /\ \A v \in Workers : held'[v] \subseteq held[v] \cup {c} /\ (v # w => held'[v] = held[v])
  BY <1>1, Parts DEF queues, calls
<1>6. /\ cmds' \in [Workers -> Seq(Entries)] /\ events' \in [Workers -> Seq(Events)]
      /\ EventsMatchQueue'
      /\ \A v \in Workers : \A e, f \in ToSet(cmds'[v]) :
           e.cmd = c /\ f.cmd = c /\ (e.kind = "assign" <=> f.kind = "assign") => e = f
  BY <1>5 DEF AInv, OneEntries, TypeOK, EventsMatchQueue
<1>7. \A v \in Workers : \A f \in Frames(v)' : f \in Frames(v)
  BY <1>3, <1>4
<1>8. \A v \in Workers : (Kept(v, c)' => v = w) /\ ~Queued(v, c)' /\ ~Framed(v, c)'
  <2>1. \A v \in Workers : (Kept(v, c)' => v = w) /\ ~Queued(v, c)'
    BY <1>2, <1>5 DEF Kept, Queued
  <2>2. \A v \in Workers : ~Framed(v, c)'
    BY <1>2, <1>4 DEF Framed, Owning
  <2> QED
    BY <2>1, <2>2
<1>9. OneOwner' /\ OneCaller' /\ OneEntries' /\ FreshRoles'
  <2>1. c \in used' /\ used \subseteq used' /\ \A v \in Workers : held'[v] \subseteq held[v] \cup {c}
    BY <1>2, <1>5
  <2>2. /\ \A v \in Workers : \A e \in ToSet(cmds'[v]) : e.cmd # c => e \in ToSet(cmds[v])
        /\ \A v \in Workers : \A f \in Frames(v)' : f.cmd \in Cmds /\ f.cmd # c => f \in Frames(v)
    BY <1>5, <1>7
  <2>3. \A v \in Workers : Waits(v, c)' => Waits(v, c) \/ (v = w /\ c \notin used)
    BY <1>7 DEF Waits
  <2>4. \/ \A v \in Workers : (Queued(v, c)' => v = w) /\ ~Framed(v, c)' /\ ~Kept(v, c)'
        \/ \A v \in Workers : (Framed(v, c)' => v = w) /\ ~Queued(v, c)' /\ ~Kept(v, c)'
        \/ \A v \in Workers : (Kept(v, c)' => v = w) /\ ~Queued(v, c)' /\ ~Framed(v, c)'
    BY <1>8
  <2> QED
    BY <1>6, <2>1, <2>2, <2>3, <2>4, Moved
<1>10. CallsTyped' /\ FreshCalls' /\ LivesTyped'
  BY <1>5, CallsSame, LivesSame
<1> QED
  BY <1>4, <1>5, <1>6, <1>9, <1>10, Collected

-----------------------------------------------------------------------------
(* Submit: the command goes to the queue of the receiver, or its refusal   *)
(* is replied at once.                                                     *)
Submitted(w, d, c, s, Q) ==
  \/ /\ active[d] /\ UNCHANGED result
     /\ ToSet(cmds'[d]) = ToSet(Q[d]) \cup {Entry(c, "submit")}
     /\ \A v \in Workers : v # d => cmds'[v] = Q[v]
     /\ Frames(w)' = ToSet(s)
  \/ /\ ~active[d] /\ result' = [result EXCEPT ![c] = "refused"]
     /\ \A v \in Workers : cmds'[v] = Q[v]
     /\ Frames(w)' = ToSet(s) \cup {Frame("reply", c)}

LEMMA SubmitEffect ==
  ASSUME AInv, NEW w \in Workers, NEW d \in Workers, NEW c \in Cmds,
         NEW s \in Seq(FrameSet), Stacked(s), \A f \in ToSet(s) : ~(f.cmd = c /\ Owning(f)),
         NEW Q \in [Workers -> Seq(Entries)], \A v \in Workers : Matches(Q[v], events[v]),
         \A v \in Workers : \A e \in ToSet(Q[v]) : e.cmd = c => e.kind = "assign",
         Submit(w, d, c, s, Q)
  PROVE  /\ cmds' \in [Workers -> Seq(Entries)] /\ events' \in [Workers -> Seq(Events)]
         /\ EventsMatchQueue'
         /\ stack' \in [Workers -> Seq(FrameSet)] /\ AllStacked'
         /\ \A v \in Workers : v # w => Frames(v)' = Frames(v)
         /\ Submitted(w, d, c, s, Q)
<1>1. events \in [Workers -> Seq(Events)] /\ events[d] \in Seq(Events)
  BY DEF AInv, TypeOK
<1>2. CASE /\ active[d]
           /\ cmds' = [Q EXCEPT ![d] = Append(@, Entry(c, "submit"))]
           /\ events' = [events EXCEPT ![d] = Append(@, Entry(c, "submit"))]
           /\ SetStack(w, s) /\ UNCHANGED result
  <2>1. PICK e \in Events : e = Entry(c, "submit") /\ e.cmd = c /\ e.kind = "submit"
    BY EntryFacts
  <2>2. PICK u \in Seq(Entries), a \in Seq(Events) :
          u = Q[d] /\ a = events[d] /\ Matches(u, a) /\ e \notin ToSet(u)
    BY <1>1, <2>1
  <2>3. PICK q, ev : q = Append(u, e) /\ ev = Append(a, e)
    OBVIOUS
  <2>4. /\ q \in Seq(Entries) /\ ev \in Seq(Events) /\ Matches(q, ev)
        /\ ToSet(q) = ToSet(u) \cup {e}
    <3>1. Matches(u, a) /\ e \notin ToSet(u)
      BY <2>2
    <3>2. q \in Seq(Entries) /\ ev \in Seq(Events) /\ Matches(q, ev)
      BY <2>3, <3>1, PushBoth
    <3>3. ToSet(q) = ToSet(u) \cup {e}
      BY <2>3, <3>1, PushBoth
    <3> QED
      BY <3>2, <3>3
  <2>5. cmds' = [Q EXCEPT ![d] = q] /\ events' = [events EXCEPT ![d] = ev]
    BY <1>1, <1>2, <2>1, <2>2, <2>3
  <2>6. /\ cmds' \in [Workers -> Seq(Entries)] /\ events' \in [Workers -> Seq(Events)]
        /\ EventsMatchQueue' /\ cmds'[d] = q
        /\ \A v \in Workers : v # d => cmds'[v] = Q[v]
    BY <1>1, <2>4, <2>5, QueueChange
  <2>7. /\ stack' \in [Workers -> Seq(FrameSet)] /\ AllStacked' /\ Frames(w)' = ToSet(s)
        /\ \A v \in Workers : v # w => Frames(v)' = Frames(v)
    BY <1>2, StackChange
  <2> QED
    BY <1>2, <2>1, <2>2, <2>4, <2>6, <2>7 DEF Submitted
<1>3. CASE /\ ~active[d] /\ result' = [result EXCEPT ![c] = "refused"]
           /\ SetStack(w, Append(s, Frame("reply", c))) /\ cmds' = Q /\ UNCHANGED events
  <2>1. PICK f \in FrameSet : /\ f = Frame("reply", c) /\ FrameRight(f)
                              /\ f.kind = "reply" /\ f.cmd = c
    BY FrameFacts
  <2>2. PICK t : t = Append(s, f)
    OBVIOUS
  <2>3. t \in Seq(FrameSet) /\ Stacked(t) /\ ToSet(t) = ToSet(s) \cup {f}
    <3>1. \A g \in ToSet(s) : ~Alike(g, f)
      BY <2>1 DEF Alike, Owning
    <3> QED
      BY <2>1, <2>2, <3>1, StackPush
  <2>4. SetStack(w, t)
    BY <1>3, <2>1, <2>2
  <2>5. /\ stack' \in [Workers -> Seq(FrameSet)] /\ AllStacked' /\ Frames(w)' = ToSet(t)
        /\ \A v \in Workers : v # w => Frames(v)' = Frames(v)
    BY <2>3, <2>4, StackChange
  <2>6. /\ cmds' \in [Workers -> Seq(Entries)] /\ events' \in [Workers -> Seq(Events)]
        /\ EventsMatchQueue'
    BY <1>1, <1>3 DEF EventsMatchQueue
  <2> QED
    BY <1>3, <2>1, <2>3, <2>5, <2>6 DEF Submitted
<1> QED
  BY <1>2, <1>3 DEF Submit

(* What the three callers of Submit hand to it: the stack and the queues   *)
(* they leave, and the records of the command.                             *)
Submitting(w, d, c, s, Q, r) ==
  /\ Stacked(s) /\ \A f \in ToSet(s) : ~(f.cmd = c /\ Owning(f))
  /\ \A f \in ToSet(s) : f \in Frames(w) \/ (f = Frame("wait", c) /\ c \notin used)
  /\ \A f \in Frames(w) : f.kind = "event" => f \in ToSet(s)
  /\ \E f \in Frames(w) : f.kind = "exec"
  /\ \A v \in Workers : Matches(Q[v], events[v])
  /\ \A v \in Workers : \A e \in ToSet(Q[v]) :
       e \in ToSet(cmds[v]) \/ (v = w /\ e = Entry(c, "assign") /\ c \notin used)
  /\ \A v \in Workers : ~Queued(v, c) /\ ~Kept(v, c) /\ (Framed(v, c) => v = w)
  /\ Submit(w, d, c, s, Q)
  /\ used' = used \cup {c} /\ UNCHANGED <<exeReady, held, lives>>
  /\ callers' = [callers EXCEPT ![c] = r]

LEMMA SubmitStep ==
  ASSUME AInv, NEW w \in Workers, NEW d \in Workers, NEW c \in Cmds,
         NEW s \in Seq(FrameSet), NEW Q \in [Workers -> Seq(Entries)], NEW r \in Seq(Recs),
         Submitting(w, d, c, s, Q, r)
  PROVE  AInv'
<1> /\ Stacked(s) /\ \A f \in ToSet(s) : ~(f.cmd = c /\ Owning(f))
    /\ \A f \in ToSet(s) : f \in Frames(w) \/ (f = Frame("wait", c) /\ c \notin used)
    /\ \A v \in Workers : Matches(Q[v], events[v])
    /\ \A v \in Workers : \A e \in ToSet(Q[v]) :
         e \in ToSet(cmds[v]) \/ (v = w /\ e = Entry(c, "assign") /\ c \notin used)
    /\ \A v \in Workers : ~Queued(v, c) /\ ~Kept(v, c) /\ (Framed(v, c) => v = w)
    /\ Submit(w, d, c, s, Q)
    /\ used' = used \cup {c} /\ UNCHANGED <<exeReady, held, lives>>
    /\ callers' = [callers EXCEPT ![c] = r]
  BY DEF Submitting
<1>1. \A v \in Workers : \A e \in ToSet(Q[v]) : e.cmd = c => e.kind = "assign"
  BY DEF Queued, Entry
<1>2. /\ cmds' \in [Workers -> Seq(Entries)] /\ events' \in [Workers -> Seq(Events)]
      /\ EventsMatchQueue'
      /\ stack' \in [Workers -> Seq(FrameSet)] /\ AllStacked'
      /\ \A v \in Workers : v # w => Frames(v)' = Frames(v)
      /\ Submitted(w, d, c, s, Q)
  BY <1>1, SubmitEffect
<1>3. PICK n, x, y, a : /\ n = Entry(c, "submit") /\ n.cmd = c /\ n.kind = "submit"
                        /\ x = Frame("reply", c) /\ x.cmd = c /\ x.kind = "reply"
                        /\ y = Frame("wait", c) /\ y.cmd = c /\ y.kind = "wait"
                        /\ a = Entry(c, "assign") /\ a.cmd = c /\ a.kind = "assign"
  BY EntryFacts, FrameFacts
<1>4. /\ \A v \in Workers : \A e \in ToSet(cmds'[v]) :
           e \in ToSet(Q[v]) \/ (e = n /\ v = d /\ Frames(w)' = ToSet(s))
      /\ \A f \in Frames(w)' :
           f \in ToSet(s) \/ (f = x /\ \A v \in Workers : cmds'[v] = Q[v])
  BY <1>2, <1>3 DEF Submitted
<1>5. \A v \in Workers : \A e \in ToSet(Q[v]) :
        e \in ToSet(cmds[v]) \/ (v = w /\ e = a /\ c \notin used)
  BY <1>3
<1>6. \A v \in Workers : \A f \in Frames(v)' :
        f \in Frames(v) \/ (v = w /\ (f = x \/ (f = y /\ c \notin used)))
  BY <1>2, <1>3, <1>4
<1>7. \A v \in Workers : \A e, f \in ToSet(cmds'[v]) :
        e.cmd = c /\ f.cmd = c /\ (e.kind = "assign" <=> f.kind = "assign") => e = f
  <2> SUFFICES ASSUME NEW v \in Workers, NEW e \in ToSet(cmds'[v]), NEW f \in ToSet(cmds'[v]),
                      e.cmd = c, f.cmd = c, e.kind = "assign" <=> f.kind = "assign"
               PROVE  e = f
    OBVIOUS
  <2>1. c \notin used => \A g \in ToSet(cmds[v]) : g.cmd # c
    BY DEF AInv, FreshRoles
  <2>2. CASE e \in ToSet(Q[v]) /\ f \in ToSet(Q[v])
    <3>1. CASE e \in ToSet(cmds[v]) /\ f \in ToSet(cmds[v])
      BY <3>1 DEF AInv, OneEntries
    <3> QED
      BY <1>5, <2>1, <2>2, <3>1
  <2>3. CASE e = n \/ f = n
    BY <1>1, <1>3, <1>4, <2>3
  <2> QED
    BY <1>4, <2>2, <2>3
<1>8. \/ \A v \in Workers : (Queued(v, c)' => v = d) /\ ~Framed(v, c)' /\ ~Kept(v, c)'
      \/ \A v \in Workers : (Framed(v, c)' => v = w) /\ ~Queued(v, c)' /\ ~Kept(v, c)'
  <2>1. \A v \in Workers : ~Kept(v, c)'
    BY DEF Kept
  <2>2. \A v \in Workers : (Queued(v, c)' => v = d) /\ (Framed(v, c)' => v = w)
    <3>1. \A v \in Workers : Queued(v, c)' => v = d
      BY <1>1, <1>4 DEF Queued
    <3>2. \A v \in Workers : Framed(v, c)' => v = w
      BY <1>2 DEF Framed
    <3> QED
      BY <3>1, <3>2
  <2>3. CASE Frames(w)' = ToSet(s)
    <3>1. ~Framed(w, c)'
      BY <2>3 DEF Framed, Owning
    <3> QED
      BY <2>1, <2>2, <3>1
  <2>4. CASE \A v \in Workers : cmds'[v] = Q[v]
    <3>1. \A v \in Workers : ~Queued(v, c)'
      BY <1>1, <2>4 DEF Queued
    <3> QED
      BY <2>1, <2>2, <3>1
  <2> QED
    BY <1>2, <2>3, <2>4 DEF Submitted
<1>9. \A v \in Workers : Waits(v, c)' => Waits(v, c) \/ (v = w /\ c \notin used)
  BY <1>3, <1>6 DEF Waits
<1>10. OneOwner' /\ OneCaller' /\ OneEntries' /\ FreshRoles'
  <2>1. c \in used' /\ used \subseteq used' /\ \A v \in Workers : held'[v] \subseteq held[v] \cup {c}
    OBVIOUS
  <2>2. /\ \A v \in Workers : \A e \in ToSet(cmds'[v]) : e.cmd # c => e \in ToSet(cmds[v])
        /\ \A v \in Workers : \A f \in Frames(v)' : f.cmd \in Cmds /\ f.cmd # c => f \in Frames(v)
    BY <1>3, <1>4, <1>5, <1>6
  <2>3. \E h \in Workers :
        \/ \A v \in Workers : (Queued(v, c)' => v = h) /\ ~Framed(v, c)' /\ ~Kept(v, c)'
        \/ \A v \in Workers : (Framed(v, c)' => v = h) /\ ~Queued(v, c)' /\ ~Kept(v, c)'
        \/ \A v \in Workers : (Kept(v, c)' => v = h) /\ ~Queued(v, c)' /\ ~Framed(v, c)'
    BY <1>8
  <2> QED
    BY <1>7, <1>9, <2>1, <2>2, <2>3, Moved
<1>11. CallsTyped' /\ FreshCalls'
  <2>1. c \in used' /\ used' \subseteq Cmds /\ used \subseteq used' /\ exeReady[c] \in BOOLEAN
    BY DEF AInv, TypeOK
  <2>2. exeReady' = [exeReady EXCEPT ![c] = exeReady[c]]
    BY DEF AInv, TypeOK
  <2>3. \E z \in {"none", "done", "refused"} : result' = [result EXCEPT ![c] = z]
    BY <1>2 DEF AInv, TypeOK, Submitted
  <2> QED
    BY <2>1, <2>2, <2>3, CallChanges
<1>12. LivesTyped' /\ held' \in [Workers -> SUBSET Cmds]
  BY LivesSame, Parts
<1> QED
  BY <1>2, <1>10, <1>11, <1>12, Collected

(* A handler redirects its command, calls somebody and goes on, or calls   *)
(* somebody and waits.                                                     *)
Redirecting(w, c, s, Q, r) ==
  /\ c \in used /\ r = callers[c] /\ Q = cmds
  /\ Top(w).kind = "exec" /\ Top(w).cmd = c /\ Top(w) \in Frames(w)
  /\ \A f \in ToSet(s) : f \in Frames(w)
  /\ \A f \in Frames(w) : f \in ToSet(s) \/ f = Top(w)
Assigning(w, c, s, Q, r) ==
  /\ c \notin used /\ r = <<Rec(w, FALSE)>> /\ ToSet(s) = Frames(w)
  /\ \A v \in Workers : v # w => Q[v] = cmds[v]
  /\ ToSet(Q[w]) = ToSet(cmds[w]) \cup {Entry(c, "assign")}
Waiting(w, c, s, Q, r) ==
  /\ c \notin used /\ r = <<Rec(w, TRUE)>> /\ Q = cmds
  /\ ToSet(s) = Frames(w) \cup {Frame("wait", c)}

LEMMA RedirectIsSubmit ==
  ASSUME AInv, NEW w \in Workers, HandlerRedirects(w)
  PROVE  \E d \in Workers, c \in Cmds, s \in Seq(FrameSet),
            Q \in [Workers -> Seq(Entries)], r \in Seq(Recs) :
           Submitting(w, d, c, s, Q, r) /\ Redirecting(w, c, s, Q, r)
<1>1. PICK c \in Cmds, d \in Workers :
        /\ stack[w] # <<>> /\ Top(w).kind = "exec" /\ Top(w).cmd = c
        /\ Submit(w, d, c, Pop(w), cmds)
        /\ UNCHANGED <<used, callers, exeReady, held, lives>>
  BY DEF HandlerRedirects, Running, TopIs
<1>2. /\ c \in used
      /\ \A v \in Workers : (Framed(v, c) => v = w) /\ ~Queued(v, c) /\ ~Kept(v, c)
      /\ \A f \in ToSet(Pop(w)) : ~(f.cmd = c /\ Owning(f))
  BY <1>1, OwnerPopped DEF Owning
<1>3. /\ Pop(w) \in Seq(FrameSet) /\ Stacked(Pop(w)) /\ Top(w) \in Frames(w)
      /\ \A f \in ToSet(Pop(w)) : f \in Frames(w)
      /\ \A f \in Frames(w) : f \in ToSet(Pop(w)) \/ f = Top(w)
  BY <1>1, PopFacts
<1>4. PICK s \in Seq(FrameSet) : s = Pop(w)
  BY <1>3
<1>5. /\ cmds \in [Workers -> Seq(Entries)] /\ \A v \in Workers : Matches(cmds[v], events[v])
      /\ callers[c] \in Seq(Recs) /\ callers' = [callers EXCEPT ![c] = callers[c]]
  BY <1>1 DEF AInv, TypeOK, EventsMatchQueue
<1>6. used' = used \cup {c}
  BY <1>1, <1>2
<1>7. Stacked(s) /\ Submit(w, d, c, s, cmds) /\ UNCHANGED <<exeReady, held, lives>>
  BY <1>1, <1>3, <1>4
<1>8. /\ \A f \in ToSet(s) : ~(f.cmd = c /\ Owning(f))
      /\ \A f \in ToSet(s) : f \in Frames(w) \/ (f = Frame("wait", c) /\ c \notin used)
      /\ \A f \in Frames(w) : f.kind = "event" => f \in ToSet(s)
      /\ \E f \in Frames(w) : f.kind = "exec"
      /\ \A v \in Workers : \A e \in ToSet(cmds[v]) :
           e \in ToSet(cmds[v]) \/ (v = w /\ e = Entry(c, "assign") /\ c \notin used)
      /\ \A v \in Workers : ~Queued(v, c) /\ ~Kept(v, c) /\ (Framed(v, c) => v = w)
  BY <1>1, <1>2, <1>3, <1>4
<1>9. PICK Q \in [Workers -> Seq(Entries)], r \in Seq(Recs) : Q = cmds /\ r = callers[c]
  BY <1>5
<1>10. Submitting(w, d, c, s, Q, r)
  BY <1>5, <1>6, <1>7, <1>8, <1>9 DEF Submitting
<1>11. Redirecting(w, c, s, Q, r)
  BY <1>1, <1>2, <1>3, <1>4, <1>9 DEF Redirecting
<1> QED
  BY <1>10, <1>11

LEMMA NextCmdIsFresh ==
  ASSUME AInv, used # Cmds, NEW c, c = NextCmd
  PROVE  /\ c \in Cmds /\ c \notin used /\ callers[c] = <<>> /\ ~exeReady[c] /\ result[c] = "none"
         /\ \A v \in Workers : /\ ~Queued(v, c) /\ ~Kept(v, c) /\ ~Framed(v, c) /\ ~Waits(v, c)
                               /\ \A e \in ToSet(cmds[v]) : e.cmd # c
                               /\ \A f \in Frames(v) : ~(f.cmd = c /\ Owning(f))
<1>1. c \in Cmds \ used
  <2>1. \E x : x \in Cmds \ used
    BY DEF AInv, TypeOK
  <2> QED
    BY <2>1 DEF NextCmd
<1>2. callers[c] = <<>> /\ ~exeReady[c] /\ result[c] = "none"
  BY <1>1 DEF AInv, FreshCalls
<1>3. \A v \in Workers : /\ ~Queued(v, c) /\ ~Kept(v, c) /\ ~Framed(v, c) /\ ~Waits(v, c)
                         /\ \A e \in ToSet(cmds[v]) : e.cmd # c
                         /\ \A f \in Frames(v) : ~(f.cmd = c /\ Owning(f))
  BY <1>1 DEF AInv, FreshRoles, Queued, Framed, Owning
<1> QED
  BY <1>1, <1>2, <1>3

LEMMA FirstRecord ==
  ASSUME AInv, NEW c \in Cmds, callers[c] = <<>>, NEW r \in Recs,
         callers' = [callers EXCEPT ![c] = Append(@, r)]
  PROVE  <<r>> \in Seq(Recs) /\ callers' = [callers EXCEPT ![c] = <<r>>]
BY DEF AInv, TypeOK

LEMMA AsyncEffect ==
  ASSUME AInv, NEW w \in Workers, NEW c \in Cmds,
         \A e \in ToSet(cmds[w]) : e.cmd # c,
         NEW Q, Q = [cmds EXCEPT ![w] = Append(@, Entry(c, "assign"))]
  PROVE  /\ Q \in [Workers -> Seq(Entries)]
         /\ \A v \in Workers : Matches(Q[v], events[v])
         /\ \A v \in Workers : v # w => Q[v] = cmds[v]
         /\ ToSet(Q[w]) = ToSet(cmds[w]) \cup {Entry(c, "assign")}
<1>1. /\ cmds \in [Workers -> Seq(Entries)] /\ cmds[w] \in Seq(Entries)
      /\ events[w] \in Seq(Events)
      /\ Matches(cmds[w], events[w])
      /\ \A v \in Workers : Matches(cmds[v], events[v])
  BY DEF AInv, TypeOK, EventsMatchQueue
<1>2. PICK e \in Entries : e = Entry(c, "assign") /\ e.cmd = c /\ e.kind = "assign"
  BY EntryFacts
<1>3. PICK q : q = Append(cmds[w], e) /\ e \notin ToSet(cmds[w])
  BY <1>2
<1>4. q \in Seq(Entries) /\ Matches(q, events[w]) /\ ToSet(q) = ToSet(cmds[w]) \cup {e}
  <2>1. e.kind \in {"assign", "postponed"}
    BY <1>2
  <2>2. PICK u \in Seq(Entries), a \in Seq(Events) : u = cmds[w] /\ a = events[w]
    BY <1>1
  <2>3. Matches(u, a) /\ e \notin ToSet(u) /\ q = Append(u, e)
    BY <1>1, <1>3, <2>2
  <2>4. q \in Seq(Entries) /\ Matches(q, a) /\ ToSet(q) = ToSet(u) \cup {e}
    BY <2>1, <2>3, PushOne
  <2> QED
    BY <2>2, <2>4
<1>5. Q = [cmds EXCEPT ![w] = q]
  BY <1>1, <1>2, <1>3
<1>6. Q \in [Workers -> Seq(Entries)] /\ Q[w] = q /\ \A v \in Workers : v # w => Q[v] = cmds[v]
  BY <1>1, <1>4, <1>5
<1> QED
  BY <1>1, <1>2, <1>4, <1>6

LEMMA AsyncIsSubmit ==
  ASSUME AInv, NEW w \in Workers, AsyncCall(w)
  PROVE  \E d \in Workers, c \in Cmds, s \in Seq(FrameSet),
            Q \in [Workers -> Seq(Entries)], r \in Seq(Recs) :
           Submitting(w, d, c, s, Q, r) /\ Assigning(w, c, s, Q, r)
<1>1. PICK c : c = NextCmd
  OBVIOUS
<1>2. PICK d, Q :
        /\ d \in Workers /\ stack[w] # <<>> /\ Top(w).kind = "exec" /\ used # Cmds /\ used' = used \cup {c}
        /\ callers' = [callers EXCEPT ![c] = Append(@, Rec(w, FALSE))]
        /\ Q = [cmds EXCEPT ![w] = Append(@, Entry(c, "assign"))]
        /\ Submit(w, d, c, stack[w], Q)
        /\ UNCHANGED <<exeReady, held, lives>>
  BY <1>1 DEF AsyncCall, TopIs
<1>3. /\ c \in Cmds /\ c \notin used /\ callers[c] = <<>>
      /\ \A v \in Workers : /\ ~Queued(v, c) /\ ~Kept(v, c) /\ ~Framed(v, c)
                            /\ \A e \in ToSet(cmds[v]) : e.cmd # c
                            /\ \A f \in Frames(v) : ~(f.cmd = c /\ Owning(f))
  BY <1>1, <1>2, NextCmdIsFresh
<1>4. <<Rec(w, FALSE)>> \in Seq(Recs) /\ callers' = [callers EXCEPT ![c] = <<Rec(w, FALSE)>>]
  <2>1. PICK r \in Recs : r = Rec(w, FALSE)
    BY DEF Rec, Recs
  <2> QED
    BY <1>2, <1>3, <2>1, FirstRecord
<1>5. /\ Q \in [Workers -> Seq(Entries)]
      /\ \A v \in Workers : Matches(Q[v], events[v])
      /\ \A v \in Workers : v # w => Q[v] = cmds[v]
      /\ ToSet(Q[w]) = ToSet(cmds[w]) \cup {Entry(c, "assign")}
  <2>1. /\ c \in Cmds /\ \A e \in ToSet(cmds[w]) : e.cmd # c
        /\ Q = [cmds EXCEPT ![w] = Append(@, Entry(c, "assign"))]
    BY <1>2, <1>3
  <2>2. Q \in [Workers -> Seq(Entries)]
    BY <2>1, AsyncEffect
  <2>3. \A v \in Workers : Matches(Q[v], events[v])
    BY <2>1, AsyncEffect
  <2>4. \A v \in Workers : v # w => Q[v] = cmds[v]
    BY <2>1, AsyncEffect
  <2>5. ToSet(Q[w]) = ToSet(cmds[w]) \cup {Entry(c, "assign")}
    BY <2>1, AsyncEffect
  <2> QED
    BY <2>2, <2>3, <2>4, <2>5
<1>6. PICK s \in Seq(FrameSet) : s = stack[w] /\ Stacked(s) /\ ToSet(s) = Frames(w)
  BY Parts DEF Frames
<1>7. /\ Submit(w, d, c, s, Q) /\ UNCHANGED <<exeReady, held, lives>>
      /\ used' = used \cup {c}
  BY <1>2, <1>6
<1>8. /\ \A f \in ToSet(s) : ~(f.cmd = c /\ Owning(f))
      /\ \A f \in ToSet(s) : f \in Frames(w) \/ (f = Frame("wait", c) /\ c \notin used)
      /\ \A f \in Frames(w) : f.kind = "event" => f \in ToSet(s)
      /\ \A v \in Workers : ~Queued(v, c) /\ ~Kept(v, c) /\ (Framed(v, c) => v = w)
  BY <1>3, <1>6
<1>9. \E f \in Frames(w) : f.kind = "exec"
  BY <1>2, PopFacts
<1>10. \A v \in Workers : \A e \in ToSet(Q[v]) :
         e \in ToSet(cmds[v]) \/ (v = w /\ e = Entry(c, "assign") /\ c \notin used)
  BY <1>3, <1>5
<1>11. PICK r \in Seq(Recs) : r = <<Rec(w, FALSE)>> /\ callers' = [callers EXCEPT ![c] = r]
  BY <1>4
<1>12. Submitting(w, d, c, s, Q, r)
  BY <1>5, <1>6, <1>7, <1>8, <1>9, <1>10, <1>11 DEF Submitting
<1>13. Assigning(w, c, s, Q, r)
  BY <1>3, <1>5, <1>6, <1>11 DEF Assigning
<1> QED
  BY <1>2, <1>3, <1>5, <1>12, <1>13

LEMMA WaitPushed ==
  ASSUME AInv, NEW w \in Workers, NEW c \in Cmds, NEW s, s = Push(w, Frame("wait", c)),
         \A f \in Frames(w) : f.cmd # c \/ f.kind # "wait"
  PROVE  s \in Seq(FrameSet) /\ Stacked(s) /\ ToSet(s) = Frames(w) \cup {Frame("wait", c)}
<1>1. PICK r \in Seq(FrameSet) : r = stack[w] /\ Stacked(r) /\ ToSet(r) = Frames(w)
  BY Parts DEF Frames
<1>2. PICK f \in FrameSet : f = Frame("wait", c) /\ FrameRight(f) /\ f.kind = "wait" /\ f.cmd = c
  BY FrameFacts
<1>3. \A g \in ToSet(r) : ~Alike(g, f)
  BY <1>1, <1>2 DEF Alike, Owning
<1>4. s = Append(r, f)
  BY <1>1, <1>2 DEF Push
<1>5. s \in Seq(FrameSet) /\ Stacked(s) /\ ToSet(s) = ToSet(r) \cup {f}
  BY <1>1, <1>2, <1>3, <1>4, StackPush
<1> QED
  BY <1>1, <1>2, <1>5

LEMMA SyncIsSubmit ==
  ASSUME AInv, NEW w \in Workers, SyncCall(w)
  PROVE  \E d \in Workers, c \in Cmds, s \in Seq(FrameSet),
            Q \in [Workers -> Seq(Entries)], r \in Seq(Recs) :
           Submitting(w, d, c, s, Q, r) /\ Waiting(w, c, s, Q, r)
<1>1. PICK c : c = NextCmd
  OBVIOUS
<1>2. PICK d, s :
        /\ d \in Workers /\ stack[w] # <<>> /\ Top(w).kind = "exec" /\ used # Cmds /\ used' = used \cup {c}
        /\ callers' = [callers EXCEPT ![c] = Append(@, Rec(w, TRUE))]
        /\ s = Push(w, Frame("wait", c))
        /\ Submit(w, d, c, s, cmds)
        /\ UNCHANGED <<exeReady, held, lives>>
  BY <1>1 DEF SyncCall, TopIs
<1>3. /\ c \in Cmds /\ c \notin used /\ callers[c] = <<>>
      /\ \A v \in Workers : /\ ~Queued(v, c) /\ ~Kept(v, c) /\ ~Framed(v, c) /\ ~Waits(v, c)
                            /\ \A f \in Frames(v) : ~(f.cmd = c /\ Owning(f))
  BY <1>1, <1>2, NextCmdIsFresh
<1>4. <<Rec(w, TRUE)>> \in Seq(Recs) /\ callers' = [callers EXCEPT ![c] = <<Rec(w, TRUE)>>]
  <2>1. PICK r \in Recs : r = Rec(w, TRUE)
    BY DEF Rec, Recs
  <2> QED
    BY <1>2, <1>3, <2>1, FirstRecord
<1>5. s \in Seq(FrameSet) /\ Stacked(s) /\ ToSet(s) = Frames(w) \cup {Frame("wait", c)}
  <2>1. \A f \in Frames(w) : f.cmd # c \/ f.kind # "wait"
    BY <1>3 DEF Waits
  <2> QED
    BY <1>2, <1>3, <2>1, WaitPushed
<1>6. /\ cmds \in [Workers -> Seq(Entries)]
      /\ \A v \in Workers : Matches(cmds[v], events[v])
  BY DEF AInv, TypeOK, EventsMatchQueue
<1>7. /\ \A f \in ToSet(s) : ~(f.cmd = c /\ Owning(f))
      /\ \A f \in ToSet(s) : f \in Frames(w) \/ (f = Frame("wait", c) /\ c \notin used)
      /\ \A f \in Frames(w) : f.kind = "event" => f \in ToSet(s)
  BY <1>3, <1>5 DEF Frame, Owning
<1>8. \E f \in Frames(w) : f.kind = "exec"
  BY <1>2, PopFacts
<1>9. PICK Q \in [Workers -> Seq(Entries)], r \in Seq(Recs) :
        Q = cmds /\ r = <<Rec(w, TRUE)>> /\ callers' = [callers EXCEPT ![c] = r]
  BY <1>4, <1>6
<1>10. /\ \A v \in Workers : \A e \in ToSet(Q[v]) :
            e \in ToSet(cmds[v]) \/ (v = w /\ e = Entry(c, "assign") /\ c \notin used)
       /\ \A v \in Workers : ~Queued(v, c) /\ ~Kept(v, c) /\ (Framed(v, c) => v = w)
  BY <1>3, <1>9
<1>11. Submitting(w, d, c, s, Q, r)
  BY <1>2, <1>5, <1>6, <1>7, <1>8, <1>9, <1>10 DEF Submitting
<1>12. Waiting(w, c, s, Q, r)
  BY <1>3, <1>5, <1>9 DEF Waiting
<1> QED
  BY <1>2, <1>3, <1>5, <1>11, <1>12

(* All three are submissions.                                              *)
LEMMA SubmissionAInv ==
  ASSUME AInv, NEW w \in Workers, HandlerRedirects(w) \/ AsyncCall(w) \/ SyncCall(w)
  PROVE  AInv'
<1>1. PICK d \in Workers, c \in Cmds, s \in Seq(FrameSet),
            Q \in [Workers -> Seq(Entries)], r \in Seq(Recs) : Submitting(w, d, c, s, Q, r)
  BY RedirectIsSubmit, AsyncIsSubmit, SyncIsSubmit
<1> QED
  BY <1>1, SubmitStep

-----------------------------------------------------------------------------
(* Reply hands the command to the caller whose record it took.             *)
LEMMA DeliverFacts ==
  ASSUME AInv, NEW w \in Workers, ReplyDelivers(w), NEW c, c = Top(w).cmd, NEW r, r = Top(w).rec
  PROVE  /\ stack[w] # <<>> /\ Top(w).kind = "reply" /\ Owning(Top(w)) /\ r \in Recs
         /\ c \in Cmds /\ c \in used /\ callers[c] \in Seq(Recs) /\ Top(w) \in Frames(w)
         /\ UNCHANGED <<used, callers, result, held, lives>>
         /\ \/ /\ r.sync /\ exeReady' = [exeReady EXCEPT ![c] = TRUE]
               /\ SetStack(w, Pop(w)) /\ UNCHANGED queues
            \/ /\ ~r.sync /\ active[r.worker]
               /\ cmds' = [cmds EXCEPT ![r.worker] = ChangeKind(r.worker, c)]
               /\ events' = [events EXCEPT ![r.worker] = Append(@, Entry(c, "reply"))]
               /\ SetStack(w, Pop(w)) /\ UNCHANGED exeReady
            \/ /\ ~r.sync /\ ~active[r.worker]
               /\ cmds' = [cmds EXCEPT ![r.worker] = Without(r.worker, c, "assign")]
               /\ SetStack(w, Become(w, Frame("reply", c)))
               /\ UNCHANGED <<events, exeReady>>
<1>1. stack[w] # <<>> /\ Top(w).kind = "reply" /\ r # NoRec
  BY DEF ReplyDelivers, TopIs
<1>2. /\ c \in Cmds /\ c \in used /\ callers[c] \in Seq(Recs)
      /\ Top(w) \in Frames(w) /\ Top(w) \in FrameSet
  BY <1>1, TopCommand
<1>3. r \in Recs /\ Owning(Top(w))
  BY <1>1, <1>2 DEF FrameSet, Owning
<1> QED
  BY <1>1, <1>2, <1>3 DEF ReplyDelivers

LEMMA DeliverSync ==
  ASSUME AInv, NEW w \in Workers, ReplyDelivers(w), Top(w).rec.sync
  PROVE  AInv'
<1>1. PICK c, r : c = Top(w).cmd /\ r = Top(w).rec
  OBVIOUS
<1>2. /\ stack[w] # <<>> /\ c \in Cmds /\ c \in used /\ callers[c] \in Seq(Recs)
      /\ UNCHANGED <<used, callers, result, held, lives>>
      /\ exeReady' = [exeReady EXCEPT ![c] = TRUE] /\ SetStack(w, Pop(w)) /\ UNCHANGED queues
  BY <1>1, DeliverFacts
<1>3. CallsTyped' /\ FreshCalls'
  <2>1. /\ used' \subseteq Cmds /\ used \subseteq used' /\ c \in used'
        /\ TRUE \in BOOLEAN /\ result[c] \in {"none", "done", "refused"}
    BY <1>2 DEF AInv, TypeOK
  <2>2. /\ result' = [result EXCEPT ![c] = result[c]]
        /\ callers' = [callers EXCEPT ![c] = callers[c]]
    BY <1>2 DEF AInv, TypeOK
  <2> QED
    BY <1>2, <2>1, <2>2, CallChanges
<1>4. LivesTyped' /\ UNCHANGED <<used, cmds, events, held>>
  BY <1>2, LivesSame DEF queues
<1> QED
  BY <1>2, <1>3, <1>4, PopOnly

LEMMA DeliverAsyncEffect ==
  ASSUME AInv, NEW d \in Workers, NEW c \in Cmds, ~Queued(d, c),
         cmds' = [cmds EXCEPT ![d] = ChangeKind(d, c)],
         events' = [events EXCEPT ![d] = Append(@, Entry(c, "reply"))]
  PROVE  /\ cmds' \in [Workers -> Seq(Entries)] /\ events' \in [Workers -> Seq(Events)]
         /\ EventsMatchQueue'
         /\ \A v \in Workers : v # d => cmds'[v] = cmds[v]
         /\ ToSet(cmds'[d]) = (ToSet(cmds[d]) \ {Entry(c, "assign")}) \cup {Entry(c, "reply")}
<1>1. /\ cmds \in [Workers -> Seq(Entries)] /\ events \in [Workers -> Seq(Events)]
      /\ cmds[d] \in Seq(Entries) /\ events[d] \in Seq(Events)
      /\ \A v \in Workers : Matches(cmds[v], events[v])
  BY DEF AInv, TypeOK, EventsMatchQueue
<1>2. PICK q \in Seq(Entries), ev \in Seq(Events) : q = cmds[d] /\ ev = events[d]
  BY <1>1
<1>3. Matches(q, ev) /\ \A e \in ToSet(q) : e.cmd = c => e = Entry(c, "assign")
  <2>1. \A e \in ToSet(q) : e \in Entries
    BY DEF ToSet
  <2>2. ASSUME NEW e \in ToSet(q), e.cmd = c PROVE e = Entry(c, "assign")
    <3>1. e.kind = "assign"
      BY <1>2, <2>2 DEF Queued
    <3> QED
      BY <2>1, <2>2, <3>1 DEF Entries, Entry
  <2> QED
    BY <1>1, <1>2, <2>2
<1>5. PICK r, t : r = Changed(q, c) /\ t = Append(ev, Entry(c, "reply"))
  OBVIOUS
<1>6. /\ r \in Seq(Entries) /\ t \in Seq(Events) /\ Matches(r, t)
      /\ ToSet(r) = (ToSet(q) \ {Entry(c, "assign")}) \cup {Entry(c, "reply")}
  <2>1. r \in Seq(Entries) /\ t \in Seq(Events)
    BY <1>3, <1>5, ChangeBoth
  <2>3. Matches(r, t)
    BY <1>3, <1>5, ChangeBoth
  <2>2. ToSet(r) = (ToSet(q) \ {Entry(c, "assign")}) \cup {Entry(c, "reply")}
    BY <1>3, <1>5, ChangeBoth
  <2> QED
    BY <2>1, <2>2, <2>3
<1>7. cmds' = [cmds EXCEPT ![d] = r] /\ events' = [events EXCEPT ![d] = t]
  BY <1>1, <1>2, <1>5 DEF Changed, ChangeKind, EntriesOf
<1>8. /\ cmds' \in [Workers -> Seq(Entries)] /\ events' \in [Workers -> Seq(Events)]
      /\ EventsMatchQueue' /\ cmds'[d] = r
      /\ \A v \in Workers : v # d => cmds'[v] = cmds[v]
  BY <1>1, <1>6, <1>7, QueueChange
<1> QED
  BY <1>2, <1>6, <1>8

LEMMA DeliverAsync ==
  ASSUME AInv, NEW w \in Workers, ReplyDelivers(w), ~Top(w).rec.sync, active[Top(w).rec.worker]
  PROVE  AInv'
<1>1. PICK c, r : c = Top(w).cmd /\ r = Top(w).rec
  OBVIOUS
<1>2. PICK d \in Workers :
      /\ stack[w] # <<>> /\ Owning(Top(w)) /\ c \in Cmds
      /\ UNCHANGED <<used, callers, result, exeReady, held, lives>>
      /\ cmds' = [cmds EXCEPT ![d] = ChangeKind(d, c)]
      /\ events' = [events EXCEPT ![d] = Append(@, Entry(c, "reply"))]
      /\ SetStack(w, Pop(w))
  BY <1>1, DeliverFacts DEF Recs
<1>3. /\ c \in used
      /\ \A v \in Workers : (Framed(v, c) => v = w) /\ ~Queued(v, c) /\ ~Kept(v, c)
      /\ \A f \in ToSet(Pop(w)) : ~(f.cmd = c /\ Owning(f))
  BY <1>1, <1>2, OwnerPopped
<1>4. /\ cmds' \in [Workers -> Seq(Entries)] /\ events' \in [Workers -> Seq(Events)]
      /\ EventsMatchQueue'
      /\ \A v \in Workers : v # d => cmds'[v] = cmds[v]
      /\ ToSet(cmds'[d]) = (ToSet(cmds[d]) \ {Entry(c, "assign")}) \cup {Entry(c, "reply")}
  BY <1>2, <1>3, DeliverAsyncEffect
<1>5. /\ Pop(w) \in Seq(FrameSet) /\ Stacked(Pop(w)) /\ \A f \in ToSet(Pop(w)) : f \in Frames(w)
  BY <1>2, PopFacts
<1>6. /\ stack' \in [Workers -> Seq(FrameSet)] /\ AllStacked' /\ Frames(w)' = ToSet(Pop(w))
      /\ \A v \in Workers : v # w => Frames(v)' = Frames(v)
  BY <1>2, <1>5, StackChange
<1>7. PICK n : n = Entry(c, "reply") /\ n.cmd = c /\ n.kind = "reply"
  BY <1>2, EntryFacts
<1>8. \A v \in Workers : \A e \in ToSet(cmds'[v]) : e \in ToSet(cmds[v]) \/ (v = d /\ e = n)
  BY <1>4, <1>7
<1>9. \A v \in Workers : \A e \in ToSet(cmds[v]) : e.cmd = c => e.kind = "assign"
  BY <1>3 DEF Queued
<1>10. \A v \in Workers : \A e, f \in ToSet(cmds'[v]) :
         e.cmd = c /\ f.cmd = c /\ (e.kind = "assign" <=> f.kind = "assign") => e = f
  <2> SUFFICES ASSUME NEW v \in Workers, NEW e \in ToSet(cmds'[v]), NEW f \in ToSet(cmds'[v]),
                      e.cmd = c, f.cmd = c, e.kind = "assign" <=> f.kind = "assign"
               PROVE  e = f
    OBVIOUS
  <2>1. CASE e \in ToSet(cmds[v]) /\ f \in ToSet(cmds[v])
    BY <2>1 DEF AInv, OneEntries
  <2> QED
    BY <1>7, <1>8, <1>9, <2>1
<1>11. \A v \in Workers : \A f \in Frames(v)' : f \in Frames(v)
  BY <1>5, <1>6
<1>12. \A v \in Workers : (Queued(v, c)' => v = d) /\ ~Framed(v, c)' /\ ~Kept(v, c)'
  <2>1. \A v \in Workers : (Queued(v, c)' => v = d) /\ ~Kept(v, c)'
    BY <1>2, <1>3, <1>8, <1>9 DEF Queued, Kept
  <2>2. \A v \in Workers : ~Framed(v, c)'
    BY <1>3, <1>6 DEF Framed, Owning
  <2> QED
    BY <2>1, <2>2
<1>13. OneOwner' /\ OneCaller' /\ OneEntries' /\ FreshRoles'
  <2>1. c \in used' /\ used \subseteq used' /\ \A v \in Workers : held'[v] \subseteq held[v] \cup {c}
    BY <1>2, <1>3
  <2>2. /\ \A v \in Workers : \A e \in ToSet(cmds'[v]) : e.cmd # c => e \in ToSet(cmds[v])
        /\ \A v \in Workers : \A f \in Frames(v)' : f.cmd \in Cmds /\ f.cmd # c => f \in Frames(v)
    BY <1>7, <1>8, <1>11
  <2>3. \A v \in Workers : Waits(v, c)' => Waits(v, c) \/ (v = w /\ c \notin used)
    BY <1>11 DEF Waits
  <2>4. \/ \A v \in Workers : (Queued(v, c)' => v = d) /\ ~Framed(v, c)' /\ ~Kept(v, c)'
        \/ \A v \in Workers : (Framed(v, c)' => v = d) /\ ~Queued(v, c)' /\ ~Kept(v, c)'
        \/ \A v \in Workers : (Kept(v, c)' => v = d) /\ ~Queued(v, c)' /\ ~Framed(v, c)'
    BY <1>12
  <2> QED
    BY <1>2, <1>10, <2>1, <2>2, <2>3, <2>4, Moved
<1>14. CallsTyped' /\ FreshCalls' /\ LivesTyped' /\ held' \in [Workers -> SUBSET Cmds]
  BY <1>2, CallsSame, LivesSame, Parts
<1> QED
  BY <1>4, <1>6, <1>13, <1>14, Collected

(* The caller is not there any more: its record is skipped, and the entry  *)
(* it would have found the command with goes away.                         *)
LEMMA WithoutAssigned ==
  ASSUME AInv, NEW d \in Workers, NEW c \in Cmds,
         cmds' = [cmds EXCEPT ![d] = Without(d, c, "assign")], UNCHANGED events
  PROVE  /\ cmds' \in [Workers -> Seq(Entries)] /\ events' \in [Workers -> Seq(Events)]
         /\ EventsMatchQueue'
         /\ \A v \in Workers : v # d => cmds'[v] = cmds[v]
         /\ ToSet(cmds'[d]) = ToSet(cmds[d]) \ {Entry(c, "assign")}
<1>1. /\ cmds \in [Workers -> Seq(Entries)] /\ events \in [Workers -> Seq(Events)]
      /\ cmds[d] \in Seq(Entries) /\ events[d] \in Seq(Events)
      /\ \A v \in Workers : Matches(cmds[v], events[v])
  BY DEF AInv, TypeOK, EventsMatchQueue
<1>2. PICK q \in Seq(Entries), ev \in Seq(Events) : q = cmds[d] /\ ev = events[d]
  BY <1>1
<1>3. PICK e : e = Entry(c, "assign") /\ e.kind = "assign"
  BY EntryFacts
<1>4. PICK r : r = RemoveFirst(q, e)
  OBVIOUS
<1>5. r \in Seq(Entries) /\ Matches(r, ev) /\ ToSet(r) = ToSet(q) \ {e}
  <2>1. Matches(q, ev) /\ e.kind \in {"assign", "postponed"}
    BY <1>1, <1>2, <1>3
  <2> QED
    BY <1>4, <2>1, TakeOne
<1>6. cmds' = [cmds EXCEPT ![d] = r] /\ events' = [events EXCEPT ![d] = ev]
  BY <1>1, <1>2, <1>3, <1>4 DEF Without
<1>7. /\ cmds' \in [Workers -> Seq(Entries)] /\ events' \in [Workers -> Seq(Events)]
      /\ EventsMatchQueue' /\ cmds'[d] = r
      /\ \A v \in Workers : v # d => cmds'[v] = cmds[v]
  BY <1>1, <1>5, <1>6, QueueChange
<1> QED
  BY <1>2, <1>3, <1>5, <1>7

LEMMA DeliverNobody ==
  ASSUME AInv, NEW w \in Workers, ReplyDelivers(w), ~Top(w).rec.sync, ~active[Top(w).rec.worker]
  PROVE  AInv'
<1>1. PICK c, r : c = Top(w).cmd /\ r = Top(w).rec
  OBVIOUS
<1>2. PICK d \in Workers :
      /\ stack[w] # <<>> /\ Owning(Top(w)) /\ c \in Cmds
      /\ UNCHANGED <<used, callers, result, exeReady, held, lives, events>>
      /\ cmds' = [cmds EXCEPT ![d] = Without(d, c, "assign")]
      /\ SetStack(w, Become(w, Frame("reply", c)))
  BY <1>1, DeliverFacts DEF Recs
<1>3. /\ c \in used
      /\ \A v \in Workers : (Framed(v, c) => v = w) /\ ~Queued(v, c) /\ ~Kept(v, c)
  BY <1>1, <1>2, OwnerPopped
<1>4. /\ cmds' \in [Workers -> Seq(Entries)] /\ events' \in [Workers -> Seq(Events)]
      /\ EventsMatchQueue'
      /\ \A v \in Workers : v # d => cmds'[v] = cmds[v]
      /\ ToSet(cmds'[d]) = ToSet(cmds[d]) \ {Entry(c, "assign")}
  BY <1>2, WithoutAssigned
<1>5. PICK f \in FrameSet : f = Frame("reply", c) /\ f.kind = "reply" /\ f.cmd = c
  BY <1>2, FrameFacts
<1>6. PICK t \in Seq(FrameSet) : t = Become(w, f) /\ Stacked(t) /\ ToSet(t) = ToSet(Pop(w)) \cup {f}
  BY <1>1, <1>2, <1>5, BecomeFacts
<1>7. /\ stack' \in [Workers -> Seq(FrameSet)] /\ AllStacked' /\ Frames(w)' = ToSet(t)
      /\ \A v \in Workers : v # w => Frames(v)' = Frames(v)
  BY <1>2, <1>5, <1>6, StackChange
<1>8. \A g \in ToSet(Pop(w)) : g \in Frames(w)
  BY <1>2, PopFacts
<1>9. /\ \A v \in Workers : \A e \in ToSet(cmds'[v]) : e \in ToSet(cmds[v])
      /\ \A v \in Workers : \A g \in Frames(v)' : g \in Frames(v) \/ (v = w /\ g = f)
  BY <1>4, <1>6, <1>7, <1>8
<1>10. \A v \in Workers : (Framed(v, c)' => v = w) /\ ~Queued(v, c)' /\ ~Kept(v, c)'
  <2>1. \A v \in Workers : ~Queued(v, c)' /\ ~Kept(v, c)'
    BY <1>2, <1>3, <1>9 DEF Queued, Kept
  <2>2. \A v \in Workers : Framed(v, c)' => v = w
    BY <1>3, <1>9 DEF Framed
  <2> QED
    BY <2>1, <2>2
<1>11. OneOwner' /\ OneCaller' /\ OneEntries' /\ FreshRoles'
  <2>1. c \in used' /\ used \subseteq used' /\ \A v \in Workers : held'[v] \subseteq held[v] \cup {c}
    BY <1>2, <1>3
  <2>2. /\ \A v \in Workers : \A e \in ToSet(cmds'[v]) : e.cmd # c => e \in ToSet(cmds[v])
        /\ \A v \in Workers : \A g \in Frames(v)' : g.cmd \in Cmds /\ g.cmd # c => g \in Frames(v)
    BY <1>5, <1>9
  <2>5. \A v \in Workers : \A e, g \in ToSet(cmds'[v]) :
          e.cmd = c /\ g.cmd = c /\ (e.kind = "assign" <=> g.kind = "assign") => e = g
    BY <1>9 DEF AInv, OneEntries
  <2>3. \A v \in Workers : Waits(v, c)' => Waits(v, c) \/ (v = w /\ c \notin used)
    BY <1>5, <1>9 DEF Waits
  <2>4. \/ \A v \in Workers : (Queued(v, c)' => v = w) /\ ~Framed(v, c)' /\ ~Kept(v, c)'
        \/ \A v \in Workers : (Framed(v, c)' => v = w) /\ ~Queued(v, c)' /\ ~Kept(v, c)'
        \/ \A v \in Workers : (Kept(v, c)' => v = w) /\ ~Queued(v, c)' /\ ~Framed(v, c)'
    BY <1>10
  <2> QED
    BY <1>2, <2>1, <2>2, <2>3, <2>4, <2>5, Moved
<1>12. CallsTyped' /\ FreshCalls' /\ LivesTyped' /\ held' \in [Workers -> SUBSET Cmds]
  BY <1>2, CallsSame, LivesSame, Parts
<1> QED
  BY <1>4, <1>7, <1>11, <1>12, Collected

LEMMA ReplyDeliversAInv ==
  ASSUME AInv, NEW w \in Workers, ReplyDelivers(w)
  PROVE  AInv'
<1>1. Top(w).rec.sync \/ (~Top(w).rec.sync /\ active[Top(w).rec.worker])
                      \/ (~Top(w).rec.sync /\ ~active[Top(w).rec.worker])
  BY DEF ReplyDelivers
<1> QED
  BY <1>1, DeliverSync, DeliverAsync, DeliverNobody

-----------------------------------------------------------------------------
(* A worker that disappears takes its entries along.                       *)
LEMMA CleanedAInv ==
  ASSUME AInv, NEW w \in Workers, Cleaned(w)
  PROVE  AInv'
<1>1. /\ events[w] = <<>> /\ life' = [life EXCEPT ![w] = "gone"]
      /\ callers' = [c \in Cmds |->
           IF Holds(w, c, "assign") THEN RemoveFirst(callers[c], Rec(w, FALSE)) ELSE callers[c]]
      /\ cmds' = [cmds EXCEPT ![w] = <<>>]
      /\ UNCHANGED <<used, exeReady, result, events, stack, held, active>>
  BY DEF Cleaned, BalancedAndFree
<1>2. /\ cmds' \in [Workers -> Seq(Entries)] /\ events' \in [Workers -> Seq(Events)]
      /\ EventsMatchQueue'
      /\ \A v \in Workers : \A e \in ToSet(cmds'[v]) : e \in ToSet(cmds[v])
  <2>1. /\ cmds \in [Workers -> Seq(Entries)] /\ events \in [Workers -> Seq(Events)]
        /\ \A v \in Workers : Matches(cmds[v], events[v])
    BY DEF AInv, TypeOK, EventsMatchQueue
  <2>2. cmds'[w] = <<>> /\ \A v \in Workers : v # w => cmds'[v] = cmds[v]
    BY <1>1, <2>1
  <2>3. ToSet(<<>>) = {}
    BY DEF ToSet
  <2>4. Matches(<<>>, <<>>)
    BY <2>3 DEF Matches, Fetched, Distinct
  <2>5. \A v \in Workers : Matches(cmds'[v], events'[v])
    BY <1>1, <2>1, <2>2, <2>4
  <2> QED
    BY <1>1, <2>1, <2>2, <2>3, <2>5 DEF EventsMatchQueue
<1>3. CallsTyped' /\ FreshCalls'
  <2>1. \A c \in Cmds : /\ callers[c] \in Seq(Recs) /\ callers'[c] \in Seq(Recs)
                        /\ callers[c] = <<>> => callers'[c] = <<>>
    BY <1>1, RemovedRecs DEF AInv, TypeOK
  <2>2. callers' \in [Cmds -> Seq(Recs)]
    BY <1>1, <2>1
  <2> QED
    BY <1>1, <2>1, <2>2 DEF AInv, TypeOK, CallsTyped, FreshCalls
<1>4. LivesTyped' /\ held' \in [Workers -> SUBSET Cmds]
  BY <1>1 DEF AInv, TypeOK, LivesTyped
<1>5. \A c \in Cmds : \A v \in Workers :
        /\ Queued(v, c)' => Queued(v, c)
        /\ Framed(v, c)' = Framed(v, c) /\ Kept(v, c)' = Kept(v, c) /\ Waits(v, c)' = Waits(v, c)
  BY <1>1, <1>2 DEF Queued, Framed, Kept, Waits, Frames
<1>6. OneOwner'
  BY <1>5, SameOwner DEF AInv
<1>7. OneCaller'
  BY <1>5 DEF AInv, OneCaller
<1>8. OneEntries'
  BY <1>2 DEF AInv, OneEntries
<1>9. FreshRoles'
  BY <1>1, <1>2, <1>5 DEF AInv, FreshRoles
<1>10. stack' \in [Workers -> Seq(FrameSet)] /\ AllStacked'
  BY <1>1 DEF AInv, TypeOK, AllStacked
<1> QED
  BY <1>2, <1>3, <1>4, <1>6, <1>7, <1>8, <1>9, <1>10, Collected

-----------------------------------------------------------------------------
LEMMA InitAInv ==
  ASSUME Init
  PROVE  AInv
<1>1. \A c \in Cmds : callers[c] = <<>> /\ ~exeReady[c] /\ result[c] = "none"
  BY DEF Init
<1>2. \A w \in Workers : cmds[w] = <<>> /\ events[w] = <<>> /\ stack[w] = <<>> /\ held[w] = {}
  BY DEF Init
<1>3. ToSet(<<>>) = {}
  BY DEF ToSet
<1>4. Stacked(<<>>) /\ Matches(<<>>, <<>>)
  BY <1>3 DEF Stacked, OneFrame, ExecInEvent, Matches, Fetched, Distinct
<1>5. TypeOK
  BY DEF Init, TypeOK
<1>6. \A w \in Workers : \A c \in Cmds :
        ~Queued(w, c) /\ ~Framed(w, c) /\ ~Kept(w, c) /\ ~Waits(w, c)
  BY <1>2, <1>3 DEF Queued, Framed, Kept, Waits, Frames
<1>7. AllStacked /\ EventsMatchQueue /\ OneEntries
  BY <1>2, <1>3, <1>4 DEF AllStacked, EventsMatchQueue, OneEntries
<1> QED
  BY <1>1, <1>2, <1>3, <1>5, <1>6, <1>7 DEF AInv, OneOwner, OneCaller, FreshCalls, FreshRoles

LEMMA NextAInv ==
  ASSUME AInv, [Next]_vars
  PROVE  AInv'
<1>1. CASE UNCHANGED vars
  BY <1>1, StutterAInv
<1>2. CASE Next
  <2>1. PICK w \in Workers :
          \/ UserEvent(w) \/ KeptIsAnswered(w)
          \/ LoopStep(w) \/ HandlerStep(w) \/ WaitStep(w) \/ ReplyStep(w) \/ LifeStep(w)
    BY <1>2 DEF Next
  <2>2. CASE UserEvent(w)
    BY <2>2, UserEventAInv
  <2>3. CASE KeptIsAnswered(w)
    BY <2>3, KeptIsAnsweredAInv
  <2>4. CASE LoopStep(w)
    BY <2>4, SubmitEventAInv, ReplyEventAInv, NextPostponedAInv, EventDoneAInv DEF LoopStep
  <2>5. CASE HandlerStep(w)
    BY <2>5, HandlerReturnsAInv, UserHandlerReturnsAInv, HandlerKeepsAInv, SubmissionAInv
       DEF HandlerStep
  <2>6. CASE WaitStep(w)
    BY <2>6, SyncCallReturnsAInv, SyncCallTimesOutAInv DEF WaitStep
  <2>7. CASE ReplyStep(w)
    BY <2>7, ReplyTakesAInv, ReplyDeliversAInv DEF ReplyStep
  <2>8. CASE LifeStep(w)
    BY <2>8, LifeStepAInv, CleanedAInv DEF LifeStep
  <2> QED
    BY <2>1, <2>2, <2>3, <2>4, <2>5, <2>6, <2>7, <2>8
<1> QED
  BY <1>1, <1>2

-----------------------------------------------------------------------------
(* A custodian is an entry, a frame, or a worker that keeps the command.   *)
LEMMA CustodianKinds ==
  ASSUME NEW c \in Cmds, NEW p \in Custodians(c)
  PROVE  \E w \in Workers :
    \/ \E i \in DOMAIN cmds[w] : p = <<w, "queue", i>> /\ cmds[w][i].cmd = c
                                 /\ cmds[w][i].kind # "assign"
    \/ \E i \in DOMAIN stack[w] : p = <<w, "frame", i>> /\ stack[w][i].cmd = c
                                  /\ stack[w][i].kind \in {"exec", "reply"}
    \/ p = <<w, "held", 0>> /\ c \in held[w]
BY DEF Custodians

LEMMA OneCustodian ==
  ASSUME AInv
  PROVE  SingleCustodian
<1> SUFFICES ASSUME NEW c \in Cmds, NEW p \in Custodians(c), NEW q \in Custodians(c)
             PROVE  p = q
  BY DEF SingleCustodian
<1> DEFINE InQueue(x, v) == \E i \in DOMAIN cmds[v] :
             x = <<v, "queue", i>> /\ cmds[v][i].cmd = c /\ cmds[v][i].kind # "assign"
           InFrame(x, v) == \E i \in DOMAIN stack[v] :
             x = <<v, "frame", i>> /\ stack[v][i].cmd = c /\ stack[v][i].kind \in {"exec", "reply"}
           AsKept(x, v) == x = <<v, "held", 0>> /\ c \in held[v]
<1>1. PICK v \in Workers : InQueue(p, v) \/ InFrame(p, v) \/ AsKept(p, v)
  BY CustodianKinds
<1>2. PICK w \in Workers : InQueue(q, w) \/ InFrame(q, w) \/ AsKept(q, w)
  BY CustodianKinds
<1>3. \A x : \A u \in Workers : /\ InQueue(x, u) => Queued(u, c)
                                /\ InFrame(x, u) => Framed(u, c)
                                /\ AsKept(x, u) => Kept(u, c)
  BY DEF Queued, Framed, Kept, ToSet, Frames
<1>4. \/ InQueue(p, v) /\ InQueue(q, v)
      \/ InFrame(p, v) /\ InFrame(q, v)
      \/ AsKept(p, v) /\ AsKept(q, v)
  <2> HIDE DEF InQueue, InFrame, AsKept
  <2> QED
    BY <1>1, <1>2, <1>3 DEF AInv, OneOwner
<1>5. CASE InQueue(p, v) /\ InQueue(q, v)
  <2>1. PICK i \in DOMAIN cmds[v], j \in DOMAIN cmds[v] :
          /\ p = <<v, "queue", i>> /\ cmds[v][i].cmd = c /\ cmds[v][i].kind # "assign"
          /\ q = <<v, "queue", j>> /\ cmds[v][j].cmd = c /\ cmds[v][j].kind # "assign"
    BY <1>5
  <2>2. cmds[v][i] = cmds[v][j]
    BY <2>1 DEF AInv, OneEntries, ToSet
  <2>3. i = j
    BY <2>2 DEF AInv, EventsMatchQueue, Matches, Distinct
  <2> QED
    BY <2>1, <2>3
<1>6. CASE InFrame(p, v) /\ InFrame(q, v)
  <2>1. PICK i \in DOMAIN stack[v], j \in DOMAIN stack[v] :
          /\ p = <<v, "frame", i>> /\ stack[v][i].cmd = c /\ stack[v][i].kind \in {"exec", "reply"}
          /\ q = <<v, "frame", j>> /\ stack[v][j].cmd = c /\ stack[v][j].kind \in {"exec", "reply"}
    BY <1>6
  <2>2. Alike(stack[v][i], stack[v][j])
    BY <2>1, CallAssumption DEF Alike, Owning
  <2>3. i = j
    BY <2>2 DEF AInv, AllStacked, Stacked, OneFrame
  <2> QED
    BY <2>1, <2>3
<1> QED
  BY <1>4, <1>5, <1>6

LEMMA CallInvariant == Spec => []AInv
BY InitAInv, NextAInv, PTL DEF Spec

(* The type invariant, for any workers, commands and routes.               *)
THEOREM TypeTheorem == Spec => []TypeOK
<1>1. AInv => TypeOK
  BY DEF AInv
<1> QED
  BY <1>1, CallInvariant, PTL

(* A command is in the charge of one worker at most, whoever calls whom,   *)
(* redirects, refuses, gives up or leaves.                                 *)
THEOREM CustodianTheorem == Spec => []SingleCustodian
BY OneCustodian, CallInvariant, PTL

(* Every entry that waits to be processed has its one event, in the order  *)
(* of submission, and no event misses its entry.                           *)
THEOREM QueueTheorem == Spec => []EventsMatchQueue
<1>1. AInv => EventsMatchQueue
  BY DEF AInv
<1> QED
  BY <1>1, CallInvariant, PTL

-----------------------------------------------------------------------------
(* What is left behind: postponed commands and workers that are gone.      *)
Drained(w) == \E f \in Frames(w) : f.kind = "event" /\ f.cmd # NoCmd
Delayed(w) == \E e \in ToSet(cmds[w]) : e.kind = "postponed"
Emptied(w) == /\ \A e \in ToSet(cmds[w]) : FALSE
              /\ \A f \in Frames(w) : f.kind \in {"event", "reply"}

AllDrained == \A w \in Workers : Delayed(w) => Drained(w)
AllEmptied == \A w \in Workers : life[w] = "gone" => Emptied(w)

LEMMA LeftBehind ==
  AInv => (PostponedHasDrain <=> AllDrained) /\ (GoneIsQuiet <=> AllEmptied)
<1> SUFFICES ASSUME AInv
             PROVE  (PostponedHasDrain <=> AllDrained) /\ (GoneIsQuiet <=> AllEmptied)
  OBVIOUS
<1>1. \A w \in Workers : Postponed(w) # {} <=> Delayed(w)
  BY DEF Postponed, Delayed, ToSet
<1>2. ASSUME NEW w \in Workers
      PROVE  (\A e \in ToSet(cmds[w]) : FALSE) <=> cmds[w] = <<>> /\ events[w] = <<>>
  <2>1. /\ cmds[w] \in Seq(Entries) /\ events[w] \in Seq(Events)
        /\ ToSet(events[w]) \subseteq ToSet(cmds[w])
    BY Parts DEF Matches, Fetched
  <2>2. \A S : \A s \in Seq(S) : (\A e \in ToSet(s) : FALSE) <=> s = <<>>
    <3> SUFFICES ASSUME NEW S, NEW s \in Seq(S)
                 PROVE  (\A e \in ToSet(s) : FALSE) <=> s = <<>>
      OBVIOUS
    <3>1. s # <<>> => 1 \in DOMAIN s
      OBVIOUS
    <3> QED
      BY <3>1 DEF ToSet
  <2> QED
    BY <2>1, <2>2
<1>3. PostponedHasDrain <=> AllDrained
  BY <1>1 DEF PostponedHasDrain, Drained, AllDrained
<1>4. GoneIsQuiet <=> AllEmptied
  BY <1>2 DEF GoneIsQuiet, Emptied, AllEmptied
<1> QED
  BY <1>3, <1>4

LEMMA BStep ==
  ASSUME BInv, AInv', UNCHANGED lives, NEW w \in Workers,
         \A v \in Workers : v # w => Frames(v)' = Frames(v),
         \A v \in Workers : \A e \in ToSet(cmds'[v]) : e \in ToSet(cmds[v]) \/
           (life[v] # "gone" /\ (e.kind = "postponed" => Drained(v)')),
         Delayed(w) /\ Drained(w) => Drained(w)',
         \A f \in Frames(w)' : f \in Frames(w) \/ f.kind \in {"event", "reply"} \/ life[w] # "gone"
  PROVE  BInv'
<1>1. /\ AInv /\ PostponedHasDrain /\ LeavingIsClosed /\ GoneIsQuiet
      /\ life' = life /\ active' = active
  BY DEF BInv, lives
<1>2. /\ \A v \in Workers : Delayed(v) => Drained(v)
      /\ \A v \in Workers : life[v] = "gone" => Emptied(v)
  BY <1>1, LeftBehind DEF AllDrained, AllEmptied
<1>3. ASSUME NEW v \in Workers, Delayed(v)' PROVE Drained(v)'
  <2>1. PICK e \in ToSet(cmds'[v]) : e.kind = "postponed"
    BY <1>3 DEF Delayed
  <2>2. CASE e \in ToSet(cmds[v])
    <3>1. Delayed(v) /\ Drained(v)
      BY <1>2, <2>1, <2>2 DEF Delayed
    <3>2. v # w => Drained(v)'
      BY <3>1 DEF Drained
    <3> QED
      BY <3>1, <3>2
  <2> QED
    BY <2>1, <2>2
<1>4. ASSUME NEW v \in Workers, life[v] = "gone" PROVE Emptied(v)'
  <2>1. Emptied(v)
    BY <1>2, <1>4
  <2>2. \A e \in ToSet(cmds'[v]) : FALSE
    BY <1>4, <2>1 DEF Emptied
  <2>3. \A f \in Frames(v)' : f.kind \in {"event", "reply"}
    BY <1>4, <2>1 DEF Emptied
  <2> QED
    BY <2>2, <2>3 DEF Emptied
<1>5. PostponedHasDrain' /\ GoneIsQuiet'
  <2>1. AInv' => (PostponedHasDrain' <=> AllDrained') /\ (GoneIsQuiet' <=> AllEmptied')
    BY LeftBehind, PTL
  <2>2. AllDrained' /\ AllEmptied'
    BY <1>1, <1>3, <1>4 DEF AllDrained, AllEmptied
  <2> QED
    BY <2>1, <2>2
<1>6. LeavingIsClosed'
  BY <1>1 DEF LeavingIsClosed
<1> QED
  BY <1>5, <1>6 DEF BInv

LEMMA BParts ==
  ASSUME BInv
  PROVE  /\ AInv
         /\ \A v \in Workers : life[v] = "gone" => ~active[v] /\ Emptied(v)
         /\ \A v \in Workers : Delayed(v) => Drained(v)
<1>1. AInv /\ PostponedHasDrain /\ LeavingIsClosed /\ GoneIsQuiet
  BY DEF BInv
<1> QED
  BY <1>1, LeftBehind DEF LeavingIsClosed, AllDrained, AllEmptied

(* A thread inside of a command is inside of the event of a command.       *)
LEMMA LevelHasEvent ==
  ASSUME NEW s \in Seq(FrameSet), Stacked(s), NEW f \in ToSet(s), f.kind = "exec", f.cmd # NoCmd
  PROVE  \E g \in ToSet(s) : g.kind = "event" /\ g.cmd # NoCmd
<1>1. PICK i \in DOMAIN s : s[i] = f
  BY DEF ToSet
<1>2. i > 1 /\ s[i - 1].kind = "event" /\ s[i - 1].cmd # NoCmd
  BY <1>1 DEF Stacked, ExecInEvent
<1>3. i - 1 \in DOMAIN s
  BY <1>1, <1>2
<1> QED
  BY <1>2, <1>3 DEF ToSet

LEMMA BPop ==
  ASSUME BInv, AInv', UNCHANGED lives, NEW w \in Workers, stack[w] # <<>>, SetStack(w, Pop(w)),
         \A v \in Workers : \A e \in ToSet(cmds'[v]) :
           e \in ToSet(cmds[v]) \/ (life[v] # "gone" /\ e.kind # "postponed"),
         Delayed(w) => Top(w).kind # "event" \/ Top(w).cmd = NoCmd \/ Level(w)
  PROVE  BInv'
<1>1. AInv
  BY BParts
<1>2. /\ Pop(w) \in Seq(FrameSet) /\ Stacked(Pop(w))
      /\ \A f \in ToSet(Pop(w)) : f \in Frames(w)
      /\ \A f \in Frames(w) : f \in ToSet(Pop(w)) \/ f = Top(w)
  BY <1>1, PopFacts
<1>3. /\ Frames(w)' = ToSet(Pop(w))
      /\ \A v \in Workers : v # w => Frames(v)' = Frames(v)
  BY <1>1, <1>2, StackChange
<1>4. ASSUME Delayed(w), Drained(w) PROVE Drained(w)'
  <2>1. PICK f \in Frames(w) : f.kind = "event" /\ f.cmd # NoCmd
    BY <1>4 DEF Drained
  <2>2. CASE f \in ToSet(Pop(w))
    BY <1>3, <2>1, <2>2 DEF Drained
  <2>3. CASE f = Top(w)
    <3>1. PICK g \in Frames(w) : g.kind = "exec" /\ g.cmd # NoCmd
      BY <1>4, <2>1, <2>3 DEF Level
    <3>2. g \in ToSet(Pop(w))
      BY <1>2, <2>1, <2>3, <3>1
    <3>3. PICK s \in Seq(FrameSet) : s = Pop(w) /\ Stacked(s) /\ g \in ToSet(s)
      BY <1>2, <3>2
    <3>4. \E h \in ToSet(s) : h.kind = "event" /\ h.cmd # NoCmd
      BY <3>1, <3>3, LevelHasEvent
    <3> QED
      BY <1>3, <3>3, <3>4 DEF Drained
  <2> QED
    BY <1>2, <2>2, <2>3
<1>5. \A v \in Workers : \A e \in ToSet(cmds'[v]) : e \in ToSet(cmds[v]) \/
        (life[v] # "gone" /\ (e.kind = "postponed" => Drained(v)'))
  OBVIOUS
<1>6. \A f \in Frames(w)' : f \in Frames(w) \/ f.kind \in {"event", "reply"} \/ life[w] # "gone"
  BY <1>2, <1>3
<1> QED
  BY <1>3, <1>4, <1>5, <1>6, BStep

LEMMA BBecome ==
  ASSUME BInv, AInv', UNCHANGED lives, NEW w \in Workers, stack[w] # <<>>,
         Owning(Top(w)), Top(w).cmd \in Cmds,
         NEW f \in FrameSet, f.kind = "reply", f.cmd = Top(w).cmd, SetStack(w, Become(w, f)),
         \A v \in Workers : \A e \in ToSet(cmds'[v]) : e \in ToSet(cmds[v])
  PROVE  BInv'
<1>1. AInv
  BY BParts
<1>2. PICK t \in Seq(FrameSet) : t = Become(w, f) /\ Stacked(t) /\ ToSet(t) = ToSet(Pop(w)) \cup {f}
  BY <1>1, BecomeFacts
<1>3. /\ Frames(w)' = ToSet(t)
      /\ \A v \in Workers : v # w => Frames(v)' = Frames(v)
  BY <1>1, <1>2, StackChange
<1>4. /\ \A g \in ToSet(Pop(w)) : g \in Frames(w)
      /\ \A g \in Frames(w) : g \in ToSet(Pop(w)) \/ g = Top(w)
  BY <1>1, PopFacts
<1>5. Drained(w) => Drained(w)'
  BY <1>2, <1>3, <1>4 DEF Drained, Owning
<1>6. \A g \in Frames(w)' : g \in Frames(w) \/ g.kind \in {"event", "reply"} \/ life[w] # "gone"
  BY <1>2, <1>3, <1>4
<1>7. \A v \in Workers : \A e \in ToSet(cmds'[v]) : e \in ToSet(cmds[v]) \/
        (life[v] # "gone" /\ (e.kind = "postponed" => Drained(v)'))
  OBVIOUS
<1> QED
  BY <1>3, <1>5, <1>6, <1>7, BStep

LEMMA BReply ==
  ASSUME BInv, AInv', UNCHANGED lives, NEW w \in Workers, NEW c \in Cmds, ~Framed(w, c),
         SetStack(w, stack[w] \o <<Frame("event", NoCmd), Frame("reply", c)>>),
         \A v \in Workers : \A e \in ToSet(cmds'[v]) : e \in ToSet(cmds[v])
  PROVE  BInv'
<1>1. AInv
  BY BParts
<1>2. /\ \A v \in Workers : v # w => Frames(v)' = Frames(v)
      /\ \A f : f \in Frames(w)' <=>
           f \in Frames(w) \/ f = Frame("event", NoCmd) \/ f = Frame("reply", c)
  BY <1>1, ReplyPushed
<1>3. Drained(w) => Drained(w)'
  BY <1>2 DEF Drained
<1>4. \A g \in Frames(w)' : g \in Frames(w) \/ g.kind \in {"event", "reply"} \/ life[w] # "gone"
  BY <1>2 DEF Frame
<1>5. \A v \in Workers : \A e \in ToSet(cmds'[v]) : e \in ToSet(cmds[v]) \/
        (life[v] # "gone" /\ (e.kind = "postponed" => Drained(v)'))
  OBVIOUS
<1> QED
  BY <1>2, <1>3, <1>4, <1>5, BStep

LEMMA BProcess ==
  ASSUME BInv, AInv', NEW w \in Workers, SubmitEvent(w) \/ NextPostponed(w)
  PROVE  BInv'
<1>1. AInv
  BY BParts
<1>2. PICK c \in Cmds, k \in {"submit", "postponed"} :
        \E q \in Seq(Entries), ev \in Seq(Events), s \in Seq(FrameSet) :
          Processing(w, c, k, q, ev, s)
  <2>1. CASE SubmitEvent(w)
    BY <1>1, <2>1, SubmitIsProcessed
  <2>2. CASE NextPostponed(w)
    BY <1>1, <2>2, PostponedIsProcessed
  <2> QED
    BY <2>1, <2>2
<1>3. PICK q \in Seq(Entries), ev \in Seq(Events), s \in Seq(FrameSet) :
        Processing(w, c, k, q, ev, s)
  BY <1>2
<1>4. \A v \in Workers : v # w => cmds'[v] = cmds[v] /\ Frames(v)' = Frames(v)
  BY <1>1, <1>3, ProcessEffect DEF Processing
<1>5. Processed(w, c, s, q)
  BY <1>1, <1>3, ProcessEffect DEF Processing
<1>6. /\ \A f \in ToSet(s) : f \in Frames(w) \/ f = Frame("event", c)
      /\ Last(s).kind = "event" /\ Last(s).cmd # NoCmd /\ Last(s) \in ToSet(s)
      /\ \A e \in ToSet(q) : e \in ToSet(cmds[w])
      /\ Entry(c, k) \in ToSet(cmds[w]) /\ UNCHANGED lives
  <2>1. Last(s) \in ToSet(s)
    BY <1>3, FrontSubset DEF Processing
  <2> QED
    BY <1>3, <2>1 DEF Processing
<1>7. Drained(w)'
  <2>1. Last(s) \in Frames(w)'
    BY <1>5, <1>6 DEF Processed
  <2> QED
    BY <1>6, <2>1 DEF Drained
<1>8. life[w] # "gone"
  BY <1>6, BParts DEF Emptied
<1>9. \A v \in Workers : \A e \in ToSet(cmds'[v]) : e \in ToSet(cmds[v]) \/
        (life[v] # "gone" /\ (e.kind = "postponed" => Drained(v)'))
  BY <1>4, <1>5, <1>6, <1>7, <1>8 DEF Processed
<1> QED
  BY <1>4, <1>6, <1>7, <1>8, <1>9, BStep

LEMMA BSubmission ==
  ASSUME BInv, AInv', NEW w \in Workers, HandlerRedirects(w) \/ AsyncCall(w) \/ SyncCall(w)
  PROVE  BInv'
<1>1. AInv
  BY BParts
<1>2. PICK d \in Workers, c \in Cmds, s \in Seq(FrameSet),
            Q \in [Workers -> Seq(Entries)], r \in Seq(Recs) : Submitting(w, d, c, s, Q, r)
  BY <1>1, RedirectIsSubmit, AsyncIsSubmit, SyncIsSubmit
<1>3. /\ \A f \in Frames(w) : f.kind = "event" => f \in ToSet(s)
      /\ \E f \in Frames(w) : f.kind = "exec"
      /\ \A v \in Workers : \A e \in ToSet(Q[v]) :
           e \in ToSet(cmds[v]) \/ (v = w /\ e = Entry(c, "assign") /\ c \notin used)
      /\ UNCHANGED lives
  BY <1>2 DEF Submitting
<1>4. \A v \in Workers : \A e \in ToSet(Q[v]) : e.cmd = c => e.kind = "assign"
  BY <1>2 DEF Submitting, Queued, Entry
<1>5. (\A v \in Workers : v # w => Frames(v)' = Frames(v)) /\ Submitted(w, d, c, s, Q)
  BY <1>1, <1>2, <1>4, SubmitEffect DEF Submitting
<1>6. life[w] # "gone" /\ (active[d] => life[d] # "gone")
  BY <1>3, BParts DEF Emptied
<1>7. Drained(w) => Drained(w)'
  BY <1>3, <1>5 DEF Drained, Submitted
<1>8. PICK n, a : n = Entry(c, "submit") /\ n.kind = "submit" /\ a = Entry(c, "assign") /\ a.kind = "assign"
  BY EntryFacts
<1>9. \A v \in Workers : \A e \in ToSet(cmds'[v]) :
        e \in ToSet(Q[v]) \/ (v = d /\ active[d] /\ e = n)
  BY <1>5, <1>8 DEF Submitted
<1>10. \A v \in Workers : \A e \in ToSet(cmds'[v]) : e \in ToSet(cmds[v]) \/
         (life[v] # "gone" /\ (e.kind = "postponed" => Drained(v)'))
  BY <1>3, <1>6, <1>8, <1>9
<1> QED
  BY <1>3, <1>5, <1>6, <1>7, <1>10, BStep

LEMMA BDeliver ==
  ASSUME BInv, AInv', NEW w \in Workers, ReplyDelivers(w)
  PROVE  BInv'
<1>1. AInv
  BY BParts
<1>2. PICK c, r : c = Top(w).cmd /\ r = Top(w).rec
  OBVIOUS
<1>3. PICK d \in Workers :
      /\ d = r.worker
      /\ stack[w] # <<>> /\ Top(w).kind = "reply" /\ Owning(Top(w)) /\ c \in Cmds
      /\ UNCHANGED lives
      /\ \/ SetStack(w, Pop(w)) /\ UNCHANGED queues
         \/ /\ active[d] /\ SetStack(w, Pop(w))
            /\ cmds' = [cmds EXCEPT ![d] = ChangeKind(d, c)]
            /\ events' = [events EXCEPT ![d] = Append(@, Entry(c, "reply"))]
         \/ /\ cmds' = [cmds EXCEPT ![d] = Without(d, c, "assign")]
            /\ SetStack(w, Become(w, Frame("reply", c))) /\ UNCHANGED events
  BY <1>1, <1>2, DeliverFacts DEF Recs
<1>4. CASE SetStack(w, Pop(w)) /\ UNCHANGED queues
  <2>1. \A v \in Workers : \A e \in ToSet(cmds'[v]) : e \in ToSet(cmds[v])
    BY <1>4 DEF queues
  <2> QED
    BY <1>3, <1>4, <2>1, BPop
<1>5. CASE /\ active[d] /\ SetStack(w, Pop(w))
           /\ cmds' = [cmds EXCEPT ![d] = ChangeKind(d, c)]
           /\ events' = [events EXCEPT ![d] = Append(@, Entry(c, "reply"))]
  <2>1. ~Queued(d, c)
    BY <1>1, <1>2, <1>3, OwnerPopped
  <2>2. /\ \A v \in Workers : v # d => cmds'[v] = cmds[v]
        /\ ToSet(cmds'[d]) = (ToSet(cmds[d]) \ {Entry(c, "assign")}) \cup {Entry(c, "reply")}
    BY <1>1, <1>3, <1>5, <2>1, DeliverAsyncEffect
  <2>3. life[d] # "gone" /\ Entry(c, "reply").kind # "postponed"
    BY <1>5, BParts DEF Entry
  <2>4. \A v \in Workers : \A e \in ToSet(cmds'[v]) :
          e \in ToSet(cmds[v]) \/ (life[v] # "gone" /\ e.kind # "postponed")
    BY <2>2, <2>3
  <2> QED
    BY <1>3, <1>5, <2>4, BPop
<1>6. CASE /\ cmds' = [cmds EXCEPT ![d] = Without(d, c, "assign")]
           /\ SetStack(w, Become(w, Frame("reply", c))) /\ UNCHANGED events
  <2>1. /\ \A v \in Workers : v # d => cmds'[v] = cmds[v]
        /\ ToSet(cmds'[d]) = ToSet(cmds[d]) \ {Entry(c, "assign")}
    BY <1>1, <1>3, <1>6, WithoutAssigned
  <2>2. \A v \in Workers : \A e \in ToSet(cmds'[v]) : e \in ToSet(cmds[v])
    BY <2>1
  <2>3. PICK f \in FrameSet : f = Frame("reply", c) /\ f.kind = "reply" /\ f.cmd = c
    BY <1>3, FrameFacts
  <2> QED
    BY <1>2, <1>3, <1>6, <2>2, <2>3, BBecome
<1> QED
  BY <1>3, <1>4, <1>5, <1>6

LEMMA BTop ==
  ASSUME BInv, AInv', NEW w \in Workers,
         \/ EventDone(w) \/ UserHandlerReturns(w) \/ HandlerReturns(w) \/ HandlerKeeps(w)
         \/ SyncCallReturns(w) \/ SyncCallTimesOut(w) \/ ReplyTakes(w)
  PROVE  BInv'
<1>1. AInv
  BY BParts
<1>2. CASE \/ UserHandlerReturns(w) \/ HandlerKeeps(w)
           \/ SyncCallReturns(w) \/ SyncCallTimesOut(w)
  <2>1. /\ stack[w] # <<>> /\ Top(w).kind # "event" /\ SetStack(w, Pop(w))
        /\ UNCHANGED <<queues, lives>>
    BY <1>2 DEF UserHandlerReturns, HandlerKeeps, SyncCallReturns, SyncCallTimesOut, Running, TopIs
  <2>2. \A v \in Workers : \A e \in ToSet(cmds'[v]) : e \in ToSet(cmds[v])
    BY <2>1 DEF queues
  <2> QED
    BY <2>1, <2>2, BPop
<1>3. CASE EventDone(w)
  <2>1. /\ stack[w] # <<>> /\ SetStack(w, Pop(w)) /\ UNCHANGED <<queues, lives>>
        /\ Top(w).cmd = NoCmd \/ Level(w) \/ Postponed(w) = {}
    BY <1>3 DEF EventDone, TopIs
  <2>2. \A v \in Workers : \A e \in ToSet(cmds'[v]) : e \in ToSet(cmds[v])
    BY <2>1 DEF queues
  <2>3. Delayed(w) => Postponed(w) # {}
    BY DEF Delayed, Postponed, ToSet
  <2> QED
    BY <2>1, <2>2, <2>3, BPop
<1>4. CASE HandlerReturns(w)
  <2>1. PICK c \in Cmds : /\ stack[w] # <<>> /\ Top(w).kind = "exec" /\ Top(w).cmd = c
                          /\ SetStack(w, Become(w, Frame("reply", c)))
                          /\ UNCHANGED <<queues, lives>>
    BY <1>4 DEF HandlerReturns, Running, TopIs
  <2>2. PICK f \in FrameSet : f = Frame("reply", c) /\ f.kind = "reply" /\ f.cmd = c
    BY FrameFacts
  <2>3. Owning(Top(w)) /\ \A v \in Workers : \A e \in ToSet(cmds'[v]) : e \in ToSet(cmds[v])
    BY <2>1 DEF queues, Owning
  <2> QED
    BY <2>1, <2>2, <2>3, BBecome
<1>5. CASE ReplyTakes(w)
  <2>1. PICK c : c = Top(w).cmd
    OBVIOUS
  <2>2. /\ stack[w] # <<>> /\ Top(w).kind = "reply" /\ UNCHANGED <<queues, lives>>
        /\ \/ SetStack(w, Pop(w))
           \/ /\ callers[c] # <<>>
              /\ SetStack(w, Become(w, [Top(w) EXCEPT !.rec = Last(callers[c])]))
    BY <1>5, <2>1 DEF ReplyTakes, TopIs
  <2>3. c \in Cmds /\ callers[c] \in Seq(Recs) /\ Top(w) \in FrameSet
    BY <1>1, <2>1, <2>2, TopCommand
  <2>4. Owning(Top(w)) /\ \A v \in Workers : \A e \in ToSet(cmds'[v]) : e \in ToSet(cmds[v])
    BY <2>2 DEF queues, Owning
  <2>5. CASE SetStack(w, Pop(w))
    BY <2>2, <2>4, <2>5, BPop
  <2>6. CASE /\ callers[c] # <<>>
             /\ SetStack(w, Become(w, [Top(w) EXCEPT !.rec = Last(callers[c])]))
    <3>1. Last(callers[c]) \in Recs
      BY <2>3, <2>6, FrontMembers
    <3>2. PICK f \in FrameSet : /\ f = [Top(w) EXCEPT !.rec = Last(callers[c])]
                                /\ f.kind = "reply" /\ f.cmd = c
      BY <2>1, <2>2, <2>3, <3>1 DEF FrameSet
    <3> QED
      BY <2>1, <2>2, <2>3, <2>4, <2>6, <3>2, BBecome
  <2> QED
    BY <2>2, <2>5, <2>6
<1> QED
  BY <1>2, <1>3, <1>4, <1>5

LEMMA BEvent ==
  ASSUME BInv, AInv', NEW w \in Workers, UserEvent(w) \/ ReplyEvent(w) \/ KeptIsAnswered(w)
  PROVE  BInv'
<1>1. AInv
  BY BParts
<1>2. CASE UserEvent(w)
  <2>1. /\ stack' = [stack EXCEPT ![w] = <<Frame("event", NoCmd), Frame("exec", NoCmd)>>]
        /\ stack[w] = <<>> /\ life[w] = "normal" /\ UNCHANGED <<queues, lives>>
    BY <1>2 DEF UserEvent, SetStack
  <2>2. \A v \in Workers : v # w => Frames(v)' = Frames(v)
    BY <1>1, <2>1, Parts DEF Frames
  <2>3. ~Drained(w)
    BY <2>1 DEF Drained, Frames, ToSet
  <2>4. \A v \in Workers : \A e \in ToSet(cmds'[v]) : e \in ToSet(cmds[v])
    BY <2>1 DEF queues
  <2> QED
    BY <2>1, <2>2, <2>3, <2>4, BStep
<1>3. CASE ReplyEvent(w)
  <2>1. PICK c \in Cmds :
          /\ Entry(c, "reply") \in ToSet(cmds[w])
          /\ SetStack(w, stack[w] \o <<Frame("event", NoCmd), Frame("reply", c)>>)
          /\ cmds' \in [Workers -> Seq(Entries)] /\ events' \in [Workers -> Seq(Events)]
          /\ EventsMatchQueue'
          /\ ToSet(cmds'[w]) = ToSet(cmds[w]) \ {Entry(c, "reply")}
          /\ \A v \in Workers : v # w => cmds'[v] = cmds[v]
    BY <1>1, <1>3, ReplyEventEffect
  <2>2. ~Framed(w, c)
    <3>1. Queued(w, c)
      BY <2>1 DEF Queued, Entry
    <3> QED
      BY <1>1, <3>1, OwnerAlone
  <2>3. \A v \in Workers : \A e \in ToSet(cmds'[v]) : e \in ToSet(cmds[v])
    BY <2>1
  <2>4. UNCHANGED lives
    BY <1>3 DEF ReplyEvent
  <2> QED
    BY <2>1, <2>2, <2>3, <2>4, BReply
<1>4. CASE KeptIsAnswered(w)
  <2>1. PICK c \in held[w] :
          /\ SetStack(w, stack[w] \o <<Frame("event", NoCmd), Frame("reply", c)>>)
          /\ UNCHANGED <<queues, lives>>
    BY <1>4 DEF KeptIsAnswered
  <2>2. c \in Cmds /\ Kept(w, c)
    BY <1>1, Parts DEF Kept
  <2>3. ~Framed(w, c)
    BY <1>1, <2>2, OwnerAlone
  <2>4. \A v \in Workers : \A e \in ToSet(cmds'[v]) : e \in ToSet(cmds[v])
    BY <2>1 DEF queues
  <2> QED
    BY <2>1, <2>2, <2>3, <2>4, BReply
<1> QED
  BY <1>2, <1>3, <1>4

LEMMA BLife ==
  ASSUME BInv, AInv', NEW w \in Workers, LifeStep(w)
  PROVE  BInv'
<1>1. /\ AInv /\ AllDrained /\ AllEmptied /\ LeavingIsClosed
      /\ AInv' => (PostponedHasDrain' <=> AllDrained') /\ (GoneIsQuiet' <=> AllEmptied')
  <2>1. AInv' => (PostponedHasDrain' <=> AllDrained') /\ (GoneIsQuiet' <=> AllEmptied')
    BY LeftBehind, PTL
  <2> QED
    BY <2>1, LeftBehind DEF BInv
<1>2. /\ life \in [Workers -> {"normal", "asked", "halting", "gone"}]
      /\ active \in [Workers -> BOOLEAN] /\ cmds \in [Workers -> Seq(Entries)]
  BY <1>1 DEF AInv, TypeOK
<1>3. UNCHANGED stack /\ \A v \in Workers : Drained(v)' = Drained(v)
  BY DEF LifeStep, DestroyAsked, Halt, Cleaned, Drained, Frames
<1>4. LeavingIsClosed'
  BY <1>1, <1>2 DEF LifeStep, DestroyAsked, Halt, Cleaned, LeavingIsClosed
<1>5. CASE DestroyAsked(w) \/ Halt(w)
  <2>1. /\ UNCHANGED <<cmds, stack>>
        /\ \A v \in Workers : life'[v] = "gone" => life[v] = "gone"
    BY <1>2, <1>5 DEF DestroyAsked, Halt, queues
  <2>2. AllDrained'
    BY <1>1, <2>1 DEF AllDrained, Delayed, Drained, Frames
  <2>3. AllEmptied'
    BY <1>1, <2>1 DEF AllEmptied, Emptied, Frames
  <2> QED
    BY <1>1, <1>4, <2>2, <2>3 DEF BInv
<1>6. CASE Cleaned(w)
  <2>1. /\ cmds'[w] = <<>> /\ \A v \in Workers : v # w => cmds'[v] = cmds[v]
        /\ stack[w] = <<>> /\ life' = [life EXCEPT ![w] = "gone"] /\ UNCHANGED stack
    BY <1>2, <1>6 DEF Cleaned, BalancedAndFree
  <2>2. ToSet(<<>>) = {}
    BY DEF ToSet
  <2>3. \A v \in Workers : \A e \in ToSet(cmds'[v]) : e \in ToSet(cmds[v])
    BY <2>1, <2>2
  <2>4. AllDrained'
    BY <1>1, <1>3, <2>3 DEF AllDrained, Delayed
  <2>5. Emptied(w)'
    BY <2>1, <2>2 DEF Emptied, Frames
  <2>6. AllEmptied'
    BY <1>1, <1>2, <2>1, <2>3, <2>5 DEF AllEmptied, Emptied, Frames
  <2> QED
    BY <1>1, <1>4, <2>4, <2>6 DEF BInv
<1> QED
  BY <1>5, <1>6 DEF LifeStep

LEMMA InitBInv ==
  ASSUME Init
  PROVE  BInv
<1>1. AInv
  BY InitAInv
<1>2. ToSet(<<>>) = {} /\ \A w \in Workers : cmds[w] = <<>> /\ life[w] = "normal"
  BY DEF Init, ToSet
<1>3. AllDrained /\ AllEmptied
  BY <1>2 DEF AllDrained, AllEmptied, Delayed
<1>4. LeavingIsClosed
  BY <1>2 DEF LeavingIsClosed
<1> QED
  BY <1>1, <1>3, <1>4, LeftBehind DEF BInv

LEMMA NextBInv ==
  ASSUME BInv, [Next]_vars
  PROVE  BInv'
<1>1. AInv'
  BY NextAInv DEF BInv
<1>2. CASE UNCHANGED vars
  BY <1>1, <1>2 DEF BInv, PostponedHasDrain, Postponed, LeavingIsClosed, GoneIsQuiet, Frames, vars
<1>3. CASE Next
  <2>1. PICK w \in Workers :
          \/ UserEvent(w) \/ KeptIsAnswered(w)
          \/ LoopStep(w) \/ HandlerStep(w) \/ WaitStep(w) \/ ReplyStep(w) \/ LifeStep(w)
    BY <1>3 DEF Next
  <2>2. \/ UserEvent(w) \/ ReplyEvent(w) \/ KeptIsAnswered(w)
        \/ SubmitEvent(w) \/ NextPostponed(w)
        \/ HandlerRedirects(w) \/ AsyncCall(w) \/ SyncCall(w)
        \/ ReplyDelivers(w)
        \/ LifeStep(w)
        \/ EventDone(w) \/ UserHandlerReturns(w) \/ HandlerReturns(w) \/ HandlerKeeps(w)
        \/ SyncCallReturns(w) \/ SyncCallTimesOut(w) \/ ReplyTakes(w)
    BY <2>1 DEF LoopStep, HandlerStep, WaitStep, ReplyStep
  <2> QED
    BY <1>1, <2>2, BEvent, BProcess, BSubmission, BDeliver, BLife, BTop
<1> QED
  BY <1>2, <1>3

(* A postponed command is left only where the thread comes back to it.     *)
THEOREM DrainTheorem == Spec => []PostponedHasDrain
<1>1. BInv => PostponedHasDrain
  BY DEF BInv
<1> QED
  BY <1>1, InitBInv, NextBInv, PTL DEF Spec

(* A worker disappears only when no event, no queue entry and no handler   *)
(* of it is left.                                                          *)
THEOREM GoneTheorem == Spec => []GoneIsQuiet
<1>1. BInv => GoneIsQuiet
  BY DEF BInv
<1> QED
  BY <1>1, InitBInv, NextBInv, PTL DEF Spec
=============================================================================
