------------------------- MODULE ThreadWorkersProofs -------------------------
(***************************************************************************)
(* Proofs about ThreadWorkers, for any set of workers and any bounds.      *)
(*                                                                         *)
(* IInv is inductive in every order of calls.  OInv adds what holds when   *)
(* workers leave in good order (Unordered = FALSE): requests that wait in  *)
(* the queue still find their worker.  SInv adds that a thread that is     *)
(* about to be empty gets no new workers (LateAssign = FALSE as well).     *)
(***************************************************************************)
EXTENDS ThreadWorkers, SequenceLemmas

High == queue["high"]
Low  == queue["low"]

(* Two requests of which the queue holds one at most.                      *)
SameRequest(e, f) ==
  /\ e.kind = f.kind
  /\ IF e.kind = "destroy" THEN e.id = f.id ELSE e.src = f.src
Once(s, kind) ==
  \A i, j \in DOMAIN s : s[i].kind = kind /\ SameRequest(s[i], s[j]) => i = j

(* What the events in the queues are about.                                *)
LowKinds  == {"worker", "check", "cleanup"}
HighKinds == {"worker", "add", "destroy", "halt"}
EventRight(e, q, ids, joined) ==
  /\ e.kind \in IF q = "low" THEN LowKinds ELSE HighKinds
  /\ e.kind = "worker" => e.src \in Workers /\ e.id # 0 /\ ids[e.src] = e.id
  /\ e.kind = "add" => e.src \in Workers /\ joined[e.src] /\ ids[e.src] = 0
  /\ e.kind = "halt" => e.src \in Workers
EventsRightIn(Q, ids, joined) ==
  /\ \A q \in Prios : \A e \in ToSet(Q[q]) : EventRight(e, q, ids, joined)
  /\ Once(Q["high"], "add")
EventsRight == EventsRightIn(queue, wid, hasThread)

JoiningIsFresh == \A w \in Workers : hasThread[w] /\ wid[w] = 0 => fired[w] = 0

FreeIsEmpty ==
  \A id \in Ids : Slot(id).work = None => Slot(id).halt = {} /\ Slot(id).cmds = {}

(* A worker between the two critical sections stays as quiet as the first  *)
(* one found it.                                                           *)
LeavingIsQuiet ==
  leaving # 0 => /\ Used(leaving) /\ MayLeave(leaving, stack)
                 /\ ~active[Slot(leaving).work] /\ Slot(leaving).halt # {}

IInv ==
  /\ TypeOK /\ IdsMatchSlots /\ BalanceExact /\ NeverHaltedInside
  /\ EventsRight /\ JoiningIsFresh /\ FreeIsEmpty /\ LeavingIsQuiet

-----------------------------------------------------------------------------
(* The slots and their ids.                                                *)
LEMMA SlotFacts ==
  ASSUME slots \in Seq(Slots)
  PROVE  /\ Ids = 2..Len(slots) + 1 /\ Len(slots) \in Nat
         /\ \A id \in Ids : /\ id \in Nat /\ id # 0 /\ id # NoAsk
                            /\ Slot(id) = slots[id - 1] /\ Slot(id) \in Slots
         /\ NewId = Len(slots) + 2 /\ NewId \notin Ids
<1>1. Len(slots) \in Nat /\ DOMAIN slots = 1..Len(slots)
  OBVIOUS
<1>2. Ids \subseteq 2..Len(slots) + 1
  BY <1>1 DEF Ids, FirstId
<1>3. 2..Len(slots) + 1 \subseteq Ids
  <2> SUFFICES ASSUME NEW id \in 2..Len(slots) + 1 PROVE id \in Ids
    OBVIOUS
  <2>1. id - 1 \in DOMAIN slots /\ id = (id - 1) + 2 - 1
    BY <1>1
  <2> QED
    BY <2>1 DEF Ids, FirstId
<1>4. ASSUME NEW id \in 2..Len(slots) + 1
      PROVE  Slot(id) = slots[id - 1] /\ slots[id - 1] \in Slots
  <2>1. id - 1 \in 1..Len(slots) /\ id - 2 + 1 = id - 1
    BY <1>1
  <2> QED
    BY <2>1 DEF Slot, FirstId
<1>5. Ids = 2..Len(slots) + 1
  BY <1>2, <1>3
<1>6. NewId = Len(slots) + 2 /\ NewId \notin Ids
  BY <1>1, <1>5 DEF NewId, SizeOf, FirstId
<1>7. \A id \in Ids : id \in Nat /\ id # 0 /\ id # NoAsk
  BY <1>1, <1>5 DEF NoAsk
<1> QED
  BY <1>1, <1>4, <1>5, <1>6, <1>7

LEMMA SlotReplaced ==
  ASSUME slots \in Seq(Slots), NEW id \in Ids, NEW r \in Slots, slots' = WithSlot(id, r)
  PROVE  /\ slots' \in Seq(Slots) /\ Ids' = Ids
         /\ \A j \in Ids : Slot(j)' = IF j = id THEN r ELSE Slot(j)
<1>1. Ids = 2..Len(slots) + 1 /\ Len(slots) \in Nat
  BY SlotFacts
<1>2. id - 1 \in 1..Len(slots) /\ id - FirstId + 1 = id - 1
  BY <1>1 DEF FirstId
<1>3. slots' = [slots EXCEPT ![id - 1] = r]
  BY <1>2 DEF WithSlot
<1>4. slots' \in Seq(Slots) /\ DOMAIN slots' = DOMAIN slots
  BY <1>2, <1>3
<1>5. Ids' = Ids
  BY <1>4 DEF Ids
<1>6. ASSUME NEW j \in Ids PROVE Slot(j)' = IF j = id THEN r ELSE Slot(j)
  <2>1. j - 1 \in 1..Len(slots) /\ (j - 1 = id - 1 <=> j = id) /\ j - FirstId + 1 = j - 1
    BY <1>1 DEF FirstId
  <2>2. Slot(j)' = slots'[j - 1] /\ Slot(j) = slots[j - 1]
    BY <2>1 DEF Slot
  <2> QED
    BY <1>2, <1>3, <2>1, <2>2
<1> QED
  BY <1>1, <1>4, <1>5, <1>6

-----------------------------------------------------------------------------
(* The events in the queues, those of an id among them.                    *)
OfId(id) == {e \in Events : e.kind = "worker" /\ e.id = id}

LEMMA WaitingIsCount ==
  ASSUME NEW s \in Seq(Events), NEW id
  PROVE  /\ EventsOf(s, id) = Places(s, OfId(id))
         /\ Cardinality(EventsOf(s, id)) \in Nat
<1>1. \A i \in DOMAIN s : s[i] \in Events
  OBVIOUS
<1>2. EventsOf(s, id) = Places(s, OfId(id))
  BY <1>1 DEF EventsOf, Places, OfId
<1> QED
  BY <1>2, CountFinite

LEMMA WaitingIsNat ==
  ASSUME NEW Q \in Queues, NEW id
  PROVE  Waiting(Q, id) \in Nat
BY WaitingIsCount DEF Waiting, Queues, Prios

WithEvent(Q, q, e) == [Q EXCEPT ![q] = Append(@, e)]
WithoutHead(Q, q)  == [Q EXCEPT ![q] = Tail(@)]

LEMMA QueueAppend ==
  ASSUME NEW Q \in Queues, NEW q \in Prios, NEW e \in Events,
         NEW R, R = WithEvent(Q, q, e)
  PROVE  /\ R \in Queues
         /\ R[q] = Append(Q[q], e) /\ \A p \in Prios \ {q} : R[p] = Q[p]
         /\ \A f : f \in ToSet(R[q]) <=> f \in ToSet(Q[q]) \/ f = e
<1>1. Q[q] \in Seq(Events) /\ Append(Q[q], e) \in Seq(Events)
  BY AppendMembers DEF Queues
<1>2. /\ R \in Queues /\ R[q] = Append(Q[q], e) /\ \A p \in Prios \ {q} : R[p] = Q[p]
  BY <1>1 DEF Queues, WithEvent, WithoutHead
<1>3. ToSet(R[q]) = ToSet(Q[q]) \cup {e}
  BY <1>1, <1>2, AppendMembers
<1> QED
  BY <1>1, <1>2, <1>3

LEMMA WaitingAppend ==
  ASSUME NEW Q \in Queues, NEW q \in Prios, NEW e \in Events,
         NEW R, R = WithEvent(Q, q, e)
  PROVE  \A id : Waiting(R, id) = Waiting(Q, id) + IF e \in OfId(id) THEN 1 ELSE 0
<1>1. Q[q] \in Seq(Events)
  BY TailMembers DEF Queues
<1>2. R \in Queues /\ R[q] = Append(Q[q], e) /\ \A p \in Prios \ {q} : R[p] = Q[p]
  BY QueueAppend
<1>3. R[q] \in Seq(Events)
  BY <1>2 DEF Queues
<1>4. ASSUME NEW id PROVE Waiting(R, id) = Waiting(Q, id) + IF e \in OfId(id) THEN 1 ELSE 0
  <2>1. Cardinality(EventsOf(R[q], id))
          = Cardinality(EventsOf(Q[q], id)) + IF e \in OfId(id) THEN 1 ELSE 0
    <3>1. /\ EventsOf(R[q], id) = Places(Append(Q[q], e), OfId(id))
          /\ EventsOf(Q[q], id) = Places(Q[q], OfId(id))
      BY <1>1, <1>2, <1>3, WaitingIsCount
    <3> QED
      BY <1>1, <3>1, CountAppend
  <2>2. Q["high"] \in Seq(Events) /\ Q["low"] \in Seq(Events)
    BY DEF Queues, Prios
  <2>3. /\ Cardinality(EventsOf(Q["high"], id)) \in Nat
        /\ Cardinality(EventsOf(Q["low"], id)) \in Nat
    BY <2>2, WaitingIsCount
  <2>4. CASE q = "high"
    <3>1. R["low"] = Q["low"]
      BY <1>2, <2>4 DEF Prios
    <3> QED
      BY <2>1, <2>3, <2>4, <3>1 DEF Waiting
  <2>5. CASE q = "low"
    <3>1. R["high"] = Q["high"]
      BY <1>2, <2>5 DEF Prios
    <3> QED
      BY <2>1, <2>3, <2>5, <3>1 DEF Waiting
  <2> QED
    BY <2>4, <2>5 DEF Prios
<1> QED
  BY <1>4

LEMMA QueueTail ==
  ASSUME NEW Q \in Queues, NEW q \in Prios, Q[q] # <<>>,
         NEW e, e = Head(Q[q]), NEW R, R = WithoutHead(Q, q)
  PROVE  /\ R \in Queues /\ e \in Events /\ e \in ToSet(Q[q])
         /\ R[q] = Tail(Q[q]) /\ \A p \in Prios \ {q} : R[p] = Q[p]
         /\ \A f : f \in ToSet(Q[q]) <=> f \in ToSet(R[q]) \/ f = e
<1>1. Q[q] \in Seq(Events) /\ Tail(Q[q]) \in Seq(Events)
      /\ e \in Events /\ e \in ToSet(Q[q])
  BY TailMembers DEF Queues
<1>2. /\ R \in Queues /\ R[q] = Tail(Q[q]) /\ \A p \in Prios \ {q} : R[p] = Q[p]
  BY <1>1 DEF Queues, WithEvent, WithoutHead
<1>3. ToSet(Q[q]) = ToSet(R[q]) \cup {e}
  BY <1>1, <1>2, TailMembers
<1> QED
  BY <1>1, <1>2, <1>3

LEMMA WaitingTail ==
  ASSUME NEW Q \in Queues, NEW q \in Prios, Q[q] # <<>>,
         NEW e, e = Head(Q[q]), NEW R, R = WithoutHead(Q, q)
  PROVE  \A id : Waiting(Q, id) = Waiting(R, id) + IF e \in OfId(id) THEN 1 ELSE 0
<1>1. Q[q] \in Seq(Events) /\ e \in Events
  BY TailMembers DEF Queues
<1>2. R \in Queues /\ R[q] = Tail(Q[q]) /\ \A p \in Prios \ {q} : R[p] = Q[p]
  BY QueueTail
<1>3. R[q] \in Seq(Events)
  BY <1>2 DEF Queues
<1>4. ASSUME NEW id PROVE Waiting(Q, id) = Waiting(R, id) + IF e \in OfId(id) THEN 1 ELSE 0
  <2>1. Cardinality(EventsOf(Q[q], id))
          = Cardinality(EventsOf(R[q], id)) + IF e \in OfId(id) THEN 1 ELSE 0
    <3>1. /\ EventsOf(R[q], id) = Places(Tail(Q[q]), OfId(id))
          /\ EventsOf(Q[q], id) = Places(Q[q], OfId(id))
      BY <1>1, <1>2, <1>3, WaitingIsCount
    <3> QED
      BY <1>1, <3>1, CountTail
  <2>2. R["high"] \in Seq(Events) /\ R["low"] \in Seq(Events)
    BY <1>2 DEF Queues, Prios
  <2>3. /\ Cardinality(EventsOf(R["high"], id)) \in Nat
        /\ Cardinality(EventsOf(R["low"], id)) \in Nat
    BY <2>2, WaitingIsCount
  <2>4. CASE q = "high"
    <3>1. R["low"] = Q["low"]
      BY <1>2, <2>4 DEF Prios
    <3> QED
      BY <2>1, <2>3, <2>4, <3>1 DEF Waiting
  <2>5. CASE q = "low"
    <3>1. R["high"] = Q["high"]
      BY <1>2, <2>5 DEF Prios
    <3> QED
      BY <2>1, <2>3, <2>5, <3>1 DEF Waiting
  <2> QED
    BY <2>4, <2>5 DEF Prios
<1> QED
  BY <1>4

LEMMA OnceAppend ==
  ASSUME NEW s \in Seq(Events), NEW e \in Events, NEW kind, Once(s, kind),
         e.kind = kind => \A f \in ToSet(s) : ~SameRequest(f, e)
  PROVE  Once(Append(s, e), kind)
<1> DEFINE t == Append(s, e)
<1>1. /\ Len(s) \in Nat /\ DOMAIN t = 1..Len(s) + 1 /\ DOMAIN s = 1..Len(s)
      /\ \A i \in 1..Len(s) : t[i] = s[i]
      /\ t[Len(s) + 1] = e
  BY AppendMembers
<1> HIDE DEF t
<1>2. \A i \in 1..Len(s) : s[i] \in ToSet(s)
  BY <1>1 DEF ToSet
<1>3. ASSUME NEW i \in DOMAIN t, NEW j \in DOMAIN t, t[i].kind = kind, SameRequest(t[i], t[j])
      PROVE  i = j
  <2>1. SameRequest(t[j], t[i])
    BY <1>3 DEF SameRequest
  <2>2. t[j].kind = kind
    BY <1>3 DEF SameRequest
  <2>3. CASE i \in 1..Len(s) /\ j \in 1..Len(s)
    BY <1>1, <1>3, <2>3 DEF Once
  <2>4. CASE i = Len(s) + 1 /\ j \in 1..Len(s)
    BY <1>1, <1>2, <1>3, <2>1, <2>4
  <2>5. CASE i \in 1..Len(s) /\ j = Len(s) + 1
    BY <1>1, <1>2, <1>3, <2>2, <2>5
  <2> QED
    BY <1>1, <2>3, <2>4, <2>5
<1> QED
  BY <1>3 DEF Once, t

LEMMA OnceTail ==
  ASSUME NEW s \in Seq(Events), s # <<>>, NEW kind, Once(s, kind)
  PROVE  /\ Once(Tail(s), kind)
         /\ Head(s).kind = kind => \A f \in ToSet(Tail(s)) : ~SameRequest(Head(s), f)
<1> DEFINE t == Tail(s)
<1>1. /\ Len(s) \in Nat \ {0} /\ DOMAIN t = 1..Len(s) - 1 /\ DOMAIN s = 1..Len(s)
      /\ \A i \in 1..Len(s) - 1 : t[i] = s[i + 1]
      /\ Head(s) = s[1]
  BY TailMembers
<1> HIDE DEF t
<1>2. ASSUME NEW i \in DOMAIN t, NEW j \in DOMAIN t, t[i].kind = kind, SameRequest(t[i], t[j])
      PROVE  i = j
  <2>1. i + 1 \in DOMAIN s /\ j + 1 \in DOMAIN s /\ i \in Nat /\ j \in Nat
    BY <1>1
  <2>2. i + 1 = j + 1
    BY <1>1, <1>2, <2>1 DEF Once
  <2> QED
    BY <2>1, <2>2
<1>3. ASSUME Head(s).kind = kind, NEW f \in ToSet(t), SameRequest(Head(s), f) PROVE FALSE
  <2>1. PICK i \in DOMAIN t : f = t[i]
    BY DEF ToSet
  <2>2. 1 \in DOMAIN s /\ i + 1 \in DOMAIN s /\ i + 1 # 1 /\ f = s[i + 1]
    BY <1>1, <2>1
  <2> QED
    BY <1>1, <1>3, <2>2 DEF Once
<1> QED
  BY <1>2, <1>3 DEF Once, t

NewAdd(e, Q) ==
  e.kind = "add" => \A f \in ToSet(Q["high"]) : ~SameRequest(f, e)

LEMMA RightAppend ==
  ASSUME NEW Q \in Queues, NEW ids, NEW joined, EventsRightIn(Q, ids, joined),
         NEW q \in Prios, NEW e \in Events, EventRight(e, q, ids, joined),
         NewAdd(e, Q),
         NEW R, R = WithEvent(Q, q, e)
  PROVE  EventsRightIn(R, ids, joined)
<1>1. /\ R[q] = Append(Q[q], e) /\ \A p \in Prios \ {q} : R[p] = Q[p]
      /\ \A f : f \in ToSet(R[q]) <=> f \in ToSet(Q[q]) \/ f = e
  <2>1. R[q] = Append(Q[q], e) /\ \A p \in Prios \ {q} : R[p] = Q[p]
    BY QueueAppend
  <2>2. \A f : f \in ToSet(R[q]) <=> f \in ToSet(Q[q]) \/ f = e
    BY QueueAppend
  <2> QED
    BY <2>1, <2>2
<1>2. ASSUME NEW p \in Prios, NEW f \in ToSet(R[p]) PROVE EventRight(f, p, ids, joined)
  BY <1>1, <1>2 DEF EventsRightIn
<1>3. Once(R["high"], "add")
  <2>1. Q["high"] \in Seq(Events) /\ Once(Q["high"], "add")
    BY DEF Queues, Prios, EventsRightIn
  <2>2. CASE q = "high"
    BY <1>1, <2>1, <2>2, OnceAppend DEF NewAdd
  <2>3. CASE q # "high"
    BY <1>1, <2>1, <2>3 DEF Prios
  <2> QED
    BY <2>2, <2>3
<1> QED
  BY <1>2, <1>3 DEF EventsRightIn

LEMMA RightTail ==
  ASSUME NEW Q \in Queues, NEW ids, NEW joined, EventsRightIn(Q, ids, joined),
         NEW q \in Prios, Q[q] # <<>>,
         NEW e, e = Head(Q[q]), NEW R, R = WithoutHead(Q, q)
  PROVE  /\ EventsRightIn(R, ids, joined) /\ EventRight(e, q, ids, joined)
         /\ e.kind = "add" =>
              q = "high" /\ \A f \in ToSet(R["high"]) : ~SameRequest(e, f)
<1>1. /\ R[q] = Tail(Q[q]) /\ \A p \in Prios \ {q} : R[p] = Q[p]
      /\ \A f : f \in ToSet(Q[q]) <=> f \in ToSet(R[q]) \/ f = e
  BY QueueTail
<1>2. ASSUME NEW p \in Prios, NEW f \in ToSet(R[p]) PROVE EventRight(f, p, ids, joined)
  BY <1>1, <1>2 DEF EventsRightIn
<1>3. EventRight(Head(Q[q]), q, ids, joined)
  BY <1>1 DEF EventsRightIn
<1>4. Q["high"] \in Seq(Events) /\ Once(Q["high"], "add")
  BY DEF Queues, Prios, EventsRightIn
<1>5. CASE q = "high"
  BY <1>1, <1>2, <1>3, <1>4, <1>5, OnceTail DEF EventsRightIn
<1>6. CASE q = "low"
  <2>1. R["high"] = Q["high"] /\ Head(Q[q]).kind # "add"
    BY <1>1, <1>3, <1>6 DEF Prios, EventRight, LowKinds
  <2> QED
    BY <1>2, <1>3, <1>4, <2>1 DEF EventsRightIn
<1> QED
  BY <1>5, <1>6 DEF Prios

-----------------------------------------------------------------------------
(* What IInv says of a worker and its slot.                                *)
LEMMA WorkerFacts ==
  ASSUME IInv, NEW w \in Workers
  PROVE  /\ wid[w] \in Nat /\ fired[w] \in 0..MaxFire
         /\ w # None
         /\ \A id \in Ids : Slot(id).work = w <=> wid[w] = id
         /\ wid[w] # 0 => /\ wid[w] \in Ids /\ hasThread[w]
                          /\ Slot(wid[w]).work = w /\ Used(wid[w])
                          /\ \A v \in Workers : wid[v] = wid[w] => v = w
         /\ active[w] => wid[w] # 0
<1>1. TypeOK /\ IdsMatchSlots /\ w # None
  BY WorkersAssumption DEF IInv
<1>2. wid[w] \in Nat /\ fired[w] \in 0..MaxFire
  BY <1>1 DEF TypeOK
<1>3. /\ \A v \in Workers : \A id \in Ids : (Slot(id).work = v) = (wid[v] = id)
      /\ wid[w] # 0 => wid[w] \in Ids /\ hasThread[w]
      /\ active[w] => wid[w] # 0
  BY <1>1 DEF IdsMatchSlots
<1> QED
  BY <1>1, <1>2, <1>3 DEF Used

LEMMA SlotWorker ==
  ASSUME IInv, NEW id \in Ids, Used(id)
  PROVE  Slot(id).work \in Workers /\ wid[Slot(id).work] = id
<1>1. Slot(id) \in Slots /\ Slot(id).work # None
  BY SlotFacts DEF IInv, TypeOK, Used
<1>2. Slot(id).work \in Workers
  BY <1>1 DEF Slots
<1> QED
  BY <1>2, WorkerFacts

LEMMA InitIInv == Init => IInv
<1> SUFFICES ASSUME Init PROVE IInv
  OBVIOUS
<1>1. Ids = {} /\ queue["high"] = <<>> /\ queue["low"] = <<>> /\ DOMAIN stack = {}
  BY DEF Init, Ids, Prios
<1>2. TypeOK
  <2>1. <<>> \in Seq(Slots) /\ <<>> \in Seq(Events) /\ <<>> \in Seq([id : Ids, loop : BOOLEAN])
    OBVIOUS
  <2>2. 0 \in 0..MaxFire /\ 0 \in 0..MaxJoins /\ NoAsk \in Nat
    BY WorkersAssumption DEF NoAsk
  <2> QED
    BY <2>1, <2>2 DEF Init, TypeOK, Queues
<1>3. IdsMatchSlots /\ BalanceExact /\ NeverHaltedInside /\ FreeIsEmpty
  BY <1>1 DEF Init, IdsMatchSlots, BalanceExact, NeverHaltedInside, FreeIsEmpty
<1>4. EventsRight /\ JoiningIsFresh /\ LeavingIsQuiet
  BY <1>1 DEF Init, EventsRight, EventsRightIn, Prios, Once, JoiningIsFresh, LeavingIsQuiet, ToSet
<1> QED
  BY <1>2, <1>3, <1>4 DEF IInv

-----------------------------------------------------------------------------
(* The operations of any thread.                                           *)

(* A request that is fired from any thread, or nothing, changes nothing    *)
(* that the thread knows of its workers.                                   *)
LEMMA RequestIInv ==
  ASSUME IInv, UNCHANGED <<workers, thread, joins>>,
         asking' \in [Workers -> Nat],
         object' \in [Workers -> {"normal", "asked", "destroyed"}],
         halting' \subseteq Workers,
         \/ queue' = queue
         \/ \E e \in Events : /\ e.kind \in {"destroy", "halt"} /\ Fire("high", e)
                              /\ e.kind = "halt" => e.src \in Workers
  PROVE  IInv'
<1>1. /\ UNCHANGED <<wid, active, hasThread, fired, joins>>
      /\ UNCHANGED <<slots, stack, leaving, checkCleanup, destroying>>
  BY DEF workers, thread
<1>2. queue \in Queues /\ EventsRightIn(queue, wid, hasThread)
  BY DEF IInv, TypeOK, EventsRight
<1>3. /\ queue' \in Queues /\ EventsRightIn(queue', wid, hasThread)
      /\ \A id : Waiting(queue', id) = Waiting(queue, id)
  <2>1. CASE queue' = queue
    BY <1>2, <2>1
  <2>2. CASE queue' # queue
    <3> PICK e \in Events : /\ e.kind \in {"destroy", "halt"} /\ Fire("high", e)
                            /\ e.kind = "halt" => e.src \in Workers
      BY <2>2
    <3>1. queue' = WithEvent(queue, "high", e) /\ "high" \in Prios
      BY DEF Fire, WithEvent, Prios
    <3>2. queue' \in Queues
      BY <1>2, <3>1, QueueAppend
    <3>3. \A id : e \notin OfId(id)
      BY DEF OfId
    <3>4. \A id : Waiting(queue', id) = Waiting(queue, id) + 0
      BY <1>2, <3>1, <3>3, WaitingAppend
    <3>5. \A id : Waiting(queue', id) = Waiting(queue, id)
      BY <1>2, <3>4, WaitingIsNat
    <3>6. EventRight(e, "high", wid, hasThread) /\ NewAdd(e, queue)
      BY DEF EventRight, NewAdd, HighKinds
    <3>7. EventsRightIn(queue', wid, hasThread)
      BY <1>2, <3>1, <3>6, RightAppend
    <3> QED
      BY <3>2, <3>5, <3>7
  <2> QED
    BY <2>1, <2>2
<1>4. TypeOK'
  BY <1>1, <1>3 DEF IInv, TypeOK, Ids
<1>5. IdsMatchSlots' /\ NeverHaltedInside' /\ FreeIsEmpty'
  BY <1>1 DEF IInv, IdsMatchSlots, NeverHaltedInside, FreeIsEmpty, Ids, Slot, Used
<1>6. BalanceExact'
  BY <1>1, <1>3 DEF IInv, BalanceExact, Slot
<1>7. EventsRight' /\ JoiningIsFresh'
  BY <1>1, <1>3 DEF IInv, EventsRight, JoiningIsFresh
<1>8. LeavingIsQuiet'
  BY <1>1 DEF IInv, LeavingIsQuiet, Used, MayLeave, Inside, Ids, Slot
<1> QED
  BY <1>4, <1>5, <1>6, <1>7, <1>8 DEF IInv

LEMMA AskDestroyIInv ==
  ASSUME IInv, NEW w \in Workers, AskDestroy(w)
  PROVE  IInv'
<1>1. /\ asking \in [Workers -> Nat] /\ wid \in [Workers -> Nat] /\ halting \subseteq Workers
      /\ object \in [Workers -> {"normal", "asked", "destroyed"}]
  BY DEF IInv, TypeOK
<1>2. asking' \in [Workers -> Nat]
  BY <1>1 DEF AskDestroy
<1>3. object' \in [Workers -> {"normal", "asked", "destroyed"}]
  BY <1>1 DEF AskDestroy
<1>4. UNCHANGED <<workers, thread, queue, halting, joins>>
  BY DEF AskDestroy
<1> QED
  BY <1>1, <1>2, <1>3, <1>4, RequestIInv

LEMMA InvokeWorkerDestroyIInv ==
  ASSUME IInv, NEW w \in Workers, InvokeWorkerDestroy(w)
  PROVE  IInv'
<1>1. /\ asking \in [Workers -> Nat] /\ halting \subseteq Workers
      /\ object \in [Workers -> {"normal", "asked", "destroyed"}]
  BY DEF IInv, TypeOK
<1>2. asking' \in [Workers -> Nat]
  BY <1>1 DEF InvokeWorkerDestroy, NoAsk
<1>3. Event("destroy", asking[w], None) \in Events
  BY <1>1 DEF Event, Events, Kinds
<1>4. Event("destroy", asking[w], None).kind = "destroy"
  BY DEF Event
<1> QED
  BY <1>1, <1>2, <1>3, <1>4, RequestIInv DEF InvokeWorkerDestroy

LEMMA HaltWorkerIInv ==
  ASSUME IInv, NEW w \in Workers, HaltWorker(w)
  PROVE  IInv'
<1>1. /\ asking \in [Workers -> Nat] /\ halting \subseteq Workers /\ wid \in [Workers -> Nat]
      /\ object \in [Workers -> {"normal", "asked", "destroyed"}]
  BY DEF IInv, TypeOK
<1>2. halting' \subseteq Workers
  BY <1>1 DEF HaltWorker
<1>3. Event("halt", wid[w], w) \in Events
  BY <1>1 DEF Event, Events, Kinds
<1>4. Event("halt", wid[w], w).kind = "halt" /\ Event("halt", wid[w], w).src = w
  BY DEF Event
<1> QED
  BY <1>1, <1>2, <1>3, <1>4, RequestIInv DEF HaltWorker

LEMMA AssignIInv ==
  ASSUME IInv, NEW w \in Workers, Assign(w)
  PROVE  IInv'
<1> DEFINE e == Event("add", 0, w)
<1>1. ~hasThread[w] /\ wid[w] = 0 /\ ~active[w]
  BY WorkerFacts DEF Assign
<1>2. /\ wid \in [Workers -> Nat] /\ active \in [Workers -> BOOLEAN]
      /\ hasThread \in [Workers -> BOOLEAN] /\ fired \in [Workers -> 0..MaxFire]
      /\ joins \in [Workers -> 0..MaxJoins] /\ MaxFire \in Nat /\ MaxJoins \in Nat
      /\ queue \in Queues /\ EventsRightIn(queue, wid, hasThread)
  BY WorkersAssumption DEF IInv, TypeOK, EventsRight
<1>3. wid' = wid /\ active' = active
  BY <1>1, <1>2 DEF Assign
<1>4. /\ UNCHANGED <<slots, stack, leaving, checkCleanup, destroying, asking, object, halting>>
      /\ hasThread' = [hasThread EXCEPT ![w] = TRUE]
      /\ fired' = [fired EXCEPT ![w] = 0]
      /\ joins' \in [Workers -> 0..MaxJoins]
  <2>1. joins[w] + 1 \in 0..MaxJoins
    BY <1>2 DEF Assign
  <2> QED
    BY <1>2, <2>1 DEF Assign, thread, callers
<1>5. /\ e \in Events /\ e.kind = "add" /\ e.src = w /\ \A id : e \notin OfId(id)
      /\ queue' = WithEvent(queue, "high", e) /\ "high" \in Prios
  BY DEF Event, Events, Kinds, OfId, Assign, Fire, WithEvent, Prios
<1> HIDE DEF e
<1>6. queue' \in Queues /\ \A id : Waiting(queue', id) = Waiting(queue, id)
  <2>1. \A id : Waiting(queue', id) = Waiting(queue, id) + 0
    BY <1>2, <1>5, WaitingAppend
  <2> QED
    BY <1>2, <1>5, <2>1, QueueAppend, WaitingIsNat
<1>7. EventsRight'
  <2>1. EventsRightIn(queue, wid, hasThread')
    <3>1. ASSUME NEW q \in Prios, NEW f \in ToSet(queue[q]) PROVE EventRight(f, q, wid, hasThread')
      BY <1>2, <1>4 DEF EventsRightIn, EventRight
    <3> QED
      BY <1>2, <3>1 DEF EventsRightIn
  <2>2. EventRight(e, "high", wid, hasThread')
    BY <1>1, <1>2, <1>4, <1>5 DEF EventRight, HighKinds
  <2>3. NewAdd(e, queue)
    BY <1>1, <1>2, <1>5 DEF NewAdd, SameRequest, EventsRightIn, EventRight
  <2>4. EventsRightIn(queue', wid, hasThread')
    BY <1>2, <1>5, <2>1, <2>2, <2>3, RightAppend
  <2> QED
    BY <1>3, <2>4 DEF EventsRight
<1>8. TypeOK'
  BY <1>2, <1>3, <1>4, <1>6 DEF IInv, TypeOK, Ids
<1>9. IdsMatchSlots' /\ NeverHaltedInside' /\ FreeIsEmpty'
  BY <1>2, <1>3, <1>4 DEF IInv, IdsMatchSlots, NeverHaltedInside, FreeIsEmpty, Ids, Slot, Used
<1>10. BalanceExact'
  BY <1>1, <1>2, <1>3, <1>4, <1>6 DEF IInv, BalanceExact, Slot
<1>11. JoiningIsFresh'
  BY <1>2, <1>3, <1>4 DEF IInv, JoiningIsFresh
<1>12. LeavingIsQuiet'
  <2>1. CASE leaving # 0
    <3>1. Used(leaving) /\ leaving \in Ids
      BY <2>1 DEF IInv, LeavingIsQuiet, Used
    <3>2. Slot(leaving).work # w
      BY <1>1, <2>1, <3>1, SlotWorker
    <3> QED
      BY <1>2, <1>3, <1>4, <3>2 DEF IInv, LeavingIsQuiet, Used, MayLeave, Inside, Ids, Slot
  <2> QED
    BY <1>4, <2>1 DEF LeavingIsQuiet
<1> QED
  BY <1>7, <1>8, <1>9, <1>10, <1>11, <1>12 DEF IInv

LEMMA FireEventIInv ==
  ASSUME IInv, NEW w \in Workers, NEW q \in Prios, FireEvent(w, q)
  PROVE  IInv'
<1> DEFINE e == Event("worker", wid[w], w)
<1>1. /\ wid[w] \in Ids /\ wid[w] # 0 /\ wid[w] \in Nat /\ active[w] /\ hasThread[w]
      /\ Slot(wid[w]).work = w
      /\ \A v \in Workers : wid[v] = wid[w] => v = w
  BY WorkerFacts DEF FireEvent
<1>2. /\ wid \in [Workers -> Nat] /\ fired \in [Workers -> 0..MaxFire] /\ MaxFire \in Nat
      /\ queue \in Queues /\ EventsRightIn(queue, wid, hasThread)
  BY WorkersAssumption DEF IInv, TypeOK, EventsRight
<1>3. /\ UNCHANGED <<wid, active, hasThread, slots, stack, leaving, checkCleanup, destroying>>
      /\ UNCHANGED <<asking, object, halting, joins>>
      /\ fired' = [fired EXCEPT ![w] = @ + 1] /\ fired[w] < MaxFire
  BY DEF FireEvent, thread, callers
<1>4. fired' \in [Workers -> 0..MaxFire]
  <2>1. fired[w] + 1 \in 0..MaxFire
    BY <1>2, <1>3
  <2> QED
    BY <1>2, <1>3, <2>1
<1>5. /\ e \in Events /\ e.kind = "worker" /\ e.src = w /\ e.id = wid[w]
      /\ \A id : e \in OfId(id) <=> id = wid[w]
      /\ queue' = WithEvent(queue, q, e)
  BY <1>1 DEF Event, Events, Kinds, OfId, FireEvent, Fire, WithEvent
<1> HIDE DEF e
<1>6. /\ queue' \in Queues
      /\ \A id : Waiting(queue', id) = Waiting(queue, id) + IF id = wid[w] THEN 1 ELSE 0
  <2>1. \A id : Waiting(queue', id) = Waiting(queue, id) + IF e \in OfId(id) THEN 1 ELSE 0
    BY <1>2, <1>5, WaitingAppend
  <2> QED
    BY <1>2, <1>5, <2>1, QueueAppend
<1>7. EventsRight'
  <2>1. EventRight(e, q, wid, hasThread) /\ NewAdd(e, queue)
    BY <1>1, <1>5 DEF EventRight, LowKinds, HighKinds, NewAdd
  <2>2. EventsRightIn(queue', wid, hasThread)
    BY <1>2, <1>5, <2>1, RightAppend
  <2> QED
    BY <1>3, <2>2 DEF EventsRight
<1>8. TypeOK'
  BY <1>3, <1>4, <1>6 DEF IInv, TypeOK, Ids
<1>9. IdsMatchSlots' /\ NeverHaltedInside' /\ FreeIsEmpty'
  BY <1>3 DEF IInv, IdsMatchSlots, NeverHaltedInside, FreeIsEmpty, Ids, Slot, Used
<1>10. BalanceExact'
  <2> SUFFICES ASSUME NEW v \in Workers, wid[v] # 0
               PROVE  fired'[v] - Slot(wid[v]).processed = Waiting(queue', wid[v])
    BY <1>3 DEF BalanceExact, Slot
  <2>1. fired[v] - Slot(wid[v]).processed = Waiting(queue, wid[v])
    BY DEF IInv, BalanceExact
  <2>2. wid[v] \in Ids /\ fired[v] \in Nat /\ Slot(wid[v]).processed \in Nat
    <3>1. wid[v] \in Ids /\ fired[v] \in 0..MaxFire
      BY WorkerFacts
    <3>2. Slot(wid[v]) \in Slots
      BY <3>1, SlotFacts DEF IInv, TypeOK
    <3> QED
      BY <1>2, <3>1, <3>2 DEF Slots
  <2>3. Waiting(queue, wid[v]) \in Nat
    BY <1>2, WaitingIsNat
  <2>4. CASE v = w
    <3>1. fired'[v] = fired[v] + 1 /\ Waiting(queue', wid[v]) = Waiting(queue, wid[v]) + 1
      BY <1>2, <1>3, <1>6, <2>4
    <3> QED
      BY <2>1, <2>2, <2>3, <3>1
  <2>5. CASE v # w
    <3>1. fired'[v] = fired[v] /\ Waiting(queue', wid[v]) = Waiting(queue, wid[v]) + 0
      BY <1>1, <1>2, <1>3, <1>6, <2>5
    <3> QED
      BY <2>1, <2>2, <2>3, <3>1
  <2> QED
    BY <2>4, <2>5
<1>11. JoiningIsFresh'
  BY <1>1, <1>2, <1>3 DEF IInv, JoiningIsFresh
<1>12. LeavingIsQuiet'
  <2>1. CASE leaving # 0
    <3>1. Used(leaving) /\ leaving \in Ids /\ ~active[Slot(leaving).work]
      BY <2>1 DEF IInv, LeavingIsQuiet, Used
    <3>2. Slot(leaving).work # w
      BY <1>1, <3>1
    <3> QED
      BY <1>2, <1>3, <3>2 DEF IInv, LeavingIsQuiet, Used, MayLeave, Inside, Ids, Slot
  <2> QED
    BY <1>3, <2>1 DEF LeavingIsQuiet
<1> QED
  BY <1>7, <1>8, <1>9, <1>10, <1>11, <1>12 DEF IInv

-----------------------------------------------------------------------------
(* The thread itself.                                                      *)
LEMMA NoneWaiting ==
  ASSUME NEW Q \in Queues, NEW id
  PROVE  Waiting(Q, id) = 0 <=>
           \A q \in Prios : \A f \in ToSet(Q[q]) : ~(f.kind = "worker" /\ f.id = id)
<1>1. Q["high"] \in Seq(Events) /\ Q["low"] \in Seq(Events)
  BY DEF Queues, Prios
<1>2. ASSUME NEW s \in Seq(Events)
      PROVE  /\ Cardinality(EventsOf(s, id)) \in Nat
             /\ Cardinality(EventsOf(s, id)) = 0 <=>
                  \A f \in ToSet(s) : ~(f.kind = "worker" /\ f.id = id)
  <2>1. /\ Cardinality(EventsOf(s, id)) \in Nat
        /\ IsFiniteSet(Places(s, OfId(id))) /\ EventsOf(s, id) = Places(s, OfId(id))
    BY CountFinite, WaitingIsCount
  <2>2. Cardinality(EventsOf(s, id)) = 0 <=> EventsOf(s, id) = {}
    BY <2>1, FS_EmptySet
  <2>3. EventsOf(s, id) = {} <=> \A f \in ToSet(s) : ~(f.kind = "worker" /\ f.id = id)
    BY DEF EventsOf, ToSet
  <2> QED
    BY <2>1, <2>2, <2>3
<1>3. /\ Cardinality(EventsOf(Q["high"], id)) \in Nat /\ Cardinality(EventsOf(Q["low"], id)) \in Nat
      /\ Cardinality(EventsOf(Q["high"], id)) = 0 <=>
           \A f \in ToSet(Q["high"]) : ~(f.kind = "worker" /\ f.id = id)
      /\ Cardinality(EventsOf(Q["low"], id)) = 0 <=>
           \A f \in ToSet(Q["low"]) : ~(f.kind = "worker" /\ f.id = id)
  BY <1>1, <1>2
<1>4. Waiting(Q, id) = 0 <=> /\ Cardinality(EventsOf(Q["high"], id)) = 0
                             /\ Cardinality(EventsOf(Q["low"], id)) = 0
  BY <1>3 DEF Waiting
<1> QED
  BY <1>3, <1>4 DEF Prios

LEMMA RemoveWorkerIInv ==
  ASSUME IInv, RemoveWorker
  PROVE  IInv'
<1> DEFINE s == Slot(leaving)
           w == Slot(leaving).work
           e == Event("check", 0, None)
<1>1. /\ leaving # 0 /\ leaving \in Ids /\ Used(leaving) /\ MayLeave(leaving, stack)
      /\ slots \in Seq(Slots) /\ s \in Slots /\ leaving \in Nat
  <2>1. leaving # 0 /\ leaving \in Ids /\ Used(leaving) /\ MayLeave(leaving, stack)
    BY DEF RemoveWorker, IInv, LeavingIsQuiet, Used
  <2> QED
    BY <2>1, SlotFacts DEF IInv, TypeOK
<1>2. /\ w \in Workers /\ wid[w] = leaving /\ hasThread[w]
      /\ \A v \in Workers : wid[v] = leaving => v = w
  <2>1. w \in Workers /\ wid[w] = leaving
    BY <1>1, SlotWorker
  <2> QED
    BY <1>1, <2>1, WorkerFacts
<1>3. /\ wid \in [Workers -> Nat] /\ active \in [Workers -> BOOLEAN]
      /\ hasThread \in [Workers -> BOOLEAN] /\ fired \in [Workers -> 0..MaxFire]
      /\ MaxFire \in Nat /\ halting \subseteq Workers
      /\ object \in [Workers -> {"normal", "asked", "destroyed"}]
      /\ queue \in Queues /\ EventsRightIn(queue, wid, hasThread)
  BY WorkersAssumption DEF IInv, TypeOK, EventsRight
<1>4. /\ slots' = WithSlot(leaving, Empty(None))
      /\ wid' = [wid EXCEPT ![w] = 0] /\ active' = [active EXCEPT ![w] = FALSE]
      /\ hasThread' = [hasThread EXCEPT ![w] = FALSE]
      /\ leaving' = 0 /\ checkCleanup' = TRUE
      /\ UNCHANGED <<fired, stack, destroying, asking, joins>>
  BY DEF RemoveWorker
<1>5. /\ object' \in [Workers -> {"normal", "asked", "destroyed"}]
      /\ halting' \subseteq Workers
  BY <1>3 DEF RemoveWorker, Answered
<1>6. /\ e \in Events /\ e.kind = "check" /\ \A id : e \notin OfId(id)
      /\ queue' = WithEvent(queue, "low", e) /\ "low" \in Prios
  BY DEF Event, Events, Kinds, OfId, RemoveWorker, Fire, WithEvent, Prios
<1>7. Empty(None) \in Slots /\ Empty(None).work = None /\ Empty(None).halt = {}
      /\ Empty(None).cmds = {}
  BY <1>3 DEF Empty, Slots
<1> HIDE DEF e, s, w
<1>8. /\ slots' \in Seq(Slots) /\ Ids' = Ids
      /\ \A j \in Ids : Slot(j)' = IF j = leaving THEN Empty(None) ELSE Slot(j)
  <2>1. slots' \in Seq(Slots) /\ Ids' = Ids
    BY <1>1, <1>4, <1>7, SlotReplaced
  <2>2. \A j \in Ids : Slot(j)' = IF j = leaving THEN Empty(None) ELSE Slot(j)
    BY <1>1, <1>4, <1>7, SlotReplaced
  <2> QED
    BY <2>1, <2>2
<1>9. queue' \in Queues /\ \A id : Waiting(queue', id) = Waiting(queue, id)
  <2>1. \A id : Waiting(queue', id) = Waiting(queue, id) + 0
    BY <1>3, <1>6, WaitingAppend
  <2> QED
    BY <1>3, <1>6, <2>1, QueueAppend, WaitingIsNat
<1>10. \A q \in Prios : \A f \in ToSet(queue[q]) : ~(f.kind = "worker" /\ f.id = leaving)
  <2>1. fired[w] - Slot(wid[w]).processed = Waiting(queue, wid[w])
    BY <1>1, <1>2 DEF IInv, BalanceExact
  <2>2. fired[w] = Slot(leaving).processed /\ fired[w] \in Nat
    BY <1>1, <1>2, <1>3 DEF MayLeave, w
  <2>3. Waiting(queue, leaving) = 0
    BY <1>2, <2>1, <2>2
  <2> QED
    BY <1>3, <2>3, NoneWaiting
<1>11. EventsRight'
  <2>1. ASSUME NEW q \in Prios, NEW f \in ToSet(queue[q]) PROVE EventRight(f, q, wid', hasThread')
    <3>1. EventRight(f, q, wid, hasThread)
      BY <1>3 DEF EventsRightIn
    <3>2. f.kind \in {"worker", "add"} => f.src # w
      BY <1>1, <1>2, <1>10, <3>1 DEF EventRight
    <3> QED
      BY <1>3, <1>4, <3>1, <3>2 DEF EventRight
  <2>2. EventsRightIn(queue, wid', hasThread')
    BY <1>3, <2>1 DEF EventsRightIn
  <2>3. EventRight(e, "low", wid', hasThread') /\ NewAdd(e, queue)
    BY <1>6 DEF EventRight, LowKinds, NewAdd
  <2>4. EventsRightIn(queue', wid', hasThread')
    BY <1>3, <1>6, <2>2, <2>3, RightAppend
  <2> QED
    BY <2>4 DEF EventsRight
<1>12. TypeOK'
  <2>1. /\ wid' \in [Workers -> Nat] /\ active' \in [Workers -> BOOLEAN]
        /\ hasThread' \in [Workers -> BOOLEAN]
    BY <1>3, <1>4
  <2> QED
    BY <1>4, <1>5, <1>8, <1>9, <2>1 DEF IInv, TypeOK
<1>13. IdsMatchSlots'
  <2>1. ASSUME NEW v \in Workers, NEW id \in Ids PROVE Slot(id)'.work = v <=> wid'[v] = id
    <3>1. Slot(id).work = v <=> wid[v] = id
      BY WorkerFacts
    <3>2. v # None /\ id # 0
      BY <1>1, WorkerFacts, SlotFacts
    <3> QED
      BY <1>2, <1>3, <1>4, <1>7, <1>8, <3>1, <3>2
  <2>2. ASSUME NEW v \in Workers
        PROVE  /\ wid'[v] # 0 => wid'[v] \in Ids' /\ hasThread'[v]
               /\ active'[v] => wid'[v] # 0
    BY <1>3, <1>4, <1>8, WorkerFacts
  <2> QED
    BY <1>8, <2>1, <2>2 DEF IdsMatchSlots
<1>14. BalanceExact'
  <2> SUFFICES ASSUME NEW v \in Workers, wid'[v] # 0
               PROVE  fired[v] - Slot(wid[v])'.processed = Waiting(queue, wid[v])
                      /\ wid'[v] = wid[v]
    BY <1>4, <1>9 DEF BalanceExact, Slot
  <2>1. v # w /\ wid[v] # 0 /\ wid'[v] = wid[v] /\ wid[v] # leaving /\ wid[v] \in Ids
    BY <1>2, <1>3, <1>4, WorkerFacts
  <2>2. Slot(wid[v])' = Slot(wid[v])
    <3>1. wid[v]' = wid[v]
      BY <2>1
    <3> QED
      BY <1>8, <2>1, <3>1 DEF Slot
  <2> QED
    BY <2>1, <2>2 DEF IInv, BalanceExact
<1>15. NeverHaltedInside'
  <2> SUFFICES ASSUME NEW i \in DOMAIN stack
               PROVE  stack[i].id \in Ids /\ stack[i].id # 0
                      /\ Slot(stack[i].id)'.work # None /\ UNCHANGED stack
    BY <1>4, <1>8 DEF NeverHaltedInside, Used
  <2>1. /\ stack[i].id \in Ids /\ Slot(stack[i].id).work # None /\ leaving # stack[i].id
    BY DEF IInv, NeverHaltedInside, Used
  <2> QED
    BY <1>1, <1>4, <1>8, <2>1, SlotFacts DEF Slot
<1>16. JoiningIsFresh'
  BY <1>2, <1>3, <1>4 DEF IInv, JoiningIsFresh
<1>17. FreeIsEmpty'
  BY <1>7, <1>8 DEF IInv, FreeIsEmpty
<1>18. LeavingIsQuiet'
  BY <1>4 DEF LeavingIsQuiet
<1> QED
  BY <1>11, <1>12, <1>13, <1>14, <1>15, <1>16, <1>17, <1>18 DEF IInv

(* A request or an event of the thread goes, and the thread may put one    *)
(* more event of its own into the queue of the lowest priority.            *)
PutBack(Q, e) == WithEvent(Q, "low", e)

LEMMA QueueStep ==
  ASSUME NEW Q \in Queues, NEW ids, NEW joined, EventsRightIn(Q, ids, joined),
         NEW q \in Prios, Q[q] # <<>>, Head(Q[q]).kind # "worker",
         NEW e \in Events, e.kind = "cleanup",
         NEW R, \/ R = WithoutHead(Q, q)
                \/ R = PutBack(WithoutHead(Q, q), e)
  PROVE  /\ R \in Queues /\ EventsRightIn(R, ids, joined)
         /\ \A id : Waiting(R, id) = Waiting(Q, id)
<1> DEFINE P == WithoutHead(Q, q)
           h == Head(Q[q])
<1>1. h \in Events /\ \A id : h \notin OfId(id)
  BY QueueTail DEF OfId
<1>2. P \in Queues /\ EventsRightIn(P, ids, joined)
  BY QueueTail, RightTail
<1>3. \A id : Waiting(P, id) = Waiting(Q, id)
  <2>1. \A id : Waiting(Q, id) = Waiting(P, id) + IF h \in OfId(id) THEN 1 ELSE 0
    BY WaitingTail
  <2>2. \A id : Waiting(P, id) \in Nat
    BY <1>2, WaitingIsNat
  <2> HIDE DEF P, h
  <2> QED
    BY <1>1, <2>1, <2>2
<1> HIDE DEF P, h
<1>4. ASSUME R = WithEvent(P, "low", e)
      PROVE  /\ R \in Queues /\ EventsRightIn(R, ids, joined)
             /\ \A id : Waiting(R, id) = Waiting(Q, id)
  <2>1. "low" \in Prios /\ \A id : e \notin OfId(id)
    BY DEF Prios, OfId
  <2>2. \A id : Waiting(R, id) = Waiting(P, id) + 0
    BY <1>2, <1>4, <2>1, WaitingAppend
  <2>3. \A id : Waiting(R, id) = Waiting(P, id)
    BY <1>2, <2>2, WaitingIsNat
  <2>4. EventRight(e, "low", ids, joined) /\ NewAdd(e, P)
    BY DEF EventRight, LowKinds, NewAdd
  <2>5. R \in Queues /\ EventsRightIn(R, ids, joined)
    BY <1>2, <1>4, <2>1, <2>4, QueueAppend, RightAppend
  <2> QED
    BY <1>3, <2>3, <2>5
<1> QED
  BY <1>2, <1>3, <1>4 DEF P, PutBack

LEMMA WorkerEventIInv ==
  ASSUME IInv, NEW q \in Prios, WorkerEvent(q)
  PROVE  IInv'
<1> DEFINE e == Head(queue[q])
           id == Head(queue[q]).id
           w == Head(queue[q]).src
<1>1. /\ queue \in Queues /\ EventsRightIn(queue, wid, hasThread) /\ queue[q] # <<>>
      /\ queue' = WithoutHead(queue, q) /\ e.kind = "worker" /\ leaving = 0
      /\ wid \in [Workers -> Nat] /\ fired \in [Workers -> 0..MaxFire] /\ MaxFire \in Nat
      /\ slots \in Seq(Slots) /\ stack \in Seq([id : Ids, loop : BOOLEAN])
  BY WorkersAssumption
     DEF IInv, TypeOK, EventsRight, WorkerEvent, Next1, InLoop, Popped, WithoutHead
<1>2. /\ UNCHANGED <<wid, active, hasThread, fired, leaving, checkCleanup, destroying>>
      /\ UNCHANGED <<asking, object, halting, joins>>
  BY DEF WorkerEvent, workers, callers
<1>3. e \in Events /\ EventRight(e, q, wid, hasThread)
  BY <1>1, QueueTail, RightTail
<1>4. /\ w \in Workers /\ id # 0 /\ wid[w] = id /\ id \in Ids /\ Used(id)
      /\ Slot(id).work = w /\ \A v \in Workers : wid[v] = id => v = w
  <2>1. w \in Workers /\ id # 0 /\ wid[w] = id
    BY <1>1, <1>3 DEF EventRight
  <2> QED
    BY <2>1, WorkerFacts
<1>5. /\ slots' = WithSlot(id, [Slot(id) EXCEPT !.processed = @ + 1])
      /\ stack' = Append(stack, [id |-> id, loop |-> FALSE])
  BY <1>4 DEF WorkerEvent
<1>6. /\ queue' \in Queues /\ EventsRightIn(queue', wid, hasThread)
      /\ \A j : Waiting(queue, j) = Waiting(queue', j) + IF e \in OfId(j) THEN 1 ELSE 0
      /\ \A j : Waiting(queue', j) \in Nat
  <2>1. queue' \in Queues /\ EventsRightIn(queue', wid, hasThread)
    BY <1>1, QueueTail, RightTail
  <2>2. \A j : Waiting(queue, j) = Waiting(queue', j) + IF e \in OfId(j) THEN 1 ELSE 0
    BY <1>1, WaitingTail
  <2> QED
    BY <2>1, <2>2, WaitingIsNat
<1>7. \A j : e \in OfId(j) <=> j = id
  BY <1>1, <1>3 DEF OfId
<1> HIDE DEF e, id, w
<1> DEFINE r == [Slot(id) EXCEPT !.processed = @ + 1]
<1>8. Slot(id) \in Slots /\ Slot(id).processed \in Nat /\ Slot(id).processed < fired[w]
  <2>1. Slot(id) \in Slots
    BY <1>1, <1>4, SlotFacts
  <2>2. fired[w] - Slot(id).processed = Waiting(queue, id)
    BY <1>4 DEF IInv, BalanceExact
  <2>3. Waiting(queue, id) = Waiting(queue', id) + 1 /\ Waiting(queue', id) \in Nat
    BY <1>6, <1>7
  <2>4. Slot(id).processed \in Nat /\ fired[w] \in Nat
    BY <1>1, <1>4, <2>1 DEF Slots
  <2> QED
    BY <2>1, <2>2, <2>3, <2>4
<1>9. /\ r \in Slots /\ r.work = w /\ r.halt = Slot(id).halt /\ r.cmds = Slot(id).cmds
      /\ r.processed = Slot(id).processed + 1
  <2>1. Slot(id).processed + 1 \in 0..MaxFire
    <3>1. fired[w] \in 0..MaxFire
      BY <1>1, <1>4
    <3> QED
      BY <1>1, <1>8, <3>1
  <2> QED
    BY <1>4, <1>8, <2>1 DEF Slots
<1>10. /\ slots' \in Seq(Slots) /\ Ids' = Ids
       /\ \A j \in Ids : Slot(j)' = IF j = id THEN r ELSE Slot(j)
  <2>1. slots' \in Seq(Slots) /\ Ids' = Ids
    BY <1>1, <1>4, <1>5, <1>9, SlotReplaced
  <2>2. \A j \in Ids : Slot(j)' = IF j = id THEN r ELSE Slot(j)
    BY <1>1, <1>4, <1>5, <1>9, SlotReplaced
  <2> QED
    BY <2>1, <2>2
<1> HIDE DEF r
<1>11. /\ stack' \in Seq([id : Ids, loop : BOOLEAN])
       /\ \A i \in DOMAIN stack' : stack'[i].id = id \/ \E j \in DOMAIN stack : stack'[i] = stack[j]
  <2> DEFINE f == [id |-> id, loop |-> FALSE]
             F == [id : Ids, loop : BOOLEAN]
  <2>1. f \in F /\ f.id = id
    BY <1>4
  <2> HIDE DEF f, F
  <2>2. stack \in Seq(F) /\ stack' = Append(stack, f)
    BY <1>1, <1>5 DEF f, F
  <2>3. stack' \in Seq(F)
    BY <2>1, <2>2, AppendMembers
  <2>4. ToSet(stack') = ToSet(stack) \cup {f}
    BY <2>1, <2>2, AppendMembers
  <2>5. \A i \in DOMAIN stack' : stack'[i].id = id \/ \E j \in DOMAIN stack : stack'[i] = stack[j]
    BY <2>1, <2>4 DEF ToSet
  <2> QED
    BY <2>3, <2>5 DEF F
<1>12. TypeOK'
  BY <1>2, <1>6, <1>10, <1>11 DEF IInv, TypeOK
<1>13. IdsMatchSlots'
  BY <1>2, <1>4, <1>9, <1>10 DEF IInv, IdsMatchSlots
<1>14. BalanceExact'
  <2> SUFFICES ASSUME NEW v \in Workers, wid[v] # 0
               PROVE  fired[v] - Slot(wid[v])'.processed = Waiting(queue', wid[v])
    BY <1>2 DEF BalanceExact, Slot
  <2>1. /\ wid[v] \in Ids /\ fired[v] \in Nat /\ wid[v]' = wid[v]
        /\ fired[v] - Slot(wid[v]).processed = Waiting(queue, wid[v])
    BY <1>1, <1>2, WorkerFacts DEF IInv, BalanceExact
  <2>2. Slot(wid[v])' = IF wid[v] = id THEN r ELSE Slot(wid[v])
    BY <1>10, <2>1 DEF Slot
  <2>3. CASE wid[v] = id
    <3>1. Waiting(queue, wid[v]) = Waiting(queue', wid[v]) + 1 /\ Waiting(queue', wid[v]) \in Nat
      BY <1>6, <1>7, <2>3
    <3> QED
      BY <1>8, <1>9, <2>1, <2>2, <2>3, <3>1
  <2>4. CASE wid[v] # id
    <3>1. Waiting(queue, wid[v]) = Waiting(queue', wid[v]) + 0 /\ Waiting(queue', wid[v]) \in Nat
      BY <1>6, <1>7, <2>4
    <3> QED
      BY <2>1, <2>2, <2>4, <3>1
  <2> QED
    BY <2>3, <2>4
<1>15. NeverHaltedInside'
  <2> SUFFICES ASSUME NEW i \in DOMAIN stack'
               PROVE  stack'[i].id \in Ids /\ stack'[i].id # 0 /\ Slot(stack[i].id)'.work # None
    BY <1>1, <1>2, <1>10 DEF NeverHaltedInside, Used, Slot
  <2>1. stack'[i].id \in Ids /\ Slot(stack'[i].id).work # None
    BY <1>4, <1>11 DEF IInv, NeverHaltedInside, Used
  <2>2. Slot(stack[i].id)' = IF stack'[i].id = id THEN r ELSE Slot(stack'[i].id)
    BY <1>10, <2>1 DEF Slot
  <2>3. w # None
    BY <1>4, WorkerFacts
  <2> QED
    BY <1>1, <1>9, <2>1, <2>2, <2>3, SlotFacts
<1>16. EventsRight' /\ JoiningIsFresh'
  BY <1>2, <1>6 DEF EventsRight, IInv, JoiningIsFresh
<1>17. FreeIsEmpty' /\ LeavingIsQuiet'
  BY <1>1, <1>2, <1>4, <1>9, <1>10 DEF IInv, FreeIsEmpty, LeavingIsQuiet, Used
<1> QED
  BY <1>12, <1>13, <1>14, <1>15, <1>16, <1>17 DEF IInv

-----------------------------------------------------------------------------
(* The handlers of the thread.                                             *)
Frames == [id : Ids, loop : BOOLEAN]
WithLoop(st, b) == Append(Front(st), [Last(st) EXCEPT !.loop = b])
Runs(st) == st \in Seq(Frames) /\ \A f \in ToSet(st) : Used(f.id)

LEMMA StackFacts ==
  ASSUME IInv
  PROVE  /\ Runs(stack)
         /\ \A f \in ToSet(stack) : /\ f.id \in Ids /\ f.id # leaving /\ Used(f.id)
                                    /\ Slot(f.id).work \in Workers
<1>1. stack \in Seq(Frames) /\ NeverHaltedInside
  BY DEF IInv, TypeOK, Frames
<1>2. ASSUME NEW f \in ToSet(stack) PROVE f.id \in Ids /\ f.id # leaving /\ Used(f.id)
  BY <1>1 DEF ToSet, NeverHaltedInside, Used
<1> QED
  BY <1>1, <1>2, SlotWorker DEF Runs

LEMMA StackChanges ==
  ASSUME IInv, stack # <<>>
  PROVE  /\ Runs(Front(stack))
         /\ \A b \in BOOLEAN : Runs(WithLoop(stack, b))
         /\ Last(stack) \in ToSet(stack)
<1>1. stack \in Seq(Frames) /\ \A f \in ToSet(stack) : Used(f.id)
  BY StackFacts DEF Runs
<1>2. /\ Front(stack) \in Seq(Frames) /\ ToSet(Front(stack)) \subseteq ToSet(stack)
      /\ Last(stack) \in Frames /\ Last(stack) \in ToSet(stack)
  BY <1>1, FrontMembers, FrontSubset
<1>3. ASSUME NEW b \in BOOLEAN PROVE Runs(WithLoop(stack, b))
  <2> DEFINE x == [Last(stack) EXCEPT !.loop = b]
  <2>1. x \in Frames /\ x.id = Last(stack).id
    BY <1>2 DEF Frames
  <2> HIDE DEF x
  <2>2. /\ Append(Front(stack), x) \in Seq(Frames)
        /\ ToSet(Append(Front(stack), x)) = ToSet(Front(stack)) \cup {x}
    BY <1>2, <2>1, AppendMembers
  <2> QED
    BY <1>1, <1>2, <2>1, <2>2 DEF Runs, WithLoop, x
<1> QED
  BY <1>1, <1>2, <1>3 DEF Runs

LEMMA LoopIInv ==
  ASSUME IInv, EnterLoop \/ LeaveLoop
  PROVE  IInv'
<1>1. /\ stack # <<>> /\ leaving = 0 /\ \E b \in BOOLEAN : stack' = WithLoop(stack, b)
      /\ UNCHANGED <<workers, slots, leaving, checkCleanup, destroying, queue, callers, joins>>
  BY DEF EnterLoop, LeaveLoop, WithLoop
<1>2. Runs(stack')
  BY <1>1, StackChanges
<1>3. /\ UNCHANGED <<wid, active, hasThread, fired, asking, object, halting>>
      /\ UNCHANGED <<slots, leaving, checkCleanup, destroying, queue, joins>>
  BY <1>1 DEF workers, callers
<1>4. TypeOK'
  BY <1>2, <1>3 DEF IInv, TypeOK, Ids, Runs, Frames
<1>5. NeverHaltedInside'
  <2> SUFFICES ASSUME NEW i \in DOMAIN stack'
               PROVE  Used(stack'[i].id) /\ stack'[i].id # 0
    BY <1>1, <1>3 DEF NeverHaltedInside, Used, Ids, Slot
  <2>1. Used(stack'[i].id) /\ stack'[i].id \in Ids
    BY <1>2 DEF Runs, ToSet, Used
  <2> QED
    BY <2>1, SlotFacts DEF IInv, TypeOK
<1>6. IdsMatchSlots' /\ BalanceExact' /\ FreeIsEmpty' /\ EventsRight' /\ JoiningIsFresh'
  BY <1>3 DEF IInv, IdsMatchSlots, BalanceExact, FreeIsEmpty, EventsRight, JoiningIsFresh,
              Ids, Slot
<1>7. LeavingIsQuiet'
  BY <1>1, <1>3 DEF LeavingIsQuiet
<1> QED
  BY <1>4, <1>5, <1>6, <1>7 DEF IInv

(* A worker that is asked to go, whoever asks.                             *)
LEMMA CheckHaltIInv ==
  ASSUME IInv, leaving = 0,
         NEW id, Used(id), NEW st, Runs(st), stack' = st,
         NEW request \in SUBSET {"destroy", "halt"}, NEW cmds \in SUBSET Workers,
         request # {} \/ Slot(id).halt # {},
         CheckWorkerCanBeHalted(id, request, cmds, st),
         queue' \in Queues, EventsRightIn(queue', wid, hasThread),
         \A j : Waiting(queue', j) = Waiting(queue, j),
         halting' \subseteq Workers,
         UNCHANGED <<wid, hasThread, fired, checkCleanup, destroying, asking, object, joins>>
  PROVE  IInv'
<1> DEFINE w == Slot(id).work
           r == [Slot(id) EXCEPT !.halt = @ \cup request, !.cmds = @ \cup cmds]
<1>1. /\ slots \in Seq(Slots) /\ id \in Ids /\ Slot(id) \in Slots
      /\ active \in [Workers -> BOOLEAN]
  BY SlotFacts DEF IInv, TypeOK, Used
<1>2. w \in Workers /\ wid[w] = id /\ w # None
  BY <1>1, SlotWorker, WorkerFacts
<1>3. /\ slots' = WithSlot(id, r) /\ active' = [active EXCEPT ![w] = FALSE]
      /\ leaving' = IF MayLeave(id, st) THEN id ELSE 0
  BY DEF CheckWorkerCanBeHalted
<1>4. /\ r \in Slots /\ r.work = w /\ r.processed = Slot(id).processed
      /\ r.halt = Slot(id).halt \cup request /\ r.halt # {}
  BY <1>1 DEF Slots
<1> HIDE DEF w, r
<1>5. slots' \in Seq(Slots) /\ Ids' = Ids
  BY <1>1, <1>3, <1>4, SlotReplaced
<1>6. \A j \in Ids : Slot(j)' = IF j = id THEN r ELSE Slot(j)
  BY <1>1, <1>3, <1>4, SlotReplaced
<1>7. /\ \A j \in Ids : Slot(j)'.work = Slot(j).work
      /\ \A j \in Ids : Slot(j)'.processed = Slot(j).processed
  <2> SUFFICES ASSUME NEW j \in Ids
               PROVE  Slot(j)'.work = Slot(j).work /\ Slot(j)'.processed = Slot(j).processed
    OBVIOUS
  <2> QED
    BY <1>4, <1>6 DEF w
<1>8. TypeOK'
  <2>1. leaving' \in {0} \cup Ids /\ active' \in [Workers -> BOOLEAN]
    BY <1>1, <1>3
  <2>2. stack' \in Seq(Frames)
    BY DEF Runs
  <2> QED
    BY <1>5, <2>1, <2>2 DEF IInv, TypeOK, Frames
<1>9. IdsMatchSlots'
  <2>1. \A v \in Workers : active'[v] => active[v]
    BY <1>1, <1>3
  <2> QED
    BY <1>5, <1>7, <2>1 DEF IInv, IdsMatchSlots
<1>10. BalanceExact'
  <2> SUFFICES ASSUME NEW v \in Workers, wid[v] # 0
               PROVE  fired[v] - Slot(wid[v])'.processed = Waiting(queue, wid[v])
    BY DEF BalanceExact, Slot
  <2>1. wid[v] \in Ids /\ wid[v]' = wid[v]
    BY WorkerFacts
  <2>2. Slot(wid[v])'.processed = Slot(wid[v]).processed
    BY <1>7, <2>1 DEF Slot
  <2> QED
    BY <2>2 DEF IInv, BalanceExact
<1>11. NeverHaltedInside'
  <2> SUFFICES ASSUME NEW i \in DOMAIN stack'
               PROVE  /\ stack'[i].id \in Ids /\ leaving' # stack'[i].id
                      /\ Slot(stack[i].id)'.work # None
    BY <1>5 DEF NeverHaltedInside, Used
  <2>1. stack'[i].id \in Ids /\ Slot(stack'[i].id).work # None /\ stack'[i].id # 0
    <3>1. Used(stack'[i].id)
      BY DEF Runs, ToSet
    <3> QED
      BY <1>1, <3>1, SlotFacts DEF Used
  <2>2. leaving' # stack'[i].id
    BY <1>3, <2>1 DEF MayLeave, Inside
  <2>3. Slot(stack[i].id)'.work = Slot(stack'[i].id).work
    BY <1>7, <2>1 DEF Slot
  <2> QED
    BY <2>1, <2>2, <2>3
<1>12. EventsRight' /\ JoiningIsFresh'
  BY DEF EventsRight, IInv, JoiningIsFresh
<1>13. FreeIsEmpty'
  BY <1>2, <1>4, <1>5, <1>6 DEF IInv, FreeIsEmpty
<1>14. LeavingIsQuiet'
  <2> SUFFICES ASSUME leaving' # 0
               PROVE  /\ leaving' = id /\ Slot(leaving)'.work = w /\ Slot(leaving)'.halt # {}
                      /\ fired[w] = Slot(leaving)'.processed /\ ~Inside(id, st)
                      /\ ~active'[w] /\ id \in Ids' /\ w # None
    BY DEF LeavingIsQuiet, Used, MayLeave
  <2>1. leaving' = id /\ MayLeave(id, st)
    BY <1>3
  <2>2. Slot(leaving)' = r
    BY <1>1, <1>6, <2>1 DEF Slot
  <2> QED
    BY <1>1, <1>2, <1>3, <1>4, <1>5, <2>1, <2>2 DEF MayLeave, w
<1> QED
  BY <1>8, <1>9, <1>10, <1>11, <1>12, <1>13, <1>14 DEF IInv

LEMMA HandlerHaltsIInv ==
  ASSUME IInv, HandlerHalts
  PROVE  IInv'
<1> DEFINE id == Last(stack).id
<1>1. /\ leaving = 0 /\ stack # <<>> /\ CheckWorkerCanBeHalted(id, {"halt"}, {}, stack)
      /\ UNCHANGED <<wid, hasThread, fired, stack, checkCleanup, destroying>>
      /\ UNCHANGED <<queue, asking, object, halting, joins>>
  BY DEF HandlerHalts, callers
<1>2. Runs(stack) /\ Used(id)
  BY <1>1, StackFacts, StackChanges
<1>3. queue \in Queues /\ EventsRightIn(queue, wid, hasThread) /\ halting \subseteq Workers
  BY DEF IInv, TypeOK, EventsRight
<1> HIDE DEF id
<1>4. queue' \in Queues /\ EventsRightIn(queue', wid, hasThread) /\ halting' \subseteq Workers
      /\ \A j : Waiting(queue', j) = Waiting(queue, j)
  BY <1>1, <1>3
<1>5. /\ {"halt"} \in SUBSET {"destroy", "halt"} /\ {"halt"} # {}
      /\ {} \in SUBSET Workers
  OBVIOUS
<1>6. UNCHANGED <<wid, hasThread, fired, checkCleanup, destroying, asking, object, joins>>
      /\ stack' = stack
  BY <1>1
<1> QED
  BY <1>1, <1>2, <1>4, <1>5, <1>6, CheckHaltIInv

LEMMA HandlerReturnsIInv ==
  ASSUME IInv, HandlerReturns
  PROVE  IInv'
<1> DEFINE id == Last(stack).id
<1>1. /\ leaving = 0 /\ stack # <<>> /\ stack' = Front(stack)
      /\ \/ Slot(id).halt # {} /\ CheckWorkerCanBeHalted(id, {}, {}, stack')
         \/ UNCHANGED <<slots, active, leaving>>
      /\ UNCHANGED <<wid, hasThread, fired, checkCleanup, destroying>>
      /\ UNCHANGED <<queue, asking, object, halting, joins>>
  BY DEF HandlerReturns, callers
<1>2. Runs(stack') /\ Used(id)
  BY <1>1, StackFacts, StackChanges
<1>3. queue \in Queues /\ EventsRightIn(queue, wid, hasThread) /\ halting \subseteq Workers
  BY DEF IInv, TypeOK, EventsRight
<1> HIDE DEF id
<1>4. CASE Slot(id).halt # {} /\ CheckWorkerCanBeHalted(id, {}, {}, stack')
  BY <1>1, <1>2, <1>3, <1>4, CheckHaltIInv
<1>5. CASE UNCHANGED <<slots, active, leaving>>
  <2>1. TypeOK'
    BY <1>1, <1>2, <1>5 DEF IInv, TypeOK, Ids, Runs, Frames
  <2>2. NeverHaltedInside'
    <3> SUFFICES ASSUME NEW i \in DOMAIN stack'
                 PROVE  Used(stack'[i].id) /\ stack'[i].id # 0
      BY <1>1, <1>5 DEF NeverHaltedInside, Used, Ids, Slot
    <3>1. Used(stack'[i].id) /\ stack'[i].id \in Ids
      BY <1>2 DEF Runs, ToSet, Used
    <3> QED
      BY <3>1, SlotFacts DEF IInv, TypeOK
  <2>3. IdsMatchSlots' /\ BalanceExact' /\ FreeIsEmpty' /\ EventsRight' /\ JoiningIsFresh'
    BY <1>1, <1>5 DEF IInv, IdsMatchSlots, BalanceExact, FreeIsEmpty, EventsRight,
                      JoiningIsFresh, Ids, Slot
  <2>4. LeavingIsQuiet'
    BY <1>1, <1>5 DEF LeavingIsQuiet
  <2> QED
    BY <2>1, <2>2, <2>3, <2>4 DEF IInv
<1> QED
  BY <1>1, <1>4, <1>5

-----------------------------------------------------------------------------
(* Slots without a worker go, or none; the queue loses no worker's event.  *)
LEMMA SweepIInv ==
  ASSUME IInv, leaving = 0,
         slots' \in Seq(Slots), Ids' \subseteq Ids,
         \A id \in Ids' : Slot(id)' = Slot(id),
         \A id \in Ids \ Ids' : Slot(id).work = None,
         queue' \in Queues, EventsRightIn(queue', wid, hasThread),
         \A j : Waiting(queue', j) = Waiting(queue, j),
         checkCleanup' \in BOOLEAN, destroying' \in BOOLEAN, halting' \subseteq Workers,
         UNCHANGED <<wid, active, hasThread, fired, stack, leaving, asking, object, joins>>
  PROVE  IInv'
<1>1. ASSUME NEW id \in Ids, Slot(id).work # None
      PROVE  id \in Ids' /\ Slot(id)' = Slot(id)
  BY <1>1
<1>2. ASSUME NEW v \in Workers, wid[v] # 0
      PROVE  wid[v] \in Ids' /\ Slot(wid[v])' = Slot(wid[v])
  <2>1. wid[v] \in Ids /\ Slot(wid[v]).work # None /\ wid[v]' = wid[v]
    BY <1>2, WorkerFacts
  <2>2. wid[v] \in Ids'
    BY <2>1
  <2> QED
    BY <2>1, <2>2 DEF Slot
<1>3. ASSUME NEW i \in DOMAIN stack
      PROVE  stack[i].id \in Ids' /\ Slot(stack[i].id)' = Slot(stack[i].id)
             /\ Used(stack[i].id) /\ stack[i].id # 0
  <2>1. Used(stack[i].id) /\ stack[i].id \in Ids /\ stack[i].id' = stack[i].id
    BY DEF IInv, NeverHaltedInside, Used
  <2>2. stack[i].id \in Ids'
    BY <2>1 DEF Used
  <2> QED
    BY <2>1, <2>2, SlotFacts DEF Slot, IInv, TypeOK
<1>4. TypeOK'
  <2>1. stack \in Seq(Frames)
    BY DEF IInv, TypeOK, Frames
  <2>2. \A i \in DOMAIN stack : stack[i] \in [id : Ids', loop : BOOLEAN]
    <3>1. \A f \in Frames : f.id \in Ids' => f \in [id : Ids', loop : BOOLEAN]
      BY DEF Frames
    <3>2. \A i \in DOMAIN stack : stack[i] \in Frames
      BY <2>1
    <3> QED
      BY <1>3, <3>1, <3>2
  <2>3. stack \in Seq([id : Ids', loop : BOOLEAN])
    BY <2>1, <2>2, OtherMembers
  <2> QED
    BY <2>3 DEF IInv, TypeOK
<1>5. IdsMatchSlots'
  BY <1>2 DEF IInv, IdsMatchSlots
<1>6. BalanceExact'
  BY <1>2 DEF IInv, BalanceExact
<1>7. NeverHaltedInside'
  BY <1>3 DEF NeverHaltedInside, Used, Slot
<1>8. EventsRight' /\ JoiningIsFresh' /\ FreeIsEmpty' /\ LeavingIsQuiet'
  BY DEF IInv, EventsRight, JoiningIsFresh, FreeIsEmpty, LeavingIsQuiet
<1> QED
  BY <1>4, <1>5, <1>6, <1>7, <1>8 DEF IInv

(* The next event is not one of a worker.                                  *)
LEMMA NextEventFacts ==
  ASSUME IInv, NEW q \in Prios, NEW kind, Next1(q, kind), kind # "worker"
  PROVE  /\ leaving = 0 /\ Head(queue[q]) \in Events /\ Head(queue[q]).kind = kind
         /\ Head(queue[q]) \in ToSet(queue[q])
         /\ EventRight(Head(queue[q]), q, wid, hasThread)
         /\ Popped(q) \in Queues /\ EventsRightIn(Popped(q), wid, hasThread)
         /\ \A j : Waiting(Popped(q), j) = Waiting(queue, j)
<1>1. /\ queue \in Queues /\ EventsRightIn(queue, wid, hasThread)
      /\ queue[q] # <<>> /\ Head(queue[q]).kind = kind /\ leaving = 0
      /\ Popped(q) = WithoutHead(queue, q)
  BY DEF IInv, TypeOK, EventsRight, Next1, InLoop, Popped, WithoutHead
<1>2. Event("cleanup", 0, None) \in Events /\ Event("cleanup", 0, None).kind = "cleanup"
  BY DEF Event, Events, Kinds
<1>3. /\ Popped(q) \in Queues /\ EventsRightIn(Popped(q), wid, hasThread)
      /\ \A j : Waiting(Popped(q), j) = Waiting(queue, j)
  BY <1>1, <1>2, QueueStep
<1>4. Head(queue[q]) \in Events /\ Head(queue[q]) \in ToSet(queue[q])
  BY <1>1, QueueTail
<1>5. EventRight(Head(queue[q]), q, wid, hasThread)
  BY <1>1, RightTail
<1> QED
  BY <1>1, <1>3, <1>4, <1>5

LEMMA DestroyRequestIInv ==
  ASSUME IInv, NEW q \in Prios, DestroyRequest(q)
  PROVE  IInv'
<1> DEFINE id == Head(queue[q]).id
<1>1. /\ Next1(q, "destroy") /\ queue' = Popped(q)
      /\ IF Used(id) THEN CheckWorkerCanBeHalted(id, {"destroy"}, {}, stack)
         ELSE UNCHANGED <<slots, active, leaving>>
      /\ UNCHANGED <<wid, hasThread, fired, stack, checkCleanup, destroying>>
      /\ UNCHANGED <<asking, object, halting, joins>>
  BY DEF DestroyRequest, callers
<1>2. /\ leaving = 0 /\ queue' \in Queues /\ EventsRightIn(queue', wid, hasThread)
      /\ \A j : Waiting(queue', j) = Waiting(queue, j)
  BY <1>1, NextEventFacts
<1>3. /\ halting' \subseteq Workers /\ slots \in Seq(Slots)
      /\ checkCleanup \in BOOLEAN /\ destroying \in BOOLEAN
  BY <1>1 DEF IInv, TypeOK
<1>4. CASE Used(id)
  <2>1. /\ {"destroy"} \in SUBSET {"destroy", "halt"} /\ {"destroy"} # {}
        /\ {} \in SUBSET Workers
    OBVIOUS
  <2>2. Runs(stack) /\ stack' = stack /\ CheckWorkerCanBeHalted(id, {"destroy"}, {}, stack)
    BY <1>1, <1>4, StackFacts
  <2>3. UNCHANGED <<wid, hasThread, fired, checkCleanup, destroying, asking, object, joins>>
    BY <1>1
  <2> HIDE DEF id
  <2> QED
    BY <1>2, <1>3, <1>4, <2>1, <2>2, <2>3, CheckHaltIInv
<1>5. CASE ~Used(id)
  <2>1. UNCHANGED <<wid, active, hasThread, fired, stack, leaving, asking, object, joins>>
    BY <1>1, <1>5
  <2>2. slots' = slots /\ Ids' = Ids /\ \A j \in Ids : Slot(j)' = Slot(j)
    BY <1>1, <1>5 DEF Ids, Slot
  <2> QED
    BY <1>1, <1>2, <1>3, <2>1, <2>2, SweepIInv
<1> QED
  BY <1>4, <1>5

LEMMA HaltRequestIInv ==
  ASSUME IInv, NEW q \in Prios, HaltRequest(q)
  PROVE  IInv'
<1> DEFINE id == Head(queue[q]).id
           w == Head(queue[q]).src
<1>1. /\ Next1(q, "halt") /\ queue' = Popped(q)
      /\ IF Used(id)
         THEN CheckWorkerCanBeHalted(id, {"halt"}, {w}, stack) /\ UNCHANGED halting
         ELSE halting' = halting \ {w} /\ UNCHANGED <<slots, active, leaving>>
      /\ UNCHANGED <<wid, hasThread, fired, stack, checkCleanup, destroying>>
      /\ UNCHANGED <<asking, object, joins>>
  BY DEF HaltRequest
<1>2. /\ leaving = 0 /\ queue' \in Queues /\ EventsRightIn(queue', wid, hasThread)
      /\ \A j : Waiting(queue', j) = Waiting(queue, j)
  BY <1>1, NextEventFacts
<1>3. /\ halting' \subseteq Workers /\ slots \in Seq(Slots) /\ w \in Workers
      /\ checkCleanup \in BOOLEAN /\ destroying \in BOOLEAN
  <2>1. w \in Workers
    BY <1>1, NextEventFacts DEF EventRight
  <2> QED
    BY <1>1, <2>1 DEF IInv, TypeOK
<1>4. CASE Used(id)
  <2>1. /\ {"halt"} \in SUBSET {"destroy", "halt"} /\ {"halt"} # {}
        /\ {w} \in SUBSET Workers
    BY <1>3
  <2>2. Runs(stack) /\ stack' = stack /\ CheckWorkerCanBeHalted(id, {"halt"}, {w}, stack)
    BY <1>1, <1>4, StackFacts
  <2>3. UNCHANGED <<wid, hasThread, fired, checkCleanup, destroying, asking, object, joins>>
    BY <1>1
  <2> HIDE DEF id, w
  <2> QED
    BY <1>2, <1>3, <1>4, <2>1, <2>2, <2>3, CheckHaltIInv
<1>5. CASE ~Used(id)
  <2>1. UNCHANGED <<wid, active, hasThread, fired, stack, leaving, asking, object, joins>>
    BY <1>1, <1>5
  <2>2. slots' = slots /\ Ids' = Ids /\ \A j \in Ids : Slot(j)' = Slot(j)
    BY <1>1, <1>5 DEF Ids, Slot
  <2> QED
    BY <1>1, <1>2, <1>3, <2>1, <2>2, SweepIInv
<1> QED
  BY <1>4, <1>5

LEMMA SlotAdded ==
  ASSUME slots \in Seq(Slots), NEW r \in Slots, slots' = Append(slots, r)
  PROVE  /\ slots' \in Seq(Slots) /\ Ids' = Ids \cup {NewId}
         /\ \A j \in Ids : Slot(j)' = Slot(j)
         /\ slots'[NewId - FirstId + 1] = r
<1>1. /\ slots' \in Seq(Slots) /\ Len(slots') = Len(slots) + 1
      /\ \A i \in 1..Len(slots) : slots'[i] = slots[i]
      /\ slots'[Len(slots) + 1] = r
  BY AppendMembers
<1>2. Len(slots) \in Nat /\ NewId = Len(slots) + 2 /\ Ids = 2..Len(slots) + 1
  BY SlotFacts
<1>3. DOMAIN slots' = (DOMAIN slots) \cup {Len(slots) + 1}
  BY <1>1, <1>2
<1>4. Ids' = Ids \cup {NewId}
  BY <1>2, <1>3 DEF Ids, FirstId
<1>5. ASSUME NEW j \in Ids PROVE Slot(j)' = Slot(j)
  <2>1. j - FirstId + 1 \in 1..Len(slots)
    BY <1>2 DEF FirstId
  <2> QED
    BY <1>1, <2>1 DEF Slot
<1>6. NewId - FirstId + 1 = Len(slots) + 1
  BY <1>2 DEF FirstId
<1> QED
  BY <1>1, <1>4, <1>5, <1>6

LEMMA AddWorkerIInv ==
  ASSUME IInv, NEW q \in Prios, AddWorker(q)
  PROVE  IInv'
<1> DEFINE e == Head(queue[q])
           w == Head(queue[q]).src
           r == Empty(w)
<1>1. /\ Next1(q, "add") /\ queue' = Popped(q) /\ queue' = WithoutHead(queue, q)
      /\ slots' = Append(slots, r)
      /\ wid' = [wid EXCEPT ![w] = NewId] /\ active' = [active EXCEPT ![w] = TRUE]
      /\ UNCHANGED <<hasThread, fired, stack, leaving, checkCleanup, destroying>>
      /\ UNCHANGED <<asking, object, halting, joins>>
  BY DEF AddWorker, callers, Popped, WithoutHead
<1>2. /\ leaving = 0 /\ e \in Events /\ e.kind = "add" /\ EventRight(e, q, wid, hasThread)
      /\ queue' \in Queues /\ EventsRightIn(queue', wid, hasThread)
      /\ \A j : Waiting(queue', j) = Waiting(queue, j)
  <2>1. leaving = 0 /\ e \in Events /\ e.kind = "add" /\ EventRight(e, q, wid, hasThread)
    BY <1>1, NextEventFacts
  <2>2. /\ queue' \in Queues /\ EventsRightIn(queue', wid, hasThread)
        /\ \A j : Waiting(queue', j) = Waiting(queue, j)
    BY <1>1, NextEventFacts
  <2> QED
    BY <2>1, <2>2
<1>3. \A f \in ToSet(queue'["high"]) : ~SameRequest(e, f)
  <2>1. queue \in Queues /\ EventsRightIn(queue, wid, hasThread) /\ queue[q] # <<>>
    BY <1>1 DEF IInv, TypeOK, EventsRight, Next1
  <2> QED
    BY <1>1, <1>2, <2>1, RightTail
<1>4. /\ w \in Workers /\ hasThread[w] /\ wid[w] = 0 /\ fired[w] = 0 /\ w # None
  <2>1. w \in Workers /\ hasThread[w] /\ wid[w] = 0
    BY <1>2 DEF EventRight
  <2> QED
    BY <2>1, WorkerFacts DEF IInv, JoiningIsFresh
<1>5. /\ wid \in [Workers -> Nat] /\ active \in [Workers -> BOOLEAN] /\ MaxFire \in Nat
      /\ slots \in Seq(Slots) /\ NewId \in Nat /\ NewId # 0 /\ NewId \notin Ids
  <2>1. slots \in Seq(Slots) /\ MaxFire \in Nat
    BY WorkersAssumption DEF IInv, TypeOK
  <2>2. NewId = Len(slots) + 2 /\ Len(slots) \in Nat /\ NewId \notin Ids
    BY <2>1, SlotFacts
  <2> QED
    BY <2>1, <2>2 DEF IInv, TypeOK
<1>6. /\ r \in Slots /\ r.work = w /\ r.halt = {} /\ r.processed = 0 /\ r.cmds = {}
  BY <1>4, <1>5 DEF Empty, Slots
<1> HIDE DEF e, w, r
<1>7. /\ slots' \in Seq(Slots) /\ Ids' = Ids \cup {NewId}
      /\ slots'[NewId - FirstId + 1] = r
  BY <1>1, <1>5, <1>6, SlotAdded
<1>8. \A j \in Ids : Slot(j)' = Slot(j)
  BY <1>1, <1>5, <1>6, SlotAdded
<1>9. wid'[w] = NewId /\ \A v \in Workers \ {w} : wid'[v] = wid[v]
  BY <1>1, <1>4, <1>5
<1>10. TypeOK'
  <2>1. wid' \in [Workers -> Nat] /\ active' \in [Workers -> BOOLEAN]
    BY <1>1, <1>5
  <2>2. stack' \in Seq([id : Ids', loop : BOOLEAN])
    <3>1. stack \in Seq(Frames) /\ \A f \in Frames : f \in [id : Ids', loop : BOOLEAN]
      BY <1>7 DEF IInv, TypeOK, Frames
    <3>2. \A i \in DOMAIN stack : stack[i] \in [id : Ids', loop : BOOLEAN]
      <4>1. \A i \in DOMAIN stack : stack[i] \in Frames
        BY <3>1
      <4> QED
        BY <3>1, <4>1
    <3> QED
      BY <1>1, <3>1, <3>2, OtherMembers
  <2> QED
    BY <1>1, <1>2, <1>7, <2>1, <2>2 DEF IInv, TypeOK
<1>11. IdsMatchSlots'
  <2>1. ASSUME NEW v \in Workers, NEW id \in Ids' PROVE Slot(id)'.work = v <=> wid'[v] = id
    <3>1. CASE id = NewId
      <4>1. Slot(id)' = r
        BY <1>7, <3>1 DEF Slot
      <4>2. v # w => wid[v] # NewId
        BY <1>5, WorkerFacts
      <4> QED
        BY <1>6, <1>9, <3>1, <4>1, <4>2
    <3>2. CASE id \in Ids
      <4>1. Slot(id)' = Slot(id) /\ (Slot(id).work = v <=> wid[v] = id) /\ id # NewId /\ id # 0
        BY <1>5, <1>8, <3>2, WorkerFacts, SlotFacts
      <4> QED
        BY <1>4, <1>9, <4>1
    <3> QED
      BY <1>7, <3>1, <3>2
  <2>2. ASSUME NEW v \in Workers
        PROVE  /\ wid'[v] # 0 => wid'[v] \in Ids' /\ hasThread'[v]
               /\ active'[v] => wid'[v] # 0
    BY <1>1, <1>4, <1>5, <1>7, <1>9, WorkerFacts
  <2> QED
    BY <2>1, <2>2 DEF IdsMatchSlots
<1>12. BalanceExact'
  <2> SUFFICES ASSUME NEW v \in Workers, wid'[v] # 0
               PROVE  fired[v] - Slot(wid[v])'.processed = Waiting(queue, wid'[v])
    BY <1>1, <1>2 DEF BalanceExact, Slot
  <2>1. CASE v = w
    <3>1. Slot(wid[v])' = r
      BY <1>7, <1>9, <2>1 DEF Slot
    <3>2. \A p \in Prios : \A f \in ToSet(queue[p]) : ~(f.kind = "worker" /\ f.id = NewId)
      <4>1. \A p \in Prios : \A f \in ToSet(queue[p]) : EventRight(f, p, wid, hasThread)
        BY DEF IInv, EventsRight, EventsRightIn
      <4> QED
        BY <1>5, <4>1, WorkerFacts DEF EventRight
    <3>3. Waiting(queue, NewId) = 0
      BY <3>2, NoneWaiting DEF IInv, TypeOK
    <3> QED
      BY <1>4, <1>6, <1>9, <2>1, <3>1, <3>3
  <2>2. CASE v # w
    <3>1. wid'[v] = wid[v] /\ wid[v] \in Ids /\ wid[v] # 0
      BY <1>9, <2>2, WorkerFacts
    <3>2. Slot(wid[v])' = Slot(wid[v])
      BY <1>8, <3>1 DEF Slot
    <3> QED
      BY <3>1, <3>2 DEF IInv, BalanceExact
  <2> QED
    BY <2>1, <2>2
<1>13. NeverHaltedInside'
  <2> SUFFICES ASSUME NEW i \in DOMAIN stack
               PROVE  stack[i].id \in Ids' /\ stack[i].id # 0 /\ Slot(stack[i].id)'.work # None
    BY <1>1, <1>2 DEF NeverHaltedInside, Used
  <2>1. stack[i].id \in Ids /\ Slot(stack[i].id).work # None
    BY DEF IInv, NeverHaltedInside, Used
  <2>2. Slot(stack[i].id)' = Slot(stack[i].id)
    BY <1>1, <1>8, <2>1 DEF Slot
  <2> QED
    BY <1>5, <1>7, <2>1, <2>2, SlotFacts
<1>14. EventsRight'
  <2>1. ASSUME NEW p \in Prios, NEW f \in ToSet(queue'[p]) PROVE EventRight(f, p, wid', hasThread')
    <3>1. EventRight(f, p, wid, hasThread)
      BY <1>2 DEF EventsRightIn
    <3>2. f.kind = "worker" => f.src # w
      BY <1>4, <3>1 DEF EventRight
    <3>3. f.kind = "add" => f.src # w
      <4>1. f.kind = "add" => p = "high"
        BY <3>1 DEF EventRight, LowKinds, Prios
      <4> QED
        BY <1>2, <1>3, <4>1 DEF SameRequest, w, e
    <3> QED
      BY <1>1, <1>9, <3>1, <3>2, <3>3 DEF EventRight
  <2> QED
    BY <1>2, <2>1 DEF EventsRight, EventsRightIn
<1>15. JoiningIsFresh'
  BY <1>1, <1>5, <1>9 DEF IInv, JoiningIsFresh
<1>16. FreeIsEmpty'
  <2> SUFFICES ASSUME NEW id \in Ids', Slot(id)'.work = None
               PROVE  Slot(id)'.halt = {} /\ Slot(id)'.cmds = {}
    BY DEF FreeIsEmpty
  <2>1. CASE id \in Ids
    BY <1>8, <2>1 DEF IInv, FreeIsEmpty
  <2>2. CASE id = NewId
    <3>1. Slot(id)' = r
      BY <1>7, <2>2 DEF Slot
    <3> QED
      BY <1>4, <1>6, <3>1
  <2> QED
    BY <1>7, <2>1, <2>2
<1>17. LeavingIsQuiet'
  BY <1>1, <1>2 DEF LeavingIsQuiet
<1> QED
  BY <1>10, <1>11, <1>12, <1>13, <1>14, <1>15, <1>16, <1>17 DEF IInv

(* The thread gives back the slots above the last one in use.              *)
LEMMA ShrunkFacts ==
  ASSUME slots \in Seq(Slots)
  PROVE  /\ Shrunk \in Seq(Slots) /\ Len(Shrunk) \in 0..Len(slots)
         /\ \A i \in 1..Len(Shrunk) : Shrunk[i] = slots[i]
         /\ \A i \in DOMAIN slots : i > Len(Shrunk) => slots[i].work = None
<1> DEFINE used == {i \in DOMAIN slots : slots[i].work # None}
           B == {k \in 0..Len(slots) : \A i \in used : i <= k}
           last == CHOOSE n \in used \cup {0} : \A i \in used : i <= n
<1>1. Len(slots) \in Nat /\ DOMAIN slots = 1..Len(slots)
  OBVIOUS
<1>2. B \in SUBSET Nat /\ Len(slots) \in B
  BY <1>1
<1>3. PICK m \in B : \A k \in B : m <= k
  <2> HIDE DEF B
  <2> QED
    BY <1>2, LeastNumber
<1>4. m \in used \cup {0}
  <2> SUFFICES ASSUME m # 0 PROVE m \in used
    OBVIOUS
  <2>1. m \in 0..Len(slots) /\ m - 1 \in 0..Len(slots) /\ ~(m <= m - 1)
    BY <1>1, <1>3
  <2>2. m - 1 \notin B
    BY <1>3, <2>1
  <2>3. PICK i \in used : ~(i <= m - 1)
    BY <2>1, <2>2
  <2>4. i = m
    <3>1. i \in 1..Len(slots) /\ i <= m
      BY <1>1, <1>3, <2>3
    <3> QED
      BY <1>1, <2>1, <2>3, <3>1
  <2> QED
    BY <2>4
<1>5. last \in used \cup {0} /\ \A i \in used : i <= last
  BY <1>3, <1>4
<1>6. Shrunk = SubSeq(slots, 1, last)
  BY DEF Shrunk
<1> HIDE DEF last
<1>7. last \in 0..Len(slots)
  BY <1>1, <1>5
<1>8. /\ SubSeq(slots, 1, last) \in Seq(Slots) /\ Len(SubSeq(slots, 1, last)) = last
      /\ \A i \in 1..last : SubSeq(slots, 1, last)[i] = slots[i]
  BY <1>1, <1>7
<1>9. \A i \in DOMAIN slots : i > last => slots[i].work = None
  BY <1>1, <1>5, <1>7
<1> QED
  BY <1>6, <1>7, <1>8, <1>9

LEMMA ShrunkIds ==
  ASSUME slots \in Seq(Slots), slots' = Shrunk
  PROVE  /\ slots' \in Seq(Slots) /\ Ids' \subseteq Ids
         /\ \A id \in Ids' : Slot(id)' = Slot(id)
         /\ \A id \in Ids \ Ids' : Slot(id).work = None
<1>1. /\ Shrunk \in Seq(Slots) /\ Len(Shrunk) \in 0..Len(slots)
      /\ \A i \in 1..Len(Shrunk) : Shrunk[i] = slots[i]
      /\ \A i \in DOMAIN slots : i > Len(Shrunk) => slots[i].work = None
  BY ShrunkFacts
<1>2. Len(slots) \in Nat /\ Ids = 2..Len(slots) + 1
  BY SlotFacts
<1>3. Ids' = 2..Len(Shrunk) + 1
  <2>1. Len(Shrunk) \in Nat /\ DOMAIN slots' = 1..Len(Shrunk)
    BY <1>1, <1>2
  <2>2. \A j \in Ids' : j \in 2..Len(Shrunk) + 1
    BY <2>1 DEF Ids, FirstId
  <2>3. \A j \in 2..Len(Shrunk) + 1 : j - 1 \in 1..Len(Shrunk) /\ j = (j - 1) + FirstId - 1
    BY <2>1 DEF FirstId
  <2>4. \A j \in 2..Len(Shrunk) + 1 : j \in Ids'
    BY <2>1, <2>3 DEF Ids
  <2> QED
    BY <2>2, <2>4
<1>4. Ids' \subseteq Ids
  BY <1>1, <1>2, <1>3
<1>5. ASSUME NEW id \in Ids' PROVE Slot(id)' = Slot(id)
  <2>1. id - FirstId + 1 \in 1..Len(Shrunk)
    BY <1>1, <1>2, <1>3 DEF FirstId
  <2> QED
    BY <1>1, <2>1 DEF Slot
<1>6. ASSUME NEW id \in Ids \ Ids' PROVE Slot(id).work = None
  <2>1. id - FirstId + 1 \in DOMAIN slots /\ id - FirstId + 1 > Len(Shrunk)
    BY <1>1, <1>2, <1>3 DEF FirstId
  <2> QED
    BY <1>1, <2>1 DEF Slot
<1> QED
  BY <1>1, <1>4, <1>5, <1>6

LEMMA CheckWorkersIInv ==
  ASSUME IInv, NEW q \in Prios, CheckWorkers(q)
  PROVE  IInv'
<1> DEFINE e == Event("cleanup", 0, None)
<1>1. /\ Next1(q, "check") /\ checkCleanup' = FALSE
      /\ \/ slots' = slots
         \/ slots' = Shrunk
      /\ \/ queue' = Popped(q)
         \/ queue' = PutBack(Popped(q), e)
      /\ UNCHANGED <<wid, active, hasThread, fired, stack, leaving, destroying>>
      /\ UNCHANGED <<asking, object, halting, joins>>
  BY DEF CheckWorkers, workers, callers, PutBack, WithEvent
<1>2. e \in Events /\ e.kind = "cleanup"
  BY DEF Event, Events, Kinds
<1> HIDE DEF e
<1>3. /\ queue \in Queues /\ EventsRightIn(queue, wid, hasThread) /\ leaving = 0
      /\ queue[q] # <<>> /\ Head(queue[q]).kind # "worker"
      /\ Popped(q) = WithoutHead(queue, q) /\ slots \in Seq(Slots)
      /\ destroying \in BOOLEAN /\ halting \subseteq Workers
  BY <1>1 DEF IInv, TypeOK, EventsRight, Next1, InLoop, Popped, WithoutHead
<1>4. /\ queue' \in Queues /\ EventsRightIn(queue', wid, hasThread)
      /\ \A j : Waiting(queue', j) = Waiting(queue, j)
  BY <1>1, <1>2, <1>3, QueueStep
<1>5. /\ slots' \in Seq(Slots) /\ Ids' \subseteq Ids
      /\ \A id \in Ids' : Slot(id)' = Slot(id)
      /\ \A id \in Ids \ Ids' : Slot(id).work = None
  <2>1. CASE slots' = slots
    BY <1>3, <2>1 DEF Ids, Slot
  <2>2. CASE slots' = Shrunk
    BY <1>3, <2>2, ShrunkIds
  <2> QED
    BY <1>1, <2>1, <2>2
<1> QED
  BY <1>1, <1>3, <1>4, <1>5, SweepIInv

LEMMA CleanupThrdIInv ==
  ASSUME IInv, NEW q \in Prios, CleanupThrd(q)
  PROVE  IInv'
<1> DEFINE e == Event("cleanup", Head(queue[q]).id + 1, None)
<1>1. /\ Next1(q, "cleanup")
      /\ \/ queue' = Popped(q)
         \/ queue' = PutBack(Popped(q), e)
      /\ UNCHANGED <<slots, wid, active, hasThread, fired, stack, leaving, checkCleanup>>
      /\ UNCHANGED <<asking, object, halting, joins>>
  BY DEF CleanupThrd, workers, callers, PutBack, WithEvent
<1>2. /\ queue \in Queues /\ EventsRightIn(queue, wid, hasThread) /\ leaving = 0
      /\ queue[q] # <<>> /\ Head(queue[q]).kind # "worker"
      /\ Popped(q) = WithoutHead(queue, q) /\ slots \in Seq(Slots)
      /\ destroying \in BOOLEAN /\ checkCleanup \in BOOLEAN /\ halting \subseteq Workers
  BY <1>1 DEF IInv, TypeOK, EventsRight, Next1, InLoop, Popped, WithoutHead
<1>3. Head(queue[q]).id \in Nat
  BY <1>2, QueueTail DEF Events
<1>4. e \in Events /\ e.kind = "cleanup"
  BY <1>3 DEF Event, Events, Kinds
<1>5. destroying' \in BOOLEAN
  BY <1>2 DEF CleanupThrd
<1> HIDE DEF e
<1>6. /\ queue' \in Queues /\ EventsRightIn(queue', wid, hasThread)
      /\ \A j : Waiting(queue', j) = Waiting(queue, j)
  BY <1>1, <1>2, <1>4, QueueStep
<1>7. Ids' = Ids /\ \A id \in Ids : Slot(id)' = Slot(id)
  BY <1>1 DEF Ids, Slot
<1> QED
  BY <1>1, <1>2, <1>5, <1>6, <1>7, SweepIInv

LEMMA StutterIInv ==
  ASSUME IInv, UNCHANGED vars
  PROVE  IInv'
<1>1. /\ UNCHANGED <<workers, thread, joins>> /\ queue' = queue
      /\ UNCHANGED <<asking, object, halting>>
  BY DEF vars, callers
<1> QED
  BY <1>1, RequestIInv DEF IInv, TypeOK

LEMMA NextIInv ==
  ASSUME IInv, [Next]_vars
  PROVE  IInv'
<1>1. ASSUME NEW w \in Workers, Assign(w) PROVE IInv'
  BY <1>1, AssignIInv
<1>2. ASSUME NEW w \in Workers, AskDestroy(w) PROVE IInv'
  BY <1>2, AskDestroyIInv
<1>3. ASSUME NEW w \in Workers, InvokeWorkerDestroy(w) PROVE IInv'
  BY <1>3, InvokeWorkerDestroyIInv
<1>4. ASSUME NEW w \in Workers, HaltWorker(w) PROVE IInv'
  BY <1>4, HaltWorkerIInv
<1>5. ASSUME NEW w \in Workers, NEW q \in Prios, FireEvent(w, q) PROVE IInv'
  BY <1>5, FireEventIInv
<1>6. ASSUME NEW q \in Prios, ThreadEvent(q) PROVE IInv'
  BY <1>6, WorkerEventIInv, AddWorkerIInv, DestroyRequestIInv, HaltRequestIInv,
     CheckWorkersIInv, CleanupThrdIInv DEF ThreadEvent
<1>7. CASE EnterLoop \/ LeaveLoop
  BY <1>7, LoopIInv
<1>8. CASE HandlerHalts
  BY <1>8, HandlerHaltsIInv
<1>9. CASE HandlerReturns
  BY <1>9, HandlerReturnsIInv
<1>10. CASE RemoveWorker
  BY <1>10, RemoveWorkerIInv
<1>11. CASE UNCHANGED vars
  BY <1>11, StutterIInv
<1> QED
  BY <1>1, <1>2, <1>3, <1>4, <1>5, <1>6, <1>7, <1>8, <1>9, <1>10, <1>11 DEF Next

(* Workers may join, leave, be halted and be destroyed in any order.       *)
THEOREM ThreadInvariant == Spec => []IInv
<1>1. Init => IInv
  BY InitIInv
<1>2. IInv /\ [Next]_vars => IInv'
  BY NextIInv
<1> QED
  BY <1>1, <1>2, PTL DEF Spec

(* Every value stays in its range: the thread never looks at a slot that   *)
(* is not there, and the handlers on its stack have one.                   *)
THEOREM TypeTheorem == Spec => []TypeOK
<1>1. IInv => TypeOK
  BY DEF IInv
<1> QED
  BY <1>1, ThreadInvariant, PTL

(* A worker and its slot agree on the id, also when the slots are shrunk   *)
(* by ProcessNoneEvent and the ids are used again.                         *)
THEOREM IdsTheorem == Spec => []IdsMatchSlots
<1>1. IInv => IdsMatchSlots
  BY DEF IInv
<1> QED
  BY <1>1, ThreadInvariant, PTL

(* The difference between the fired and the processed events of a worker   *)
(* is the number of its events in the queues, in any order of calls.       *)
THEOREM BalanceTheorem == Spec => []BalanceExact
<1>1. IInv => BalanceExact
  BY DEF IInv
<1> QED
  BY <1>1, ThreadInvariant, PTL

(* CheckWorkerCanBeHalted never lets a worker go while one of its handlers *)
(* is on the stack, at any depth of nested loops.                          *)
THEOREM InsideTheorem == Spec => []NeverHaltedInside
<1>1. IInv => NeverHaltedInside
  BY DEF IInv
<1> QED
  BY <1>1, ThreadInvariant, PTL

-----------------------------------------------------------------------------
(* Workers that leave in good order (Unordered = FALSE).                   *)

(* What is asked of a worker in its slot, and who waits there for its end. *)
Halt(w) == IF wid[w] = 0 THEN {} ELSE Slot(wid[w]).halt
Cmds(w) == IF wid[w] = 0 THEN {} ELSE Slot(wid[w]).cmds

(* No worker that is still to be added is in the queue before the event.   *)
NoAddBefore(s, e) ==
  \A i, j \in DOMAIN s : s[i] = e /\ s[j].kind = "add" => i < j

(* The id that was read is still the worker's, and not sent yet.           *)
AskingIsOpen ==
  \A w \in Workers : asking[w] # NoAsk =>
    /\ object[w] = "asked" /\ asking[w] = wid[w] /\ "destroy" \notin Halt(w)
    /\ \A e \in ToSet(High) : e.kind = "destroy" => e.id # wid[w]

DestroyIsOpen ==
  /\ \A e \in ToSet(High) : e.kind = "destroy" =>
       /\ e.src = None
       /\ \E w \in Workers : object[w] = "asked" /\ wid[w] = e.id /\ "destroy" \notin Halt(w)
  /\ Once(High, "destroy")

AskedIsCarried ==
  \A w \in Workers :
    /\ object[w] = "asked" =>
         /\ wid[w] # 0 /\ w \notin halting /\ "halt" \notin Halt(w)
         /\ \/ asking[w] # NoAsk
            \/ Event("destroy", wid[w], None) \in ToSet(High)
            \/ "destroy" \in Halt(w)
    /\ "destroy" \in Halt(w) => object[w] = "asked"

(* A halt command finds its worker, or an empty slot: the worker has gone  *)
(* of itself, and no other can get the slot before.                        *)
HaltFinds ==
  /\ \A e \in ToSet(High) : e.kind = "halt" =>
       /\ e.src \in halting /\ e.src \notin Cmds(e.src)
       /\ \/ e.id # 0 /\ wid[e.src] = e.id /\ (Halt(e.src) # {} => NoAddBefore(High, e))
          \/ ~Used(e.id) /\ NoAddBefore(High, e)
  /\ Once(High, "halt")
  /\ \A w \in Workers : Cmds(w) \subseteq {w} /\ Cmds(w) \subseteq halting

KeepersStay == \A w \in Keepers : object[w] = "normal" /\ w \notin halting /\ Halt(w) = {}

OInv == IInv /\ AskingIsOpen /\ DestroyIsOpen /\ AskedIsCarried /\ HaltFinds /\ KeepersStay

(* The requests for workers stay as they are in the queue.                 *)
Requests == {"destroy", "halt"}
RequestsKept(s, t) ==
  /\ \A e : e.kind \in Requests => (e \in ToSet(t) <=> e \in ToSet(s))
  /\ \A kind \in Requests : Once(s, kind) => Once(t, kind)
  /\ \A e : e.kind = "halt" /\ NoAddBefore(s, e) => NoAddBefore(t, e)

LEMMA OrderAppend ==
  ASSUME NEW s \in Seq(Events), NEW f \in Events, NEW e, e # f, NoAddBefore(s, e)
  PROVE  NoAddBefore(Append(s, f), e)
<1> DEFINE t == Append(s, f)
<1>1. /\ Len(s) \in Nat /\ DOMAIN t = 1..Len(s) + 1 /\ DOMAIN s = 1..Len(s)
      /\ \A i \in 1..Len(s) : t[i] = s[i]
      /\ t[Len(s) + 1] = f
  BY AppendMembers
<1> HIDE DEF t
<1>2. ASSUME NEW i \in DOMAIN t, NEW j \in DOMAIN t, t[i] = e, t[j].kind = "add" PROVE i < j
  <2>1. i \in 1..Len(s)
    BY <1>1, <1>2
  <2>2. CASE j \in 1..Len(s)
    BY <1>1, <1>2, <2>1, <2>2 DEF NoAddBefore
  <2>3. CASE j = Len(s) + 1
    BY <1>1, <2>1, <2>3
  <2> QED
    BY <1>1, <2>2, <2>3
<1> QED
  BY <1>2 DEF NoAddBefore, t

LEMMA OrderTail ==
  ASSUME NEW s \in Seq(Events), s # <<>>
  PROVE  /\ \A e : NoAddBefore(s, e) => NoAddBefore(Tail(s), e)
         /\ Head(s).kind = "add" => \A e \in ToSet(s) : ~NoAddBefore(s, e)
<1> DEFINE t == Tail(s)
<1>1. /\ Len(s) \in Nat \ {0} /\ DOMAIN t = 1..Len(s) - 1 /\ DOMAIN s = 1..Len(s)
      /\ \A i \in 1..Len(s) - 1 : t[i] = s[i + 1]
      /\ Head(s) = s[1]
  BY TailMembers
<1> HIDE DEF t
<1>2. ASSUME NEW e, NoAddBefore(s, e), NEW i \in DOMAIN t, NEW j \in DOMAIN t,
             t[i] = e, t[j].kind = "add"
      PROVE  i < j
  <2>1. i + 1 \in DOMAIN s /\ j + 1 \in DOMAIN s /\ i \in Nat /\ j \in Nat
    BY <1>1
  <2>2. i + 1 < j + 1
    BY <1>1, <1>2, <2>1 DEF NoAddBefore
  <2> QED
    BY <2>1, <2>2
<1>3. ASSUME Head(s).kind = "add", NEW e \in ToSet(s) PROVE ~NoAddBefore(s, e)
  <2>1. PICK i \in DOMAIN s : s[i] = e
    BY DEF ToSet
  <2>2. 1 \in DOMAIN s /\ ~(i < 1)
    BY <1>1, <2>1
  <2> QED
    BY <1>1, <1>3, <2>1, <2>2 DEF NoAddBefore
<1> QED
  BY <1>2, <1>3 DEF NoAddBefore, t

LEMMA NoAddAtAll ==
  ASSUME NEW s, NEW e, \A f \in ToSet(s) : f.kind # "add"
  PROVE  NoAddBefore(s, e)
BY DEF NoAddBefore, ToSet

LEMMA KeptAppend ==
  ASSUME NEW s \in Seq(Events), NEW f \in Events, f.kind \notin Requests
  PROVE  RequestsKept(s, Append(s, f))
<1>1. ToSet(Append(s, f)) = ToSet(s) \cup {f}
  BY AppendMembers
<1>2. \A e : e.kind \in Requests => (e \in ToSet(Append(s, f)) <=> e \in ToSet(s))
  BY <1>1
<1>3. ASSUME NEW kind \in Requests, Once(s, kind) PROVE Once(Append(s, f), kind)
  BY <1>3, OnceAppend
<1>4. ASSUME NEW e, e.kind = "halt", NoAddBefore(s, e) PROVE NoAddBefore(Append(s, f), e)
  BY <1>4, OrderAppend DEF Requests
<1> QED
  BY <1>2, <1>3, <1>4 DEF RequestsKept

LEMMA KeptTail ==
  ASSUME NEW s \in Seq(Events), s # <<>>, Head(s).kind \notin Requests
  PROVE  RequestsKept(s, Tail(s))
<1>1. ToSet(s) = ToSet(Tail(s)) \cup {Head(s)}
  BY TailMembers
<1>2. \A e : e.kind \in Requests => (e \in ToSet(Tail(s)) <=> e \in ToSet(s))
  BY <1>1
<1>3. ASSUME NEW kind \in Requests, Once(s, kind) PROVE Once(Tail(s), kind)
  BY <1>3, OnceTail
<1>4. ASSUME NEW e, e.kind = "halt", NoAddBefore(s, e) PROVE NoAddBefore(Tail(s), e)
  BY <1>4, OrderTail
<1> QED
  BY <1>2, <1>3, <1>4 DEF RequestsKept

(* An event of the queue of the lowest priority is no request.             *)
LEMMA KeptPop ==
  ASSUME IInv, NEW q \in Prios, queue[q] # <<>>, Head(queue[q]).kind \notin Requests,
         NEW R, \/ R = Popped(q)
                \/ \E e : R = PutBack(Popped(q), e)
  PROVE  RequestsKept(High, R["high"])
<1>1. queue \in Queues /\ Popped(q) = WithoutHead(queue, q)
  BY DEF IInv, TypeOK, Popped, WithoutHead
<1>2. /\ Popped(q)[q] = Tail(queue[q]) /\ \A p \in Prios \ {q} : Popped(q)[p] = queue[p]
      /\ Popped(q) \in Queues
  BY <1>1, QueueTail
<1>3. R["high"] = Popped(q)["high"]
  BY <1>2 DEF PutBack, WithEvent, Queues, Prios
<1>4. CASE q = "high"
  <2>1. High \in Seq(Events) /\ High # <<>> /\ Head(High).kind \notin Requests
    BY <1>1, <1>4 DEF High, Queues, Prios
  <2> QED
    BY <1>2, <1>3, <1>4, <2>1, KeptTail DEF High
<1>5. CASE q = "low"
  <2>1. R["high"] = High
    BY <1>2, <1>3, <1>5 DEF High, Prios
  <2> QED
    BY <2>1 DEF RequestsKept
<1> QED
  BY <1>4, <1>5 DEF Prios

(* A step that leaves the requests and their workers alone.                *)
LEMMA QuietOInv ==
  ASSUME OInv, IInv', RequestsKept(High, High'),
         UNCHANGED <<asking, object, halting>>,
         \A w \in Workers : wid[w] # 0 => wid'[w] = wid[w],
         \A w \in Workers : Halt(w)' = Halt(w) /\ Cmds(w)' = Cmds(w),
         \A e \in ToSet(High) : e.kind = "halt" /\ ~Used(e.id) => ~Used(e.id)'
  PROVE  OInv'
<1>1. /\ \A e : e.kind \in Requests => (e \in ToSet(High') <=> e \in ToSet(High))
      /\ \A kind \in Requests : Once(High, kind) => Once(High', kind)
      /\ \A e : e.kind = "halt" /\ NoAddBefore(High, e) => NoAddBefore(High', e)
      /\ "destroy" \in Requests /\ "halt" \in Requests
  BY DEF RequestsKept, Requests
<1>2. AskingIsOpen'
  <2>1. ASSUME NEW w \in Workers, asking[w] # NoAsk
        PROVE  /\ object[w] = "asked" /\ asking[w] = wid'[w] /\ "destroy" \notin Halt(w)'
               /\ \A e \in ToSet(High') : e.kind = "destroy" => e.id # wid'[w]
    <3>1. /\ object[w] = "asked" /\ asking[w] = wid[w] /\ "destroy" \notin Halt(w)
          /\ \A e \in ToSet(High) : e.kind = "destroy" => e.id # wid[w]
      BY <2>1 DEF OInv, AskingIsOpen
    <3>2. wid'[w] = wid[w]
      BY <3>1 DEF OInv, AskedIsCarried
    <3> QED
      BY <1>1, <3>1, <3>2
  <2> QED
    BY <2>1 DEF AskingIsOpen
<1>3. DestroyIsOpen'
  <2>1. ASSUME NEW e \in ToSet(High'), e.kind = "destroy"
        PROVE  /\ e.src = None
               /\ \E w \in Workers : object[w] = "asked" /\ wid'[w] = e.id /\ "destroy" \notin Halt(w)'
    <3>1. e \in ToSet(High)
      BY <1>1, <2>1
    <3>2. e.src = None
      BY <2>1, <3>1 DEF OInv, DestroyIsOpen
    <3>3. PICK w \in Workers : object[w] = "asked" /\ wid[w] = e.id /\ "destroy" \notin Halt(w)
      BY <2>1, <3>1 DEF OInv, DestroyIsOpen
    <3>4. wid'[w] = e.id
      BY <3>3 DEF OInv, AskedIsCarried
    <3> QED
      BY <3>2, <3>3, <3>4
  <2>2. Once(High', "destroy")
    BY <1>1 DEF OInv, DestroyIsOpen
  <2> QED
    BY <2>1, <2>2 DEF DestroyIsOpen
<1>4. AskedIsCarried'
  <2>1. ASSUME NEW w \in Workers, object[w] = "asked"
        PROVE  /\ wid'[w] # 0 /\ w \notin halting /\ "halt" \notin Halt(w)'
               /\ \/ asking[w] # NoAsk
                  \/ Event("destroy", wid'[w], None) \in ToSet(High')
                  \/ "destroy" \in Halt(w)'
    <3>1. /\ wid[w] # 0 /\ w \notin halting /\ "halt" \notin Halt(w)
          /\ \/ asking[w] # NoAsk
             \/ Event("destroy", wid[w], None) \in ToSet(High)
             \/ "destroy" \in Halt(w)
      BY <2>1 DEF OInv, AskedIsCarried
    <3>2. Event("destroy", wid[w], None).kind = "destroy"
      BY DEF Event
    <3> QED
      BY <1>1, <3>1, <3>2
  <2>2. ASSUME NEW w \in Workers, "destroy" \in Halt(w)' PROVE object[w] = "asked"
    BY <2>2 DEF OInv, AskedIsCarried
  <2> QED
    BY <2>1, <2>2 DEF AskedIsCarried
<1>5. HaltFinds'
  <2>1. ASSUME NEW e \in ToSet(High'), e.kind = "halt"
        PROVE  /\ e.src \in halting /\ e.src \notin Cmds(e.src)'
               /\ \/ e.id # 0 /\ wid'[e.src] = e.id /\ (Halt(e.src)' # {} => NoAddBefore(High', e))
                  \/ ~Used(e.id)' /\ NoAddBefore(High', e)
    <3>1. e \in ToSet(High)
      BY <1>1, <2>1
    <3>2. /\ e.src \in halting /\ e.src \notin Cmds(e.src)
          /\ \/ e.id # 0 /\ wid[e.src] = e.id /\ (Halt(e.src) # {} => NoAddBefore(High, e))
             \/ ~Used(e.id) /\ NoAddBefore(High, e)
      BY <2>1, <3>1 DEF OInv, HaltFinds
    <3>3. e.src \in Workers
      BY <3>2 DEF OInv, IInv, TypeOK
    <3>4. Halt(e.src)' = Halt(e.src) /\ Cmds(e.src)' = Cmds(e.src)
      BY <3>3 DEF Halt, Cmds
    <3>5. wid[e.src] # 0 => wid'[e.src] = wid[e.src]
      BY <3>3
    <3> QED
      BY <1>1, <2>1, <3>1, <3>2, <3>4, <3>5
  <2>2. Once(High', "halt")
    BY <1>1 DEF OInv, HaltFinds
  <2>3. \A w \in Workers : Cmds(w)' \subseteq {w} /\ Cmds(w)' \subseteq halting
    BY DEF OInv, HaltFinds
  <2> QED
    BY <2>1, <2>2, <2>3 DEF HaltFinds
<1>6. KeepersStay'
  BY WorkersAssumption DEF OInv, KeepersStay
<1> QED
  BY <1>2, <1>3, <1>4, <1>5, <1>6 DEF OInv

LEMMA SameSlots ==
  ASSUME UNCHANGED <<slots, wid>>
  PROVE  /\ \A w \in Workers : wid[w] # 0 => wid'[w] = wid[w]
         /\ \A w \in Workers : Halt(w)' = Halt(w) /\ Cmds(w)' = Cmds(w)
         /\ \A id : Used(id)' = Used(id)
BY DEF Halt, Cmds, Used, Ids, Slot

LEMMA HighFacts ==
  ASSUME IInv
  PROVE  /\ queue \in Queues /\ High \in Seq(Events) /\ Low \in Seq(Events)
         /\ \A e \in ToSet(High) : EventRight(e, "high", wid, hasThread)
         /\ \A e \in ToSet(Low) : EventRight(e, "low", wid, hasThread)
BY DEF IInv, TypeOK, Queues, Prios, High, Low, EventsRight, EventsRightIn

LEMMA AssignOInv ==
  ASSUME OInv, NEW w \in Workers, Assign(w)
  PROVE  OInv'
<1>1. IInv /\ IInv'
  BY AssignIInv DEF OInv
<1>2. UNCHANGED <<slots, wid, asking, object, halting>>
  <2>1. wid[w] = 0 /\ wid \in [Workers -> Nat]
    BY <1>1, WorkerFacts DEF Assign, IInv, TypeOK
  <2> QED
    BY <2>1 DEF Assign, thread, callers
<1>3. RequestsKept(High, High')
  <2> DEFINE e == Event("add", 0, w)
  <2>1. e \in Events /\ e.kind \notin Requests
    BY DEF Event, Events, Kinds, Requests
  <2>2. High' = Append(High, e)
    BY <1>1, HighFacts DEF Assign, Fire, High, Queues, Prios
  <2> HIDE DEF e
  <2> QED
    BY <1>1, <2>1, <2>2, HighFacts, KeptAppend
<1> QED
  BY <1>1, <1>2, <1>3, SameSlots, QuietOInv

LEMMA FireEventOInv ==
  ASSUME OInv, NEW w \in Workers, NEW q \in Prios, FireEvent(w, q)
  PROVE  OInv'
<1>1. IInv /\ IInv'
  BY FireEventIInv DEF OInv
<1>2. UNCHANGED <<slots, wid, asking, object, halting>>
  BY DEF FireEvent, thread, callers
<1>3. RequestsKept(High, High')
  <2> DEFINE e == Event("worker", wid[w], w)
  <2>1. e \in Events /\ e.kind \notin Requests
    BY <1>1, WorkerFacts DEF Event, Events, Kinds, Requests
  <2>2. queue' = [queue EXCEPT ![q] = Append(@, e)]
    BY DEF FireEvent, Fire
  <2> HIDE DEF e
  <2>3. High' = Append(High, e) \/ High' = High
    BY <1>1, <2>2, HighFacts DEF High, Queues, Prios
  <2>4. RequestsKept(High, Append(High, e)) /\ RequestsKept(High, High)
    BY <1>1, <2>1, HighFacts, KeptAppend DEF RequestsKept
  <2> QED
    BY <2>3, <2>4
<1> QED
  BY <1>1, <1>2, <1>3, SameSlots, QuietOInv

LEMMA LoopOInv ==
  ASSUME OInv, EnterLoop \/ LeaveLoop \/ UNCHANGED vars
  PROVE  OInv'
<1>1. IInv /\ IInv'
  BY LoopIInv, StutterIInv DEF OInv
<1>2. UNCHANGED <<slots, wid, asking, object, halting>> /\ UNCHANGED queue
  BY DEF EnterLoop, LeaveLoop, vars, workers, thread, callers
<1>3. RequestsKept(High, High')
  BY <1>2 DEF RequestsKept, High
<1> QED
  BY <1>1, <1>2, <1>3, SameSlots, QuietOInv

LEMMA CleanupThrdOInv ==
  ASSUME OInv, NEW q \in Prios, CleanupThrd(q)
  PROVE  OInv'
<1>1. IInv /\ IInv'
  BY CleanupThrdIInv DEF OInv
<1>2. UNCHANGED <<slots, wid, asking, object, halting>>
  BY DEF CleanupThrd, workers, callers
<1>3. RequestsKept(High, High')
  <2>1. queue[q] # <<>> /\ Head(queue[q]).kind \notin Requests
    BY DEF CleanupThrd, Next1, Requests
  <2>2. queue' = Popped(q) \/ \E e : queue' = PutBack(Popped(q), e)
    BY DEF CleanupThrd, PutBack, WithEvent
  <2> QED
    BY <1>1, <2>1, <2>2, KeptPop DEF High
<1> QED
  BY <1>1, <1>2, <1>3, SameSlots, QuietOInv

LEMMA CheckWorkersOInv ==
  ASSUME OInv, NEW q \in Prios, CheckWorkers(q)
  PROVE  OInv'
<1>1. IInv /\ IInv'
  BY CheckWorkersIInv DEF OInv
<1>2. UNCHANGED <<wid, asking, object, halting>> /\ (slots' = slots \/ slots' = Shrunk)
  BY DEF CheckWorkers, workers, callers
<1>3. RequestsKept(High, High')
  <2>1. queue[q] # <<>> /\ Head(queue[q]).kind \notin Requests
    BY DEF CheckWorkers, Next1, Requests
  <2>2. queue' = Popped(q) \/ \E e : queue' = PutBack(Popped(q), e)
    BY DEF CheckWorkers, PutBack, WithEvent
  <2> QED
    BY <1>1, <2>1, <2>2, KeptPop DEF High
<1>4. CASE slots' = slots
  BY <1>1, <1>2, <1>3, <1>4, SameSlots, QuietOInv
<1>5. CASE slots' = Shrunk
  <2>1. /\ Ids' \subseteq Ids /\ \A id \in Ids' : Slot(id)' = Slot(id)
        /\ \A id \in Ids \ Ids' : Slot(id).work = None
    BY <1>1, <1>5, ShrunkIds DEF IInv, TypeOK
  <2>2. ASSUME NEW w \in Workers PROVE Halt(w)' = Halt(w) /\ Cmds(w)' = Cmds(w)
    <3>1. CASE wid[w] = 0
      BY <1>2, <3>1 DEF Halt, Cmds
    <3>2. CASE wid[w] # 0
      <4>1. wid[w] \in Ids /\ Used(wid[w]) /\ wid[w]' = wid[w]
        BY <1>1, <1>2, <3>2, WorkerFacts
      <4>2. wid[w] \in Ids'
        BY <2>1, <4>1 DEF Used
      <4>3. Slot(wid[w])' = Slot(wid[w])
        BY <2>1, <4>1, <4>2 DEF Slot
      <4> QED
        BY <1>2, <3>2, <4>3 DEF Halt, Cmds
    <3> QED
      BY <3>1, <3>2
  <2>3. \A id : ~Used(id) => ~Used(id)'
    BY <2>1 DEF Used
  <2>4. \A w \in Workers : wid[w] # 0 => wid'[w] = wid[w]
    BY <1>2
  <2>5. \A e \in ToSet(High) : e.kind = "halt" /\ ~Used(e.id) => ~Used(e.id)'
    BY <2>3
  <2> QED
    BY <1>1, <1>2, <1>3, <2>2, <2>4, <2>5, QuietOInv
<1> QED
  BY <1>2, <1>4, <1>5

(* An event that is counted asks nothing of its worker.                    *)
LEMMA WorkerEventEffect ==
  ASSUME IInv, NEW q \in Prios, WorkerEvent(q)
  PROVE  /\ \A w \in Workers : Halt(w)' = Halt(w) /\ Cmds(w)' = Cmds(w)
         /\ \A j : Used(j)' = Used(j)
         /\ slots = <<>> => slots' = <<>>
<1> DEFINE id == Head(queue[q]).id
           r == [Slot(id) EXCEPT !.processed = @ + 1]
<1>1. UNCHANGED wid
  BY DEF WorkerEvent, workers
<1>2. CASE ~Used(id)
  <2>1. slots' = slots
    BY <1>2 DEF WorkerEvent
  <2> QED
    BY <1>1, <2>1, SameSlots
<1>3. CASE Used(id)
  <2>1. /\ id \in Ids /\ slots \in Seq(Slots) /\ Slot(id) \in Slots /\ slots' = WithSlot(id, r)
        /\ slots # <<>>
    BY <1>3, SlotFacts DEF WorkerEvent, Used, Ids, IInv, TypeOK
  <2>2. id - FirstId + 1 \in DOMAIN slots
    BY <2>1, SlotFacts DEF FirstId
  <2>3. r.halt = Slot(id).halt /\ r.cmds = Slot(id).cmds /\ r.work = Slot(id).work
    BY <2>1 DEF Slots
  <2>4. /\ \A i \in DOMAIN slots : slots'[i] = IF i = id - FirstId + 1 THEN r ELSE slots[i]
        /\ DOMAIN slots' = DOMAIN slots
    BY <2>1, <2>2 DEF WithSlot
  <2> HIDE DEF r, id
  <2>5. \A i \in DOMAIN slots : /\ slots'[i].halt = slots[i].halt /\ slots'[i].cmds = slots[i].cmds
                                /\ slots'[i].work = slots[i].work
    BY <2>3, <2>4 DEF Slot
  <2>6. Ids' = Ids /\ \A j \in Ids : j - FirstId + 1 \in DOMAIN slots
    <3>1. \A j \in Ids : j - FirstId + 1 \in DOMAIN slots
      BY <2>1, SlotFacts DEF FirstId
    <3> QED
      BY <2>4, <3>1 DEF Ids
  <2>7. \A j \in Ids : /\ Slot(j)'.halt = Slot(j).halt /\ Slot(j)'.cmds = Slot(j).cmds
                       /\ Slot(j)'.work = Slot(j).work
    BY <2>5, <2>6 DEF Slot
  <2>8. ASSUME NEW w \in Workers PROVE Halt(w)' = Halt(w) /\ Cmds(w)' = Cmds(w)
    <3>1. wid[w] # 0 => wid[w] \in Ids /\ wid[w]' = wid[w]
      BY <1>1, WorkerFacts
    <3> QED
      BY <1>1, <2>7, <3>1 DEF Halt, Cmds, Slot
  <2>9. \A j : Used(j)' = Used(j)
    BY <2>6, <2>7 DEF Used
  <2> QED
    BY <2>1, <2>8, <2>9
<1> QED
  BY <1>2, <1>3

LEMMA WorkerEventOInv ==
  ASSUME OInv, NEW q \in Prios, WorkerEvent(q)
  PROVE  OInv'
<1>1. IInv /\ IInv'
  BY WorkerEventIInv DEF OInv
<1>2. UNCHANGED <<wid, asking, object, halting>>
  BY DEF WorkerEvent, workers, callers
<1>3. RequestsKept(High, High')
  <2>1. queue[q] # <<>> /\ Head(queue[q]).kind \notin Requests /\ queue' = Popped(q)
    BY DEF WorkerEvent, Next1, Requests
  <2> QED
    BY <1>1, <2>1, KeptPop DEF High
<1>4. /\ \A w \in Workers : Halt(w)' = Halt(w) /\ Cmds(w)' = Cmds(w)
      /\ \A j : Used(j)' = Used(j)
  BY <1>1, WorkerEventEffect
<1> QED
  BY <1>1, <1>2, <1>3, <1>4, QuietOInv

(* What a request changes in the slot of its worker.                       *)
LEMMA CheckHaltEffect ==
  ASSUME IInv, wid' = wid, NEW id, Used(id), NEW st,
         NEW request \in SUBSET {"destroy", "halt"}, NEW cmds \in SUBSET Workers,
         CheckWorkerCanBeHalted(id, request, cmds, st)
  PROVE  /\ \A v \in Workers : Halt(v)' = IF wid[v] = id THEN Halt(v) \cup request ELSE Halt(v)
         /\ \A v \in Workers : Cmds(v)' = IF wid[v] = id THEN Cmds(v) \cup cmds ELSE Cmds(v)
         /\ \A j : Used(j)' = Used(j)
<1> DEFINE r == [Slot(id) EXCEPT !.halt = @ \cup request, !.cmds = @ \cup cmds]
<1>1. slots \in Seq(Slots) /\ id \in Ids /\ Slot(id) \in Slots /\ slots' = WithSlot(id, r)
  BY SlotFacts DEF IInv, TypeOK, Used, CheckWorkerCanBeHalted
<1>2. /\ r \in Slots /\ r.work = Slot(id).work
      /\ r.halt = Slot(id).halt \cup request /\ r.cmds = Slot(id).cmds \cup cmds
  BY <1>1 DEF Slots
<1> HIDE DEF r
<1>3. Ids' = Ids
  BY <1>1, <1>2, SlotReplaced
<1>4. \A j \in Ids : Slot(j)' = IF j = id THEN r ELSE Slot(j)
  BY <1>1, <1>2, SlotReplaced
<1>5. ASSUME NEW v \in Workers
      PROVE  /\ Halt(v)' = IF wid[v] = id THEN Halt(v) \cup request ELSE Halt(v)
             /\ Cmds(v)' = IF wid[v] = id THEN Cmds(v) \cup cmds ELSE Cmds(v)
  <2>1. CASE wid[v] = 0
    <3>1. id # 0
      BY <1>1, SlotFacts
    <3> QED
      BY <2>1, <3>1 DEF Halt, Cmds
  <2>2. CASE wid[v] # 0
    <3>1. wid[v] \in Ids /\ wid[v]' = wid[v]
      BY <2>2, WorkerFacts
    <3>2. Slot(wid[v])' = IF wid[v] = id THEN r ELSE Slot(wid[v])
      BY <1>4, <3>1 DEF Slot
    <3> QED
      BY <1>2, <2>2, <3>2 DEF Halt, Cmds
  <2> QED
    BY <2>1, <2>2
<1>6. \A j : Used(j)' = Used(j)
  BY <1>2, <1>3, <1>4 DEF Used
<1> QED
  BY <1>5, <1>6

LEMMA HandlerReturnsOInv ==
  ASSUME OInv, HandlerReturns
  PROVE  OInv'
<1> DEFINE id == Last(stack).id
<1>1. IInv /\ IInv'
  BY HandlerReturnsIInv DEF OInv
<1>2. UNCHANGED <<wid, asking, object, halting>> /\ RequestsKept(High, High')
  BY DEF HandlerReturns, callers, High, RequestsKept
<1>3. CASE UNCHANGED <<slots, active, leaving>>
  BY <1>1, <1>2, <1>3, SameSlots, QuietOInv
<1>4. CASE CheckWorkerCanBeHalted(id, {}, {}, stack')
  <2>1. Used(id)
    BY <1>1, StackFacts, StackChanges DEF HandlerReturns
  <2>2. {} \in SUBSET {"destroy", "halt"} /\ {} \in SUBSET Workers
    OBVIOUS
  <2> HIDE DEF id
  <2>3. \A v \in Workers : Halt(v)' = Halt(v)
    <3>1. \A v \in Workers : Halt(v)' = IF wid[v] = id THEN Halt(v) \cup {} ELSE Halt(v)
      BY <1>1, <1>2, <1>4, <2>1, <2>2, CheckHaltEffect
    <3> QED
      BY <3>1
  <2>4. \A v \in Workers : Cmds(v)' = Cmds(v)
    <3>1. \A v \in Workers : Cmds(v)' = IF wid[v] = id THEN Cmds(v) \cup {} ELSE Cmds(v)
      BY <1>1, <1>2, <1>4, <2>1, <2>2, CheckHaltEffect
    <3> QED
      BY <3>1
  <2>5. \A j : Used(j)' = Used(j)
    BY <1>1, <1>2, <1>4, <2>1, <2>2, CheckHaltEffect
  <2>6. \A v \in Workers : wid[v] # 0 => wid'[v] = wid[v]
    BY <1>2
  <2>7. \A e \in ToSet(High) : e.kind = "halt" /\ ~Used(e.id) => ~Used(e.id)'
    BY <2>5
  <2> QED
    BY <1>1, <1>2, <2>3, <2>4, <2>6, <2>7, QuietOInv
<1> QED
  BY <1>3, <1>4 DEF HandlerReturns

(* A worker that is added is not asked to go.                              *)
LEMMA AddWorkerEffect ==
  ASSUME IInv, NEW q \in Prios, AddWorker(q)
  PROVE  \A v \in Workers : Halt(v)' = Halt(v) /\ Cmds(v)' = Cmds(v)
<1> DEFINE r == Empty(Head(queue[q]).src)
<1>1. Next1(q, "add") /\ slots' = Append(slots, r)
      /\ wid' = [wid EXCEPT ![Head(queue[q]).src] = NewId]
  BY DEF AddWorker
<1>2. PICK w \in Workers : w = Head(queue[q]).src /\ wid[w] = 0
  BY <1>1, NextEventFacts DEF EventRight
<1>3. wid \in [Workers -> Nat] /\ slots \in Seq(Slots) /\ r \in Slots
      /\ r.halt = {} /\ r.cmds = {}
  BY <1>2, WorkersAssumption DEF IInv, TypeOK, Empty, Slots
<1> HIDE DEF r
<1>4. slots'[NewId - FirstId + 1] = r /\ NewId # 0
  <2>1. slots'[NewId - FirstId + 1] = r
    BY <1>1, <1>3, SlotAdded
  <2>2. NewId = Len(slots) + 2 /\ Len(slots) \in Nat
    BY <1>3, SlotFacts
  <2> QED
    BY <2>1, <2>2
<1>5. \A j \in Ids : Slot(j)' = Slot(j)
  BY <1>1, <1>3, SlotAdded
<1>6. ASSUME NEW v \in Workers PROVE Halt(v)' = Halt(v) /\ Cmds(v)' = Cmds(v)
  <2>1. CASE v = w
    <3>1. wid'[v] = NewId /\ wid[v] = 0
      BY <1>1, <1>2, <1>3, <2>1
    <3>2. Slot(wid[v])' = r
      BY <1>4, <3>1 DEF Slot
    <3> QED
      BY <1>3, <1>4, <3>1, <3>2 DEF Halt, Cmds
  <2>2. CASE v # w
    <3>1. wid'[v] = wid[v] /\ (wid[v] # 0 => wid[v] \in Ids)
      BY <1>1, <1>2, <1>3, <2>2, WorkerFacts
    <3> QED
      BY <1>5, <3>1 DEF Halt, Cmds, Slot
  <2> QED
    BY <2>1, <2>2
<1> QED
  BY <1>6

LEMMA AddWorkerOInv ==
  ASSUME OInv, NEW q \in Prios, AddWorker(q)
  PROVE  OInv'
<1> DEFINE e == Head(queue[q])
           w == Head(queue[q]).src
<1>1. IInv /\ IInv'
  BY AddWorkerIInv DEF OInv
<1>2. /\ Next1(q, "add") /\ queue' = Popped(q)
      /\ wid' = [wid EXCEPT ![w] = NewId]
      /\ UNCHANGED <<asking, object, halting>>
  BY DEF AddWorker, callers
<1>3. /\ q = "high" /\ e.kind = "add" /\ w \in Workers /\ wid[w] = 0
      /\ High # <<>> /\ Head(High) = e
  <2>1. EventRight(e, q, wid, hasThread) /\ e.kind = "add"
    BY <1>1, <1>2, NextEventFacts
  <2>2. queue[q] # <<>>
    BY <1>2 DEF Next1
  <2> QED
    BY <2>1, <2>2 DEF EventRight, LowKinds, Prios, High
<1>4. RequestsKept(High, High')
  <2>1. queue[q] # <<>> /\ Head(queue[q]).kind \notin Requests
    BY <1>2 DEF Next1, Requests
  <2> QED
    BY <1>1, <1>2, <2>1, KeptPop DEF High
<1> HIDE DEF e, w
<1>5. \A v \in Workers : wid[v] # 0 => wid'[v] = wid[v]
  BY <1>1, <1>2, <1>3 DEF IInv, TypeOK
<1>6. \A v \in Workers : Halt(v)' = Halt(v) /\ Cmds(v)' = Cmds(v)
  BY <1>1, AddWorkerEffect
<1>7. \A f \in ToSet(High) : f.kind = "halt" => Used(f.id)
  <2> SUFFICES ASSUME NEW f \in ToSet(High), f.kind = "halt" PROVE Used(f.id)
    OBVIOUS
  <2>1. ~NoAddBefore(High, f)
    BY <1>1, <1>3, HighFacts, OrderTail
  <2>2. f.id # 0 /\ wid[f.src] = f.id /\ f.src \in halting
    BY <2>1 DEF OInv, HaltFinds
  <2>3. f.src \in Workers
    BY <1>1, <2>2 DEF IInv, TypeOK
  <2> QED
    BY <1>1, <2>2, <2>3, WorkerFacts
<1> QED
  BY <1>1, <1>2, <1>4, <1>5, <1>6, <1>7, QuietOInv

(* A new request at the end of the queue, and the first one taken.         *)
RequestAdded(s, f, t) ==
  /\ \A e : e \in ToSet(t) <=> e \in ToSet(s) \/ e = f
  /\ \A kind \in Requests : Once(s, kind) => Once(t, kind)
  /\ \A e \in ToSet(s) : NoAddBefore(s, e) => NoAddBefore(t, e)

RequestTaken(s, f, t) ==
  /\ \A e : e \in ToSet(s) <=> e \in ToSet(t) \/ e = f
  /\ \A kind \in Requests : Once(s, kind) => Once(t, kind)
  /\ \A e : NoAddBefore(s, e) => NoAddBefore(t, e)
  /\ Once(s, f.kind) => \A e \in ToSet(t) : ~SameRequest(f, e)

LEMMA RequestFired ==
  ASSUME IInv, NEW f \in Events, f.kind \in Requests, Fire("high", f),
         \A e \in ToSet(High) : ~SameRequest(e, f)
  PROVE  RequestAdded(High, f, High')
<1>1. High \in Seq(Events) /\ High' = Append(High, f)
  BY HighFacts DEF Fire, High, Queues, Prios
<1>2. ToSet(High') = ToSet(High) \cup {f}
  BY <1>1, AppendMembers
<1>3. ASSUME NEW kind \in Requests, Once(High, kind) PROVE Once(High', kind)
  BY <1>1, <1>3, OnceAppend
<1>4. ASSUME NEW e \in ToSet(High), NoAddBefore(High, e) PROVE NoAddBefore(High', e)
  <2>1. e # f
    BY DEF SameRequest
  <2> QED
    BY <1>1, <1>4, <2>1, OrderAppend
<1> QED
  BY <1>2, <1>3, <1>4 DEF RequestAdded

LEMMA RequestPopped ==
  ASSUME IInv, NEW q \in Prios, NEW kind \in Requests, Next1(q, kind), queue' = Popped(q)
  PROVE  /\ q = "high" /\ Head(queue[q]).kind = kind
         /\ Head(queue[q]) \in ToSet(High)
         /\ RequestTaken(High, Head(queue[q]), High')
<1> DEFINE f == Head(queue[q])
<1>1. f.kind = kind /\ EventRight(f, q, wid, hasThread) /\ queue[q] # <<>>
  BY NextEventFacts DEF Requests, Next1
<1>2. q = "high"
  BY <1>1 DEF EventRight, LowKinds, Requests, Prios
<1>3. High \in Seq(Events) /\ High # <<>> /\ f = Head(High) /\ High' = Tail(High)
  BY <1>1, <1>2, HighFacts DEF Popped, High, Queues, Prios
<1> HIDE DEF f
<1>4. ToSet(High) = ToSet(High') \cup {f}
  BY <1>3, TailMembers
<1>5. ASSUME NEW k \in Requests, Once(High, k) PROVE Once(High', k)
  BY <1>3, <1>5, OnceTail
<1>6. Once(High, f.kind) => \A e \in ToSet(High') : ~SameRequest(f, e)
  BY <1>3, OnceTail
<1>7. \A e : NoAddBefore(High, e) => NoAddBefore(High', e)
  BY <1>3, OrderTail
<1>8. RequestTaken(High, f, High')
  BY <1>4, <1>5, <1>6, <1>7 DEF RequestTaken
<1> QED
  BY <1>1, <1>2, <1>4, <1>8 DEF f

(* The worker that halts itself.                                           *)
LEMMA HandlerHaltsOInv ==
  ASSUME OInv, ~Unordered, HandlerHalts
  PROVE  OInv'
<1> DEFINE id == Last(stack).id
           w == Slot(id).work
<1>1. IInv /\ IInv'
  BY HandlerHaltsIInv DEF OInv
<1>2. /\ UNCHANGED <<wid, queue, asking, object, halting>> /\ High' = High
      /\ CheckWorkerCanBeHalted(id, {"halt"}, {}, stack)
      /\ w \notin Keepers /\ object[w] = "normal" /\ AllJoined
  BY DEF HandlerHalts, callers, High
<1>3. Used(id) /\ id \in Ids /\ w \in Workers /\ wid[w] = id /\ id # 0
      /\ \A v \in Workers : wid[v] = id => v = w
  <2>1. Used(id) /\ id \in Ids /\ id # 0
    BY <1>1, StackFacts, StackChanges, SlotFacts DEF HandlerHalts, IInv, TypeOK
  <2>2. w \in Workers /\ wid[w] = id
    BY <1>1, <2>1, SlotWorker
  <2> QED
    BY <1>1, <2>1, <2>2, WorkerFacts
<1> HIDE DEF id, w
<1>4. /\ \A v \in Workers : Halt(v)' = IF v = w THEN Halt(v) \cup {"halt"} ELSE Halt(v)
      /\ \A v \in Workers : Cmds(v)' = Cmds(v)
      /\ \A j : Used(j)' = Used(j)
  <2>1. {"halt"} \in SUBSET {"destroy", "halt"} /\ {} \in SUBSET Workers
    OBVIOUS
  <2>2. \A v \in Workers : Halt(v)' = IF wid[v] = id THEN Halt(v) \cup {"halt"} ELSE Halt(v)
    BY <1>1, <1>2, <1>3, <2>1, CheckHaltEffect
  <2>3. \A v \in Workers : Cmds(v)' = IF wid[v] = id THEN Cmds(v) \cup {} ELSE Cmds(v)
    BY <1>1, <1>2, <1>3, <2>1, CheckHaltEffect
  <2>4. \A j : Used(j)' = Used(j)
    BY <1>1, <1>2, <1>3, <2>1, CheckHaltEffect
  <2> QED
    BY <1>3, <2>2, <2>3, <2>4
<1>5. \A v \in Workers : "destroy" \in Halt(v)' <=> "destroy" \in Halt(v)
  BY <1>4
<1>6. \A e : NoAddBefore(High, e)
  <2>1. \A f \in ToSet(High) : f.kind # "add"
    BY <1>1, <1>2, HighFacts DEF EventRight, AllJoined
  <2> QED
    BY <2>1, NoAddAtAll
<1>7. AskingIsOpen'
  BY <1>2, <1>5 DEF OInv, AskingIsOpen
<1>8. DestroyIsOpen'
  BY <1>2, <1>5 DEF OInv, DestroyIsOpen
<1>9. AskedIsCarried'
  <2>1. ASSUME NEW v \in Workers, object[v] = "asked"
        PROVE  /\ wid[v] # 0 /\ v \notin halting /\ "halt" \notin Halt(v)'
               /\ \/ asking[v] # NoAsk
                  \/ Event("destroy", wid[v], None) \in ToSet(High)
                  \/ "destroy" \in Halt(v)'
    <3>1. v # w
      BY <1>2, <2>1
    <3>2. Halt(v)' = Halt(v)
      BY <1>4, <3>1
    <3> QED
      BY <2>1, <3>2 DEF OInv, AskedIsCarried
  <2>2. ASSUME NEW v \in Workers, "destroy" \in Halt(v)' PROVE object[v] = "asked"
    BY <1>5, <2>2 DEF OInv, AskedIsCarried
  <2> QED
    BY <1>2, <2>1, <2>2 DEF AskedIsCarried
<1>10. HaltFinds'
  <2>1. ASSUME NEW e \in ToSet(High), e.kind = "halt"
        PROVE  /\ e.src \in halting /\ e.src \notin Cmds(e.src)'
               /\ \/ e.id # 0 /\ wid[e.src] = e.id
                  \/ ~Used(e.id)'
    <3>1. /\ e.src \in halting /\ e.src \notin Cmds(e.src)
          /\ \/ e.id # 0 /\ wid[e.src] = e.id
             \/ ~Used(e.id)
      BY <2>1 DEF OInv, HaltFinds
    <3>2. e.src \in Workers
      BY <1>1, <3>1 DEF IInv, TypeOK
    <3>3. Cmds(e.src)' = Cmds(e.src)
      BY <1>4, <3>2
    <3>4. Used(e.id)' = Used(e.id)
      BY <1>4
    <3> QED
      BY <3>1, <3>3, <3>4
  <2>2. Once(High, "halt") /\ \A v \in Workers : Cmds(v)' \subseteq {v} /\ Cmds(v)' \subseteq halting
    BY <1>4 DEF OInv, HaltFinds
  <2> QED
    BY <1>2, <1>6, <2>1, <2>2 DEF HaltFinds
<1>11. KeepersStay'
  BY <1>2, <1>4, WorkersAssumption DEF OInv, KeepersStay
<1> QED
  BY <1>1, <1>7, <1>8, <1>9, <1>10, <1>11 DEF OInv

(* "InvokeWorkerDestroy" finds the worker that was asked.                  *)
LEMMA DestroyRequestOInv ==
  ASSUME OInv, NEW q \in Prios, DestroyRequest(q)
  PROVE  OInv'
<1> DEFINE d == Head(queue[q])
<1>1. IInv /\ IInv'
  BY DestroyRequestIInv DEF OInv
<1>2. /\ Next1(q, "destroy") /\ queue' = Popped(q) /\ "destroy" \in Requests
      /\ UNCHANGED <<wid, asking, object, halting>>
      /\ Used(d.id) => CheckWorkerCanBeHalted(d.id, {"destroy"}, {}, stack)
  BY DEF DestroyRequest, callers, Requests
<1>3. /\ q = "high" /\ d.kind = "destroy" /\ d \in ToSet(High)
      /\ RequestTaken(High, d, High')
  BY <1>1, <1>2, RequestPopped
<1> HIDE DEF d
<1>4. /\ \A e : e \in ToSet(High) <=> e \in ToSet(High') \/ e = d
      /\ Once(High', "destroy") /\ Once(High', "halt")
      /\ \A e : NoAddBefore(High, e) => NoAddBefore(High', e)
  BY <1>3 DEF RequestTaken, Requests, OInv, DestroyIsOpen, HaltFinds
<1>5. \A e \in ToSet(High') : e.kind = "destroy" => e.id # d.id
  BY <1>3 DEF RequestTaken, OInv, DestroyIsOpen, SameRequest
<1>6. PICK w \in Workers : object[w] = "asked" /\ wid[w] = d.id /\ "destroy" \notin Halt(w)
  BY <1>3 DEF OInv, DestroyIsOpen
<1>7. /\ wid[w] # 0 /\ Used(d.id) /\ d.src = None /\ w \notin halting /\ w \notin Keepers
      /\ \A v \in Workers : wid[v] = d.id => v = w
  <2>1. wid[w] # 0 /\ w \notin halting
    BY <1>6 DEF OInv, AskedIsCarried
  <2>2. w \notin Keepers
    BY <1>6 DEF OInv, KeepersStay
  <2>3. d.src = None
    BY <1>3 DEF OInv, DestroyIsOpen
  <2> QED
    BY <1>1, <1>6, <2>1, <2>2, <2>3, WorkerFacts
<1>8. /\ \A v \in Workers : Halt(v)' = IF v = w THEN Halt(v) \cup {"destroy"} ELSE Halt(v)
      /\ \A v \in Workers : Cmds(v)' = Cmds(v)
      /\ \A j : Used(j)' = Used(j)
  <2>1. {"destroy"} \in SUBSET {"destroy", "halt"} /\ {} \in SUBSET Workers
    OBVIOUS
  <2>2. \A v \in Workers : Halt(v)' = IF wid[v] = d.id THEN Halt(v) \cup {"destroy"} ELSE Halt(v)
    BY <1>1, <1>2, <1>7, <2>1, CheckHaltEffect
  <2>3. \A v \in Workers : Cmds(v)' = IF wid[v] = d.id THEN Cmds(v) \cup {} ELSE Cmds(v)
    BY <1>1, <1>2, <1>7, <2>1, CheckHaltEffect
  <2>4. \A j : Used(j)' = Used(j)
    BY <1>1, <1>2, <1>7, <2>1, CheckHaltEffect
  <2> QED
    BY <1>6, <1>7, <2>2, <2>3, <2>4
<1>9. AskingIsOpen'
  <2>1. ASSUME NEW v \in Workers, asking[v] # NoAsk
        PROVE  /\ object[v] = "asked" /\ asking[v] = wid[v] /\ "destroy" \notin Halt(v)'
               /\ \A e \in ToSet(High') : e.kind = "destroy" => e.id # wid[v]
    <3>1. /\ object[v] = "asked" /\ asking[v] = wid[v] /\ "destroy" \notin Halt(v)
          /\ \A e \in ToSet(High) : e.kind = "destroy" => e.id # wid[v]
      BY <2>1 DEF OInv, AskingIsOpen
    <3>2. v # w
      BY <1>3, <1>6, <3>1
    <3> QED
      BY <1>4, <1>8, <3>1, <3>2
  <2> QED
    BY <1>2, <2>1 DEF AskingIsOpen
<1>10. DestroyIsOpen'
  <2>1. ASSUME NEW e \in ToSet(High'), e.kind = "destroy"
        PROVE  e.src = None /\ \E v \in Workers : object[v] = "asked" /\ wid[v] = e.id /\ "destroy" \notin Halt(v)'
    <3>1. e \in ToSet(High) /\ e.id # d.id
      BY <1>4, <1>5, <2>1
    <3>2. e.src = None
      BY <2>1, <3>1 DEF OInv, DestroyIsOpen
    <3>3. PICK v \in Workers : object[v] = "asked" /\ wid[v] = e.id /\ "destroy" \notin Halt(v)
      BY <2>1, <3>1 DEF OInv, DestroyIsOpen
    <3>4. v # w
      BY <1>6, <3>1, <3>3
    <3> QED
      BY <1>8, <3>2, <3>3, <3>4
  <2> QED
    BY <1>2, <1>4, <2>1 DEF DestroyIsOpen
<1>11. AskedIsCarried'
  <2>1. ASSUME NEW v \in Workers, object[v] = "asked"
        PROVE  /\ wid[v] # 0 /\ v \notin halting /\ "halt" \notin Halt(v)'
               /\ \/ asking[v] # NoAsk
                  \/ Event("destroy", wid[v], None) \in ToSet(High')
                  \/ "destroy" \in Halt(v)'
    <3>1. /\ wid[v] # 0 /\ v \notin halting /\ "halt" \notin Halt(v)
          /\ \/ asking[v] # NoAsk
             \/ Event("destroy", wid[v], None) \in ToSet(High)
             \/ "destroy" \in Halt(v)
      BY <2>1 DEF OInv, AskedIsCarried
    <3>2. CASE v = w
      BY <1>8, <3>1, <3>2
    <3>3. CASE v # w
      <4>1. Event("destroy", wid[v], None) # d
        BY <1>7, <3>3 DEF Event
      <4> QED
        BY <1>4, <1>8, <3>1, <3>3, <4>1
    <3> QED
      BY <3>2, <3>3
  <2>2. ASSUME NEW v \in Workers, "destroy" \in Halt(v)' PROVE object[v] = "asked"
    BY <1>6, <1>8, <2>2 DEF OInv, AskedIsCarried
  <2> QED
    BY <1>2, <2>1, <2>2 DEF AskedIsCarried
<1>12. HaltFinds'
  <2>1. ASSUME NEW e \in ToSet(High'), e.kind = "halt"
        PROVE  /\ e.src \in halting /\ e.src \notin Cmds(e.src)'
               /\ \/ e.id # 0 /\ wid[e.src] = e.id /\ (Halt(e.src)' # {} => NoAddBefore(High', e))
                  \/ ~Used(e.id)' /\ NoAddBefore(High', e)
    <3>1. /\ e.src \in halting /\ e.src \notin Cmds(e.src)
          /\ \/ e.id # 0 /\ wid[e.src] = e.id /\ (Halt(e.src) # {} => NoAddBefore(High, e))
             \/ ~Used(e.id) /\ NoAddBefore(High, e)
      BY <1>4, <2>1 DEF OInv, HaltFinds
    <3>2. e.src \in Workers /\ e.src # w
      BY <1>1, <1>7, <3>1 DEF IInv, TypeOK
    <3>3. Halt(e.src)' = Halt(e.src) /\ Cmds(e.src)' = Cmds(e.src) /\ Used(e.id)' = Used(e.id)
      BY <1>8, <3>2
    <3> QED
      BY <1>4, <3>1, <3>3
  <2>2. \A v \in Workers : Cmds(v)' \subseteq {v} /\ Cmds(v)' \subseteq halting
    BY <1>8 DEF OInv, HaltFinds
  <2> QED
    BY <1>2, <1>4, <2>1, <2>2 DEF HaltFinds
<1>13. KeepersStay'
  BY <1>2, <1>7, <1>8, WorkersAssumption DEF OInv, KeepersStay
<1> QED
  BY <1>1, <1>9, <1>10, <1>11, <1>12, <1>13 DEF OInv

(* "HaltWorker" finds the worker of its caller, or an empty slot.          *)
LEMMA HaltRequestOInv ==
  ASSUME OInv, NEW q \in Prios, HaltRequest(q)
  PROVE  OInv'
<1> DEFINE d == Head(queue[q])
<1>1. IInv /\ IInv'
  BY HaltRequestIInv DEF OInv
<1>2. /\ Next1(q, "halt") /\ queue' = Popped(q) /\ "halt" \in Requests
      /\ UNCHANGED <<wid, asking, object>>
      /\ \/ /\ Used(d.id) /\ CheckWorkerCanBeHalted(d.id, {"halt"}, {d.src}, stack)
            /\ UNCHANGED halting
         \/ ~Used(d.id) /\ halting' = halting \ {d.src} /\ UNCHANGED slots
  BY DEF HaltRequest, Requests
<1>3. /\ q = "high" /\ d.kind = "halt" /\ d \in ToSet(High)
      /\ RequestTaken(High, d, High')
  BY <1>1, <1>2, RequestPopped
<1>4. PICK w \in Workers : w = d.src
  BY <1>1, <1>2, NextEventFacts DEF EventRight
<1> HIDE DEF d
<1>5. /\ \A e : e \in ToSet(High) <=> e \in ToSet(High') \/ e = d
      /\ Once(High', "destroy") /\ Once(High', "halt")
      /\ \A e : NoAddBefore(High, e) => NoAddBefore(High', e)
  BY <1>3 DEF RequestTaken, Requests, OInv, DestroyIsOpen, HaltFinds
<1>6. \A e \in ToSet(High') : e.kind = "halt" => e.src # w
  BY <1>3, <1>4 DEF RequestTaken, OInv, HaltFinds, SameRequest
<1>7. /\ w \in halting /\ w \in Workers /\ w \notin Cmds(w)
      /\ \/ d.id # 0 /\ wid[w] = d.id
         \/ ~Used(d.id)
  <2>1. /\ w \in halting /\ w \notin Cmds(w)
        /\ \/ d.id # 0 /\ wid[w] = d.id
           \/ ~Used(d.id)
    BY <1>3, <1>4 DEF OInv, HaltFinds
  <2> QED
    BY <2>1
<1>8. object[w] # "asked" /\ w \notin Keepers
  BY <1>7 DEF OInv, AskedIsCarried, KeepersStay
<1>9. /\ \A v \in Workers \ {w} : Halt(v)' = Halt(v) /\ Cmds(v)' = Cmds(v)
      /\ Halt(w) \subseteq Halt(w)' /\ Halt(w)' \subseteq Halt(w) \cup {"halt"}
      /\ \/ Cmds(w)' \subseteq {w} /\ w \in halting'
         \/ Cmds(w)' = Cmds(w)
      /\ \A j : Used(j)' = Used(j)
  <2>1. CASE Used(d.id)
    <3>1. wid[w] = d.id /\ \A v \in Workers : wid[v] = d.id => v = w
      BY <1>1, <1>7, <2>1, WorkerFacts
    <3>2. {"halt"} \in SUBSET {"destroy", "halt"} /\ {w} \in SUBSET Workers
      BY <1>7
    <3>3. \A v \in Workers : Halt(v)' = IF wid[v] = d.id THEN Halt(v) \cup {"halt"} ELSE Halt(v)
      BY <1>1, <1>2, <1>4, <2>1, <3>2, CheckHaltEffect
    <3>4. \A v \in Workers : Cmds(v)' = IF wid[v] = d.id THEN Cmds(v) \cup {w} ELSE Cmds(v)
      BY <1>1, <1>2, <1>4, <2>1, <3>2, CheckHaltEffect
    <3>5. \A j : Used(j)' = Used(j)
      BY <1>1, <1>2, <1>4, <2>1, <3>2, CheckHaltEffect
    <3>6. Cmds(w) \subseteq {w} /\ halting' = halting
      BY <1>2, <1>7, <2>1 DEF OInv, HaltFinds
    <3>7. Halt(w)' = Halt(w) \cup {"halt"} /\ Cmds(w)' = Cmds(w) \cup {w}
      BY <1>7, <3>1, <3>3, <3>4
    <3>8. \A v \in Workers \ {w} : Halt(v)' = Halt(v) /\ Cmds(v)' = Cmds(v)
      BY <3>1, <3>3, <3>4
    <3> QED
      BY <1>7, <3>5, <3>6, <3>7, <3>8
  <2>2. CASE ~Used(d.id)
    <3>1. UNCHANGED <<slots, wid>>
      BY <1>2, <2>2
    <3>2. (\A v \in Workers : Halt(v)' = Halt(v) /\ Cmds(v)' = Cmds(v))
          /\ \A j : Used(j)' = Used(j)
      BY <3>1, SameSlots
    <3>3. Halt(w)' = Halt(w) /\ Cmds(w)' = Cmds(w)
      BY <1>7, <3>2
    <3> QED
      BY <3>2, <3>3
  <2> QED
    BY <2>1, <2>2
<1>10. halting \ {w} \subseteq halting' /\ halting' \subseteq halting
  BY <1>2, <1>4
<1>11. \A v \in Workers : "destroy" \in Halt(v)' <=> "destroy" \in Halt(v)
  BY <1>9
<1>12. AskingIsOpen'
  BY <1>2, <1>5, <1>11 DEF OInv, AskingIsOpen
<1>13. DestroyIsOpen'
  BY <1>2, <1>5, <1>11 DEF OInv, DestroyIsOpen
<1>14. AskedIsCarried'
  <2>1. ASSUME NEW v \in Workers, object[v] = "asked"
        PROVE  /\ wid[v] # 0 /\ v \notin halting' /\ "halt" \notin Halt(v)'
               /\ \/ asking[v] # NoAsk
                  \/ Event("destroy", wid[v], None) \in ToSet(High')
                  \/ "destroy" \in Halt(v)'
    <3>1. /\ wid[v] # 0 /\ v \notin halting /\ "halt" \notin Halt(v)
          /\ \/ asking[v] # NoAsk
             \/ Event("destroy", wid[v], None) \in ToSet(High)
             \/ "destroy" \in Halt(v)
      BY <2>1 DEF OInv, AskedIsCarried
    <3>2. v # w
      BY <1>8, <2>1
    <3>3. Event("destroy", wid[v], None) # d
      BY <1>3 DEF Event
    <3> QED
      BY <1>5, <1>9, <1>10, <3>1, <3>2, <3>3
  <2>2. ASSUME NEW v \in Workers, "destroy" \in Halt(v)' PROVE object[v] = "asked"
    BY <1>11, <2>2 DEF OInv, AskedIsCarried
  <2> QED
    BY <1>2, <2>1, <2>2 DEF AskedIsCarried
<1>15. HaltFinds'
  <2>1. ASSUME NEW e \in ToSet(High'), e.kind = "halt"
        PROVE  /\ e.src \in halting' /\ e.src \notin Cmds(e.src)'
               /\ \/ e.id # 0 /\ wid[e.src] = e.id /\ (Halt(e.src)' # {} => NoAddBefore(High', e))
                  \/ ~Used(e.id)' /\ NoAddBefore(High', e)
    <3>1. /\ e.src \in halting /\ e.src \notin Cmds(e.src)
          /\ \/ e.id # 0 /\ wid[e.src] = e.id /\ (Halt(e.src) # {} => NoAddBefore(High, e))
             \/ ~Used(e.id) /\ NoAddBefore(High, e)
      BY <1>5, <2>1 DEF OInv, HaltFinds
    <3>2. e.src \in Workers \ {w}
      BY <1>1, <1>6, <2>1, <3>1 DEF IInv, TypeOK
    <3>3. Halt(e.src)' = Halt(e.src) /\ Cmds(e.src)' = Cmds(e.src) /\ Used(e.id)' = Used(e.id)
      BY <1>9, <3>2
    <3> QED
      BY <1>5, <1>10, <3>1, <3>2, <3>3
  <2>2. ASSUME NEW v \in Workers PROVE Cmds(v)' \subseteq {v} /\ Cmds(v)' \subseteq halting'
    <3>1. Cmds(v) \subseteq {v} /\ Cmds(v) \subseteq halting
      BY DEF OInv, HaltFinds
    <3>2. CASE v = w
      <4>1. Cmds(w) = {}
        BY <1>7, <3>1, <3>2
      <4> QED
        BY <1>9, <3>2, <4>1
    <3>3. CASE v # w
      BY <1>9, <1>10, <3>1, <3>3
    <3> QED
      BY <3>2, <3>3
  <2> QED
    BY <1>2, <1>5, <2>1, <2>2 DEF HaltFinds
<1>16. KeepersStay'
  BY <1>2, <1>8, <1>9, <1>10, WorkersAssumption DEF OInv, KeepersStay
<1> QED
  BY <1>1, <1>12, <1>13, <1>14, <1>15, <1>16 DEF OInv

(* DestroyByOwnThread of a worker in good order.                           *)
LEMMA AskDestroyOInv ==
  ASSUME OInv, ~Unordered, NEW w \in Workers, AskDestroy(w)
  PROVE  OInv'
<1>1. IInv /\ IInv'
  BY AskDestroyIInv DEF OInv
<1>2. /\ UNCHANGED <<slots, wid, queue, halting>> /\ High' = High
      /\ object[w] = "normal" /\ w \notin Keepers
      /\ \/ /\ ~hasThread[w] /\ object' = [object EXCEPT ![w] = "destroyed"]
            /\ UNCHANGED asking
         \/ /\ hasThread[w] /\ InOrder(w) /\ object' = [object EXCEPT ![w] = "asked"]
            /\ asking' = [asking EXCEPT ![w] = wid[w]]
  BY DEF AskDestroy, workers, thread, High
<1>3. /\ object \in [Workers -> {"normal", "asked", "destroyed"}]
      /\ asking \in [Workers -> Nat]
  BY <1>1 DEF IInv, TypeOK
<1>4. /\ \A v \in Workers : Halt(v)' = Halt(v) /\ Cmds(v)' = Cmds(v)
      /\ \A id : Used(id)' = Used(id)
  BY <1>2, SameSlots
<1>5. \A v \in Workers : object[v] = "asked" => object'[v] = "asked"
  BY <1>2, <1>3
<1>6. ASSUME InOrder(w) PROVE wid[w] # 0 /\ w \notin halting /\ Halt(w) = {}
  BY <1>6 DEF InOrder, Leaver, Halt
<1>7. AskingIsOpen'
  <2>1. ASSUME NEW v \in Workers, asking'[v] # NoAsk
        PROVE  /\ object'[v] = "asked" /\ asking'[v] = wid[v] /\ "destroy" \notin Halt(v)
               /\ \A e \in ToSet(High) : e.kind = "destroy" => e.id # wid[v]
    <3>1. CASE asking'[v] = asking[v] /\ (v = w => ~hasThread[w])
      BY <1>5, <2>1, <3>1 DEF OInv, AskingIsOpen
    <3>2. CASE v = w /\ InOrder(w) /\ hasThread[w] /\ asking'[w] = wid[w]
      <4>1. ASSUME NEW e \in ToSet(High), e.kind = "destroy" PROVE e.id # wid[w]
        <5>1. PICK x \in Workers : object[x] = "asked" /\ wid[x] = e.id
          BY <4>1 DEF OInv, DestroyIsOpen
        <5>2. x # w
          BY <1>2, <5>1
        <5> QED
          BY <1>1, <1>6, <3>2, <5>1, <5>2, WorkerFacts
      <4>2. object'[w] = "asked"
        BY <1>2, <1>3, <3>2
      <4> QED
        BY <1>6, <3>2, <4>1, <4>2
    <3> QED
      BY <1>2, <1>3, <3>1, <3>2
  <2> QED
    BY <1>2, <1>4, <2>1 DEF AskingIsOpen
<1>8. DestroyIsOpen'
  <2>1. ASSUME NEW e \in ToSet(High), e.kind = "destroy"
        PROVE  e.src = None /\ \E v \in Workers : object'[v] = "asked" /\ wid[v] = e.id /\ "destroy" \notin Halt(v)
    BY <1>5, <2>1 DEF OInv, DestroyIsOpen
  <2> QED
    BY <1>2, <1>4, <2>1 DEF OInv, DestroyIsOpen
<1>9. AskedIsCarried'
  <2>1. ASSUME NEW v \in Workers, object'[v] = "asked"
        PROVE  /\ wid[v] # 0 /\ v \notin halting /\ "halt" \notin Halt(v)
               /\ \/ asking'[v] # NoAsk
                  \/ Event("destroy", wid[v], None) \in ToSet(High)
                  \/ "destroy" \in Halt(v)
    <3>1. CASE v = w
      <4>1. InOrder(w) /\ asking'[w] = wid[w]
        BY <1>2, <1>3, <2>1, <3>1
      <4>2. wid[w] # NoAsk
        BY <1>1, <1>6, <4>1, WorkerFacts, SlotFacts DEF IInv, TypeOK
      <4> QED
        BY <1>6, <3>1, <4>1, <4>2
    <3>2. CASE v # w
      BY <1>2, <1>3, <2>1, <3>2 DEF OInv, AskedIsCarried
    <3> QED
      BY <3>1, <3>2
  <2>2. ASSUME NEW v \in Workers, "destroy" \in Halt(v) PROVE object'[v] = "asked"
    BY <1>5, <2>2 DEF OInv, AskedIsCarried
  <2> QED
    BY <1>2, <1>4, <2>1, <2>2 DEF AskedIsCarried
<1>10. HaltFinds'
  <2>1. ASSUME NEW e \in ToSet(High), e.kind = "halt"
        PROVE  /\ e.src \in halting /\ e.src \notin Cmds(e.src)'
               /\ \/ e.id # 0 /\ wid[e.src] = e.id /\ (Halt(e.src)' # {} => NoAddBefore(High, e))
                  \/ ~Used(e.id)' /\ NoAddBefore(High, e)
    <3>1. /\ e.src \in halting /\ e.src \notin Cmds(e.src)
          /\ \/ e.id # 0 /\ wid[e.src] = e.id /\ (Halt(e.src) # {} => NoAddBefore(High, e))
             \/ ~Used(e.id) /\ NoAddBefore(High, e)
      BY <2>1 DEF OInv, HaltFinds
    <3>2. e.src \in Workers
      BY <1>1, <3>1 DEF IInv, TypeOK
    <3>3. Halt(e.src)' = Halt(e.src) /\ Cmds(e.src)' = Cmds(e.src) /\ Used(e.id)' = Used(e.id)
      BY <1>4, <3>2
    <3> QED
      BY <3>1, <3>3
  <2> QED
    BY <1>2, <1>4, <2>1 DEF OInv, HaltFinds
<1>11. KeepersStay'
  <2>1. \A v \in Keepers : v \in Workers /\ v # w
    BY <1>2, WorkersAssumption
  <2> QED
    BY <1>2, <1>3, <1>4, <2>1 DEF OInv, KeepersStay
<1> QED
  BY <1>1, <1>7, <1>8, <1>9, <1>10, <1>11 DEF OInv

LEMMA InvokeWorkerDestroyOInv ==
  ASSUME OInv, NEW w \in Workers, InvokeWorkerDestroy(w)
  PROVE  OInv'
<1> DEFINE d == Event("destroy", asking[w], None)
<1>1. IInv /\ IInv'
  BY InvokeWorkerDestroyIInv DEF OInv
<1>2. /\ UNCHANGED <<slots, wid, object, halting>> /\ asking[w] # NoAsk
      /\ Fire("high", d) /\ asking' = [asking EXCEPT ![w] = NoAsk]
  BY DEF InvokeWorkerDestroy, workers, thread
<1>3. /\ asking \in [Workers -> Nat] /\ object[w] = "asked" /\ asking[w] = wid[w]
      /\ "destroy" \notin Halt(w) /\ wid[w] # 0
      /\ \A e \in ToSet(High) : e.kind = "destroy" => e.id # wid[w]
  <2>1. object[w] = "asked" /\ asking[w] = wid[w] /\ "destroy" \notin Halt(w)
        /\ \A e \in ToSet(High) : e.kind = "destroy" => e.id # wid[w]
    BY <1>2 DEF OInv, AskingIsOpen
  <2>2. wid[w] # 0
    BY <2>1 DEF OInv, AskedIsCarried
  <2> QED
    BY <1>1, <2>1, <2>2 DEF IInv, TypeOK
<1>4. /\ d \in Events /\ d.kind = "destroy" /\ d.id = wid[w] /\ d.src = None
      /\ d = Event("destroy", wid[w], None) /\ "destroy" \in Requests
  BY <1>3 DEF Event, Events, Kinds, Requests
<1> HIDE DEF d
<1>5. RequestAdded(High, d, High')
  <2>1. \A e \in ToSet(High) : ~SameRequest(e, d)
    BY <1>3, <1>4 DEF SameRequest
  <2> QED
    BY <1>1, <1>2, <1>4, <2>1, RequestFired
<1>6. /\ \A e : e \in ToSet(High') <=> e \in ToSet(High) \/ e = d
      /\ Once(High', "destroy") /\ Once(High', "halt")
      /\ \A e \in ToSet(High) : NoAddBefore(High, e) => NoAddBefore(High', e)
  BY <1>5 DEF RequestAdded, Requests, OInv, DestroyIsOpen, HaltFinds
<1>7. /\ \A v \in Workers : Halt(v)' = Halt(v) /\ Cmds(v)' = Cmds(v)
      /\ \A id : Used(id)' = Used(id)
  BY <1>2, SameSlots
<1>8. AskingIsOpen'
  <2>1. ASSUME NEW v \in Workers, asking'[v] # NoAsk
        PROVE  /\ object[v] = "asked" /\ asking'[v] = wid[v] /\ "destroy" \notin Halt(v)
               /\ \A e \in ToSet(High') : e.kind = "destroy" => e.id # wid[v]
    <3>1. v # w /\ asking'[v] = asking[v]
      BY <1>2, <1>3, <2>1
    <3>2. /\ object[v] = "asked" /\ asking[v] = wid[v] /\ "destroy" \notin Halt(v)
          /\ \A e \in ToSet(High) : e.kind = "destroy" => e.id # wid[v]
      BY <2>1, <3>1 DEF OInv, AskingIsOpen
    <3>3. d.id # wid[v]
      BY <1>1, <1>3, <1>4, <3>1, WorkerFacts
    <3> QED
      BY <1>6, <3>1, <3>2, <3>3
  <2> QED
    BY <1>2, <1>7, <2>1 DEF AskingIsOpen
<1>9. DestroyIsOpen'
  <2>1. ASSUME NEW e \in ToSet(High'), e.kind = "destroy"
        PROVE  e.src = None /\ \E v \in Workers : object[v] = "asked" /\ wid[v] = e.id /\ "destroy" \notin Halt(v)
    <3>1. CASE e = d
      BY <1>3, <1>4, <3>1
    <3>2. CASE e \in ToSet(High)
      BY <2>1, <3>2 DEF OInv, DestroyIsOpen
    <3> QED
      BY <1>6, <3>1, <3>2
  <2> QED
    BY <1>2, <1>6, <1>7, <2>1 DEF DestroyIsOpen
<1>10. AskedIsCarried'
  <2>1. ASSUME NEW v \in Workers, object[v] = "asked"
        PROVE  /\ wid[v] # 0 /\ v \notin halting /\ "halt" \notin Halt(v)
               /\ \/ asking'[v] # NoAsk
                  \/ Event("destroy", wid[v], None) \in ToSet(High')
                  \/ "destroy" \in Halt(v)
    <3>1. /\ wid[v] # 0 /\ v \notin halting /\ "halt" \notin Halt(v)
          /\ \/ asking[v] # NoAsk
             \/ Event("destroy", wid[v], None) \in ToSet(High)
             \/ "destroy" \in Halt(v)
      BY <2>1 DEF OInv, AskedIsCarried
    <3> QED
      BY <1>2, <1>3, <1>4, <1>6, <3>1
  <2>2. \A v \in Workers : "destroy" \in Halt(v) => object[v] = "asked"
    BY DEF OInv, AskedIsCarried
  <2> QED
    BY <1>2, <1>7, <2>1, <2>2 DEF AskedIsCarried
<1>11. HaltFinds'
  <2>1. ASSUME NEW e \in ToSet(High'), e.kind = "halt"
        PROVE  /\ e.src \in halting /\ e.src \notin Cmds(e.src)'
               /\ \/ e.id # 0 /\ wid[e.src] = e.id /\ (Halt(e.src)' # {} => NoAddBefore(High', e))
                  \/ ~Used(e.id)' /\ NoAddBefore(High', e)
    <3>1. e \in ToSet(High)
      BY <1>4, <1>6, <2>1
    <3>2. /\ e.src \in halting /\ e.src \notin Cmds(e.src)
          /\ \/ e.id # 0 /\ wid[e.src] = e.id /\ (Halt(e.src) # {} => NoAddBefore(High, e))
             \/ ~Used(e.id) /\ NoAddBefore(High, e)
      BY <2>1, <3>1 DEF OInv, HaltFinds
    <3>3. e.src \in Workers
      BY <1>1, <3>2 DEF IInv, TypeOK
    <3>4. Halt(e.src)' = Halt(e.src) /\ Cmds(e.src)' = Cmds(e.src) /\ Used(e.id)' = Used(e.id)
      BY <1>7, <3>3
    <3> QED
      BY <1>6, <3>1, <3>2, <3>4
  <2>2. \A v \in Workers : Cmds(v)' \subseteq {v} /\ Cmds(v)' \subseteq halting
    BY <1>7 DEF OInv, HaltFinds
  <2> QED
    BY <1>2, <1>6, <2>1, <2>2 DEF HaltFinds
<1>12. KeepersStay'
  BY <1>2, <1>7, WorkersAssumption DEF OInv, KeepersStay
<1> QED
  BY <1>1, <1>8, <1>9, <1>10, <1>11, <1>12 DEF OInv

(* DettachFromThread of a worker in good order.                            *)
LEMMA HaltWorkerOInv ==
  ASSUME OInv, ~Unordered, NEW w \in Workers, HaltWorker(w)
  PROVE  OInv'
<1> DEFINE d == Event("halt", wid[w], w)
<1>1. IInv /\ IInv'
  BY HaltWorkerIInv DEF OInv
<1>2. /\ UNCHANGED <<slots, wid, object, asking>> /\ w \notin Keepers /\ w \notin halting
      /\ InOrder(w) /\ Fire("high", d) /\ halting' = halting \cup {w}
  BY DEF HaltWorker, workers, thread
<1>3. wid[w] # 0 /\ object[w] = "normal" /\ Halt(w) = {} /\ wid[w] \in Nat
  <2>1. wid[w] # 0 /\ object[w] = "normal" /\ Halt(w) = {}
    BY <1>2 DEF InOrder, Leaver, Halt
  <2> QED
    BY <1>1, <2>1, WorkerFacts
<1>4. /\ d \in Events /\ d.kind = "halt" /\ d.id = wid[w] /\ d.src = w /\ "halt" \in Requests
  BY <1>3 DEF Event, Events, Kinds, Requests
<1> HIDE DEF d
<1>5. RequestAdded(High, d, High')
  <2>1. \A e \in ToSet(High) : ~SameRequest(e, d)
    BY <1>2, <1>4 DEF SameRequest, OInv, HaltFinds
  <2> QED
    BY <1>1, <1>2, <1>4, <2>1, RequestFired
<1>6. /\ \A e : e \in ToSet(High') <=> e \in ToSet(High) \/ e = d
      /\ Once(High', "destroy") /\ Once(High', "halt")
      /\ \A e \in ToSet(High) : NoAddBefore(High, e) => NoAddBefore(High', e)
  BY <1>5 DEF RequestAdded, Requests, OInv, DestroyIsOpen, HaltFinds
<1>7. /\ \A v \in Workers : Halt(v)' = Halt(v) /\ Cmds(v)' = Cmds(v)
      /\ \A id : Used(id)' = Used(id)
  BY <1>2, SameSlots
<1>8. AskingIsOpen'
  BY <1>2, <1>4, <1>6, <1>7 DEF OInv, AskingIsOpen
<1>9. DestroyIsOpen'
  BY <1>2, <1>4, <1>6, <1>7 DEF OInv, DestroyIsOpen
<1>10. AskedIsCarried'
  <2>1. ASSUME NEW v \in Workers, object[v] = "asked"
        PROVE  /\ wid[v] # 0 /\ v \notin halting' /\ "halt" \notin Halt(v)
               /\ \/ asking[v] # NoAsk
                  \/ Event("destroy", wid[v], None) \in ToSet(High')
                  \/ "destroy" \in Halt(v)
    <3>1. /\ wid[v] # 0 /\ v \notin halting /\ "halt" \notin Halt(v)
          /\ \/ asking[v] # NoAsk
             \/ Event("destroy", wid[v], None) \in ToSet(High)
             \/ "destroy" \in Halt(v)
      BY <2>1 DEF OInv, AskedIsCarried
    <3>2. v # w
      BY <1>3, <2>1
    <3> QED
      BY <1>2, <1>6, <3>1, <3>2
  <2>2. \A v \in Workers : "destroy" \in Halt(v) => object[v] = "asked"
    BY DEF OInv, AskedIsCarried
  <2> QED
    BY <1>2, <1>7, <2>1, <2>2 DEF AskedIsCarried
<1>11. HaltFinds'
  <2>1. ASSUME NEW e \in ToSet(High'), e.kind = "halt"
        PROVE  /\ e.src \in halting' /\ e.src \notin Cmds(e.src)'
               /\ \/ e.id # 0 /\ wid[e.src] = e.id /\ (Halt(e.src)' # {} => NoAddBefore(High', e))
                  \/ ~Used(e.id)' /\ NoAddBefore(High', e)
    <3>1. CASE e \in ToSet(High)
      <4>1. /\ e.src \in halting /\ e.src \notin Cmds(e.src)
            /\ \/ e.id # 0 /\ wid[e.src] = e.id /\ (Halt(e.src) # {} => NoAddBefore(High, e))
               \/ ~Used(e.id) /\ NoAddBefore(High, e)
        BY <2>1, <3>1 DEF OInv, HaltFinds
      <4>2. e.src \in Workers
        BY <1>1, <4>1 DEF IInv, TypeOK
      <4>3. Halt(e.src)' = Halt(e.src) /\ Cmds(e.src)' = Cmds(e.src) /\ Used(e.id)' = Used(e.id)
        BY <1>7, <4>2
      <4> QED
        BY <1>2, <1>6, <3>1, <4>1, <4>3
    <3>2. CASE e = d
      <4>1. Halt(e.src)' = {} /\ Cmds(e.src)' = Cmds(w)
        BY <1>3, <1>4, <1>7, <3>2
      <4>2. w \notin Cmds(w)
        BY <1>2 DEF OInv, HaltFinds
      <4> QED
        BY <1>2, <1>3, <1>4, <3>2, <4>1, <4>2
    <3> QED
      BY <1>6, <3>1, <3>2
  <2>2. \A v \in Workers : Cmds(v)' \subseteq {v} /\ Cmds(v)' \subseteq halting'
    BY <1>2, <1>7 DEF OInv, HaltFinds
  <2> QED
    BY <1>2, <1>6, <2>1, <2>2 DEF HaltFinds
<1>12. KeepersStay'
  BY <1>2, <1>7, WorkersAssumption DEF OInv, KeepersStay
<1> QED
  BY <1>1, <1>8, <1>9, <1>10, <1>11, <1>12 DEF OInv

LEMMA RemoveWorkerOInv ==
  ASSUME OInv, RemoveWorker
  PROVE  OInv'
<1>1. IInv /\ IInv'
  BY RemoveWorkerIInv DEF OInv
<1>2. /\ leaving # 0 /\ leaving \in Ids /\ Used(leaving) /\ Slot(leaving).halt # {}
      /\ slots \in Seq(Slots)
  BY <1>1 DEF RemoveWorker, IInv, LeavingIsQuiet, Used, TypeOK
<1>3. PICK id : id = leaving
  OBVIOUS
<1>4. PICK w \in Workers : w = Slot(id).work /\ wid[w] = id
  BY <1>1, <1>2, <1>3, SlotWorker
<1>5. /\ wid[w] # 0 /\ id # 0 /\ Halt(w) = Slot(id).halt /\ Cmds(w) = Slot(id).cmds
      /\ \A v \in Workers : wid[v] = id => v = w
  BY <1>1, <1>2, <1>3, <1>4, WorkerFacts DEF Halt, Cmds
<1>6. /\ wid \in [Workers -> Nat] /\ object \in [Workers -> {"normal", "asked", "destroyed"}]
      /\ slots' = WithSlot(id, Empty(None)) /\ wid' = [wid EXCEPT ![w] = 0]
      /\ object' = IF "destroy" \in Halt(w) THEN [object EXCEPT ![w] = "destroyed"] ELSE object
      /\ halting' = halting \ Cmds(w) /\ UNCHANGED asking
  BY <1>1, <1>3, <1>4, <1>5 DEF RemoveWorker, Answered, IInv, TypeOK
<1>7. High' = High
  BY <1>1, HighFacts DEF RemoveWorker, Fire, High, Queues, Prios
<1>8. Empty(None) \in Slots /\ Empty(None).work = None
  BY WorkersAssumption DEF Empty, Slots
<1>9. Ids' = Ids
  BY <1>2, <1>3, <1>6, <1>8, SlotReplaced
<1>10. \A j \in Ids : Slot(j)' = IF j = id THEN Empty(None) ELSE Slot(j)
  BY <1>2, <1>3, <1>6, <1>8, SlotReplaced
<1>11. Halt(w)' = {} /\ Cmds(w)' = {} /\ wid'[w] = 0
  BY <1>6 DEF Halt, Cmds
<1>12. ASSUME NEW v \in Workers, v # w
       PROVE  Halt(v)' = Halt(v) /\ Cmds(v)' = Cmds(v) /\ wid'[v] = wid[v]
  <2>1. wid'[v] = wid[v] /\ wid[v] # id
    BY <1>5, <1>6, <1>12
  <2>2. CASE wid[v] = 0
    BY <2>1, <2>2 DEF Halt, Cmds
  <2>3. CASE wid[v] # 0
    <3>1. wid[v] \in Ids
      BY <1>1, <2>3, WorkerFacts
    <3>2. Slot(wid[v])' = Slot(wid[v])
      BY <1>10, <2>1, <3>1 DEF Slot
    <3> QED
      BY <2>1, <3>2 DEF Halt, Cmds
  <2> QED
    BY <2>2, <2>3
<1>13. ~Used(id)' /\ \A j : ~Used(j) => ~Used(j)'
  BY <1>8, <1>9, <1>10 DEF Used
<1>14. object[w] = "asked" => "destroy" \in Halt(w) /\ asking[w] = NoAsk
  <2>1. Slot(id) \in Slots /\ Halt(w) # {}
    BY <1>2, <1>3, <1>5, SlotFacts
  <2>2. "halt" \in Halt(w) \/ "destroy" \in Halt(w)
    BY <1>5, <2>1 DEF Slots
  <2>3. asking[w] # NoAsk => "destroy" \notin Halt(w) /\ object[w] = "asked"
    BY DEF OInv, AskingIsOpen
  <2>4. object[w] = "asked" => "halt" \notin Halt(w)
    BY DEF OInv, AskedIsCarried
  <2> QED
    BY <2>2, <2>3, <2>4
<1>15. object'[w] # "asked" /\ asking[w] = NoAsk
       /\ \A v \in Workers \ {w} : object'[v] = object[v]
  <2>1. asking[w] # NoAsk => object[w] = "asked"
    BY DEF OInv, AskingIsOpen
  <2> QED
    BY <1>6, <1>14, <2>1
<1>16. AskingIsOpen'
  <2>1. ASSUME NEW v \in Workers, asking[v] # NoAsk
        PROVE  /\ object'[v] = "asked" /\ asking[v] = wid'[v] /\ "destroy" \notin Halt(v)'
               /\ \A e \in ToSet(High) : e.kind = "destroy" => e.id # wid'[v]
    <3>1. v # w
      BY <1>15, <2>1
    <3>2. Halt(v)' = Halt(v) /\ wid'[v] = wid[v] /\ object'[v] = object[v]
      BY <1>12, <1>15, <3>1
    <3> QED
      BY <2>1, <3>2 DEF OInv, AskingIsOpen
  <2> QED
    BY <1>6, <1>7, <2>1 DEF AskingIsOpen
<1>17. DestroyIsOpen'
  <2>1. ASSUME NEW e \in ToSet(High), e.kind = "destroy"
        PROVE  e.src = None /\ \E v \in Workers : object'[v] = "asked" /\ wid'[v] = e.id /\ "destroy" \notin Halt(v)'
    <3>1. e.src = None
      BY <2>1 DEF OInv, DestroyIsOpen
    <3>2. PICK v \in Workers : object[v] = "asked" /\ wid[v] = e.id /\ "destroy" \notin Halt(v)
      BY <2>1 DEF OInv, DestroyIsOpen
    <3>3. v # w
      BY <1>14, <3>2
    <3>4. Halt(v)' = Halt(v) /\ wid'[v] = wid[v] /\ object'[v] = object[v]
      BY <1>12, <1>15, <3>3
    <3> QED
      BY <3>1, <3>2, <3>4
  <2> QED
    BY <1>7, <2>1 DEF OInv, DestroyIsOpen
<1>18. AskedIsCarried'
  <2>1. ASSUME NEW v \in Workers, object'[v] = "asked"
        PROVE  /\ wid'[v] # 0 /\ v \notin halting' /\ "halt" \notin Halt(v)'
               /\ \/ asking[v] # NoAsk
                  \/ Event("destroy", wid'[v], None) \in ToSet(High)
                  \/ "destroy" \in Halt(v)'
    <3>1. v # w
      BY <1>15, <2>1
    <3>2. Halt(v)' = Halt(v) /\ wid'[v] = wid[v] /\ object[v] = "asked"
      BY <1>12, <1>15, <2>1, <3>1
    <3> QED
      BY <1>6, <3>2 DEF OInv, AskedIsCarried
  <2>2. ASSUME NEW v \in Workers, "destroy" \in Halt(v)' PROVE object'[v] = "asked"
    <3>1. v # w
      BY <1>11, <2>2
    <3>2. Halt(v)' = Halt(v) /\ object'[v] = object[v]
      BY <1>12, <1>15, <3>1
    <3> QED
      BY <2>2, <3>2 DEF OInv, AskedIsCarried
  <2> QED
    BY <1>6, <1>7, <2>1, <2>2 DEF AskedIsCarried
<1>19. HaltFinds'
  <2>1. ASSUME NEW e \in ToSet(High), e.kind = "halt"
        PROVE  /\ e.src \in halting' /\ e.src \notin Cmds(e.src)'
               /\ \/ e.id # 0 /\ wid'[e.src] = e.id /\ (Halt(e.src)' # {} => NoAddBefore(High, e))
                  \/ ~Used(e.id)' /\ NoAddBefore(High, e)
    <3>1. /\ e.src \in halting /\ e.src \notin Cmds(e.src)
          /\ \/ e.id # 0 /\ wid[e.src] = e.id /\ (Halt(e.src) # {} => NoAddBefore(High, e))
             \/ ~Used(e.id) /\ NoAddBefore(High, e)
      BY <2>1 DEF OInv, HaltFinds
    <3>2. e.src \in Workers
      BY <1>1, <3>1 DEF IInv, TypeOK
    <3>3. e.src \in halting'
      <4>1. Cmds(w) \subseteq {w}
        BY DEF OInv, HaltFinds
      <4> QED
        BY <1>6, <3>1, <4>1
    <3>4. CASE e.src = w
      <4>1. NoAddBefore(High, e) /\ ~Used(e.id)'
        <5>1. Halt(w) # {}
          BY <1>2, <1>3, <1>5
        <5>2. CASE wid[w] = e.id
          <6>1. e.id = id
            BY <1>4, <5>2
          <6> QED
            BY <1>13, <3>1, <3>4, <5>1, <6>1
        <5>3. CASE ~Used(e.id)
          BY <1>4, <1>13, <3>1, <3>4, <5>1, <5>3
        <5> QED
          BY <3>1, <3>4, <5>2, <5>3
      <4>2. Cmds(e.src)' = {}
        BY <1>11, <3>4
      <4> QED
        BY <3>3, <4>1, <4>2
    <3>5. CASE e.src # w
      <4>1. Halt(e.src)' = Halt(e.src) /\ Cmds(e.src)' = Cmds(e.src) /\ wid'[e.src] = wid[e.src]
        BY <1>12, <3>2, <3>5
      <4>2. ~Used(e.id) => ~Used(e.id)'
        BY <1>13
      <4> QED
        BY <3>1, <3>3, <4>1, <4>2
    <3> QED
      BY <3>4, <3>5
  <2>2. ASSUME NEW v \in Workers PROVE Cmds(v)' \subseteq {v} /\ Cmds(v)' \subseteq halting'
    <3>1. CASE v = w
      BY <1>11, <3>1
    <3>2. CASE v # w
      <4>1. /\ Cmds(v)' = Cmds(v) /\ Cmds(v) \subseteq {v} /\ Cmds(v) \subseteq halting
            /\ Cmds(w) \subseteq {w}
        BY <1>12, <3>2 DEF OInv, HaltFinds
      <4> QED
        BY <1>6, <3>2, <4>1
    <3> QED
      BY <3>1, <3>2
  <2> QED
    BY <1>7, <2>1, <2>2 DEF OInv, HaltFinds
<1>20. KeepersStay'
  <2>1. w \notin Keepers
    BY <1>2, <1>3, <1>5 DEF OInv, KeepersStay
  <2>2. ASSUME NEW v \in Keepers PROVE object'[v] = "normal" /\ v \notin halting' /\ Halt(v)' = {}
    <3>1. v \in Workers \ {w}
      BY <2>1, WorkersAssumption
    <3>2. Halt(v)' = Halt(v) /\ object'[v] = object[v]
      BY <1>12, <1>15, <3>1
    <3> QED
      BY <1>6, <3>2 DEF OInv, KeepersStay
  <2> QED
    BY <2>2 DEF KeepersStay
<1> QED
  BY <1>1, <1>16, <1>17, <1>18, <1>19, <1>20 DEF OInv

LEMMA InitOInv == Init => OInv
<1> SUFFICES ASSUME Init PROVE OInv
  OBVIOUS
<1>1. High = <<>> /\ ToSet(High) = {} /\ DOMAIN High = {}
  BY DEF Init, High, Prios, ToSet
<1>2. \A w \in Workers : Halt(w) = {} /\ Cmds(w) = {} /\ object[w] = "normal" /\ asking[w] = NoAsk
  BY DEF Init, Halt, Cmds
<1>3. halting = {} /\ \A w \in Keepers : w \in Workers
  BY WorkersAssumption DEF Init
<1>4. AskingIsOpen /\ DestroyIsOpen /\ AskedIsCarried
  BY <1>1, <1>2 DEF AskingIsOpen, DestroyIsOpen, AskedIsCarried, Once
<1>5. HaltFinds /\ KeepersStay
  BY <1>1, <1>2, <1>3 DEF HaltFinds, KeepersStay, Once
<1> QED
  BY <1>4, <1>5, InitIInv DEF OInv

LEMMA NextOInv ==
  ASSUME OInv, ~Unordered, [Next]_vars
  PROVE  OInv'
<1>1. ASSUME NEW w \in Workers, Assign(w) PROVE OInv'
  BY <1>1, AssignOInv
<1>2. ASSUME NEW w \in Workers, AskDestroy(w) PROVE OInv'
  BY <1>2, AskDestroyOInv
<1>3. ASSUME NEW w \in Workers, InvokeWorkerDestroy(w) PROVE OInv'
  BY <1>3, InvokeWorkerDestroyOInv
<1>4. ASSUME NEW w \in Workers, HaltWorker(w) PROVE OInv'
  BY <1>4, HaltWorkerOInv
<1>5. ASSUME NEW w \in Workers, NEW q \in Prios, FireEvent(w, q) PROVE OInv'
  BY <1>5, FireEventOInv
<1>6. ASSUME NEW q \in Prios, ThreadEvent(q) PROVE OInv'
  BY <1>6, WorkerEventOInv, AddWorkerOInv, DestroyRequestOInv, HaltRequestOInv,
     CheckWorkersOInv, CleanupThrdOInv DEF ThreadEvent
<1>7. CASE EnterLoop \/ LeaveLoop \/ UNCHANGED vars
  BY <1>7, LoopOInv
<1>8. CASE HandlerHalts
  BY <1>8, HandlerHaltsOInv
<1>9. CASE HandlerReturns
  BY <1>9, HandlerReturnsOInv
<1>10. CASE RemoveWorker
  BY <1>10, RemoveWorkerOInv
<1> QED
  BY <1>1, <1>2, <1>3, <1>4, <1>5, <1>6, <1>7, <1>8, <1>9, <1>10 DEF Next

LEMMA InvariantInOrder ==
  ASSUME Unordered = FALSE
  PROVE  Spec => []OInv
<1>1. Init => OInv
  BY InitOInv
<1>2. OInv /\ [Next]_vars => OInv'
  BY NextOInv
<1> QED
  BY <1>1, <1>2, PTL DEF Spec

(* A destroy request finds the worker that was asked, a halt command the   *)
(* worker of its caller, whatever ids were used again in between.          *)
THEOREM RequestsTheorem ==
  ASSUME Unordered = FALSE
  PROVE  Spec => []RequestsFindTheirWorker
<1>1. OInv => RequestsFindTheirWorker
  <2> SUFFICES ASSUME OInv PROVE RequestsFindTheirWorker
    OBVIOUS
  <2>1. IInv
    BY DEF OInv
  <2>2. \A q \in Prios : \A e \in ToSet(queue[q]) : e.kind = "worker" => wid[e.src] = e.id
    BY <2>1 DEF IInv, EventsRight, EventsRightIn, EventRight
  <2>3. ASSUME NEW id \in Ids, Slot(id).work = None PROVE Slot(id).halt = {} /\ Slot(id).cmds = {}
    BY <2>1, <2>3 DEF IInv, FreeIsEmpty
  <2>4. ASSUME NEW id \in Ids, Slot(id).work # None
        PROVE  /\ "destroy" \in Slot(id).halt => object[Slot(id).work] = "asked"
               /\ Slot(id).cmds \subseteq {Slot(id).work}
    <3>1. PICK w \in Workers : w = Slot(id).work /\ wid[w] = id
      BY <2>1, <2>4, SlotWorker DEF Used
    <3>2. Halt(w) = Slot(id).halt /\ Cmds(w) = Slot(id).cmds
      BY <2>1, <3>1, SlotFacts DEF Halt, Cmds, IInv, TypeOK
    <3> QED
      BY <3>1, <3>2 DEF OInv, AskedIsCarried, HaltFinds
  <2> QED
    BY <2>2, <2>3, <2>4 DEF RequestsFindTheirWorker
<1>2. Spec => []OInv
  BY InvariantInOrder
<1> QED
  BY <1>1, <1>2, PTL

(* What ThreadWorkersEarly refutes when a worker is destroyed while it     *)
(* joins holds in good order: "DestroyCalledFromOwnThread() ... will be    *)
(* called" has a request in the queue or in the slot that carries it.      *)
THEOREM PromiseTheorem ==
  ASSUME Unordered = FALSE
  PROVE  Spec => []PromiseHasCarrier
<1>1. OInv => PromiseHasCarrier
  <2> SUFFICES ASSUME OInv, NEW w \in Workers, object[w] = "asked", asking[w] = NoAsk
               PROVE  \/ wid[w] # 0 /\ \E q \in Prios : Event("destroy", wid[w], None) \in ToSet(queue[q])
                      \/ wid[w] # 0 /\ "destroy" \in Slot(wid[w]).halt
    BY DEF PromiseHasCarrier
  <2>1. wid[w] # 0 /\ \/ Event("destroy", wid[w], None) \in ToSet(High)
                      \/ "destroy" \in Halt(w)
    BY DEF OInv, AskedIsCarried
  <2> QED
    BY <2>1 DEF High, Halt, Prios
<1>2. Spec => []OInv
  BY InvariantInOrder
<1> QED
  BY <1>1, <1>2, PTL

-----------------------------------------------------------------------------
(* A thread that may be empty gets no new workers (LateAssign = FALSE).    *)

(* Somebody has begun to leave, or the slots wait to be looked at.         *)
AnyGoing ==
  \/ \E w \in Workers : object[w] = "asked" \/ w \in halting \/ Halt(w) # {}
  \/ \E e \in ToSet(Low) : e.kind = "check"
GoneInOrder == AnyGoing => KeeperIn \/ AllJoined

MayEnd == destroying \/ \E e \in ToSet(Low) : e.kind = "cleanup"
IsEmpty == slots = <<>> /\ \A w \in Workers : ~hasThread[w]
EndsWhenEmpty == MayEnd => IsEmpty

SInv == OInv /\ GoneInOrder /\ EndsWhenEmpty

(* Steps that leave the workers in the thread where they are.              *)
LEMMA QuietSInv ==
  ASSUME SInv, OInv', UNCHANGED <<wid, hasThread>>,
         AnyGoing' => AnyGoing \/ KeeperIn \/ AllJoined,
         MayEnd' => MayEnd,
         slots = <<>> => slots' = <<>>
  PROVE  SInv'
<1>1. GoneInOrder'
  BY DEF SInv, GoneInOrder, KeeperIn, AllJoined
<1>2. EndsWhenEmpty'
  BY DEF SInv, EndsWhenEmpty, IsEmpty
<1> QED
  BY <1>1, <1>2 DEF SInv

LEMMA NoIdWithoutSlots ==
  ASSUME slots = <<>>
  PROVE  \A id : ~Used(id)
BY DEF Used, Ids

(* The queue of the lowest priority after an event is taken, or one fired. *)
LEMMA LowPopped ==
  ASSUME IInv, NEW q \in Prios, queue[q] # <<>>
  PROVE  /\ Popped(q)["low"] \in Seq(Events)
         /\ \A e : e \in ToSet(Popped(q)["low"]) => e \in ToSet(Low)
         /\ q = "low" => Head(queue[q]) \in ToSet(Low)
<1>1. queue \in Queues /\ Popped(q) = WithoutHead(queue, q)
  BY DEF IInv, TypeOK, Popped, WithoutHead
<1>2. Popped(q) \in Queues
  BY <1>1, QueueTail
<1>3. /\ \A p \in Prios \ {q} : Popped(q)[p] = queue[p]
      /\ \A f : f \in ToSet(queue[q]) <=> f \in ToSet(Popped(q)[q]) \/ f = Head(queue[q])
  BY <1>1, QueueTail
<1>4. Popped(q)["low"] \in Seq(Events)
  BY <1>2 DEF Queues, Prios
<1>5. CASE q = "low"
  BY <1>3, <1>4, <1>5 DEF Low
<1>6. CASE q = "high"
  BY <1>3, <1>4, <1>6 DEF Low, Prios
<1> QED
  BY <1>5, <1>6 DEF Prios

LEMMA LowFired ==
  ASSUME IInv, NEW q \in Prios, NEW f \in Events, Fire(q, f)
  PROVE  /\ q = "high" => Low' = Low
         /\ \A e : e \in ToSet(Low') => e \in ToSet(Low) \/ e = f
<1>1. queue \in Queues /\ queue' = WithEvent(queue, q, f)
  BY DEF IInv, TypeOK, Fire, WithEvent
<1>2. /\ \A p \in Prios \ {q} : queue'[p] = queue[p]
      /\ \A e : e \in ToSet(queue'[q]) <=> e \in ToSet(queue[q]) \/ e = f
  <2>1. \A p \in Prios \ {q} : queue'[p] = queue[p]
    BY <1>1, QueueAppend
  <2>2. \A e : e \in ToSet(queue'[q]) <=> e \in ToSet(queue[q]) \/ e = f
    BY <1>1, QueueAppend
  <2> QED
    BY <2>1, <2>2
<1>3. CASE q = "high"
  BY <1>2, <1>3 DEF Low, Prios
<1>4. CASE q = "low"
  BY <1>2, <1>4 DEF Low, Prios
<1> QED
  BY <1>3, <1>4 DEF Prios

LEMMA AskDestroySInv ==
  ASSUME SInv, ~Unordered, NEW w \in Workers, AskDestroy(w)
  PROVE  SInv'
<1>1. OInv /\ OInv' /\ object \in [Workers -> {"normal", "asked", "destroyed"}]
  BY AskDestroyOInv DEF SInv, OInv, IInv, TypeOK
<1>2. UNCHANGED <<slots, wid, hasThread, halting, queue, destroying>> /\ Low' = Low
  BY DEF AskDestroy, workers, thread, Low
<1>3. \A v \in Workers : Halt(v)' = Halt(v)
  BY <1>2, SameSlots
<1>4. AnyGoing' => AnyGoing \/ KeeperIn \/ AllJoined
  <2>1. CASE hasThread[w]
    BY <2>1 DEF AskDestroy, InOrder
  <2>2. CASE ~hasThread[w]
    <3>1. \A v \in Workers : object'[v] = "asked" => object[v] = "asked"
      BY <1>1, <2>2 DEF AskDestroy
    <3> QED
      BY <1>2, <1>3, <3>1 DEF AnyGoing
  <2> QED
    BY <2>1, <2>2
<1>5. MayEnd' => MayEnd
  BY <1>2 DEF MayEnd
<1> QED
  BY <1>1, <1>2, <1>4, <1>5, QuietSInv

LEMMA InvokeWorkerDestroySInv ==
  ASSUME SInv, NEW w \in Workers, InvokeWorkerDestroy(w)
  PROVE  SInv'
<1>1. OInv /\ OInv' /\ IInv
  BY InvokeWorkerDestroyOInv DEF SInv, OInv
<1>2. UNCHANGED <<slots, wid, hasThread, halting, object, destroying>>
  BY DEF InvokeWorkerDestroy, workers, thread
<1>3. Low' = Low
  BY <1>1, HighFacts DEF InvokeWorkerDestroy, Fire, Low, Queues, Prios
<1>4. \A v \in Workers : Halt(v)' = Halt(v)
  BY <1>2, SameSlots
<1>5. (AnyGoing' => AnyGoing) /\ (MayEnd' => MayEnd)
  BY <1>2, <1>3, <1>4 DEF AnyGoing, MayEnd
<1> QED
  BY <1>1, <1>2, <1>5, QuietSInv

LEMMA HaltWorkerSInv ==
  ASSUME SInv, ~Unordered, NEW w \in Workers, HaltWorker(w)
  PROVE  SInv'
<1>1. OInv /\ OInv' /\ IInv
  BY HaltWorkerOInv DEF SInv, OInv
<1>2. UNCHANGED <<slots, wid, hasThread, destroying>> /\ (KeeperIn \/ AllJoined)
  BY DEF HaltWorker, workers, thread, InOrder
<1>3. Low' = Low
  BY <1>1, HighFacts DEF HaltWorker, Fire, Low, Queues, Prios
<1>4. MayEnd' => MayEnd
  BY <1>2, <1>3 DEF MayEnd
<1> QED
  BY <1>1, <1>2, <1>4, QuietSInv

LEMMA FireEventSInv ==
  ASSUME SInv, NEW w \in Workers, NEW q \in Prios, FireEvent(w, q)
  PROVE  SInv'
<1>1. OInv /\ OInv' /\ IInv
  BY FireEventOInv DEF SInv, OInv
<1>2. UNCHANGED <<slots, wid, hasThread, object, halting, destroying>>
  BY DEF FireEvent, thread, callers
<1>3. \A e : e \in ToSet(Low') /\ e.kind # "worker" => e \in ToSet(Low)
  <2> DEFINE f == Event("worker", wid[w], w)
  <2>1. f \in Events /\ f.kind = "worker" /\ Fire(q, f)
    BY <1>1, WorkerFacts DEF FireEvent, Event, Events, Kinds
  <2> HIDE DEF f
  <2> QED
    BY <1>1, <2>1, LowFired
<1>4. \A v \in Workers : Halt(v)' = Halt(v)
  BY <1>2, SameSlots
<1>5. (AnyGoing' => AnyGoing) /\ (MayEnd' => MayEnd)
  BY <1>2, <1>3, <1>4 DEF AnyGoing, MayEnd
<1> QED
  BY <1>1, <1>2, <1>5, QuietSInv

LEMMA WorkerEventSInv ==
  ASSUME SInv, NEW q \in Prios, WorkerEvent(q)
  PROVE  SInv'
<1>1. OInv /\ OInv' /\ IInv
  BY WorkerEventOInv DEF SInv, OInv
<1>2. UNCHANGED <<wid, hasThread, object, halting, destroying>>
      /\ queue[q] # <<>> /\ queue' = Popped(q)
  BY DEF WorkerEvent, workers, callers, Next1
<1>3. \A e : e \in ToSet(Low') => e \in ToSet(Low)
  <2>1. \A e : e \in ToSet(Popped(q)["low"]) => e \in ToSet(Low)
    BY <1>1, <1>2, LowPopped
  <2> QED
    BY <1>2, <2>1 DEF Low
<1>4. (\A v \in Workers : Halt(v)' = Halt(v)) /\ (slots = <<>> => slots' = <<>>)
  BY <1>1, WorkerEventEffect
<1>5. (AnyGoing' => AnyGoing) /\ (MayEnd' => MayEnd)
  BY <1>2, <1>3, <1>4 DEF AnyGoing, MayEnd
<1> QED
  BY <1>1, <1>2, <1>4, <1>5, QuietSInv

LEMMA LoopSInv ==
  ASSUME SInv, EnterLoop \/ LeaveLoop \/ UNCHANGED vars
  PROVE  SInv'
<1>1. OInv /\ OInv'
  BY LoopOInv DEF SInv
<1>2. UNCHANGED <<slots, wid, hasThread, object, halting, destroying, queue>>
  BY DEF EnterLoop, LeaveLoop, vars, workers, thread, callers
<1>3. \A v \in Workers : Halt(v)' = Halt(v)
  BY <1>2, SameSlots
<1>4. (AnyGoing' => AnyGoing) /\ (MayEnd' => MayEnd)
  BY <1>2, <1>3 DEF AnyGoing, MayEnd, Low
<1> QED
  BY <1>1, <1>2, <1>4, QuietSInv

LEMMA HandlerHaltsSInv ==
  ASSUME SInv, ~Unordered, HandlerHalts
  PROVE  SInv'
<1>1. OInv /\ OInv' /\ IInv
  BY HandlerHaltsOInv DEF SInv, OInv
<1>2. UNCHANGED <<wid, hasThread, destroying, queue>> /\ AllJoined /\ stack # <<>>
  BY DEF HandlerHalts
<1>3. slots # <<>>
  BY <1>1, <1>2, StackFacts, StackChanges, NoIdWithoutSlots
<1>4. MayEnd' => MayEnd
  BY <1>2 DEF MayEnd, Low
<1> QED
  BY <1>1, <1>2, <1>3, <1>4, QuietSInv

LEMMA HandlerReturnsSInv ==
  ASSUME SInv, HandlerReturns
  PROVE  SInv'
<1> DEFINE id == Last(stack).id
<1>1. OInv /\ OInv' /\ IInv
  BY HandlerReturnsOInv DEF SInv, OInv
<1>2. UNCHANGED <<wid, hasThread, object, halting, destroying, queue>> /\ stack # <<>>
      /\ \/ UNCHANGED slots
         \/ CheckWorkerCanBeHalted(id, {}, {}, stack')
  BY DEF HandlerReturns, callers
<1>3. slots # <<>> /\ Used(id)
  BY <1>1, <1>2, StackFacts, StackChanges, NoIdWithoutSlots
<1> HIDE DEF id
<1>4. \A v \in Workers : Halt(v)' = Halt(v)
  <2>1. CASE UNCHANGED slots
    BY <1>2, <2>1, SameSlots
  <2>2. CASE CheckWorkerCanBeHalted(id, {}, {}, stack')
    <3>1. {} \in SUBSET {"destroy", "halt"} /\ {} \in SUBSET Workers
      OBVIOUS
    <3>2. \A v \in Workers : Halt(v)' = IF wid[v] = id THEN Halt(v) \cup {} ELSE Halt(v)
      BY <1>1, <1>2, <1>3, <2>2, <3>1, CheckHaltEffect
    <3> QED
      BY <3>2
  <2> QED
    BY <1>2, <2>1, <2>2
<1>5. (AnyGoing' => AnyGoing) /\ (MayEnd' => MayEnd)
  BY <1>2, <1>4 DEF AnyGoing, MayEnd, Low
<1> QED
  BY <1>1, <1>2, <1>3, <1>5, QuietSInv

LEMMA DestroyRequestSInv ==
  ASSUME SInv, NEW q \in Prios, DestroyRequest(q)
  PROVE  SInv'
<1> DEFINE d == Head(queue[q])
<1>1. OInv /\ OInv' /\ IInv
  BY DestroyRequestOInv DEF SInv, OInv
<1>2. /\ UNCHANGED <<wid, hasThread, object, halting, destroying>>
      /\ Next1(q, "destroy") /\ queue[q] # <<>> /\ queue' = Popped(q)
      /\ "destroy" \in Requests
      /\ ~Used(d.id) => UNCHANGED slots
  BY DEF DestroyRequest, callers, Next1, Requests
<1>3. d.kind = "destroy" /\ d \in ToSet(High)
  BY <1>1, <1>2, RequestPopped
<1> HIDE DEF d
<1>4. PICK w \in Workers : object[w] = "asked"
  BY <1>1, <1>3 DEF OInv, DestroyIsOpen
<1>5. AnyGoing
  BY <1>4 DEF AnyGoing
<1>6. MayEnd' => MayEnd
  <2>1. \A e : e \in ToSet(Popped(q)["low"]) => e \in ToSet(Low)
    BY <1>1, <1>2, LowPopped
  <2> QED
    BY <1>2, <2>1 DEF MayEnd, Low
<1>7. slots = <<>> => slots' = <<>>
  BY <1>2, NoIdWithoutSlots
<1> QED
  BY <1>1, <1>2, <1>5, <1>6, <1>7, QuietSInv

LEMMA HaltRequestSInv ==
  ASSUME SInv, NEW q \in Prios, HaltRequest(q)
  PROVE  SInv'
<1> DEFINE d == Head(queue[q])
<1>1. OInv /\ OInv' /\ IInv
  BY HaltRequestOInv DEF SInv, OInv
<1>2. /\ UNCHANGED <<wid, hasThread, destroying>>
      /\ Next1(q, "halt") /\ queue[q] # <<>> /\ queue' = Popped(q)
      /\ "halt" \in Requests
      /\ ~Used(d.id) => UNCHANGED slots
  BY DEF HaltRequest, Next1, Requests
<1>3. d.kind = "halt" /\ d \in ToSet(High)
  BY <1>1, <1>2, RequestPopped
<1> HIDE DEF d
<1>4. d.src \in halting /\ d.src \in Workers
  <2>1. d.src \in halting
    BY <1>1, <1>3 DEF OInv, HaltFinds
  <2> QED
    BY <1>1, <2>1 DEF IInv, TypeOK
<1>5. AnyGoing
  BY <1>4 DEF AnyGoing
<1>6. MayEnd' => MayEnd
  <2>1. \A e : e \in ToSet(Popped(q)["low"]) => e \in ToSet(Low)
    BY <1>1, <1>2, LowPopped
  <2> QED
    BY <1>2, <2>1 DEF MayEnd, Low
<1>7. slots = <<>> => slots' = <<>>
  BY <1>2, NoIdWithoutSlots
<1> QED
  BY <1>1, <1>2, <1>5, <1>6, <1>7, QuietSInv

LEMMA PutBackMembers ==
  ASSUME NEW Q \in Queues, NEW f \in Events, NEW R, R = PutBack(Q, f)
  PROVE  \A e : e \in ToSet(R["low"]) => e \in ToSet(Q["low"]) \/ e = f
<1>1. PICK q \in Prios : q = "low"
  BY DEF Prios
<1>2. R = WithEvent(Q, q, f)
  BY <1>1 DEF PutBack
<1>3. \A e : e \in ToSet(R[q]) <=> e \in ToSet(Q[q]) \/ e = f
  BY <1>2, QueueAppend
<1> QED
  BY <1>1, <1>3

LEMMA CleanupThrdSInv ==
  ASSUME SInv, NEW q \in Prios, CleanupThrd(q)
  PROVE  SInv'
<1>1. OInv /\ OInv' /\ IInv
  BY CleanupThrdOInv DEF SInv, OInv
<1>2. /\ UNCHANGED <<slots, wid, hasThread, object, halting>>
      /\ Next1(q, "cleanup") /\ queue[q] # <<>> /\ Head(queue[q]).kind = "cleanup"
      /\ \/ queue' = Popped(q)
         \/ queue' = PutBack(Popped(q), Event("cleanup", Head(queue[q]).id + 1, None))
  BY DEF CleanupThrd, workers, callers, Next1, PutBack, WithEvent
<1>3. EventRight(Head(queue[q]), q, wid, hasThread)
  BY <1>1, <1>2, NextEventFacts
<1>4. q = "low"
  BY <1>2, <1>3 DEF EventRight, HighKinds, Prios
<1>5. MayEnd
  <2>1. Head(queue[q]) \in ToSet(Low)
    BY <1>1, <1>2, <1>4, LowPopped
  <2> QED
    BY <1>2, <2>1 DEF MayEnd
<1>6. \A e : e \in ToSet(Low') /\ e.kind = "check" => e \in ToSet(Low)
  <2>1. /\ Popped(q)["low"] \in Seq(Events)
        /\ \A e : e \in ToSet(Popped(q)["low"]) => e \in ToSet(Low)
    BY <1>1, <1>2, LowPopped
  <2>2. CASE queue' = Popped(q)
    BY <2>1, <2>2 DEF Low
  <2>3. CASE queue' = PutBack(Popped(q), Event("cleanup", Head(queue[q]).id + 1, None))
    <3> DEFINE f == Event("cleanup", Head(queue[q]).id + 1, None)
    <3>1. Head(queue[q]).id \in Nat /\ Popped(q) \in Queues
      BY <1>1, <1>2, NextEventFacts DEF Events
    <3>2. f \in Events /\ f.kind = "cleanup"
      BY <3>1 DEF Event, Events, Kinds
    <3> HIDE DEF f
    <3>3. queue' = PutBack(Popped(q), f)
      BY <2>3 DEF f
    <3>4. \A e : e \in ToSet(queue'["low"]) => e \in ToSet(Popped(q)["low"]) \/ e = f
      BY <3>1, <3>2, <3>3, PutBackMembers
    <3> QED
      BY <2>1, <3>2, <3>4 DEF Low
  <2> QED
    BY <1>2, <2>2, <2>3
<1>7. \A v \in Workers : Halt(v)' = Halt(v)
  BY <1>2, SameSlots
<1>8. AnyGoing' => AnyGoing
  BY <1>2, <1>6, <1>7 DEF AnyGoing
<1> QED
  BY <1>1, <1>2, <1>5, <1>8, QuietSInv

(* A worker is assigned to the thread.                                     *)
LEMMA AssignSInv ==
  ASSUME SInv, ~LateAssign, NEW w \in Workers, Assign(w)
  PROVE  SInv'
<1> DEFINE f == Event("add", 0, w)
<1>1. OInv /\ OInv' /\ IInv
  BY AssignOInv DEF SInv, OInv
<1>2. /\ wid[w] = 0 /\ wid \in [Workers -> Nat] /\ hasThread \in [Workers -> BOOLEAN]
  BY <1>1, WorkerFacts DEF Assign, IInv, TypeOK
<1>3. /\ UNCHANGED <<slots, wid, object, halting, destroying>> /\ ~destroying /\ ThreadSafe
      /\ hasThread' = [hasThread EXCEPT ![w] = TRUE]
  BY <1>2 DEF Assign, thread, callers
<1>4. Low' = Low
  BY <1>1, HighFacts DEF Assign, Fire, Low, Queues, Prios
<1>5. \A v \in Workers : Halt(v)' = Halt(v)
  BY <1>3, SameSlots
<1>6. CASE KeeperIn
  <2>1. KeeperIn'
    BY <1>3, <1>6 DEF KeeperIn
  <2>2. slots # <<>>
    BY <1>1, <1>6, WorkerFacts, WorkersAssumption, NoIdWithoutSlots DEF KeeperIn
  <2>3. ~MayEnd'
    BY <1>3, <1>4, <2>2 DEF SInv, EndsWhenEmpty, IsEmpty, MayEnd
  <2> QED
    BY <1>1, <2>1, <2>3 DEF SInv, GoneInOrder, EndsWhenEmpty
<1>7. CASE ~KeeperIn
  <2>1. /\ \A v \in Workers : ~Leaver(v)
        /\ \A e \in ToSet(Low) : e.kind \notin {"check", "cleanup"}
    BY <1>3, <1>7 DEF ThreadSafe, Prios, Low
  <2>2. ~AnyGoing
    BY <2>1 DEF AnyGoing, Leaver, Halt
  <2>3. ~AnyGoing' /\ ~MayEnd'
    BY <1>3, <1>4, <1>5, <2>1, <2>2 DEF AnyGoing, MayEnd
  <2> QED
    BY <1>1, <2>3 DEF SInv, GoneInOrder, EndsWhenEmpty
<1> QED
  BY <1>6, <1>7

LEMMA AddWorkerSInv ==
  ASSUME SInv, NEW q \in Prios, AddWorker(q)
  PROVE  SInv'
<1>1. OInv /\ OInv' /\ IInv
  BY AddWorkerOInv DEF SInv, OInv
<1>2. /\ Next1(q, "add") /\ queue[q] # <<>> /\ queue' = Popped(q)
      /\ wid' = [wid EXCEPT ![Head(queue[q]).src] = NewId]
      /\ UNCHANGED <<hasThread, object, halting, destroying>>
  BY DEF AddWorker, callers, Next1
<1>3. PICK w \in Workers : w = Head(queue[q]).src /\ hasThread[w] /\ wid[w] = 0
  BY <1>1, <1>2, NextEventFacts DEF EventRight
<1>4. wid \in [Workers -> Nat] /\ NewId # 0
  BY <1>1, SlotFacts DEF IInv, TypeOK
<1>5. \A e : e \in ToSet(Low') => e \in ToSet(Low)
  <2>1. \A e : e \in ToSet(Popped(q)["low"]) => e \in ToSet(Low)
    BY <1>1, <1>2, LowPopped
  <2> QED
    BY <1>2, <2>1 DEF Low
<1>6. \A v \in Workers : wid[v] # 0 => wid'[v] # 0
  BY <1>2, <1>3, <1>4
<1>7. GoneInOrder'
  <2>1. CASE KeeperIn
    BY <1>6, <2>1, WorkersAssumption DEF KeeperIn, GoneInOrder
  <2>2. CASE ~KeeperIn
    <3>1. ~AnyGoing
      BY <1>3, <2>2 DEF SInv, GoneInOrder, AllJoined
    <3>2. \A v \in Workers : Halt(v)' = {}
      BY <1>1, <1>2, <1>3, <3>1, AddWorkerEffect DEF AnyGoing
    <3>3. ~AnyGoing'
      BY <1>2, <1>5, <3>1, <3>2 DEF AnyGoing
    <3> QED
      BY <3>3 DEF GoneInOrder
  <2> QED
    BY <2>1, <2>2
<1>8. ~MayEnd'
  <2>1. ~MayEnd
    BY <1>3 DEF SInv, EndsWhenEmpty, IsEmpty
  <2> QED
    BY <1>2, <1>5, <2>1 DEF MayEnd
<1> QED
  BY <1>1, <1>7, <1>8 DEF SInv, EndsWhenEmpty

(* The worker leaves its slot: the thread will look at its slots again.    *)
LEMMA RemoveWorkerSInv ==
  ASSUME SInv, RemoveWorker
  PROVE  SInv'
<1> DEFINE f == Event("check", 0, None)
<1>1. OInv /\ OInv' /\ IInv
  BY RemoveWorkerOInv DEF SInv, OInv
<1>2. /\ leaving # 0 /\ leaving \in Ids /\ Used(leaving) /\ Slot(leaving).halt # {}
      /\ slots \in Seq(Slots)
  BY <1>1 DEF RemoveWorker, IInv, LeavingIsQuiet, Used, TypeOK
<1>3. PICK id : id = leaving
  OBVIOUS
<1>4. PICK w \in Workers : w = Slot(id).work /\ wid[w] = id
  BY <1>1, <1>2, <1>3, SlotWorker
<1>5. Halt(w) # {} /\ hasThread[w]
  BY <1>1, <1>2, <1>3, <1>4, WorkerFacts DEF Halt
<1>6. /\ wid' = [wid EXCEPT ![w] = 0] /\ hasThread' = [hasThread EXCEPT ![w] = FALSE]
      /\ destroying' = destroying /\ Fire("low", f)
  BY <1>3, <1>4 DEF RemoveWorker
<1>7. w \notin Keepers /\ (KeeperIn \/ AllJoined)
  <2>1. AnyGoing
    BY <1>5 DEF AnyGoing
  <2>2. w \notin Keepers
    BY <1>1, <1>5 DEF OInv, KeepersStay
  <2> QED
    BY <2>1, <2>2 DEF SInv, GoneInOrder
<1>8. wid \in [Workers -> Nat] /\ hasThread \in [Workers -> BOOLEAN] /\ Keepers \subseteq Workers
  BY <1>1, WorkersAssumption DEF IInv, TypeOK
<1>9. GoneInOrder'
  <2>1. CASE KeeperIn
    BY <1>6, <1>7, <1>8, <2>1 DEF KeeperIn, GoneInOrder
  <2>2. CASE AllJoined
    BY <1>6, <1>8, <2>2 DEF AllJoined, GoneInOrder
  <2> QED
    BY <1>7, <2>1, <2>2
<1>10. ~MayEnd'
  <2>1. ~MayEnd
    BY <1>4, <1>5 DEF SInv, EndsWhenEmpty, IsEmpty
  <2>2. f \in Events /\ f.kind = "check"
    BY DEF Event, Events, Kinds
  <2> HIDE DEF f
  <2>3. PICK q \in Prios : q = "low"
    BY DEF Prios
  <2>4. \A e : e \in ToSet(Low') => e \in ToSet(Low) \/ e = f
    BY <1>1, <1>6, <2>2, <2>3, LowFired
  <2> QED
    BY <1>6, <2>1, <2>2, <2>4 DEF MayEnd
<1> QED
  BY <1>1, <1>9, <1>10 DEF SInv, EndsWhenEmpty

LEMMA EmptyStaysEmpty ==
  ASSUME slots \in Seq(Slots), slots = <<>>, slots' = slots \/ slots' = Shrunk
  PROVE  slots' = <<>>
<1>1. CASE slots' = Shrunk
  <2>1. slots' \in Seq(Slots) /\ Ids' \subseteq Ids
    BY <1>1, ShrunkIds
  <2>2. Ids = {} /\ Ids' = {}
    BY <2>1 DEF Ids
  <2>3. DOMAIN slots' = {}
    BY <2>2 DEF Ids
  <2> QED
    BY <2>1, <2>3
<1> QED
  BY <1>1

(* The thread looks at its slots: it gives itself up when none is left.    *)
LEMMA CheckWorkersSInv ==
  ASSUME SInv, NEW q \in Prios, CheckWorkers(q)
  PROVE  SInv'
<1> DEFINE f == Event("cleanup", 0, None)
<1>1. OInv /\ OInv' /\ IInv
  BY CheckWorkersOInv DEF SInv, OInv
<1>2. /\ UNCHANGED <<wid, hasThread, destroying>> /\ (slots' = slots \/ slots' = Shrunk)
      /\ Next1(q, "check") /\ queue[q] # <<>> /\ Head(queue[q]).kind = "check"
      /\ \/ queue' = Popped(q)
         \/ SendsCleanup(slots') /\ queue' = PutBack(Popped(q), f)
  BY DEF CheckWorkers, workers, callers, Next1, PutBack, WithEvent
<1>3. q = "low"
  <2>1. EventRight(Head(queue[q]), q, wid, hasThread)
    BY <1>1, <1>2, NextEventFacts
  <2> QED
    BY <1>2, <2>1 DEF EventRight, HighKinds, Prios
<1>4. /\ \A e : e \in ToSet(Popped(q)["low"]) => e \in ToSet(Low)
      /\ Head(queue[q]) \in ToSet(Low)
  BY <1>1, <1>2, <1>3, LowPopped
<1>5. KeeperIn \/ AllJoined
  BY <1>2, <1>4 DEF SInv, GoneInOrder, AnyGoing
<1>6. GoneInOrder'
  BY <1>2, <1>5 DEF GoneInOrder, KeeperIn, AllJoined
<1>7. CASE queue' = Popped(q)
  <2>1. MayEnd' => MayEnd
    BY <1>2, <1>4, <1>7 DEF MayEnd, Low
  <2>2. slots = <<>> => slots' = <<>>
    BY <1>1, <1>2, EmptyStaysEmpty DEF IInv, TypeOK
  <2> QED
    BY <1>1, <1>2, <1>6, <2>1, <2>2 DEF SInv, EndsWhenEmpty, IsEmpty
<1>8. CASE SendsCleanup(slots') /\ queue' = PutBack(Popped(q), f)
  <2>1. slots' = Shrunk /\ slots \in Seq(Slots)
    BY <1>1, <1>2, <1>8 DEF SendsCleanup, IInv, TypeOK
  <2>2. slots' = <<>> /\ Ids' = {}
    <3>1. slots' \in Seq(Slots) /\ Len(slots') + 2 = 2
      BY <1>8, <2>1, ShrunkIds DEF SendsCleanup, SizeOf, FirstId
    <3>2. slots' = <<>>
      BY <3>1
    <3> QED
      BY <3>2 DEF Ids
  <2>3. ASSUME NEW w \in Workers PROVE wid[w] = 0
    <3>1. \A id \in Ids : Slot(id).work = None
      BY <2>1, <2>2, ShrunkIds
    <3>2. wid[w] # 0 => wid[w] \in Ids /\ Slot(wid[w]).work = w /\ w # None
      BY <1>1, WorkerFacts
    <3> QED
      BY <3>1, <3>2
  <2>4. ~KeeperIn
    BY <2>3, WorkersAssumption DEF KeeperIn
  <2>5. \A w \in Workers : ~hasThread[w]
    BY <1>5, <2>3, <2>4 DEF AllJoined
  <2> QED
    BY <1>1, <1>2, <1>6, <2>2, <2>5 DEF SInv, EndsWhenEmpty, IsEmpty
<1> QED
  BY <1>2, <1>7, <1>8

LEMMA InitSInv == Init => SInv
<1> SUFFICES ASSUME Init PROVE SInv
  OBVIOUS
<1>1. Low = <<>> /\ ToSet(Low) = {}
  BY DEF Init, Low, Prios, ToSet
<1>2. /\ \A w \in Workers : object[w] = "normal" /\ Halt(w) = {}
      /\ halting = {} /\ ~destroying
  BY DEF Init, Halt
<1>3. ~AnyGoing /\ ~MayEnd
  BY <1>1, <1>2 DEF AnyGoing, MayEnd
<1> QED
  BY <1>3, InitOInv DEF SInv, GoneInOrder, EndsWhenEmpty

LEMMA NextSInv ==
  ASSUME SInv, ~Unordered, ~LateAssign, [Next]_vars
  PROVE  SInv'
<1>1. ASSUME NEW w \in Workers, Assign(w) PROVE SInv'
  BY <1>1, AssignSInv
<1>2. ASSUME NEW w \in Workers, AskDestroy(w) PROVE SInv'
  BY <1>2, AskDestroySInv
<1>3. ASSUME NEW w \in Workers, InvokeWorkerDestroy(w) PROVE SInv'
  BY <1>3, InvokeWorkerDestroySInv
<1>4. ASSUME NEW w \in Workers, HaltWorker(w) PROVE SInv'
  BY <1>4, HaltWorkerSInv
<1>5. ASSUME NEW w \in Workers, NEW q \in Prios, FireEvent(w, q) PROVE SInv'
  BY <1>5, FireEventSInv
<1>6. ASSUME NEW q \in Prios, ThreadEvent(q) PROVE SInv'
  BY <1>6, WorkerEventSInv, AddWorkerSInv, DestroyRequestSInv, HaltRequestSInv,
     CheckWorkersSInv, CleanupThrdSInv DEF ThreadEvent
<1>7. CASE EnterLoop \/ LeaveLoop \/ UNCHANGED vars
  BY <1>7, LoopSInv
<1>8. CASE HandlerHalts
  BY <1>8, HandlerHaltsSInv
<1>9. CASE HandlerReturns
  BY <1>9, HandlerReturnsSInv
<1>10. CASE RemoveWorker
  BY <1>10, RemoveWorkerSInv
<1> QED
  BY <1>1, <1>2, <1>3, <1>4, <1>5, <1>6, <1>7, <1>8, <1>9, <1>10 DEF Next

(* A cleanup the thread began itself finds it without workers, when no     *)
(* worker is assigned to a thread that its last ones may be leaving.       *)
THEOREM ThreadKeptTheorem ==
  ASSUME Unordered = FALSE, LateAssign = FALSE
  PROVE  Spec => []ThreadKeptWhileUsed
<1>1. Init => SInv
  BY InitSInv
<1>2. SInv /\ [Next]_vars => SInv'
  BY NextSInv
<1>3. SInv => ThreadKeptWhileUsed
  BY DEF SInv, EndsWhenEmpty, MayEnd, IsEmpty, ThreadKeptWhileUsed
<1> QED
  BY <1>1, <1>2, <1>3, PTL DEF Spec
=============================================================================
