--------------------------- MODULE ThreadWorkers ---------------------------
(***************************************************************************)
(* The workers of one thread: how a worker gets its slot and id            *)
(* (AddWorker), how the events that carry the id are counted, how the      *)
(* worker is halted or destroyed when the count is balanced                *)
(* (CheckWorkerCanBeHalted), and how the thread shrinks its slots and      *)
(* gives itself up when it has no workers left (base/src/Thread.cxx, with  *)
(* the thread part of base/src/Worker.cxx and Worker.h).                   *)
(*                                                                         *)
(* Everything below "the thread itself" runs in the thread; the other      *)
(* operations run in any thread.  The slots 0 (never used) and 1 (the      *)
(* worker that executes the thread's own commands) are always there; the   *)
(* others are `slots'.                                                     *)
(***************************************************************************)
EXTENDS Naturals, Sequences, FiniteSets, SequencesExt

CONSTANTS
  Workers, None,
  Keepers,      (* workers that stay in the thread                         *)
  Busy,         (* bound: workers that fire events                         *)
  MaxFire,      (* bound: events a busy worker fires in one thread         *)
  MaxJoins,     (* bound: how often a worker is assigned to the thread     *)
  MaxNest,      (* bound: depth of nested event loops                      *)
  RetryLimit,   (* how often evntCleanupThrd is put back (20 in the code)  *)
  LateAssign,   (* whether a thread that may be empty gets new workers     *)
  Unordered     (* whether a worker is destroyed while it joins or leaves  *)

ASSUME WorkersAssumption ==
  /\ None \notin Workers /\ Keepers \subseteq Workers /\ Busy \subseteq Workers
  /\ MaxFire \in Nat /\ MaxJoins \in Nat /\ MaxNest \in Nat \ {0} /\ RetryLimit \in Nat
  /\ LateAssign \in BOOLEAN /\ Unordered \in BOOLEAN

VARIABLES
  slots,        (* fWorkers from index 2 on                                *)
  wid,          (* fWorkerId of each worker                                *)
  active,       (* fWorkerActive                                           *)
  hasThread,    (* fThread is set                                          *)
  fired,        (* fWorkerFiredEvents                                      *)
  queue,        (* fQueues: the highest and the lowest priority            *)
  stack,        (* ids of the workers whose handlers run, with a flag that *)
                (* tells whether the handler waits in a nested loop        *)
  leaving,      (* id between the two critical sections of                 *)
                (* CheckWorkerCanBeHalted, 0 otherwise                     *)
  checkCleanup, (* fCheckThrdCleanup                                       *)
  destroying,   (* the thread gave itself to the manager's destroy queue   *)
  asking,       (* id a DestroyByOwnThread has read and not yet submitted  *)
  object,       (* "normal", "asked" or "destroyed"                        *)
  halting,      (* DettachFromThread calls that wait for their answer      *)
  joins         (* how often each worker was assigned (for the bound)      *)

workers == <<wid, active, hasThread, fired>>
thread  == <<slots, stack, leaving, checkCleanup, destroying>>
callers == <<asking, object, halting>>
vars    == <<workers, thread, queue, callers, joins>>

Prios  == {"high", "low"}
NoAsk  == 1       (* the id of the worker that nobody destroys            *)
FirstId == 2
SizeOf(s) == Len(s) + FirstId                     (* fWorkers.size()       *)
Ids    == {i + FirstId - 1 : i \in DOMAIN slots}
Slot(id) == slots[id - FirstId + 1]
WithSlot(id, r) == [slots EXCEPT ![id - FirstId + 1] = r]
Used(id) == id \in Ids /\ Slot(id).work # None

Empty(w) == [work |-> w, halt |-> {}, processed |-> 0, cmds |-> {}]

(* An event: of worker `src' with item `id', or of the thread. *)
Event(kind, id, src) == [kind |-> kind, id |-> id, src |-> src]
Fire(q, e) == queue' = [queue EXCEPT ![q] = Append(@, e)]

(* A handler of the worker is on the stack (recursion > 0). *)
Inside(id, st) == \E i \in DOMAIN st : st[i].id = id

Init ==
  /\ slots = <<>> /\ stack = <<>> /\ leaving = 0
  /\ checkCleanup = FALSE /\ destroying = FALSE
  /\ wid = [w \in Workers |-> 0] /\ fired = [w \in Workers |-> 0]
  /\ active = [w \in Workers |-> FALSE] /\ hasThread = [w \in Workers |-> FALSE]
  /\ queue = [q \in Prios |-> <<>>]
  /\ asking = [w \in Workers |-> NoAsk]
  /\ object = [w \in Workers |-> "normal"]
  /\ halting = {} /\ joins = [w \in Workers |-> 0]

-----------------------------------------------------------------------------
(* Operations of any thread.                                               *)

(* A thread lives on while it has a worker that stays, and as long as      *)
(* nobody has begun to leave it.                                           *)
KeeperIn == \E w \in Keepers : wid[w] # 0
Leaver(w) == \/ object[w] # "normal" \/ w \in halting
             \/ wid[w] # 0 /\ Slot(wid[w]).halt # {}
ThreadSafe ==
  \/ KeeperIn
  \/ /\ \A w \in Workers : ~Leaver(w)
     /\ \A q \in Prios : \A e \in ToSet(queue[q]) : e.kind \notin {"check", "cleanup"}

(* In good order a worker leaves only after it has joined, is not halted   *)
(* and destroyed at a time, and does not leave while the last ones join.   *)
AllJoined == \A w \in Workers : hasThread[w] => wid[w] # 0
InOrder(w) == wid[w] # 0 /\ ~Leaver(w) /\ (KeeperIn \/ AllJoined)

(* AssignToThread, with the reference of a thread that may be an existing  *)
(* one (Manager::DoCreateThread), and the submitted AddWorker.             *)
Assign(w) ==
  /\ ~hasThread[w] /\ object[w] = "normal" /\ ~destroying
  /\ LateAssign \/ ThreadSafe
  /\ joins[w] < MaxJoins /\ joins' = [joins EXCEPT ![w] = @ + 1]
  /\ hasThread' = [hasThread EXCEPT ![w] = TRUE]
  /\ wid' = [wid EXCEPT ![w] = 0]
  /\ active' = [active EXCEPT ![w] = FALSE]
  /\ fired' = [fired EXCEPT ![w] = 0]
  /\ Fire("high", Event("add", 0, w))
  /\ UNCHANGED <<thread, callers>>

(* FireEvent and Submit, accepted only from an active worker. *)
FireEvent(w, q) ==
  /\ w \in Busy /\ active[w] /\ fired[w] < MaxFire
  /\ Fire(q, Event("worker", wid[w], w))
  /\ fired' = [fired EXCEPT ![w] = @ + 1]
  /\ UNCHANGED <<wid, active, hasThread, thread, callers, joins>>

(* DestroyByOwnThread: without a thread the caller destroys the object     *)
(* itself; otherwise it reads the worker's id ...                          *)
AskDestroy(w) ==
  /\ w \notin Keepers /\ object[w] = "normal"
  /\ \/ /\ ~hasThread[w]
        /\ object' = [object EXCEPT ![w] = "destroyed"]
        /\ UNCHANGED asking
     \/ /\ hasThread[w] /\ (Unordered \/ InOrder(w))
        /\ object' = [object EXCEPT ![w] = "asked"]
        /\ asking' = [asking EXCEPT ![w] = wid[w]]
  /\ UNCHANGED <<workers, thread, queue, halting, joins>>

(* ... and InvokeWorkerDestroy submits it to the thread.                   *)
InvokeWorkerDestroy(w) ==
  /\ asking[w] # NoAsk
  /\ Fire("high", Event("destroy", asking[w], None))
  /\ asking' = [asking EXCEPT ![w] = NoAsk]
  /\ UNCHANGED <<workers, thread, object, halting, joins>>

(* DettachFromThread from another thread waits for the answer.  (Its       *)
(* command may meet a worker that halts itself, and find the slot empty.)  *)
HaltWorker(w) ==
  /\ w \notin Keepers /\ w \notin halting
  /\ hasThread[w] /\ (Unordered \/ InOrder(w))
  /\ halting' = halting \cup {w}
  /\ Fire("high", Event("halt", wid[w], w))
  /\ UNCHANGED <<workers, thread, asking, object, joins>>

-----------------------------------------------------------------------------
(* The thread itself.                                                      *)

(* The main loop, or the loop of a handler that waits.                     *)
InLoop == leaving = 0 /\ (stack # <<>> => Last(stack).loop)

(* The next event: the queue of the highest priority, or, one time in      *)
(* eight, another one (_GetNextEvent).                                     *)
Next1(q, kind) == InLoop /\ queue[q] # <<>> /\ Head(queue[q]).kind = kind
Popped(q) == [queue EXCEPT ![q] = Tail(@)]

(* Mutants: the events that still wait, or the handlers that still run,    *)
(* are not counted.                                                        *)
MayLeaveUnbalanced(id, st) == ~Inside(id, st)
MayLeaveInside(id, st) == fired[Slot(id).work] = Slot(id).processed

(* Neither a handler of the worker nor one of its events is left. *)
MayLeave(id, st) == ~Inside(id, st) /\ fired[Slot(id).work] = Slot(id).processed

(* The first critical section of CheckWorkerCanBeHalted on a used slot:    *)
(* `request' and the command that brought it are kept in the slot.         *)
CheckWorkerCanBeHalted(id, request, cmds, st) ==
  LET s == Slot(id) IN
  /\ slots' = WithSlot(id, [s EXCEPT !.halt = @ \cup request, !.cmds = @ \cup cmds])
  /\ active' = [active EXCEPT ![s.work] = FALSE]
  /\ leaving' = IF MayLeave(id, st) THEN id ELSE 0

(* Mutant: the commands that wait for the worker's end are not replied. *)
AnsweredNone(s) == halting
(* Callers whose commands the slot does not keep go on waiting. *)
Answered(s) == halting \ s.cmds

(* Its second half: the slot is emptied, the worker forgets the thread and *)
(* is destroyed, if that was asked, and the callers get their answers.     *)
(* (The thread does nothing else in between, and the worker's own thread   *)
(* reference and id only go together with its slot.)                       *)
RemoveWorker ==
  /\ leaving # 0
  /\ LET s == Slot(leaving)
         w == s.work
     IN /\ slots' = WithSlot(leaving, Empty(None))
        /\ wid' = [wid EXCEPT ![w] = 0]
        /\ active' = [active EXCEPT ![w] = FALSE]
        /\ hasThread' = [hasThread EXCEPT ![w] = FALSE]
        /\ object' = IF "destroy" \in s.halt
                     THEN [object EXCEPT ![w] = "destroyed"] ELSE object
        /\ halting' = Answered(s)
  /\ leaving' = 0
  /\ checkCleanup' = TRUE
  /\ Fire("low", Event("check", 0, None))
  /\ UNCHANGED <<fired, stack, destroying, asking, joins>>

(* ProcessEvent of a worker's event: the handler starts. *)
WorkerEvent(q) ==
  /\ Next1(q, "worker") /\ Len(stack) < MaxNest
  /\ queue' = Popped(q)
  /\ LET id == Head(queue[q]).id
     IN IF Used(id)
        THEN /\ slots' = WithSlot(id, [Slot(id) EXCEPT !.processed = @ + 1])
             /\ stack' = Append(stack, [id |-> id, loop |-> FALSE])
        ELSE UNCHANGED <<slots, stack>>
  /\ UNCHANGED <<workers, leaving, checkCleanup, destroying, callers, joins>>

(* The handler waits in a loop of its own, and comes back from it. *)
EnterLoop ==
  /\ leaving = 0 /\ stack # <<>> /\ ~Last(stack).loop /\ Len(stack) < MaxNest
  /\ stack' = Append(Front(stack), [Last(stack) EXCEPT !.loop = TRUE])
  /\ UNCHANGED <<workers, slots, leaving, checkCleanup, destroying, queue, callers, joins>>

LeaveLoop ==
  /\ leaving = 0 /\ stack # <<>> /\ Last(stack).loop
  /\ stack' = Append(Front(stack), [Last(stack) EXCEPT !.loop = FALSE])
  /\ UNCHANGED <<workers, slots, leaving, checkCleanup, destroying, queue, callers, joins>>

(* The handler calls DettachFromThread for its own worker: it is inside,   *)
(* so that nothing but the request remains.                                *)
HandlerHalts ==
  /\ leaving = 0 /\ stack # <<>> /\ ~Last(stack).loop
  /\ LET id == Last(stack).id
     IN /\ Slot(id).work \notin Keepers
        /\ Unordered \/ (object[Slot(id).work] = "normal" /\ AllJoined)
        /\ CheckWorkerCanBeHalted(id, {"halt"}, {}, stack)
  /\ UNCHANGED <<wid, hasThread, fired, stack, checkCleanup, destroying, queue, callers, joins>>

(* Mutants: the event is counted a second time after the handler; a halt   *)
(* request is not looked at again.                                         *)
HandlerReturnsCounted ==
  /\ leaving = 0 /\ stack # <<>> /\ ~Last(stack).loop
  /\ stack' = Front(stack)
  /\ slots' = WithSlot(Last(stack).id, [Slot(Last(stack).id) EXCEPT !.processed = @ + 1])
  /\ UNCHANGED <<workers, leaving, checkCleanup, destroying, queue, callers, joins>>

HandlerReturnsOnly ==
  /\ leaving = 0 /\ stack # <<>> /\ ~Last(stack).loop
  /\ stack' = Front(stack)
  /\ UNCHANGED <<workers, slots, leaving, checkCleanup, destroying, queue, callers, joins>>

(* The handler returns; a worker that is asked to go is looked at again.   *)
HandlerReturns ==
  /\ leaving = 0 /\ stack # <<>> /\ ~Last(stack).loop
  /\ stack' = Front(stack)
  /\ LET id == Last(stack).id
     IN IF Slot(id).halt # {}
        THEN CheckWorkerCanBeHalted(id, {}, {}, stack')
        ELSE UNCHANGED <<slots, active, leaving>>
  /\ UNCHANGED <<wid, hasThread, fired, checkCleanup, destroying, queue, callers, joins>>

(* Mutant: the id is computed before the slot is added. *)
NewIdBefore == SizeOf(slots) - 1
NewId == SizeOf(slots)

(* "AddWorker": the worker gets the slot at the end. *)
AddWorker(q) ==
  /\ Next1(q, "add")
  /\ LET w == Head(queue[q]).src
     IN /\ slots' = Append(slots, Empty(w))
        /\ wid' = [wid EXCEPT ![w] = NewId]
        /\ active' = [active EXCEPT ![w] = TRUE]
  /\ queue' = Popped(q)
  /\ UNCHANGED <<hasThread, fired, stack, leaving, checkCleanup, destroying, callers, joins>>

(* "InvokeWorkerDestroy": a slot that is not in use is no error. *)
DestroyRequest(q) ==
  /\ Next1(q, "destroy")
  /\ LET id == Head(queue[q]).id
     IN IF Used(id)
        THEN CheckWorkerCanBeHalted(id, {"destroy"}, {}, stack)
        ELSE UNCHANGED <<slots, active, leaving>>
  /\ queue' = Popped(q)
  /\ UNCHANGED <<wid, hasThread, fired, stack, checkCleanup, destroying, callers, joins>>

(* "HaltWorker": without a slot the caller is told at once. *)
HaltRequest(q) ==
  /\ Next1(q, "halt")
  /\ LET id == Head(queue[q]).id
         w  == Head(queue[q]).src
     IN IF Used(id)
        THEN CheckWorkerCanBeHalted(id, {"halt"}, {w}, stack) /\ UNCHANGED halting
        ELSE halting' = halting \ {w} /\ UNCHANGED <<slots, active, leaving>>
  /\ queue' = Popped(q)
  /\ UNCHANGED <<wid, hasThread, fired, stack, checkCleanup, destroying, asking, object, joins>>

(* The slots without the empty ones at the end. *)
Shrunk ==
  LET used == {i \in DOMAIN slots : slots[i].work # None}
      last == CHOOSE n \in used \cup {0} : \A i \in used : i <= n
  IN SubSeq(slots, 1, last)

(* Mutants: any shrinking sends the event; the size is off by one.         *)
SendsCleanupAlways(s) == s # slots /\ ~destroying
SendsCleanupNever(s)  == s # slots /\ SizeOf(s) = 1 /\ ~destroying
(* No worker is left, and the thread object is in its normal state. *)
SendsCleanup(s) == s # slots /\ SizeOf(s) = 2 /\ ~destroying

(* evntCheckWorkers: ProcessNoneEvent.  (It also runs when no event waits, *)
(* but the flag is never set then.)                                        *)
CheckWorkers(q) ==
  /\ Next1(q, "check")
  /\ checkCleanup' = FALSE
  /\ slots' = IF checkCleanup THEN Shrunk ELSE slots
  /\ queue' = IF SendsCleanup(slots')
              THEN [Popped(q) EXCEPT !["low"] = Append(@, Event("cleanup", 0, None))]
              ELSE Popped(q)
  /\ UNCHANGED <<workers, stack, leaving, destroying, callers, joins>>

(* evntCleanupThrd: other events are waited for, but not for ever; the     *)
(* number of workers is not looked at.                                     *)
CleanupThrd(q) ==
  /\ Next1(q, "cleanup")
  /\ LET arg   == Head(queue[q]).id
         total == \E p \in Prios : Popped(q)[p] # <<>>
         retry == ~destroying /\ total /\ arg < RetryLimit
     IN /\ queue' = IF retry
                    THEN [Popped(q) EXCEPT !["low"] = Append(@, Event("cleanup", arg + 1, None))]
                    ELSE Popped(q)
        /\ destroying' = (destroying \/ ~retry)
  /\ UNCHANGED <<workers, slots, stack, leaving, checkCleanup, callers, joins>>

-----------------------------------------------------------------------------
ThreadEvent(q) == \/ WorkerEvent(q) \/ AddWorker(q) \/ DestroyRequest(q)
                  \/ HaltRequest(q) \/ CheckWorkers(q) \/ CleanupThrd(q)

Next ==
  \/ \E w \in Workers : \/ Assign(w) \/ AskDestroy(w) \/ InvokeWorkerDestroy(w)
                        \/ HaltWorker(w)
                        \/ \E q \in Prios : FireEvent(w, q)
  \/ \E q \in Prios : ThreadEvent(q)
  \/ EnterLoop \/ LeaveLoop \/ HandlerHalts \/ HandlerReturns \/ RemoveWorker

(* The thread runs and serves both of its queues, the handlers and their   *)
(* loops end; nobody else has to do anything but to finish a call.         *)
Fairness ==
  /\ \A q \in Prios : SF_vars(ThreadEvent(q))
  /\ WF_vars(LeaveLoop) /\ SF_vars(HandlerReturns) /\ WF_vars(RemoveWorker)
  /\ \A w \in Workers : WF_vars(InvokeWorkerDestroy(w))

Spec == Init /\ [][Next]_vars /\ Fairness
-----------------------------------------------------------------------------
(* Properties.                                                             *)

Kinds == {"worker", "add", "destroy", "halt", "check", "cleanup"}

Slots  == [work : Workers \cup {None}, halt : SUBSET {"destroy", "halt"},
           processed : 0..MaxFire, cmds : SUBSET Workers]
Events == [kind : Kinds, id : Nat, src : Workers \cup {None}]
Queues == [Prios -> Seq(Events)]

TypeOK ==
  /\ slots \in Seq(Slots)
  /\ wid \in [Workers -> Nat]
  /\ active \in [Workers -> BOOLEAN] /\ hasThread \in [Workers -> BOOLEAN]
  /\ fired \in [Workers -> 0..MaxFire]
  /\ queue \in Queues
  /\ stack \in Seq([id : Ids, loop : BOOLEAN])
  /\ leaving \in {0} \cup Ids
  /\ checkCleanup \in BOOLEAN /\ destroying \in BOOLEAN
  /\ asking \in [Workers -> Nat]
  /\ object \in [Workers -> {"normal", "asked", "destroyed"}]
  /\ halting \subseteq Workers /\ joins \in [Workers -> 0..MaxJoins]

(* A worker and its slot agree on the id, although the slots are given     *)
(* back and used again: only such a worker fires events.                   *)
IdsMatchSlots ==
  /\ \A w \in Workers : \A id \in Ids : (Slot(id).work = w) = (wid[w] = id)
  /\ \A w \in Workers : /\ wid[w] # 0 => wid[w] \in Ids /\ hasThread[w]
                        /\ active[w] => wid[w] # 0

(* Where the events of id `id' are in a sequence of events. *)
EventsOf(s, id) == {i \in DOMAIN s : s[i].kind = "worker" /\ s[i].id = id}
Waiting(Q, id) ==
  Cardinality(EventsOf(Q["high"], id)) + Cardinality(EventsOf(Q["low"], id))

(* "when balance between processed and fired is 0, worker can be halted"   *)
(* (WorkerRec): the balance is the number of the worker's events that are  *)
(* in the queues, whatever the worker did in the thread before.            *)
BalanceExact == \A w \in Workers : wid[w] # 0 =>
  fired[w] - Slot(wid[w]).processed = Waiting(queue, wid[w])

(* Ids are used again.  An event or a destroy request that names an id     *)
(* still finds the worker it was meant for, not a later owner of the slot; *)
(* so does a command that halts a worker.                                  *)
RequestsFindTheirWorker ==
  /\ \A q \in Prios : \A e \in ToSet(queue[q]) :
       e.kind = "worker" => wid[e.src] = e.id
  /\ \A id \in Ids : "destroy" \in Slot(id).halt => object[Slot(id).work] = "asked"
  /\ \A id \in Ids : Slot(id).cmds \subseteq {Slot(id).work}

(* No handler runs for a worker that has lost its slot, however deep its   *)
(* loops are nested: the thread goes back to a living object.              *)
NeverHaltedInside ==
  \A i \in DOMAIN stack : Used(stack[i].id) /\ leaving # stack[i].id

(* "this is situation when cleanup was started by DecReference while there *)
(* is no more references on the thread" (ProcessEvent of evntCleanupThrd): *)
(* a cleanup the thread began itself finds it without workers.             *)
ThreadKeptWhileUsed ==
  destroying => slots = <<>> /\ \A w \in Workers : ~hasThread[w]

(* "Once true is returned thread guarantees that                           *)
(* DestroyCalledFromOwnThread() method will be called from thread context" *)
(* (DestroyByOwnThread): a request has somebody who carries it on.         *)
PromiseHasCarrier ==
  \A w \in Workers : object[w] = "asked" /\ asking[w] = NoAsk =>
    \/ wid[w] # 0 /\ \E q \in Prios : Event("destroy", wid[w], None) \in ToSet(queue[q])
    \/ wid[w] # 0 /\ "destroy" \in Slot(wid[w]).halt

(* The workers whose destruction was asked for are destroyed, whatever     *)
(* their handlers and the events still on their way do.                    *)
Asked == {w \in Workers : object[w] = "asked"}
DestroyServed == Asked # {} ~> Asked = {}

(* The calls of DettachFromThread return: the command is answered, at once *)
(* or when the worker is quiet.                                            *)
HaltAnswered == halting # {} ~> halting = {}

(* A thread whose last worker has left ends, if nobody comes back.         *)
ThreadCollected ==
  slots # <<>> /\ (\A w \in Workers : hasThread[w] => object[w] = "asked")
    ~> destroying \/ \E w \in Workers : hasThread[w] /\ object[w] = "normal"

=============================================================================
