---------------------------- MODULE CommandCall ----------------------------
(***************************************************************************)
(* Commands between workers that run in threads of their own: Submit,      *)
(* Execute with its nested event loop, Assign, the reply that walks the    *)
(* stack of callers back, postponed commands, timeouts and the removal of  *)
(* a worker while commands are on their way (base/src/Worker.cxx,          *)
(* Command.cxx, CommandsQueue.cxx and RunCommandInTheThread,               *)
(* CheckWorkerCanBeHalted of Thread.cxx).                                  *)
(*                                                                         *)
(* A thread is modelled by the stack of the frames it is inside of:        *)
(*   event   ProcessCoreEvent of one event (of a submitted command: cmd)   *)
(*   exec    ExecuteCommand of a command, or a user's handler (NoCmd)      *)
(*   wait    RunCommandInTheThread, which runs the event loop meanwhile    *)
(*   reply   Command::Reply, with the caller it has just taken, if any     *)
(* The handlers of the workers are not known: a handler may return, keep   *)
(* the command and answer later, redirect it, or make calls of its own     *)
(* along the routes the constants allow.                                   *)
(***************************************************************************)
EXTENDS Naturals, Sequences, FiniteSets, SequencesExt

CONSTANTS
  Workers, Cmds, NoCmd, NoRec,
  Clients,        (* workers whose own events start calls                  *)
  SyncRoutes,     (* <<w, d>>: w may Execute a command on d                *)
  AsyncRoutes,    (* <<w, d>>: w may d.Submit(Assign(cmd))                 *)
  Redirects,      (* <<w, d>>: w may hand a command it got over to d       *)
  Destroyable,    (* workers that may be destroyed                         *)
  Timed           (* commands with a timeout                               *)

ASSUME CallAssumption ==
  /\ NoCmd \notin Cmds /\ NoRec \notin [worker : Workers, sync : BOOLEAN]
  /\ SyncRoutes \cup AsyncRoutes \cup Redirects \subseteq Workers \X Workers
  /\ Clients \subseteq Workers /\ Destroyable \subseteq Workers
  /\ Timed \subseteq Cmds

VARIABLES
  used,       (* commands created so far                                   *)
  callers,    (* fCallers of each command: a stack of caller records       *)
  exeReady,   (* the exe_ready flag of the synchronous call of a command   *)
  result,     (* the result field: "none", "done" or "refused"             *)
  cmds,       (* fWorkerCommands of each worker                            *)
  events,     (* fired and not yet processed events of each worker         *)
  stack,      (* the frames of each worker's thread                        *)
  held,       (* commands a worker keeps to answer later                   *)
  life,       (* how far the destruction of a worker got                   *)
  active      (* fWorkerActive                                             *)

vars == <<used, callers, exeReady, result, cmds, events, stack, held, life, active>>
queues == <<cmds, events>>
calls  == <<used, callers, exeReady, result>>
lives  == <<life, active>>

Rec(w, sync)  == [worker |-> w, sync |-> sync]
Frame(k, c)   == [kind |-> k, cmd |-> c, rec |-> NoRec]

(* Mutant: the arguments are swapped. *)
EntrySwapped(c, k) == [cmd |-> k, kind |-> c]
Entry(c, k)   == [cmd |-> c, kind |-> k]

Top(w)        == Last(stack[w])
TopIs(w, k)   == stack[w] # <<>> /\ Top(w).kind = k
Pop(w)        == Front(stack[w])
Push(w, f)    == Append(stack[w], f)
Become(w, f)  == Append(Pop(w), f)
SetStack(w, s) == stack' = [stack EXCEPT ![w] = s]

Frames(w)     == ToSet(stack[w])
Has(w, k)     == \E f \in Frames(w) : f.kind = k
(* fWorkerCommandsLevel *)
Level(w)      == \E f \in Frames(w) : f.kind = "exec" /\ f.cmd # NoCmd
(* the thread is in its main loop or in the loop of a waiting call *)
InLoop(w)     == stack[w] = <<>> \/ TopIs(w, "wait")

(* PopWithId, PopWithKind and ChangeKind.  An event names the entry by its *)
(* id; a command has at most one entry of a kind in a queue                *)
(* (EventsMatchQueue), so that command and kind name it here.              *)
Holds(w, c, k)  == Entry(c, k) \in ToSet(cmds[w])

(* Mutant: the entry is found but not erased. *)
WithoutErase(w, c, k) == cmds[w]
Without(w, c, k) == RemoveFirst(cmds[w], Entry(c, k))
Postponed(w)    == {i \in DOMAIN cmds[w] : cmds[w][i].kind = "postponed"}
EntriesOf(w, c) == {i \in DOMAIN cmds[w] : cmds[w][i].cmd = c}

(* Mutant: the assigned entry is not looked for. *)
ChangeKindPushes(w, c) == Append(cmds[w], Entry(c, "reply"))
ChangeKind(w, c) ==
  IF EntriesOf(w, c) # {}
  THEN ReplaceAt(cmds[w], Min(EntriesOf(w, c)), Entry(c, "reply"))
  ELSE Append(cmds[w], Entry(c, "reply"))

Init ==
  /\ used = {}
  /\ callers = [c \in Cmds |-> <<>>]
  /\ exeReady = [c \in Cmds |-> FALSE]
  /\ result = [c \in Cmds |-> "none"]
  /\ cmds = [w \in Workers |-> <<>>]
  /\ events = [w \in Workers |-> <<>>]
  /\ stack = [w \in Workers |-> <<>>]
  /\ held = [w \in Workers |-> {}]
  /\ life = [w \in Workers |-> "normal"]
  /\ active = [w \in Workers |-> TRUE]

-----------------------------------------------------------------------------
(* The event loop of a worker's thread.                                    *)

(* An event of the worker itself (a timeout, a port event, a start), when  *)
(* the earlier ones are done. *)
UserEvent(w) ==
  /\ w \in Clients /\ life[w] = "normal"
  /\ stack[w] = <<>> /\ events[w] = <<>>
  /\ used # Cmds
  /\ SetStack(w, <<Frame("event", NoCmd), Frame("exec", NoCmd)>>)
  /\ UNCHANGED <<calls, queues, held, lives>>

(* Worker::ProcessCommand on a command just popped; `below' is the stack   *)
(* and `q' the queue it leaves: a worker that is not in its normal state   *)
(* drops the command, a worker inside a command postpones every command    *)
(* nobody waits for synchronously.                                         *)

(* Mutant: every command is postponed inside of a command. *)
LastCallerNeverSync(c) == FALSE
LastCallerSync(c) == callers[c] # <<>> /\ Last(callers[c]).sync

ProcessCommand(w, c, below, q) ==
  \/ /\ life[w] # "normal"
     /\ SetStack(w, below) /\ cmds' = [cmds EXCEPT ![w] = q]
  \/ /\ life[w] = "normal" /\ Level(w) /\ ~LastCallerSync(c)
     /\ SetStack(w, below) /\ cmds' = [cmds EXCEPT ![w] = Append(q, Entry(c, "postponed"))]
  \/ /\ life[w] = "normal" /\ (Level(w) => LastCallerSync(c))
     /\ SetStack(w, Append(below, Frame("exec", c))) /\ cmds' = [cmds EXCEPT ![w] = q]

(* evntSubmitCommand.  (Nobody cancels a command here.) *)
SubmitEvent(w) ==
  /\ InLoop(w)
  /\ events[w] # <<>> /\ Head(events[w]).kind = "submit"
  /\ events' = [events EXCEPT ![w] = Tail(@)]
  /\ LET c == Head(events[w]).cmd
     IN ProcessCommand(w, c, Push(w, Frame("event", c)), Without(w, c, "submit"))
  /\ UNCHANGED <<calls, held, lives>>

(* ... and the loop over postponed commands at its end. *)
NextPostponed(w) ==
  /\ TopIs(w, "event") /\ Top(w).cmd # NoCmd
  /\ ~Level(w) /\ Postponed(w) # {}
  /\ LET c == cmds[w][Min(Postponed(w))].cmd
     IN ProcessCommand(w, c, stack[w], Without(w, c, "postponed"))
  /\ UNCHANGED <<calls, events, held, lives>>

(* Mutant: the postponed commands are not looked at. *)
EventDoneAtOnce(w) ==
  /\ TopIs(w, "event")
  /\ SetStack(w, Pop(w))
  /\ UNCHANGED <<calls, queues, held, lives>>

EventDone(w) ==
  /\ TopIs(w, "event")
  /\ Top(w).cmd = NoCmd \/ Level(w) \/ Postponed(w) = {}
  /\ SetStack(w, Pop(w))
  /\ UNCHANGED <<calls, queues, held, lives>>

(* evntReplyCommand: ReplyCommand is told and the command goes on to the   *)
(* next caller.                                                            *)
ReplyEvent(w) ==
  /\ InLoop(w)
  /\ events[w] # <<>> /\ Head(events[w]).kind = "reply"
  /\ events' = [events EXCEPT ![w] = Tail(@)]
  /\ LET c == Head(events[w]).cmd
     IN /\ cmds' = [cmds EXCEPT ![w] = Without(w, c, "reply")]
        /\ SetStack(w, stack[w] \o <<Frame("event", NoCmd), Frame("reply", c)>>)
  /\ UNCHANGED <<calls, held, lives>>

-----------------------------------------------------------------------------
(* What a handler does.                                                    *)

(* Worker::Submit of c to d, by the thread of w whose stack becomes `s':   *)
(* a worker that is not active any more refuses, and the refusal is        *)
(* replied at once.                                                        *)
Submit(w, d, c, s, queue) ==
  \/ /\ active[d]
     /\ cmds' = [queue EXCEPT ![d] = Append(@, Entry(c, "submit"))]
     /\ events' = [events EXCEPT ![d] = Append(@, Entry(c, "submit"))]
     /\ SetStack(w, s)
     /\ UNCHANGED result
  \/ /\ ~active[d]
     /\ result' = [result EXCEPT ![c] = "refused"]
     /\ SetStack(w, Append(s, Frame("reply", c)))
     /\ cmds' = queue
     /\ UNCHANGED events

Running(w, c) == TopIs(w, "exec") /\ Top(w).cmd = c

(* ExecuteCommand returned a result: ProcessCommand replies it. *)
HandlerReturns(w) ==
  \E c \in Cmds :
    /\ Running(w, c)
    /\ result' = [result EXCEPT ![c] = "done"]
    /\ SetStack(w, Become(w, Frame("reply", c)))
    /\ UNCHANGED <<used, callers, exeReady, queues, held, lives>>

UserHandlerReturns(w) ==
  /\ Running(w, NoCmd)
  /\ SetStack(w, Pop(w))
  /\ UNCHANGED <<calls, queues, held, lives>>

(* It returned cmd_postponed and kept the command ... *)
HandlerKeeps(w) ==
  \E c \in Cmds :
    /\ Running(w, c)
    /\ held' = [held EXCEPT ![w] = @ \cup {c}]
    /\ SetStack(w, Pop(w))
    /\ UNCHANGED <<calls, queues, lives>>

(* ... which it answers in a later event, or in its destructor.            *)
KeptIsAnswered(w) ==
  \E c \in held[w] :
    /\ InLoop(w)
    /\ held' = [held EXCEPT ![w] = @ \ {c}]
    /\ result' = [result EXCEPT ![c] = "done"]
    /\ SetStack(w, stack[w] \o <<Frame("event", NoCmd), Frame("reply", c)>>)
    /\ UNCHANGED <<used, callers, exeReady, queues, lives>>

(* It returned cmd_postponed after it submitted the command to another     *)
(* worker (Manager::PreviewCommand): the callers stay as they are.         *)
HandlerRedirects(w) ==
  \E c \in Cmds, d \in Workers :
    /\ Running(w, c) /\ <<w, d>> \in Redirects
    /\ Submit(w, d, c, Pop(w), cmds)
    /\ UNCHANGED <<used, callers, exeReady, held, lives>>

NextCmd == CHOOSE c \in Cmds \ used : TRUE

(* d.Submit(Assign(cmd)): the reply comes back as an event. *)
AsyncCall(w) ==
  \E d \in Workers :
    /\ TopIs(w, "exec") /\ used # Cmds
    /\ <<w, d>> \in AsyncRoutes
    /\ used' = used \cup {NextCmd}
    /\ callers' = [callers EXCEPT ![NextCmd] = Append(@, Rec(w, FALSE))]
    /\ Submit(w, d, NextCmd, stack[w],
              [cmds EXCEPT ![w] = Append(@, Entry(NextCmd, "assign"))])
    /\ UNCHANGED <<exeReady, held, lives>>

(* Worker::Execute: RunCommandInTheThread submits the command and waits,   *)
(* unless it is refused (then the refusal is replied to this very call).   *)
SyncCall(w) ==
  \E d \in Workers :
    /\ TopIs(w, "exec") /\ used # Cmds
    /\ <<w, d>> \in SyncRoutes
    /\ used' = used \cup {NextCmd}
    /\ callers' = [callers EXCEPT ![NextCmd] = Append(@, Rec(w, TRUE))]
    /\ Submit(w, d, NextCmd, Push(w, Frame("wait", NextCmd)), cmds)
    /\ UNCHANGED <<exeReady, held, lives>>

(* Mutant: the caller returns when its record has gone. *)
SyncCallReturnsEarly(w) ==
  /\ TopIs(w, "wait") /\ callers[Top(w).cmd] = <<>>
  /\ SetStack(w, Pop(w))
  /\ UNCHANGED <<calls, queues, held, lives>>

(* The loop of RunCommandInTheThread ends when exe_ready is seen ... *)
SyncCallReturns(w) ==
  /\ TopIs(w, "wait") /\ exeReady[Top(w).cmd]
  /\ SetStack(w, Pop(w))
  /\ UNCHANGED <<calls, queues, held, lives>>

(* Mutant: the time is looked at only after the command got its result. *)
SyncCallTimesOutLate(w) ==
  /\ TopIs(w, "wait") /\ Top(w).cmd \in Timed
  /\ result[Top(w).cmd] # "none"
  /\ callers' = [callers EXCEPT ![Top(w).cmd] = RemoveFirst(@, Rec(w, TRUE))]
  /\ SetStack(w, Pop(w))
  /\ UNCHANGED <<used, exeReady, result, queues, held, lives>>

(* ... or when the time is over: RemoveCaller takes the record of this     *)
(* call away, if Reply did not take it yet.  (A call leaves one record.)   *)
SyncCallTimesOut(w) ==
  /\ TopIs(w, "wait") /\ Top(w).cmd \in Timed
  /\ callers' = [callers EXCEPT ![Top(w).cmd] = RemoveFirst(@, Rec(w, TRUE))]
  /\ SetStack(w, Pop(w))
  /\ UNCHANGED <<used, exeReady, result, queues, held, lives>>

-----------------------------------------------------------------------------
(* Command::Reply.                                                         *)

(* One record is popped under the command's mutex ... *)
ReplyTakes(w) ==
  /\ TopIs(w, "reply") /\ Top(w).rec = NoRec
  /\ LET c == Top(w).cmd
     IN IF callers[c] = <<>>
        THEN SetStack(w, Pop(w)) /\ UNCHANGED callers
        ELSE /\ SetStack(w, Become(w, [Top(w) EXCEPT !.rec = Last(callers[c])]))
             /\ callers' = [callers EXCEPT ![c] = Front(@)]
  /\ UNCHANGED <<used, exeReady, result, queues, held, lives>>

(* ... and GetCommandReply of that caller is called without it.  A         *)
(* synchronous caller is represented by the exec worker of its thread,     *)
(* which is active as long as the thread runs.                             *)
ReplyDelivers(w) ==
  /\ TopIs(w, "reply") /\ Top(w).rec # NoRec
  /\ LET c == Top(w).cmd
         r == Top(w).rec
     IN \/ /\ r.sync
           /\ exeReady' = [exeReady EXCEPT ![c] = TRUE]
           /\ SetStack(w, Pop(w))
           /\ UNCHANGED queues
        \/ /\ ~r.sync /\ active[r.worker]
           /\ cmds' = [cmds EXCEPT ![r.worker] = ChangeKind(r.worker, c)]
           /\ events' = [events EXCEPT ![r.worker] = Append(@, Entry(c, "reply"))]
           /\ SetStack(w, Pop(w))
           /\ UNCHANGED exeReady
        \/ /\ ~r.sync /\ ~active[r.worker]
           /\ cmds' = [cmds EXCEPT ![r.worker] = Without(r.worker, c, "assign")]
           /\ SetStack(w, Become(w, Frame("reply", c)))
           /\ UNCHANGED <<events, exeReady>>
  /\ UNCHANGED <<used, callers, result, held, lives>>

-----------------------------------------------------------------------------
(* Destruction of a worker.                                                *)

(* Object::Destroy: the object leaves its normal state and the thread is   *)
(* asked (InvokeWorkerDestroy).                                            *)
DestroyAsked(w) ==
  /\ w \in Destroyable /\ life[w] = "normal"
  /\ life' = [life EXCEPT ![w] = "asked"]
  /\ UNCHANGED <<calls, queues, stack, held, active>>

(* CheckWorkerCanBeHalted with the request: no more events are accepted. *)
Halt(w) ==
  /\ life[w] = "asked" /\ InLoop(w)
  /\ life' = [life EXCEPT ![w] = "halting"]
  /\ active' = [active EXCEPT ![w] = FALSE]
  /\ UNCHANGED <<calls, queues, stack, held>>

(* Mutant: the events that are still queued are not counted. *)
UnbalancedIsFree(w) == stack[w] = <<>>

(* The balance of its events is 0 and it is not on the thread's stack. *)
BalancedAndFree(w) == stack[w] = <<>> /\ events[w] = <<>>

(* Then DestroyCalledFromOwnThread, whose ObjectCleanup withdraws the      *)
(* worker from the commands it has assigned (CancelCommands).              *)
Cleaned(w) ==
  /\ life[w] = "halting" /\ BalancedAndFree(w)
  /\ life' = [life EXCEPT ![w] = "gone"]
  /\ callers' = [c \in Cmds |->
       IF Holds(w, c, "assign") THEN RemoveFirst(callers[c], Rec(w, FALSE))
       ELSE callers[c]]
  /\ cmds' = [cmds EXCEPT ![w] = <<>>]
  /\ UNCHANGED <<used, exeReady, result, events, stack, held, active>>

-----------------------------------------------------------------------------
LoopStep(w)    == SubmitEvent(w) \/ ReplyEvent(w) \/ NextPostponed(w) \/ EventDone(w)
HandlerStep(w) == \/ HandlerReturns(w) \/ UserHandlerReturns(w) \/ HandlerKeeps(w)
                  \/ HandlerRedirects(w) \/ AsyncCall(w) \/ SyncCall(w)
WaitStep(w)    == SyncCallReturns(w) \/ SyncCallTimesOut(w)
ReplyStep(w)   == ReplyTakes(w) \/ ReplyDelivers(w)
LifeStep(w)    == DestroyAsked(w) \/ Halt(w) \/ Cleaned(w)

Next == \E w \in Workers :
  \/ UserEvent(w) \/ KeptIsAnswered(w)
  \/ LoopStep(w) \/ HandlerStep(w) \/ WaitStep(w) \/ ReplyStep(w) \/ LifeStep(w)

(* A thread that can run runs, handlers end, kept commands are answered in *)
(* the end, a deadline passes; nobody has to start or to destroy anything. *)
Fairness == \A w \in Workers :
  /\ WF_vars(LoopStep(w)) /\ WF_vars(HandlerStep(w)) /\ WF_vars(ReplyStep(w))
  /\ WF_vars(WaitStep(w)) /\ SF_vars(KeptIsAnswered(w))
  /\ WF_vars(Halt(w)) /\ WF_vars(Cleaned(w))

Spec == Init /\ [][Next]_vars /\ Fairness
-----------------------------------------------------------------------------
(* Properties.                                                             *)

Recs == [worker : Workers, sync : BOOLEAN]

Entries == [cmd : Cmds, kind : {"submit", "postponed", "assign", "reply"}]
Events  == [cmd : Cmds, kind : {"submit", "reply"}]
FrameSet == [kind : {"event", "exec", "wait", "reply"}, cmd : Cmds \cup {NoCmd},
             rec : Recs \cup {NoRec}]

TypeOK ==
  /\ used \subseteq Cmds
  /\ callers \in [Cmds -> Seq(Recs)]
  /\ exeReady \in [Cmds -> BOOLEAN]
  /\ result \in [Cmds -> {"none", "done", "refused"}]
  /\ cmds \in [Workers -> Seq(Entries)]
  /\ events \in [Workers -> Seq(Events)]
  /\ stack \in [Workers -> Seq(FrameSet)]
  /\ held \in [Workers -> SUBSET Cmds]
  /\ life \in [Workers -> {"normal", "asked", "halting", "gone"}]
  /\ active \in [Workers -> BOOLEAN]

(* Who is in charge of a command: a queue that will process it, the thread *)
(* that executes or replies it, the worker that keeps it.                  *)
Custodians(c) ==
  UNION {      {<<w, "queue", i>> : i \in {j \in DOMAIN cmds[w] :
                    cmds[w][j].cmd = c /\ cmds[w][j].kind # "assign"}}
         \cup {<<w, "frame", i>> : i \in {j \in DOMAIN stack[w] :
                    stack[w][j].cmd = c /\ stack[w][j].kind \in {"exec", "reply"}}}
         \cup {<<w, "held", 0>> : v \in {u \in {w} : c \in held[u]}} : w \in Workers}

(* A command has at most one custodian: whatever the order of submission,  *)
(* postponing, redirection and reply, it is not executed by two workers.   *)
SingleCustodian == \A c \in Cmds : \A p, q \in Custodians(c) : p = q

(* Somebody still waits for the command: a synchronous call, or a worker   *)
(* that assigned it.                                                       *)
Awaited(c) == \E w \in Workers :
  \/ Frame("wait", c) \in Frames(w) /\ ~exeReady[c]
  \/ Holds(w, c, "assign")

(* "Once command is submitted it is guaranteed that it will be executed or *)
(* command will be canceled" (RunCommandInTheThread): a command somebody   *)
(* waits for has a custodian.                                              *)
NoCommandLost == \A c \in Cmds : Awaited(c) => Custodians(c) # {}

(* "we must be sure that event is accepted, it can be that worker is just  *)
(* break all its activity and pointer is no longer valid"                  *)
(* (GetCommandReply): a caller record that Reply took and will write       *)
(* through belongs to a call that is still on its thread's stack, or to a  *)
(* worker that still exists.                                               *)
ReplyTargetAlive ==
  \A w \in Workers : \A f \in Frames(w) :
    f.kind = "reply" /\ f.rec # NoRec =>
      IF f.rec.sync THEN Frame("wait", f.cmd) \in Frames(f.rec.worker)
                    ELSE life[f.rec.worker] # "gone"

(* Queue and events agree: every submitted or replied command has one      *)
(* event that will fetch it, in the order of submission, and no event      *)
(* finds its command missing (the "no command with specified id" error).   *)
Fetched(q) == {e \in ToSet(q) : e.kind \in {"submit", "reply"}}
Distinct(s) == \A i, j \in DOMAIN s : s[i] = s[j] => i = j
Before(s, e, f) == \E i, j \in DOMAIN s : s[i] = e /\ s[j] = f /\ i < j
Matches(q, ev) ==
  /\ ToSet(ev) = Fetched(q) /\ Distinct(q) /\ Distinct(ev)
  /\ \A e, f \in Fetched(q) : e.kind = "submit" /\ f.kind = "submit" =>
       (Before(q, e, f) => Before(ev, e, f))
EventsMatchQueue == \A w \in Workers : Matches(cmds[w], events[w])

(* A postponed command is left only where the thread comes back to it: in  *)
(* the event of another submitted command of the same worker.              *)
PostponedHasDrain == \A w \in Workers :
  Postponed(w) # {} =>
    \E f \in Frames(w) : f.kind = "event" /\ f.cmd # NoCmd

(* A worker disappears only when nothing of it is left behind: no event    *)
(* that would address its id, no entry in its queue, no frame of a handler *)
(* on the stack of the thread (but for the answers its destructor gives).  *)
GoneIsQuiet == \A w \in Workers : life[w] = "gone" =>
  /\ cmds[w] = <<>> /\ events[w] = <<>>
  /\ \A f \in Frames(w) : f.kind \in {"event", "reply"}

SyncCmds == {c \in Cmds : \E w \in Workers : Frame("wait", c) \in Frames(w)}

(* A synchronous call returns. *)
CallsReturn == \A c \in Cmds : c \in SyncCmds ~> c \notin SyncCmds

(* A synchronous call with a timeout returns even when the command is      *)
(* dropped on the way.                                                     *)
TimedCallsReturn == SyncCmds # {} /\ SyncCmds \subseteq Timed ~> SyncCmds = {}

-----------------------------------------------------------------------------
(* The abstract promise of a synchronous call, CommandPromise, is kept.    *)
Promise == INSTANCE CommandPromise WITH
  Calls  <- Cmds,
  result <- result,
  waiting <- SyncCmds,
  answered <- {c \in Cmds : exeReady[c]}
PromiseKept == Promise!Spec
=============================================================================
