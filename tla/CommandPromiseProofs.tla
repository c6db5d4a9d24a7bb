------------------------ MODULE CommandPromiseProofs ------------------------
(***************************************************************************)
(* What is proved of the answers of CommandCall, for any workers, commands *)
(* and routes: a command gets one result and its caller one answer, the    *)
(* promise of CommandPromise is kept, and while no worker is destroyed no  *)
(* command anybody waits for is lost.                                      *)
(***************************************************************************)
EXTENDS CommandCallProofs
-----------------------------------------------------------------------------
(* Where a command is: with a worker that will give it a result, or on its *)
(* way back with the result.                                               *)
Handling(w, c) ==
  \/ c \in held[w]
  \/ \E f \in Frames(w) : f.cmd = c /\ f.kind = "exec"
  \/ \E e \in ToSet(cmds[w]) : e.cmd = c /\ e.kind \in {"submit", "postponed"}
Replying(w, c) ==
  \/ \E f \in Frames(w) : f.cmd = c /\ f.kind = "reply"
  \/ \E e \in ToSet(cmds[w]) : e.cmd = c /\ e.kind = "reply"
Assigned(w, c) == \E e \in ToSet(cmds[w]) : e.cmd = c /\ e.kind = "assign"

(* The record of its caller: on the command, or taken by Reply.            *)
Taken(w, c, r) == \E f \in Frames(w) : f.cmd = c /\ f.kind = "reply" /\ f.rec = r
Known(c, r)    == callers[c] = <<r>> \/ \E w \in Workers : Taken(w, c, r)

(* The result is given when the command leaves its handler, and only then. *)
ResultGiven(c) == \A w \in Workers :
  (Handling(w, c) => result[c] = "none") /\ (Replying(w, c) => result[c] # "none")

(* There is one record, and the answer is given when it is used up.        *)
OneRecord(c) ==
  /\ Len(callers[c]) <= 1 /\ (exeReady[c] => callers[c] = <<>>)
  /\ \A w \in Workers : \A r \in Recs : Taken(w, c, r) => callers[c] = <<>> /\ ~exeReady[c]

(* Who waits has a record, and who has a record waits, if it does not give *)
(* up.                                                                     *)
AwaitedIsKnown(c) == \A w \in Workers :
  /\ Waits(w, c) /\ ~exeReady[c] => Known(c, Rec(w, TRUE))
  /\ Assigned(w, c) => Known(c, Rec(w, FALSE))
KnownAwaits(c) == c \notin Timed => \A w \in Workers : Known(c, Rec(w, TRUE)) => Waits(w, c)

(* A command with a caller is somewhere, while no worker is destroyed.     *)
AllNormal == \A w \in Workers : life[w] = "normal"
Carried(c) == callers[c] # <<>> => \E w \in Workers : Handling(w, c) \/ Replying(w, c)

CallRight(c) == /\ ResultGiven(c) /\ OneRecord(c) /\ AwaitedIsKnown(c) /\ KnownAwaits(c)
                /\ AllNormal => Carried(c)
CInv == AInv /\ \A c \in Cmds : CallRight(c)

-----------------------------------------------------------------------------
(* The command a step is about, and the others.                            *)
OnlyAbout(C) ==
  /\ \A v \in Workers : \A e \in ToSet(cmds'[v]) : e.cmd \notin C => e \in ToSet(cmds[v])
  /\ \A v \in Workers : \A e \in ToSet(cmds[v]) : e.cmd \notin C => e \in ToSet(cmds'[v])
  /\ \A v \in Workers : \A f \in Frames(v)' :
       f.cmd \in Cmds \ C /\ f.kind # "event" => f \in Frames(v)
  /\ \A v \in Workers : \A f \in Frames(v) :
       f.cmd \in Cmds \ C /\ f.kind # "event" => f \in Frames(v)'
  /\ \A v \in Workers : \A x \in Cmds \ C : x \in held'[v] <=> x \in held[v]
  /\ \A x \in Cmds \ C : /\ callers'[x] = callers[x] /\ exeReady'[x] = exeReady[x]
                         /\ result'[x] = result[x]
  /\ AllNormal' => AllNormal

RecordsSame(c) ==
  /\ callers'[c] = callers[c] /\ exeReady'[c] = exeReady[c]
  /\ \A v \in Workers : \A r \in Recs : Taken(v, c, r)' <=> Taken(v, c, r)
  /\ \A v \in Workers : Waits(v, c)' <=> Waits(v, c)
  /\ \A v \in Workers : Assigned(v, c)' <=> Assigned(v, c)

LEMMA RecFacts ==
  ASSUME NEW w \in Workers, NEW b \in BOOLEAN
  PROVE  /\ Rec(w, b) \in Recs /\ Rec(w, b).worker = w /\ Rec(w, b).sync = b
         /\ Rec(w, b) # NoRec
BY CallAssumption DEF Rec, Recs

LEMMA SameRecords ==
  ASSUME NEW c \in Cmds, OneRecord(c), AwaitedIsKnown(c), KnownAwaits(c), RecordsSame(c)
  PROVE  (OneRecord(c) /\ AwaitedIsKnown(c) /\ KnownAwaits(c))'
<1>1. \A w \in Workers : \A b \in BOOLEAN : Known(c, Rec(w, b))' <=> Known(c, Rec(w, b))
  BY RecFacts DEF Known, RecordsSame
<1>2. OneRecord(c)'
  BY DEF OneRecord, RecordsSame
<1>3. AwaitedIsKnown(c)'
  BY <1>1 DEF AwaitedIsKnown, RecordsSame
<1>4. KnownAwaits(c)'
  BY <1>1 DEF KnownAwaits, RecordsSame
<1> QED
  BY <1>2, <1>3, <1>4

LEMMA OthersSame ==
  ASSUME NEW C, OnlyAbout(C), NEW x \in Cmds, x \notin C, CallRight(x)
  PROVE  CallRight(x)'
<1>1. ASSUME NEW v \in Workers
      PROVE  /\ Handling(v, x)' <=> Handling(v, x)
             /\ Replying(v, x)' <=> Replying(v, x)
  BY DEF OnlyAbout, Handling, Replying
<1>2. ASSUME NEW v \in Workers
      PROVE  /\ \A r \in Recs : Taken(v, x, r)' <=> Taken(v, x, r)
             /\ Waits(v, x)' <=> Waits(v, x)
             /\ Assigned(v, x)' <=> Assigned(v, x)
  BY DEF OnlyAbout, Taken, Waits, Assigned
<1>3. RecordsSame(x)
  BY <1>2 DEF RecordsSame, OnlyAbout
<1>4. (OneRecord(x) /\ AwaitedIsKnown(x) /\ KnownAwaits(x))'
  BY <1>3, SameRecords DEF CallRight
<1>5. ResultGiven(x)'
  BY <1>1 DEF ResultGiven, OnlyAbout, CallRight
<1>6. (AllNormal => Carried(x))'
  BY <1>1 DEF Carried, OnlyAbout, CallRight
<1> QED
  BY <1>4, <1>5, <1>6 DEF CallRight

LEMMA CStep ==
  ASSUME CInv, AInv', NEW C \in SUBSET Cmds, OnlyAbout(C), \A c \in C : CallRight(c)'
  PROVE  CInv'
BY OthersSame DEF CInv

(* A command is with one worker, and either there or on its way back.      *)
LEMMA OneFrameOf ==
  ASSUME AInv, NEW w \in Workers, NEW f \in Frames(w), NEW g \in Frames(w), Alike(f, g)
  PROVE  f = g
BY DEF AInv, AllStacked, Stacked, OneFrame, Frames, ToSet

LEMMA HandledOrReplied ==
  AInv => \A c \in Cmds : \A v, w \in Workers : ~(Handling(v, c) /\ Replying(w, c))
<1> SUFFICES ASSUME AInv, NEW c \in Cmds, NEW v \in Workers, NEW w \in Workers,
                    Handling(v, c), Replying(w, c)
             PROVE  FALSE
  OBVIOUS
<1>1. c # NoCmd
  BY CallAssumption
<1>2. CASE \E f \in Frames(w) : f.cmd = c /\ f.kind = "reply"
  <2>1. PICK f \in Frames(w) : f.cmd = c /\ f.kind = "reply"
    BY <1>2
  <2>2. Framed(w, c)
    BY <2>1 DEF Framed
  <2>3. v = w /\ \E g \in Frames(w) : g.cmd = c /\ g.kind = "exec"
    BY <2>2, OwnerAlone DEF Handling, Framed, Queued, Kept
  <2>4. PICK g \in Frames(w) : g.cmd = c /\ g.kind = "exec"
    BY <2>3
  <2> QED
    BY <1>1, <2>1, <2>4, OneFrameOf DEF Alike, Owning
<1>3. CASE \E e \in ToSet(cmds[w]) : e.cmd = c /\ e.kind = "reply"
  <2>1. PICK e \in ToSet(cmds[w]) : e.cmd = c /\ e.kind = "reply"
    BY <1>3
  <2>2. Queued(w, c)
    BY <2>1 DEF Queued
  <2>3. v = w /\ \E g \in ToSet(cmds[w]) : g.cmd = c /\ g.kind \in {"submit", "postponed"}
    BY <2>2, OwnerAlone DEF Handling, Framed, Queued, Kept
  <2>4. PICK g \in ToSet(cmds[w]) : g.cmd = c /\ g.kind \in {"submit", "postponed"}
    BY <2>3
  <2> QED
    BY <2>1, <2>4 DEF AInv, OneEntries
<1> QED
  BY <1>2, <1>3 DEF Replying

LEMMA HandledOrRepliedNext ==
  AInv' => (\A c \in Cmds : \A v, w \in Workers : ~(Handling(v, c) /\ Replying(w, c)))'
BY HandledOrReplied, PTL

LEMMA ResultMoves ==
  ASSUME AInv', NEW c \in Cmds, NEW w \in Workers,
         \/ Handling(w, c)' /\ result'[c] = "none"
         \/ Replying(w, c)' /\ result'[c] # "none"
  PROVE  ResultGiven(c)' /\ Carried(c)'
BY HandledOrRepliedNext DEF ResultGiven, Carried

(* A command moves on with its records.                                    *)
LEMMA RightMoves ==
  ASSUME AInv', NEW c \in Cmds, CallRight(c), RecordsSame(c), NEW w \in Workers,
         \/ Handling(w, c)' /\ result'[c] = "none"
         \/ Replying(w, c)' /\ result'[c] # "none"
  PROVE  CallRight(c)'
BY ResultMoves, SameRecords DEF CallRight

-----------------------------------------------------------------------------
(* Every step is about one command at most.  A step that moves a command   *)
(* on with its records:                                                    *)
Moving(c) == OnlyAbout({c}) /\ RecordsSame(c) /\ CallRight(c)'

LEMMA CParts ==
  ASSUME CInv
  PROVE  /\ AInv
         /\ \A c \in Cmds : /\ CallRight(c) /\ ResultGiven(c) /\ OneRecord(c)
                            /\ AwaitedIsKnown(c) /\ KnownAwaits(c)
                            /\ callers[c] \in Seq(Recs)
BY DEF CInv, CallRight, AInv, TypeOK

LEMMA ProcessMoves ==
  ASSUME CInv, AInv', NEW w \in Workers, SubmitEvent(w) \/ NextPostponed(w)
  PROVE  UNCHANGED <<exeReady, result>> /\ \E c \in Cmds : Moving(c)
<1>1. AInv
  BY CParts
<1>2. PICK c \in Cmds, k \in {"submit", "postponed"} :
        \E q \in Seq(Entries), ev \in Seq(Events), s \in Seq(FrameSet) :
          Processing(w, c, k, q, ev, s)
  <2>1. CASE SubmitEvent(w)
    BY <1>1, <2>1, SubmitIsProcessed
  <2>2. CASE NextPostponed(w)
    BY <1>1, <2>2, PostponedIsProcessed
  <2> QED
    BY <2>1, <2>2
<1>3. PICK q \in Seq(Entries), ev \in Seq(Events), s \in Seq(FrameSet) :
        Processing(w, c, k, q, ev, s)
  BY <1>2
<1>4. \A v \in Workers : v # w => cmds'[v] = cmds[v] /\ Frames(v)' = Frames(v)
  BY <1>1, <1>3, ProcessEffect DEF Processing
<1>5. Processed(w, c, s, q)
  BY <1>1, <1>3, ProcessEffect DEF Processing
<1>6. PICK n, p, x, y :
        /\ n = Entry(c, k) /\ n.cmd = c /\ n.kind = k
        /\ p = Entry(c, "postponed") /\ p.cmd = c /\ p.kind = "postponed"
        /\ x = Frame("exec", c) /\ x.cmd = c /\ x.kind = "exec"
        /\ y = Frame("event", c) /\ y.cmd = c /\ y.kind = "event"
  BY EntryFacts, FrameFacts
<1>7. /\ n \in ToSet(cmds[w]) /\ ToSet(q) = ToSet(cmds[w]) \ {n}
      /\ \A f \in ToSet(s) : f \in Frames(w) \/ f = y
      /\ \A f \in Frames(w) : f \in ToSet(s)
      /\ UNCHANGED <<calls, held, lives>>
  BY <1>3, <1>6 DEF Processing
<1>8. /\ \A e \in ToSet(cmds'[w]) : e \in ToSet(cmds[w]) \/ e = p
      /\ \A e \in ToSet(cmds[w]) : e \in ToSet(cmds'[w]) \/ e = n
      /\ \A f \in Frames(w)' : f \in Frames(w) \/ f = y \/ f = x
      /\ \A f \in Frames(w) : f \in Frames(w)'
      /\ life[w] = "normal" => p \in ToSet(cmds'[w]) \/ x \in Frames(w)'
  BY <1>5, <1>6, <1>7 DEF Processed
<1>9. OnlyAbout({c})
  BY <1>4, <1>6, <1>7, <1>8 DEF OnlyAbout, calls, lives, AllNormal
<1>10. RecordsSame(c)
  <2>1. ASSUME NEW v \in Workers
        PROVE  /\ \A r \in Recs : Taken(v, c, r)' <=> Taken(v, c, r)
               /\ Waits(v, c)' <=> Waits(v, c)
               /\ Assigned(v, c)' <=> Assigned(v, c)
    BY <1>4, <1>6, <1>8 DEF Taken, Waits, Assigned
  <2> QED
    BY <1>7, <2>1 DEF RecordsSame, calls
<1>11. Handling(w, c) /\ result[c] = "none" /\ UNCHANGED <<exeReady, result>>
  BY <1>6, <1>7, CParts DEF Handling, ResultGiven, calls
<1>12. CallRight(c)'
  <2>1. CASE life[w] = "normal"
    <3>1. Handling(w, c)'
      BY <1>6, <1>8, <2>1 DEF Handling
    <3> QED
      BY <1>10, <1>11, <3>1, CParts, RightMoves
  <2>2. CASE life[w] # "normal"
    <3>1. ~AllNormal'
      BY <1>7, <2>2 DEF AllNormal, lives
    <3>2. \A v \in Workers : ~Replying(v, c)
      BY <1>1, <1>11, HandledOrReplied
    <3>3. \A v \in Workers : ~Replying(v, c)'
      BY <1>4, <1>6, <1>8, <3>2 DEF Replying
    <3>4. ResultGiven(c)'
      BY <1>11, <3>3 DEF ResultGiven
    <3> QED
      BY <1>10, <3>1, <3>4, CParts, SameRecords DEF CallRight
  <2> QED
    BY <2>1, <2>2
<1> QED
  BY <1>9, <1>10, <1>11, <1>12 DEF Moving

(* What is left of the frames.                                             *)
LEMMA PopEffect ==
  ASSUME AInv, NEW w \in Workers, stack[w] # <<>>, SetStack(w, Pop(w))
  PROVE  /\ \A v \in Workers : v # w => Frames(v)' = Frames(v)
         /\ \A f \in Frames(w)' : f \in Frames(w) /\ ~Alike(f, Top(w))
         /\ \A f \in Frames(w) : f \in Frames(w)' \/ f = Top(w)
<1>1. /\ Pop(w) \in Seq(FrameSet) /\ Stacked(Pop(w))
      /\ \A f \in ToSet(Pop(w)) : f \in Frames(w) /\ ~Alike(f, Top(w))
      /\ \A f \in Frames(w) : f \in ToSet(Pop(w)) \/ f = Top(w)
  BY PopFacts
<1>2. /\ Frames(w)' = ToSet(Pop(w))
      /\ \A v \in Workers : v # w => Frames(v)' = Frames(v)
  BY <1>1, StackChange
<1> QED
  BY <1>1, <1>2

LEMMA BecomeEffect ==
  ASSUME AInv, NEW w \in Workers, stack[w] # <<>>, Owning(Top(w)), Top(w).cmd \in Cmds,
         NEW f \in FrameSet, f.kind = "reply", f.cmd = Top(w).cmd, SetStack(w, Become(w, f))
  PROVE  /\ \A v \in Workers : v # w => Frames(v)' = Frames(v)
         /\ \A g \in Frames(w)' : (g \in Frames(w) /\ ~Alike(g, Top(w))) \/ g = f
         /\ \A g \in Frames(w) : g \in Frames(w)' \/ g = Top(w)
         /\ f \in Frames(w)'
<1>1. /\ \A g \in ToSet(Pop(w)) : g \in Frames(w) /\ ~Alike(g, Top(w))
      /\ \A g \in Frames(w) : g \in ToSet(Pop(w)) \/ g = Top(w)
  BY PopFacts
<1>2. /\ Become(w, f) \in Seq(FrameSet) /\ Stacked(Become(w, f))
      /\ ToSet(Become(w, f)) = ToSet(Pop(w)) \cup {f}
  BY BecomeFacts
<1>3. /\ Frames(w)' = ToSet(Become(w, f))
      /\ \A v \in Workers : v # w => Frames(v)' = Frames(v)
  BY <1>2, StackChange
<1> QED
  BY <1>1, <1>2, <1>3

(* The handler returns a result: the command is replied.                   *)
LEMMA ReturnMoves ==
  ASSUME CInv, AInv', NEW w \in Workers, HandlerReturns(w)
  PROVE  /\ UNCHANGED exeReady
         /\ \E c \in Cmds : /\ Moving(c) /\ result[c] = "none"
                            /\ result' = [result EXCEPT ![c] = "done"]
<1>1. PICK c \in Cmds : /\ stack[w] # <<>> /\ Top(w).kind = "exec" /\ Top(w).cmd = c
                        /\ result' = [result EXCEPT ![c] = "done"]
                        /\ SetStack(w, Become(w, Frame("reply", c)))
                        /\ UNCHANGED <<used, callers, exeReady, queues, held, lives>>
  BY DEF HandlerReturns, Running, TopIs
<1>2. PICK x \in FrameSet : /\ x = Frame("reply", c) /\ x.cmd = c /\ x.kind = "reply"
                            /\ x.rec = NoRec
  BY FrameFacts
<1>3. AInv /\ Top(w) \in Frames(w)
  BY <1>1, CallAssumption, CParts, TopCommand
<1>4. /\ \A v \in Workers : v # w => Frames(v)' = Frames(v)
      /\ \A g \in Frames(w)' : g \in Frames(w) \/ g = x
      /\ \A g \in Frames(w) : g \in Frames(w)' \/ g = Top(w)
      /\ x \in Frames(w)'
  BY <1>1, <1>2, <1>3, BecomeEffect DEF Owning
<1>5. OnlyAbout({c})
  BY <1>1, <1>2, <1>4 DEF OnlyAbout, queues, lives, AllNormal, AInv, TypeOK
<1>6. RecordsSame(c)
  <2>1. ASSUME NEW v \in Workers
        PROVE  /\ \A r \in Recs : Taken(v, c, r)' <=> Taken(v, c, r)
               /\ Waits(v, c)' <=> Waits(v, c)
               /\ Assigned(v, c)' <=> Assigned(v, c)
    BY <1>1, <1>2, <1>4, CallAssumption DEF Taken, Waits, Assigned, queues, Recs
  <2> QED
    BY <1>1, <2>1 DEF RecordsSame
<1>7. Handling(w, c) /\ result[c] = "none" /\ Replying(w, c)' /\ result'[c] = "done"
  <2>1. Handling(w, c) /\ Replying(w, c)'
    BY <1>1, <1>2, <1>3, <1>4 DEF Handling, Replying
  <2> QED
    BY <1>1, <2>1, CParts DEF ResultGiven, AInv, TypeOK
<1>8. CallRight(c)'
  BY <1>6, <1>7, CParts, RightMoves
<1> QED
  BY <1>1, <1>5, <1>6, <1>7, <1>8 DEF Moving

(* It keeps the command ...                                                *)
LEMMA KeepsMoves ==
  ASSUME CInv, AInv', NEW w \in Workers, HandlerKeeps(w)
  PROVE  UNCHANGED <<exeReady, result>> /\ \E c \in Cmds : Moving(c)
<1>1. PICK c \in Cmds : /\ stack[w] # <<>> /\ Top(w).kind = "exec" /\ Top(w).cmd = c
                        /\ held' = [held EXCEPT ![w] = @ \cup {c}]
                        /\ SetStack(w, Pop(w)) /\ UNCHANGED <<calls, queues, lives>>
  BY DEF HandlerKeeps, Running, TopIs
<1>2. AInv /\ Top(w) \in Frames(w)
  BY <1>1, CallAssumption, CParts, TopCommand
<1>3. /\ \A v \in Workers : v # w => Frames(v)' = Frames(v)
      /\ \A g \in Frames(w)' : g \in Frames(w)
      /\ \A g \in Frames(w) : g \in Frames(w)' \/ g = Top(w)
  BY <1>1, <1>2, PopEffect
<1>4. /\ UNCHANGED <<callers, exeReady, result, cmds, lives>>
      /\ \A v \in Workers : v # w => held'[v] = held[v]
      /\ held'[w] = held[w] \cup {c}
  BY <1>1, <1>2, Parts DEF queues, calls
<1>5. OnlyAbout({c})
  BY <1>1, <1>3, <1>4 DEF OnlyAbout, lives, AllNormal
<1>6. RecordsSame(c)
  <2>1. ASSUME NEW v \in Workers
        PROVE  /\ \A r \in Recs : Taken(v, c, r)' <=> Taken(v, c, r)
               /\ Waits(v, c)' <=> Waits(v, c)
               /\ Assigned(v, c)' <=> Assigned(v, c)
    BY <1>1, <1>3, <1>4 DEF Taken, Waits, Assigned
  <2> QED
    BY <1>4, <2>1 DEF RecordsSame
<1>7. Handling(w, c) /\ Handling(w, c)' /\ result'[c] = "none"
  <2>1. Handling(w, c) /\ Handling(w, c)'
    BY <1>1, <1>2, <1>4 DEF Handling
  <2> QED
    BY <1>4, <2>1, CParts DEF ResultGiven
<1>8. CallRight(c)'
  BY <1>6, <1>7, CParts, RightMoves
<1> QED
  BY <1>4, <1>5, <1>6, <1>8 DEF Moving

(* ... and answers it later.                                               *)
LEMMA KeptMoves ==
  ASSUME CInv, AInv', NEW w \in Workers, KeptIsAnswered(w)
  PROVE  /\ UNCHANGED exeReady
         /\ \E c \in Cmds : /\ Moving(c) /\ result[c] = "none"
                            /\ result' = [result EXCEPT ![c] = "done"]
<1>1. PICK c \in held[w] :
    /\ held' = [held EXCEPT ![w] = @ \ {c}]
    /\ result' = [result EXCEPT ![c] = "done"]
    /\ SetStack(w, stack[w] \o <<Frame("event", NoCmd), Frame("reply", c)>>)
    /\ UNCHANGED <<used, callers, exeReady, queues, lives>>
  BY DEF KeptIsAnswered
<1>2. AInv /\ c \in Cmds
  BY <1>1, CParts, Parts
<1>3. ~Framed(w, c)
  BY <1>1, <1>2, OwnerAlone DEF Kept
<1>4. PICK x, y : /\ x = Frame("reply", c) /\ x.cmd = c /\ x.kind = "reply" /\ x.rec = NoRec
                  /\ y = Frame("event", NoCmd) /\ y.cmd = NoCmd /\ y.kind = "event"
  BY <1>2, FrameFacts
<1>5. /\ \A v \in Workers : v # w => Frames(v)' = Frames(v)
      /\ \A f \in Frames(w)' : f \in Frames(w) \/ f = y \/ f = x
      /\ \A f \in Frames(w) : f \in Frames(w)'
      /\ x \in Frames(w)'
  BY <1>1, <1>2, <1>3, <1>4, ReplyPushed
<1>6. /\ UNCHANGED <<callers, exeReady, cmds, lives>>
      /\ \A v \in Workers : v # w => held'[v] = held[v]
      /\ held'[w] = held[w] \ {c}
  BY <1>1, <1>2, Parts DEF queues
<1>7. OnlyAbout({c})
  BY <1>1, <1>4, <1>5, <1>6 DEF OnlyAbout, lives, AllNormal
<1>8. RecordsSame(c)
  <2>1. ASSUME NEW v \in Workers
        PROVE  /\ \A r \in Recs : Taken(v, c, r)' <=> Taken(v, c, r)
               /\ Waits(v, c)' <=> Waits(v, c)
               /\ Assigned(v, c)' <=> Assigned(v, c)
    BY <1>4, <1>5, <1>6, CallAssumption DEF Taken, Waits, Assigned, Recs
  <2> QED
    BY <1>6, <2>1 DEF RecordsSame
<1>9. Handling(w, c) /\ result[c] = "none" /\ Replying(w, c)' /\ result'[c] = "done"
  <2>1. Handling(w, c) /\ Replying(w, c)'
    BY <1>1, <1>4, <1>5 DEF Handling, Replying
  <2> QED
    BY <1>1, <1>2, <2>1, CParts DEF ResultGiven, AInv, TypeOK
<1>10. CallRight(c)'
  BY <1>2, <1>8, <1>9, CParts, RightMoves
<1> QED
  BY <1>1, <1>2, <1>6, <1>7, <1>8, <1>9, <1>10 DEF Moving

(* The event of a reply takes its entry.                                   *)
LEMMA ReplyEventMoves ==
  ASSUME CInv, AInv', NEW w \in Workers, ReplyEvent(w)
  PROVE  UNCHANGED <<exeReady, result>> /\ \E c \in Cmds : Moving(c)
<1>1. AInv /\ UNCHANGED <<calls, held, lives>>
  BY CParts DEF ReplyEvent
<1>2. PICK c \in Cmds :
    /\ Entry(c, "reply") \in ToSet(cmds[w])
    /\ SetStack(w, stack[w] \o <<Frame("event", NoCmd), Frame("reply", c)>>)
    /\ ToSet(cmds'[w]) = ToSet(cmds[w]) \ {Entry(c, "reply")}
    /\ \A v \in Workers : v # w => cmds'[v] = cmds[v]
  BY <1>1, ReplyEventEffect
<1>3. PICK n, x, y : /\ n = Entry(c, "reply") /\ n.cmd = c /\ n.kind = "reply"
                     /\ x = Frame("reply", c) /\ x.cmd = c /\ x.kind = "reply" /\ x.rec = NoRec
                     /\ y = Frame("event", NoCmd) /\ y.cmd = NoCmd /\ y.kind = "event"
  BY EntryFacts, FrameFacts
<1>4. Replying(w, c) /\ ~Framed(w, c)
  <2>1. Queued(w, c) /\ Replying(w, c)
    BY <1>2, <1>3 DEF Queued, Replying
  <2> QED
    BY <1>1, <2>1, OwnerAlone
<1>5. /\ \A v \in Workers : v # w => Frames(v)' = Frames(v)
      /\ \A f \in Frames(w)' : f \in Frames(w) \/ f = y \/ f = x
      /\ \A f \in Frames(w) : f \in Frames(w)'
      /\ x \in Frames(w)'
  BY <1>1, <1>2, <1>3, <1>4, ReplyPushed
<1>6. /\ \A v \in Workers : \A e \in ToSet(cmds'[v]) : e \in ToSet(cmds[v])
      /\ \A v \in Workers : \A e \in ToSet(cmds[v]) : e \in ToSet(cmds'[v]) \/ e = n
  BY <1>2, <1>3
<1>7. OnlyAbout({c})
  BY <1>1, <1>3, <1>5, <1>6 DEF OnlyAbout, calls, lives, AllNormal
<1>8. RecordsSame(c)
  <2>1. ASSUME NEW v \in Workers
        PROVE  /\ \A r \in Recs : Taken(v, c, r)' <=> Taken(v, c, r)
               /\ Waits(v, c)' <=> Waits(v, c)
               /\ Assigned(v, c)' <=> Assigned(v, c)
    BY <1>3, <1>5, <1>6, CallAssumption DEF Taken, Waits, Assigned, Recs
  <2> QED
    BY <1>1, <2>1 DEF RecordsSame, calls
<1>9. Replying(w, c)' /\ result'[c] # "none" /\ UNCHANGED <<exeReady, result>>
  <2>1. Replying(w, c)'
    BY <1>3, <1>5 DEF Replying
  <2> QED
    BY <1>1, <1>4, <2>1, CParts DEF ResultGiven, calls
<1>10. CallRight(c)'
  BY <1>8, <1>9, CParts, RightMoves
<1> QED
  BY <1>7, <1>8, <1>9, <1>10 DEF Moving

(* The steps that are about no command.                                    *)
LEMMA QuietSteps ==
  ASSUME CInv, NEW w \in Workers,
         \/ UserEvent(w) \/ EventDone(w) \/ UserHandlerReturns(w) \/ DestroyAsked(w) \/ Halt(w)
  PROVE  OnlyAbout({}) /\ UNCHANGED <<exeReady, result>>
<1>1. AInv
  BY CParts
<1>2. CASE DestroyAsked(w) \/ Halt(w)
  <2>1. UNCHANGED <<calls, queues, stack, held>>
    BY <1>2 DEF DestroyAsked, Halt
  <2>2. \A v \in Workers : Frames(v)' = Frames(v)
    BY <2>1 DEF Frames
  <2>3. AllNormal' => AllNormal
    <3>1. life[w] \in {"normal", "asked"} /\ life' = [life EXCEPT ![w] = life'[w]]
          /\ life'[w] # "normal"
      BY <1>1, <1>2 DEF DestroyAsked, Halt, AInv, TypeOK
    <3> QED
      BY <3>1 DEF AllNormal
  <2> QED
    BY <2>1, <2>2, <2>3 DEF OnlyAbout, calls, queues
<1>3. CASE EventDone(w) \/ UserHandlerReturns(w)
  <2>1. /\ stack[w] # <<>> /\ SetStack(w, Pop(w)) /\ UNCHANGED <<calls, queues, held, lives>>
        /\ Top(w).kind = "event" \/ Top(w).cmd = NoCmd
    BY <1>3 DEF EventDone, UserHandlerReturns, Running, TopIs
  <2>2. /\ \A v \in Workers : v # w => Frames(v)' = Frames(v)
        /\ \A g \in Frames(w)' : g \in Frames(w)
        /\ \A g \in Frames(w) : g \in Frames(w)' \/ g = Top(w)
    BY <1>1, <2>1, PopEffect
  <2> QED
    BY <2>1, <2>2, CallAssumption DEF OnlyAbout, calls, queues, lives, AllNormal
<1>4. CASE UserEvent(w)
  <2>1. PICK x, y : /\ x = Frame("exec", NoCmd) /\ x.cmd = NoCmd /\ x.kind = "exec"
                    /\ y = Frame("event", NoCmd) /\ y.cmd = NoCmd /\ y.kind = "event"
    BY FrameFacts
  <2>2. stack[w] = <<>> /\ SetStack(w, <<y, x>>) /\ UNCHANGED <<calls, queues, held, lives>>
    BY <1>4, <2>1 DEF UserEvent
  <2>3. /\ \A v \in Workers : v # w => Frames(v)' = Frames(v)
        /\ stack'[w] = <<y, x>>
    BY <1>1, <2>2, Parts DEF SetStack, Frames
  <2>4. \A f \in Frames(w)' : f = x \/ f = y
    BY <2>3 DEF Frames, ToSet
  <2>5. \A f \in Frames(w) : FALSE
    BY <2>2 DEF Frames, ToSet
  <2> QED
    BY <2>1, <2>2, <2>3, <2>4, <2>5, CallAssumption DEF OnlyAbout, calls, queues, lives, AllNormal
<1> QED
  BY <1>2, <1>3, <1>4

(* A synchronous call returns: its frame goes, and it was the only one.    *)
Returning(w, c) ==
  /\ OnlyAbout({c}) /\ Waits(w, c) /\ \A v \in Workers : ~Waits(v, c)'

LEMMA WaitEnds ==
  ASSUME AInv, AInv', NEW w \in Workers, stack[w] # <<>>, Top(w).kind = "wait",
         SetStack(w, Pop(w)), UNCHANGED <<exeReady, result, queues, held, lives>>,
         NEW c, c = Top(w).cmd, \A x \in Cmds : x # c => callers'[x] = callers[x]
  PROVE  /\ c \in Cmds /\ Returning(w, c)
         /\ \A v \in Workers : Handling(v, c)' <=> Handling(v, c)
         /\ \A v \in Workers : Replying(v, c)' <=> Replying(v, c)
         /\ \A v \in Workers : Assigned(v, c)' <=> Assigned(v, c)
         /\ \A v \in Workers : \A r : Taken(v, c, r)' <=> Taken(v, c, r)
<1>1. c \in Cmds /\ Top(w) \in Frames(w) /\ c # NoCmd
  BY TopCommand, CallAssumption
<1>2. /\ \A v \in Workers : v # w => Frames(v)' = Frames(v)
      /\ \A g \in Frames(w)' : g \in Frames(w) /\ ~Alike(g, Top(w))
      /\ \A g \in Frames(w) : g \in Frames(w)' \/ g = Top(w)
  BY PopEffect
<1>3. OnlyAbout({c})
  BY <1>1, <1>2 DEF OnlyAbout, queues, lives, AllNormal
<1>4. Waits(w, c)
  BY <1>1 DEF Waits
<1>5. ASSUME NEW v \in Workers PROVE ~Waits(v, c)'
  <2>1. CASE v = w
    BY <1>1, <1>2, <2>1 DEF Waits, Alike
  <2>2. CASE v # w
    <3>1. ~Waits(v, c)
      BY <1>1, <1>4, <2>2 DEF AInv, OneCaller
    <3> QED
      BY <1>2, <2>2, <3>1 DEF Waits
  <2> QED
    BY <2>1, <2>2
<1>6. ASSUME NEW v \in Workers
      PROVE  /\ Handling(v, c)' <=> Handling(v, c)
             /\ Replying(v, c)' <=> Replying(v, c)
             /\ Assigned(v, c)' <=> Assigned(v, c)
             /\ \A r : Taken(v, c, r)' <=> Taken(v, c, r)
  BY <1>2 DEF Handling, Replying, Assigned, Taken, queues
<1> QED
  BY <1>1, <1>3, <1>4, <1>5, <1>6 DEF Returning

LEMMA RecordRemoved ==
  ASSUME NEW s \in Seq(Recs), Len(s) <= 1, NEW r, NEW t, t = RemoveFirst(s, r)
  PROVE  (s = <<r>> => t = <<>>) /\ (s # <<r>> => t = s)
<1>1. CASE s = <<r>>
  BY <1>1, RemovedRecs
<1>2. CASE s # <<r>>
  <2>1. ~(\E i \in 1..Len(s) : s[i] = r)
    <3> SUFFICES ASSUME NEW i \in 1..Len(s), s[i] = r PROVE FALSE
      OBVIOUS
    <3>1. i = 1 /\ Len(s) = 1
      <4>1. PICK n \in Nat : n = Len(s) /\ n <= 1 /\ i \in 1..n
        OBVIOUS
      <4> QED
        BY <4>1
    <3>2. s = <<r>>
      BY <3>1
    <3> QED
      BY <1>2, <3>2
  <2> QED
    BY <1>2, <2>1 DEF RemoveFirst
<1> QED
  BY <1>1, <1>2

LEMMA OneElement ==
  ASSUME NEW r, NEW q
  PROVE  /\ <<r>> # <<>> /\ (<<r>> = <<q>> => r = q)
         /\ Len(<<>>) = 0 /\ Len(<<r>>) = 1
OBVIOUS

LEMMA SingleRecord ==
  ASSUME NEW s \in Seq(Recs), s # <<>>, Len(s) <= 1
  PROVE  \E r \in Recs : r = Last(s) /\ s = <<r>> /\ Front(s) = <<>>
<1>1. PICK n \in Nat \ {0} : n = Len(s) /\ n <= 1
  BY FrontMembers
<1>2. Len(s) = 1
  BY <1>1
<1> QED
  BY <1>2, FrontMembers DEF Last, Front

LEMMA ReturnRight ==
  ASSUME CInv, AInv', NEW w \in Workers, SyncCallReturns(w)
  PROVE  /\ UNCHANGED <<exeReady, result>>
         /\ \E c \in Cmds : Returning(w, c) /\ CallRight(c)' /\ exeReady[c]
<1>1. PICK c : c = Top(w).cmd
  OBVIOUS
<1>2. /\ AInv /\ stack[w] # <<>> /\ Top(w).kind = "wait" /\ exeReady[c] /\ SetStack(w, Pop(w))
      /\ UNCHANGED <<callers, exeReady, result, queues, held, lives>>
  BY <1>1, CParts DEF SyncCallReturns, TopIs, calls
<1>3. /\ c \in Cmds /\ Returning(w, c)
      /\ \A v \in Workers : Handling(v, c)' <=> Handling(v, c)
      /\ \A v \in Workers : Replying(v, c)' <=> Replying(v, c)
      /\ \A v \in Workers : Assigned(v, c)' <=> Assigned(v, c)
      /\ \A v \in Workers : \A r : Taken(v, c, r)' <=> Taken(v, c, r)
  BY <1>1, <1>2, WaitEnds
<1>4. CallRight(c) /\ ResultGiven(c) /\ OneRecord(c) /\ AwaitedIsKnown(c)
  BY <1>3, CParts
<1>5. /\ callers'[c] = callers[c] /\ exeReady'[c] = exeReady[c] /\ result'[c] = result[c]
      /\ callers[c] = <<>>
  BY <1>2, <1>4 DEF OneRecord
<1>6. \A r : Known(c, r)' <=> Known(c, r)
  BY <1>3, <1>5 DEF Known
<1>7. ResultGiven(c)' /\ OneRecord(c)'
  BY <1>3, <1>4, <1>5 DEF ResultGiven, OneRecord
<1>8. AwaitedIsKnown(c)'
  BY <1>3, <1>4, <1>6 DEF AwaitedIsKnown, Returning
<1>9. KnownAwaits(c)'
  <2> SUFFICES ASSUME NEW v \in Workers, Known(c, Rec(v, TRUE)) PROVE FALSE
    BY <1>6 DEF KnownAwaits
  <2>1. PICK r \in Recs : r = Rec(v, TRUE) /\ Known(c, r)
    BY RecFacts
  <2>2. \A u \in Workers : ~Taken(u, c, r)
    BY <1>2, <1>4 DEF OneRecord
  <2> QED
    BY <1>5, <2>1, <2>2, OneElement DEF Known
<1>10. Carried(c)'
  BY <1>5 DEF Carried
<1> QED
  BY <1>2, <1>3, <1>7, <1>8, <1>9, <1>10 DEF CallRight

(* ... or gives up, and takes its record away if that is still there.      *)
LEMMA TimeoutRight ==
  ASSUME CInv, AInv', NEW w \in Workers, SyncCallTimesOut(w)
  PROVE  /\ UNCHANGED <<exeReady, result>>
         /\ \E c \in Cmds : Returning(w, c) /\ CallRight(c)' /\ c \in Timed
<1>1. PICK c : c = Top(w).cmd
  OBVIOUS
<1>2. /\ AInv /\ stack[w] # <<>> /\ Top(w).kind = "wait" /\ c \in Timed /\ SetStack(w, Pop(w))
      /\ callers' = [callers EXCEPT ![c] = RemoveFirst(callers[c], Rec(w, TRUE))]
      /\ UNCHANGED <<exeReady, result, queues, held, lives>>
  BY <1>1, CParts DEF SyncCallTimesOut, TopIs
<1>3. c \in Cmds
  BY <1>1, <1>2, TopCommand
<1>4. PICK r, t : /\ r \in Recs /\ r = Rec(w, TRUE) /\ r.sync /\ t = RemoveFirst(callers[c], r)
                           /\ \A v \in Workers : Rec(v, FALSE) # r
  BY RecFacts
<1>5. callers'[c] = t /\ \A x \in Cmds : x # c => callers'[x] = callers[x]
  BY <1>2, <1>3, <1>4 DEF AInv, TypeOK
<1>6. /\ Returning(w, c)
      /\ \A v \in Workers : Handling(v, c)' <=> Handling(v, c)
      /\ \A v \in Workers : Replying(v, c)' <=> Replying(v, c)
      /\ \A v \in Workers : Assigned(v, c)' <=> Assigned(v, c)
      /\ \A v \in Workers : \A q : Taken(v, c, q)' <=> Taken(v, c, q)
  BY <1>1, <1>2, <1>5, WaitEnds
<1>7. CallRight(c) /\ ResultGiven(c) /\ OneRecord(c) /\ AwaitedIsKnown(c)
  BY <1>3, CParts
<1>8. /\ callers[c] = <<r>> => t = <<>>
      /\ callers[c] # <<r>> => t = callers[c]
      /\ Len(<<>>) <= 1
  <2>1. callers[c] \in Seq(Recs) /\ Len(callers[c]) <= 1 /\ t = RemoveFirst(callers[c], r)
    BY <1>3, <1>4, <1>7, CParts DEF OneRecord
  <2>2. (callers[c] = <<r>> => t = <<>>) /\ (callers[c] # <<r>> => t = callers[c])
    BY <2>1, RecordRemoved
  <2> QED
    BY <2>2
<1>9. exeReady'[c] = exeReady[c] /\ result'[c] = result[c]
  BY <1>2
<1>10. ResultGiven(c)' /\ OneRecord(c)'
  <2>1. ResultGiven(c)'
    BY <1>6, <1>7, <1>9 DEF ResultGiven
  <2>2. Len(callers'[c]) <= 1 /\ (callers[c] = <<>> => callers'[c] = <<>>)
    BY <1>5, <1>7, <1>8 DEF OneRecord
  <2> QED
    BY <1>6, <1>7, <1>9, <2>1, <2>2 DEF OneRecord
<1>11. ASSUME NEW v \in Workers, Known(c, Rec(v, FALSE)) PROVE Known(c, Rec(v, FALSE))'
  <2>1. PICK q : q = Rec(v, FALSE) /\ q # r /\ Known(c, q)
    BY <1>4, <1>11
  <2>2. callers[c] = <<q>> => callers[c] # <<r>>
    BY <2>1, OneElement
  <2>3. callers[c] = <<q>> => callers'[c] = <<q>>
    BY <1>5, <1>8, <2>2
  <2> QED
    BY <1>6, <2>1, <2>3 DEF Known
<1>12. AwaitedIsKnown(c)'
  BY <1>6, <1>7, <1>11 DEF AwaitedIsKnown, Returning
<1>13. KnownAwaits(c)'
  BY <1>2 DEF KnownAwaits
<1>14. (AllNormal => Carried(c))'
  <2>1. callers'[c] # <<>> => callers[c] # <<>>
    BY <1>5, <1>8
  <2>2. AllNormal' => AllNormal
    BY <1>2 DEF AllNormal, lives
  <2> QED
    BY <1>6, <1>7, <2>1, <2>2 DEF Carried, CallRight
<1> QED
  BY <1>2, <1>3, <1>6, <1>10, <1>12, <1>13, <1>14 DEF CallRight

(* Reply takes the record ...                                              *)
LEMMA TakeRight ==
  ASSUME CInv, AInv', NEW w \in Workers, ReplyTakes(w)
  PROVE  /\ UNCHANGED <<exeReady, result>>
         /\ \E c \in Cmds : /\ OnlyAbout({c}) /\ CallRight(c)'
                            /\ \A v \in Workers : Waits(v, c)' <=> Waits(v, c)
<1>1. PICK c : c = Top(w).cmd
  OBVIOUS
<1>2. /\ AInv /\ stack[w] # <<>> /\ Top(w).kind = "reply" /\ Top(w).rec = NoRec
      /\ UNCHANGED <<exeReady, result, queues, held, lives>>
      /\ \/ callers[c] = <<>> /\ SetStack(w, Pop(w)) /\ UNCHANGED callers
         \/ /\ callers[c] # <<>>
            /\ SetStack(w, Become(w, [Top(w) EXCEPT !.rec = Last(callers[c])]))
            /\ callers' = [callers EXCEPT ![c] = Front(callers[c])]
  BY <1>1, CParts DEF ReplyTakes, TopIs
<1>3. c \in Cmds /\ Top(w) \in Frames(w) /\ Top(w) \in FrameSet
  BY <1>1, <1>2, TopCommand
<1>4. /\ CallRight(c) /\ ResultGiven(c) /\ OneRecord(c) /\ AwaitedIsKnown(c) /\ KnownAwaits(c)
      /\ callers[c] \in Seq(Recs)
  BY <1>3, CParts
<1>5. Replying(w, c) /\ result[c] # "none"
  <2>1. Replying(w, c)
    BY <1>1, <1>2, <1>3 DEF Replying
  <2> QED
    BY <1>4, <2>1 DEF ResultGiven
<1>6. CASE callers[c] = <<>> /\ SetStack(w, Pop(w)) /\ UNCHANGED callers
  <2>1. /\ \A v \in Workers : v # w => Frames(v)' = Frames(v)
        /\ \A g \in Frames(w)' : g \in Frames(w)
        /\ \A g \in Frames(w) : g \in Frames(w)' \/ g = Top(w)
    BY <1>2, <1>6, PopEffect
  <2>2. OnlyAbout({c})
    BY <1>1, <1>2, <1>6, <2>1 DEF OnlyAbout, queues, lives, AllNormal
  <2>3. RecordsSame(c)
    <3>1. ASSUME NEW v \in Workers
          PROVE  /\ \A r \in Recs : Taken(v, c, r)' <=> Taken(v, c, r)
                 /\ Waits(v, c)' <=> Waits(v, c)
                 /\ Assigned(v, c)' <=> Assigned(v, c)
      BY <1>2, <2>1, CallAssumption DEF Taken, Waits, Assigned, queues, Recs
    <3> QED
      BY <1>2, <1>6, <3>1 DEF RecordsSame
  <2>4. ResultGiven(c)'
    <3>1. \A v \in Workers : (Handling(v, c)' => Handling(v, c)) /\ (Replying(v, c)' => Replying(v, c))
      BY <1>2, <2>1 DEF Handling, Replying, queues
    <3> QED
      BY <1>2, <1>4, <3>1 DEF ResultGiven
  <2>5. Carried(c)'
    BY <1>6 DEF Carried
  <2>6. CallRight(c)'
    BY <1>3, <1>4, <2>3, <2>4, <2>5, SameRecords DEF CallRight
  <2> QED
    BY <1>2, <1>3, <2>2, <2>3, <2>6 DEF RecordsSame
<1>7. CASE /\ callers[c] # <<>>
           /\ SetStack(w, Become(w, [Top(w) EXCEPT !.rec = Last(callers[c])]))
           /\ callers' = [callers EXCEPT ![c] = Front(callers[c])]
  <2>1. PICK r \in Recs : r = Last(callers[c]) /\ callers[c] = <<r>> /\ Front(callers[c]) = <<>>
    BY <1>4, <1>7, SingleRecord DEF OneRecord
  <2>2. PICK x \in FrameSet : /\ x = [Top(w) EXCEPT !.rec = r]
                              /\ x.kind = "reply" /\ x.cmd = c /\ x.rec = r
    BY <1>1, <1>2, <1>3, <2>1 DEF FrameSet
  <2>3. /\ \A v \in Workers : v # w => Frames(v)' = Frames(v)
        /\ \A g \in Frames(w)' : (g \in Frames(w) /\ ~Alike(g, Top(w))) \/ g = x
        /\ \A g \in Frames(w) : g \in Frames(w)' \/ g = Top(w)
        /\ x \in Frames(w)'
    BY <1>1, <1>2, <1>3, <1>7, <2>1, <2>2, BecomeEffect DEF Owning
  <2>4. callers'[c] = <<>> /\ \A y \in Cmds : y # c => callers'[y] = callers[y]
    BY <1>2, <1>3, <1>7, <2>1 DEF AInv, TypeOK
  <2>5. OnlyAbout({c})
    BY <1>1, <1>2, <2>2, <2>3, <2>4 DEF OnlyAbout, queues, lives, AllNormal
  <2>6. /\ ~exeReady[c] /\ \A v \in Workers : \A q \in Recs : ~Taken(v, c, q)
    BY <1>4, <1>7 DEF OneRecord
  <2>7. \A v \in Workers : \A q \in Recs : Taken(v, c, q)' <=> v = w /\ q = r
    <3>1. ASSUME NEW v \in Workers, NEW q \in Recs, Taken(v, c, q)' PROVE v = w /\ q = r
      <4>1. PICK f \in Frames(v)' : f.cmd = c /\ f.kind = "reply" /\ f.rec = q
        BY <3>1 DEF Taken
      <4>2. f \notin Frames(v)
        BY <2>6, <4>1 DEF Taken
      <4> QED
        BY <2>2, <2>3, <4>1, <4>2
    <3>2. Taken(w, c, r)'
      BY <2>2, <2>3 DEF Taken
    <3> QED
      BY <3>1, <3>2
  <2>8. ASSUME NEW q \in Recs PROVE Known(c, q)' <=> Known(c, q)
    <3>1. Known(c, q) <=> q = r
      BY <2>1, <2>6 DEF Known
    <3>2. Known(c, q)' <=> q = r
      BY <2>4, <2>7 DEF Known
    <3> QED
      BY <3>1, <3>2
  <2>9. ASSUME NEW v \in Workers
        PROVE  (Waits(v, c)' <=> Waits(v, c)) /\ (Assigned(v, c)' <=> Assigned(v, c))
    BY <1>2, <2>2, <2>3 DEF Waits, Assigned, queues
  <2>10. Replying(w, c)' /\ result'[c] # "none" /\ exeReady'[c] = exeReady[c]
    BY <1>2, <1>5, <2>2, <2>3 DEF Replying
  <2>11. ResultGiven(c)' /\ Carried(c)'
    BY <1>3, <2>10, ResultMoves
  <2>12. OneRecord(c)'
    <3>1. Len(<<>>) <= 1
      OBVIOUS
    <3> QED
      BY <2>4, <2>6, <2>10, <3>1 DEF OneRecord
  <2>13. AwaitedIsKnown(c)' /\ KnownAwaits(c)'
    BY <1>4, <2>8, <2>9, <2>10, RecFacts DEF AwaitedIsKnown, KnownAwaits
  <2>14. CallRight(c)'
    BY <2>11, <2>12, <2>13 DEF CallRight
  <2> QED
    BY <1>2, <1>3, <2>5, <2>9, <2>14
<1> QED
  BY <1>2, <1>6, <1>7

(* ... and hands the command to the caller.  The record it took is the     *)
(* only one, so nobody else waits.                                         *)
LEMMA DeliverKnown ==
  ASSUME CInv, NEW w \in Workers, stack[w] # <<>>, Top(w).kind = "reply",
         NEW c, c = Top(w).cmd, NEW r \in Recs, r = Top(w).rec
  PROVE  /\ c \in Cmds /\ callers[c] = <<>> /\ ~exeReady[c] /\ result[c] # "none"
         /\ \A v \in Workers : ~Handling(v, c)
         /\ \A v \in Workers : \A f \in Frames(v) : f.cmd = c /\ f.kind = "reply" => v = w /\ f = Top(w)
         /\ \A v \in Workers : Waits(v, c) => r = Rec(v, TRUE)
         /\ \A v \in Workers : Assigned(v, c) => r = Rec(v, FALSE)
<1>1. AInv /\ c \in Cmds /\ Top(w) \in Frames(w) /\ c # NoCmd
  BY TopCommand, CParts, CallAssumption
<1>2. ResultGiven(c) /\ OneRecord(c) /\ AwaitedIsKnown(c)
  BY <1>1, CParts
<1>3. Replying(w, c) /\ Taken(w, c, r) /\ Framed(w, c)
  BY <1>1 DEF Replying, Taken, Framed
<1>4. callers[c] = <<>> /\ ~exeReady[c] /\ result[c] # "none"
  BY <1>2, <1>3 DEF OneRecord, ResultGiven
<1>5. \A v \in Workers : ~Handling(v, c)
  BY <1>1, <1>3, HandledOrReplied
<1>6. ASSUME NEW v \in Workers, NEW f \in Frames(v), f.cmd = c, f.kind = "reply"
      PROVE  v = w /\ f = Top(w)
  <2>1. Framed(v, c)
    BY <1>6 DEF Framed
  <2>2. v = w
    BY <1>1, <1>3, <2>1, OwnerAlone
  <2>3. Alike(f, Top(w))
    BY <1>1, <1>6 DEF Alike, Owning
  <2> QED
    BY <1>1, <2>2, <2>3, OneFrameOf
<1>7. ASSUME NEW q, Known(c, q) PROVE q = r
  BY <1>4, <1>6, <1>7, OneElement DEF Known, Taken
<1>8. \A v \in Workers : Waits(v, c) => r = Rec(v, TRUE)
  BY <1>2, <1>4, <1>7 DEF AwaitedIsKnown
<1>9. \A v \in Workers : Assigned(v, c) => r = Rec(v, FALSE)
  BY <1>2, <1>7 DEF AwaitedIsKnown
<1> QED
  BY <1>1, <1>4, <1>5, <1>6, <1>8, <1>9

(* Nobody is left to be answered.                                          *)
LEMMA NobodyLeft ==
  ASSUME NEW c \in Cmds, callers'[c] = <<>>, result'[c] # "none",
         \A v \in Workers : ~Handling(v, c)',
         \A v \in Workers : \A f \in Frames(v)' : f.cmd = c /\ f.kind = "reply" => f.rec = NoRec,
         \A v \in Workers : Waits(v, c)' => exeReady'[c],
         \A v \in Workers : ~Assigned(v, c)'
  PROVE  CallRight(c)'
<1>1. \A v \in Workers : \A r \in Recs : ~Taken(v, c, r)'
  BY CallAssumption DEF Taken, Recs
<1>2. Len(<<>>) <= 1
  OBVIOUS
<1>3. OneRecord(c)'
  BY <1>1, <1>2 DEF OneRecord
<1>4. ASSUME NEW r \in Recs PROVE ~Known(c, r)'
  BY <1>1, OneElement DEF Known
<1>5. AwaitedIsKnown(c)'
  BY DEF AwaitedIsKnown
<1>6. KnownAwaits(c)'
  BY <1>4, RecFacts DEF KnownAwaits
<1>7. ResultGiven(c)' /\ Carried(c)'
  BY DEF ResultGiven, Carried
<1> QED
  BY <1>3, <1>5, <1>6, <1>7 DEF CallRight

Delivering(w, c) ==
  /\ OnlyAbout({c}) /\ CallRight(c)' /\ UNCHANGED result
  /\ \A v \in Workers : Waits(v, c)' <=> Waits(v, c)
  /\ \/ UNCHANGED exeReady
     \/ result[c] # "none" /\ ~exeReady[c] /\ exeReady' = [exeReady EXCEPT ![c] = TRUE]

LEMMA DeliverRight ==
  ASSUME CInv, AInv', NEW w \in Workers, ReplyDelivers(w)
  PROVE  \E c \in Cmds : Delivering(w, c)
<1>1. PICK c, r : c = Top(w).cmd /\ r = Top(w).rec
  OBVIOUS
<1>2. AInv
  BY CParts
<1>3. /\ stack[w] # <<>> /\ Top(w).kind = "reply" /\ Owning(Top(w)) /\ r \in Recs
      /\ Top(w) \in Frames(w) /\ c \in Cmds
      /\ UNCHANGED <<callers, result, held, lives>>
      /\ \/ /\ r.sync /\ exeReady' = [exeReady EXCEPT ![c] = TRUE]
            /\ SetStack(w, Pop(w)) /\ UNCHANGED queues
         \/ /\ ~r.sync /\ active[r.worker]
            /\ cmds' = [cmds EXCEPT ![r.worker] = ChangeKind(r.worker, c)]
            /\ events' = [events EXCEPT ![r.worker] = Append(@, Entry(c, "reply"))]
            /\ SetStack(w, Pop(w)) /\ UNCHANGED exeReady
         \/ /\ ~r.sync /\ ~active[r.worker]
            /\ cmds' = [cmds EXCEPT ![r.worker] = Without(r.worker, c, "assign")]
            /\ SetStack(w, Become(w, Frame("reply", c)))
            /\ UNCHANGED <<events, exeReady>>
  BY <1>1, <1>2, DeliverFacts
<1>4. /\ callers[c] = <<>> /\ ~exeReady[c] /\ result[c] # "none"
      /\ \A v \in Workers : ~Handling(v, c)
      /\ \A v \in Workers : \A f \in Frames(v) : f.cmd = c /\ f.kind = "reply" => v = w /\ f = Top(w)
      /\ \A v \in Workers : Waits(v, c) => r = Rec(v, TRUE)
      /\ \A v \in Workers : Assigned(v, c) => r = Rec(v, FALSE)
  <2>1. stack[w] # <<>> /\ Top(w).kind = "reply" /\ c = Top(w).cmd /\ r \in Recs /\ r = Top(w).rec
    BY <1>1, <1>3
  <2>2. callers[c] = <<>> /\ ~exeReady[c] /\ result[c] # "none"
    BY <2>1, DeliverKnown
  <2>3. \A v \in Workers : ~Handling(v, c)
    BY <2>1, DeliverKnown
  <2>4. \A v \in Workers : \A f \in Frames(v) : f.cmd = c /\ f.kind = "reply" => v = w /\ f = Top(w)
    BY <2>1, DeliverKnown
  <2>5. \A v \in Workers : Waits(v, c) => r = Rec(v, TRUE)
    BY <2>1, DeliverKnown
  <2>6. \A v \in Workers : Assigned(v, c) => r = Rec(v, FALSE)
    BY <2>1, DeliverKnown
  <2> QED
    BY <2>2, <2>3, <2>4, <2>5, <2>6
<1>5. PICK d, a, b, x :
      /\ d \in Workers /\ d = r.worker /\ (~r.sync => r = Rec(d, FALSE)) /\ x \in FrameSet
      /\ a = Entry(c, "assign") /\ a.cmd = c /\ a.kind = "assign"
      /\ b = Entry(c, "reply") /\ b.cmd = c /\ b.kind = "reply"
      /\ x = Frame("reply", c) /\ x.cmd = c /\ x.kind = "reply" /\ x.rec = NoRec
  <2>1. r.worker \in Workers /\ (~r.sync => r = Rec(r.worker, FALSE))
    BY <1>3 DEF Recs, Rec
  <2>2. \E x : /\ x \in FrameSet
               /\ x = Frame("reply", c) /\ x.cmd = c /\ x.kind = "reply" /\ x.rec = NoRec
    BY <1>3, FrameFacts
  <2>3. \E a, b : /\ a = Entry(c, "assign") /\ a.cmd = c /\ a.kind = "assign"
                  /\ b = Entry(c, "reply") /\ b.cmd = c /\ b.kind = "reply"
    BY <1>3, EntryFacts
  <2> QED
    BY <2>1, <2>2, <2>3
<1>6. /\ \A v \in Workers : v # w => Frames(v)' = Frames(v)
      /\ \A g \in Frames(w)' : (g \in Frames(w) /\ ~Alike(g, Top(w))) \/ g = x
      /\ \A g \in Frames(w) : g \in Frames(w)' \/ g = Top(w)
  <2>1. CASE SetStack(w, Pop(w))
    BY <1>2, <1>3, <2>1, PopEffect
  <2>2. CASE SetStack(w, Become(w, Frame("reply", c)))
    BY <1>1, <1>2, <1>3, <1>5, <2>2, BecomeEffect
  <2> QED
    BY <1>3, <2>1, <2>2
<1>7. /\ \A v \in Workers : v # d => cmds'[v] = cmds[v]
      /\ \A e \in ToSet(cmds'[d]) : e \in ToSet(cmds[d]) \/ e = b
      /\ \A e \in ToSet(cmds[d]) : e \in ToSet(cmds'[d]) \/ e = a
      /\ ~r.sync => a \notin ToSet(cmds'[d])
  <2>1. CASE UNCHANGED queues /\ r.sync
    BY <2>1 DEF queues
  <2>2. CASE /\ cmds' = [cmds EXCEPT ![d] = ChangeKind(d, c)]
             /\ events' = [events EXCEPT ![d] = Append(@, Entry(c, "reply"))]
    <3>1. ~Queued(d, c)
      BY <1>1, <1>2, <1>3, <1>5, OwnerPopped
    <3>2. /\ \A v \in Workers : v # d => cmds'[v] = cmds[v]
          /\ ToSet(cmds'[d]) = (ToSet(cmds[d]) \ {Entry(c, "assign")}) \cup {Entry(c, "reply")}
      BY <1>2, <1>3, <1>5, <2>2, <3>1, DeliverAsyncEffect
    <3> QED
      BY <1>5, <3>2
  <2>3. CASE cmds' = [cmds EXCEPT ![d] = Without(d, c, "assign")] /\ UNCHANGED events
    <3>1. /\ \A v \in Workers : v # d => cmds'[v] = cmds[v]
          /\ ToSet(cmds'[d]) = ToSet(cmds[d]) \ {Entry(c, "assign")}
      BY <1>2, <1>3, <1>5, <2>3, WithoutAssigned
    <3> QED
      BY <1>5, <3>1
  <2> QED
    BY <1>3, <1>5, <2>1, <2>2, <2>3
<1>8. /\ \A y \in Cmds : y # c => exeReady'[y] = exeReady[y]
      /\ r.sync => exeReady'[c]
  BY <1>2, <1>3 DEF AInv, TypeOK
<1>9. OnlyAbout({c})
  BY <1>1, <1>3, <1>5, <1>6, <1>7, <1>8 DEF OnlyAbout, lives, AllNormal
<1>10. \A v \in Workers : Waits(v, c)' <=> Waits(v, c)
  BY <1>3, <1>5, <1>6 DEF Waits
<1>11. CallRight(c)'
  <2>1. callers'[c] = <<>> /\ result'[c] # "none"
    BY <1>3, <1>4
  <2>2. ASSUME NEW v \in Workers PROVE ~Handling(v, c)'
    <3>1. Handling(v, c)' => Handling(v, c)
      BY <1>3, <1>5, <1>6, <1>7 DEF Handling
    <3> QED
      BY <1>4, <3>1
  <2>3. ASSUME NEW v \in Workers, NEW f \in Frames(v)', f.cmd = c, f.kind = "reply"
        PROVE  f.rec = NoRec
    <3>1. CASE f \in Frames(v)
      <4>1. v = w /\ f = Top(w)
        BY <1>4, <2>3, <3>1
      <4>2. Alike(f, Top(w))
        BY <1>1, <1>3, <4>1, CallAssumption DEF Alike
      <4>3. f = x
        BY <1>6, <4>1, <4>2
      <4> QED
        BY <1>5, <4>3
    <3>2. CASE f \notin Frames(v)
      BY <1>5, <1>6, <3>2
    <3> QED
      BY <3>1, <3>2
  <2>4. \A v \in Workers : Waits(v, c)' => exeReady'[c]
    BY <1>4, <1>8, <1>10, RecFacts
  <2>5. ASSUME NEW v \in Workers PROVE ~Assigned(v, c)'
    <3>1. CASE r.sync
      <4>1. ~Assigned(v, c)
        BY <1>4, <3>1, RecFacts
      <4> QED
        BY <1>5, <1>7, <4>1 DEF Assigned
    <3>2. CASE ~r.sync /\ v = d
      <4> SUFFICES ASSUME NEW e \in ToSet(cmds'[v]), e.cmd = c, e.kind = "assign" PROVE FALSE
        BY DEF Assigned
      <4>1. e \in Entries
        BY Parts, <1>5, <1>7, <3>2 DEF AInv, TypeOK, ToSet
      <4>2. e = a
        BY <1>3, <1>5, <4>1, EntryFacts
      <4> QED
        BY <1>7, <3>2, <4>2
    <3>3. CASE ~r.sync /\ v # d
      <4>1. ~Assigned(v, c)
        BY <1>4, <1>5, <3>3, RecFacts
      <4> QED
        BY <1>7, <3>3, <4>1 DEF Assigned
    <3> QED
      BY <3>1, <3>2, <3>3
  <2> QED
    BY <1>3, <2>1, <2>2, <2>3, <2>4, <2>5, NobodyLeft
<1> QED
  BY <1>3, <1>4, <1>9, <1>10, <1>11 DEF Delivering

-----------------------------------------------------------------------------
(* A submission: redirected, assigned or with a caller that waits.         *)
SubmissionShape(w, c, s, Q, r, n, x) ==
  /\ \A v \in Workers : v # w => Frames(v)' = Frames(v)
  /\ \A f \in Frames(w)' : f \in ToSet(s) \/ f = x
  /\ \A f \in ToSet(s) : f \in Frames(w)'
  /\ \A v \in Workers : \A e \in ToSet(cmds'[v]) : e \in ToSet(Q[v]) \/ e = n
  /\ \A v \in Workers : \A e \in ToSet(Q[v]) : e \in ToSet(cmds'[v])
  /\ UNCHANGED <<exeReady, held, lives>> /\ callers'[c] = r
  /\ \A y \in Cmds : y # c => callers'[y] = callers[y] /\ result'[y] = result[y]

LEMMA SubmissionEffect ==
  ASSUME AInv, NEW w \in Workers, NEW d \in Workers, NEW c \in Cmds, NEW s \in Seq(FrameSet),
         NEW Q \in [Workers -> Seq(Entries)], NEW r \in Seq(Recs), Submitting(w, d, c, s, Q, r),
         NEW n, n = Entry(c, "submit"), NEW x, x = Frame("reply", c)
  PROVE  /\ SubmissionShape(w, c, s, Q, r, n, x)
         /\ \/ Handling(d, c)' /\ UNCHANGED result
            \/ Replying(w, c)' /\ result' = [result EXCEPT ![c] = "refused"]
<1>1. \A v \in Workers : \A e \in ToSet(Q[v]) : e.cmd = c => e.kind = "assign"
  BY DEF Submitting, Queued, Entry
<1>2. (\A v \in Workers : v # w => Frames(v)' = Frames(v)) /\ Submitted(w, d, c, s, Q)
  BY <1>1, SubmitEffect DEF Submitting
<1>3. n.cmd = c /\ n.kind = "submit" /\ x.cmd = c /\ x.kind = "reply"
  BY EntryFacts, FrameFacts
<1>4. /\ UNCHANGED <<exeReady, held, lives>> /\ callers'[c] = r
      /\ \A y \in Cmds : y # c => callers'[y] = callers[y]
      /\ result \in [Cmds -> {"none", "done", "refused"}]
  BY DEF Submitting, AInv, TypeOK
<1>5. CASE /\ UNCHANGED result
           /\ ToSet(cmds'[d]) = ToSet(Q[d]) \cup {n}
           /\ \A v \in Workers : v # d => cmds'[v] = Q[v]
           /\ Frames(w)' = ToSet(s)
  <2>1. Handling(d, c)'
    BY <1>3, <1>5 DEF Handling
  <2> QED
    BY <1>2, <1>4, <1>5, <2>1 DEF SubmissionShape
<1>6. CASE /\ result' = [result EXCEPT ![c] = "refused"]
           /\ \A v \in Workers : cmds'[v] = Q[v]
           /\ Frames(w)' = ToSet(s) \cup {x}
  <2>1. Replying(w, c)'
    BY <1>3, <1>6 DEF Replying
  <2> QED
    BY <1>2, <1>4, <1>6, <2>1 DEF SubmissionShape
<1> QED
  BY <1>2, <1>5, <1>6 DEF Submitted

ResultOrRefused(c) ==
  result[c] = "none" /\ (UNCHANGED result \/ result' = [result EXCEPT ![c] = "refused"])

LEMMA RedirectMoves ==
  ASSUME CInv, AInv', NEW w \in Workers, HandlerRedirects(w)
  PROVE  UNCHANGED exeReady /\ \E c \in Cmds : Moving(c) /\ ResultOrRefused(c)
<1>1. AInv
  BY CParts
<1>2. PICK d \in Workers, c \in Cmds, s \in Seq(FrameSet),
           Q \in [Workers -> Seq(Entries)], r \in Seq(Recs) :
        Submitting(w, d, c, s, Q, r) /\ Redirecting(w, c, s, Q, r)
  BY <1>1, RedirectIsSubmit
<1>3. PICK n, x : /\ n = Entry(c, "submit") /\ n.cmd = c /\ n.kind = "submit"
                  /\ x = Frame("reply", c) /\ x.cmd = c /\ x.kind = "reply" /\ x.rec = NoRec
  BY EntryFacts, FrameFacts
<1>4. /\ r = callers[c] /\ Q = cmds
      /\ Top(w).kind = "exec" /\ Top(w).cmd = c /\ Top(w) \in Frames(w)
      /\ \A f \in ToSet(s) : f \in Frames(w)
      /\ \A f \in Frames(w) : f \in ToSet(s) \/ f = Top(w)
  BY <1>2 DEF Redirecting
<1>5. /\ \A v \in Workers : v # w => Frames(v)' = Frames(v)
      /\ \A f \in Frames(w)' : f \in ToSet(s) \/ f = x
      /\ \A f \in ToSet(s) : f \in Frames(w)'
      /\ \A v \in Workers : \A e \in ToSet(cmds'[v]) : e \in ToSet(Q[v]) \/ e = n
      /\ \A v \in Workers : \A e \in ToSet(Q[v]) : e \in ToSet(cmds'[v])
      /\ UNCHANGED <<exeReady, held, lives>> /\ callers'[c] = r
      /\ \A y \in Cmds : y # c => callers'[y] = callers[y] /\ result'[y] = result[y]
  <2>1. SubmissionShape(w, c, s, Q, r, n, x)
    BY <1>1, <1>2, <1>3, SubmissionEffect
  <2> QED
    BY <2>1 DEF SubmissionShape
<1>6. \/ Handling(d, c)' /\ UNCHANGED result
      \/ Replying(w, c)' /\ result' = [result EXCEPT ![c] = "refused"]
  BY <1>1, <1>2, <1>3, SubmissionEffect
<1>7. Handling(w, c) /\ result[c] = "none" /\ result \in [Cmds -> {"none", "done", "refused"}]
  <2>1. Handling(w, c)
    BY <1>4 DEF Handling
  <2> QED
    BY <1>1, <2>1, CParts DEF ResultGiven, AInv, TypeOK
<1>8. OnlyAbout({c})
  BY <1>3, <1>4, <1>5, <1>6 DEF OnlyAbout, lives, AllNormal
<1>9. RecordsSame(c)
  <2>1. ASSUME NEW v \in Workers
        PROVE  /\ \A q \in Recs : Taken(v, c, q)' <=> Taken(v, c, q)
               /\ Waits(v, c)' <=> Waits(v, c)
               /\ Assigned(v, c)' <=> Assigned(v, c)
    BY <1>3, <1>4, <1>5, CallAssumption DEF Taken, Waits, Assigned, Recs
  <2> QED
    BY <1>4, <1>5, <2>1 DEF RecordsSame
<1>10. CallRight(c)'
  <2>1. \/ Handling(d, c)' /\ result'[c] = "none"
        \/ Replying(w, c)' /\ result'[c] # "none"
    BY <1>6, <1>7
  <2> QED
    BY <1>9, <2>1, CParts, RightMoves
<1> QED
  BY <1>5, <1>6, <1>7, <1>8, <1>9, <1>10 DEF Moving, ResultOrRefused

(* The first record of a new command.                                      *)
LEMMA FirstCall ==
  ASSUME NEW c \in Cmds, NEW r \in Recs, callers'[c] = <<r>>, ~exeReady'[c],
         \A v \in Workers : \A f \in Frames(v)' : f.cmd = c /\ f.kind = "reply" => f.rec = NoRec,
         \A v \in Workers : Waits(v, c)' <=> r = Rec(v, TRUE),
         \A v \in Workers : Assigned(v, c)' => r = Rec(v, FALSE),
         ResultGiven(c)', Carried(c)'
  PROVE  CallRight(c)'
<1>1. \A v \in Workers : \A q \in Recs : ~Taken(v, c, q)'
  BY CallAssumption DEF Taken, Recs
<1>2. OneRecord(c)'
  <2>1. Len(<<r>>) <= 1
    OBVIOUS
  <2> QED
    BY <1>1, <2>1 DEF OneRecord
<1>3. ASSUME NEW q \in Recs PROVE Known(c, q)' <=> q = r
  BY <1>1, OneElement DEF Known
<1>4. AwaitedIsKnown(c)' /\ KnownAwaits(c)'
  BY <1>3, RecFacts DEF AwaitedIsKnown, KnownAwaits
<1> QED
  BY <1>2, <1>4 DEF CallRight

LEMMA NobodyKnows ==
  ASSUME AInv, NEW c \in Cmds, c \notin used
  PROVE  /\ callers[c] = <<>> /\ ~exeReady[c] /\ result[c] = "none"
         /\ \A v \in Workers : \A e \in ToSet(cmds[v]) : e.cmd # c
         /\ \A v \in Workers : \A f \in Frames(v) : f.cmd = c => f.kind = "event"
<1>1. /\ callers[c] = <<>> /\ ~exeReady[c] /\ result[c] = "none"
      /\ \A v \in Workers : \A e \in ToSet(cmds[v]) : e.cmd # c
  BY DEF AInv, FreshCalls, FreshRoles
<1>2. ASSUME NEW v \in Workers, NEW f \in Frames(v), f.cmd = c PROVE f.kind = "event"
  <2>1. f \in FrameSet
    BY Parts DEF Frames, ToSet
  <2>2. ~Framed(v, c) /\ ~Waits(v, c)
    BY DEF AInv, FreshRoles
  <2> QED
    BY <1>2, <2>1, <2>2 DEF Framed, Waits, FrameSet
<1> QED
  BY <1>1, <1>2

Creating(w, c) ==
  /\ OnlyAbout({c}) /\ CallRight(c)' /\ ResultOrRefused(c) /\ UNCHANGED exeReady
  /\ ~exeReady[c] /\ \A v \in Workers : ~Waits(v, c)

LEMMA AsyncRight ==
  ASSUME CInv, AInv', NEW w \in Workers, AsyncCall(w)
  PROVE  \E c \in Cmds : Creating(w, c) /\ \A v \in Workers : ~Waits(v, c)'
<1>1. AInv
  BY CParts
<1>2. PICK d \in Workers, c \in Cmds, s \in Seq(FrameSet),
           Q \in [Workers -> Seq(Entries)], r \in Seq(Recs) :
        Submitting(w, d, c, s, Q, r) /\ Assigning(w, c, s, Q, r)
  BY <1>1, AsyncIsSubmit
<1>3. PICK n, x, a : /\ n = Entry(c, "submit") /\ n.cmd = c /\ n.kind = "submit"
                     /\ x = Frame("reply", c) /\ x.cmd = c /\ x.kind = "reply" /\ x.rec = NoRec
                     /\ a = Entry(c, "assign") /\ a.cmd = c /\ a.kind = "assign"
  BY EntryFacts, FrameFacts
<1>4. PICK q \in Recs : q = Rec(w, FALSE) /\ r = <<q>>
  BY <1>2, RecFacts DEF Assigning
<1>5. /\ c \notin used /\ ToSet(s) = Frames(w)
      /\ \A v \in Workers : v # w => Q[v] = cmds[v]
      /\ ToSet(Q[w]) = ToSet(cmds[w]) \cup {a}
  BY <1>2, <1>3 DEF Assigning
<1>6. /\ \A v \in Workers : v # w => Frames(v)' = Frames(v)
      /\ \A f \in Frames(w)' : f \in ToSet(s) \/ f = x
      /\ \A f \in ToSet(s) : f \in Frames(w)'
      /\ \A v \in Workers : \A e \in ToSet(cmds'[v]) : e \in ToSet(Q[v]) \/ e = n
      /\ \A v \in Workers : \A e \in ToSet(Q[v]) : e \in ToSet(cmds'[v])
      /\ UNCHANGED <<exeReady, held, lives>> /\ callers'[c] = r
      /\ \A y \in Cmds : y # c => callers'[y] = callers[y] /\ result'[y] = result[y]
  <2>1. SubmissionShape(w, c, s, Q, r, n, x)
    BY <1>1, <1>2, <1>3, SubmissionEffect
  <2> QED
    BY <2>1 DEF SubmissionShape
<1>7. \/ Handling(d, c)' /\ UNCHANGED result
      \/ Replying(w, c)' /\ result' = [result EXCEPT ![c] = "refused"]
  BY <1>1, <1>2, <1>3, SubmissionEffect
<1>8. /\ callers[c] = <<>> /\ ~exeReady[c] /\ result[c] = "none"
      /\ \A v \in Workers : \A e \in ToSet(cmds[v]) : e.cmd # c
      /\ \A v \in Workers : \A f \in Frames(v) : f.cmd = c => f.kind = "event"
  BY <1>1, <1>5, NobodyKnows
<1>9. OnlyAbout({c})
  BY <1>3, <1>5, <1>6, <1>7 DEF OnlyAbout, lives, AllNormal
<1>10. ASSUME NEW v \in Workers
       PROVE  /\ ~Waits(v, c) /\ ~Waits(v, c)'
              /\ Assigned(v, c)' => v = w
              /\ \A f \in Frames(v)' : f.cmd = c /\ f.kind = "reply" => f.rec = NoRec
  BY <1>3, <1>5, <1>6, <1>8 DEF Waits, Assigned
<1>11. ResultGiven(c)' /\ Carried(c)' /\ ResultOrRefused(c)
  <2>1. result \in [Cmds -> {"none", "done", "refused"}]
    BY <1>1 DEF AInv, TypeOK
  <2>2. \/ Handling(d, c)' /\ result'[c] = "none"
        \/ Replying(w, c)' /\ result'[c] # "none"
    BY <1>7, <1>8, <2>1
  <2> QED
    BY <1>7, <1>8, <2>2, ResultMoves DEF ResultOrRefused
<1>12. CallRight(c)'
  <2>1. callers'[c] = <<q>> /\ ~exeReady'[c]
    BY <1>4, <1>6, <1>8
  <2>2. /\ \A v \in Workers : Waits(v, c)' <=> q = Rec(v, TRUE)
        /\ \A v \in Workers : Assigned(v, c)' => q = Rec(v, FALSE)
    BY <1>4, <1>10, RecFacts
  <2> QED
    BY <1>10, <1>11, <2>1, <2>2, FirstCall
<1> QED
  BY <1>6, <1>8, <1>9, <1>10, <1>11, <1>12 DEF Creating

LEMMA SyncRight ==
  ASSUME CInv, AInv', NEW w \in Workers, SyncCall(w)
  PROVE  \E c \in Cmds : Creating(w, c) /\ \A v \in Workers : Waits(v, c)' <=> v = w
<1>1. AInv
  BY CParts
<1>2. PICK d \in Workers, c \in Cmds, s \in Seq(FrameSet),
           Q \in [Workers -> Seq(Entries)], r \in Seq(Recs) :
        Submitting(w, d, c, s, Q, r) /\ Waiting(w, c, s, Q, r)
  BY <1>1, SyncIsSubmit
<1>3. PICK n, x, y : /\ n = Entry(c, "submit") /\ n.cmd = c /\ n.kind = "submit"
                     /\ x = Frame("reply", c) /\ x.cmd = c /\ x.kind = "reply" /\ x.rec = NoRec
                     /\ y = Frame("wait", c) /\ y.cmd = c /\ y.kind = "wait"
  BY EntryFacts, FrameFacts
<1>4. PICK q \in Recs : q = Rec(w, TRUE) /\ r = <<q>>
  BY <1>2, RecFacts DEF Waiting
<1>5. c \notin used /\ Q = cmds /\ ToSet(s) = Frames(w) \cup {y}
  BY <1>2, <1>3 DEF Waiting
<1>6. /\ \A v \in Workers : v # w => Frames(v)' = Frames(v)
      /\ \A f \in Frames(w)' : f \in ToSet(s) \/ f = x
      /\ \A f \in ToSet(s) : f \in Frames(w)'
      /\ \A v \in Workers : \A e \in ToSet(cmds'[v]) : e \in ToSet(Q[v]) \/ e = n
      /\ \A v \in Workers : \A e \in ToSet(Q[v]) : e \in ToSet(cmds'[v])
      /\ UNCHANGED <<exeReady, held, lives>> /\ callers'[c] = r
      /\ \A z \in Cmds : z # c => callers'[z] = callers[z] /\ result'[z] = result[z]
  <2>1. SubmissionShape(w, c, s, Q, r, n, x)
    BY <1>1, <1>2, <1>3, SubmissionEffect
  <2> QED
    BY <2>1 DEF SubmissionShape
<1>7. \/ Handling(d, c)' /\ UNCHANGED result
      \/ Replying(w, c)' /\ result' = [result EXCEPT ![c] = "refused"]
  BY <1>1, <1>2, <1>3, SubmissionEffect
<1>8. /\ callers[c] = <<>> /\ ~exeReady[c] /\ result[c] = "none"
      /\ \A v \in Workers : \A e \in ToSet(cmds[v]) : e.cmd # c
      /\ \A v \in Workers : \A f \in Frames(v) : f.cmd = c => f.kind = "event"
  BY <1>1, <1>5, NobodyKnows
<1>9. OnlyAbout({c})
  BY <1>3, <1>5, <1>6, <1>7 DEF OnlyAbout, lives, AllNormal
<1>10. ASSUME NEW v \in Workers
       PROVE  /\ ~Waits(v, c) /\ (Waits(v, c)' <=> v = w) /\ ~Assigned(v, c)'
              /\ \A f \in Frames(v)' : f.cmd = c /\ f.kind = "reply" => f.rec = NoRec
  BY <1>3, <1>5, <1>6, <1>8 DEF Waits, Assigned
<1>11. ResultGiven(c)' /\ Carried(c)' /\ ResultOrRefused(c)
  <2>1. result \in [Cmds -> {"none", "done", "refused"}]
    BY <1>1 DEF AInv, TypeOK
  <2>2. \/ Handling(d, c)' /\ result'[c] = "none"
        \/ Replying(w, c)' /\ result'[c] # "none"
    BY <1>7, <1>8, <2>1
  <2> QED
    BY <1>7, <1>8, <2>2, ResultMoves DEF ResultOrRefused
<1>12. CallRight(c)'
  <2>1. callers'[c] = <<q>> /\ ~exeReady'[c]
    BY <1>4, <1>6, <1>8
  <2>2. /\ \A v \in Workers : Waits(v, c)' <=> q = Rec(v, TRUE)
        /\ \A v \in Workers : Assigned(v, c)' => q = Rec(v, FALSE)
    BY <1>4, <1>10, RecFacts
  <2> QED
    BY <1>10, <1>11, <2>1, <2>2, FirstCall
<1> QED
  BY <1>6, <1>8, <1>9, <1>10, <1>11, <1>12 DEF Creating

-----------------------------------------------------------------------------
(* A worker that disappears withdraws its records, and only those.         *)
LEMMA CleanedRight ==
  ASSUME CInv, AInv', NEW w \in Workers, Cleaned(w)
  PROVE  /\ UNCHANGED <<exeReady, result>> /\ \A c \in Cmds : CallRight(c)'
         /\ \A c \in Cmds : \A v \in Workers : Waits(v, c)' <=> Waits(v, c)
<1>1. PICK q \in Recs : q = Rec(w, FALSE) /\ \A v \in Workers : Rec(v, TRUE) # q
  BY RecFacts
<1>2. /\ UNCHANGED <<exeReady, result, stack, held>> /\ life' = [life EXCEPT ![w] = "gone"]
      /\ cmds' = [cmds EXCEPT ![w] = <<>>]
      /\ \A c \in Cmds : callers'[c] = callers[c] \/ callers'[c] = RemoveFirst(callers[c], q)
  BY <1>1 DEF Cleaned
<1>3. AInv
  BY CParts
<1>4. \A v \in Workers : Frames(v)' = Frames(v)
  BY <1>2 DEF Frames
<1>5. /\ \A v \in Workers : \A e \in ToSet(cmds'[v]) : e \in ToSet(cmds[v]) /\ v # w
      /\ ~AllNormal'
  <2>1. cmds'[w] = <<>> /\ life'[w] = "gone" /\ \A v \in Workers : v # w => cmds'[v] = cmds[v]
    BY <1>2, <1>3 DEF AInv, TypeOK
  <2>2. \A e \in ToSet(cmds'[w]) : FALSE
    BY <2>1 DEF ToSet
  <2> QED
    BY <2>1, <2>2 DEF AllNormal
<1>6. ASSUME NEW c \in Cmds, NEW v \in Workers
      PROVE  /\ Handling(v, c)' => Handling(v, c)
             /\ Replying(v, c)' => Replying(v, c)
             /\ Waits(v, c)' <=> Waits(v, c)
             /\ \A r : Taken(v, c, r)' <=> Taken(v, c, r)
             /\ Assigned(v, c)' => Assigned(v, c) /\ v # w
  BY <1>2, <1>4, <1>5 DEF Handling, Replying, Waits, Taken, Assigned
<1>7. ASSUME NEW c \in Cmds PROVE CallRight(c)'
  <2>1. /\ ResultGiven(c) /\ OneRecord(c) /\ AwaitedIsKnown(c) /\ KnownAwaits(c)
        /\ callers[c] \in Seq(Recs) /\ Len(callers[c]) <= 1
    BY CParts DEF OneRecord
  <2>2. \/ callers'[c] = callers[c]
        \/ callers[c] = <<q>> /\ callers'[c] = <<>>
    <3>1. PICK t : t = RemoveFirst(callers[c], q) /\ (callers'[c] = callers[c] \/ callers'[c] = t)
      BY <1>2
    <3>2. (callers[c] = <<q>> => t = <<>>) /\ (callers[c] # <<q>> => t = callers[c])
      BY <2>1, <3>1, RecordRemoved
    <3> QED
      BY <3>1, <3>2
  <2>3. exeReady'[c] = exeReady[c] /\ result'[c] = result[c]
    BY <1>2
  <2>4. ResultGiven(c)'
    BY <1>6, <2>1, <2>3 DEF ResultGiven
  <2>5. OneRecord(c)'
    <3>1. Len(callers'[c]) <= 1 /\ (callers[c] = <<>> => callers'[c] = <<>>)
      BY <2>1, <2>2, OneElement
    <3> QED
      BY <1>6, <2>1, <2>3, <3>1 DEF OneRecord
  <2>6. ASSUME NEW r, r # q, Known(c, r) PROVE Known(c, r)'
    <3>1. callers[c] = <<r>> => callers'[c] = <<r>>
      BY <2>2, <2>6, OneElement
    <3> QED
      BY <1>6, <2>6, <3>1 DEF Known
  <2>7. ASSUME NEW r, Known(c, r)' PROVE Known(c, r)
    <3>1. callers'[c] = <<r>> => callers[c] = <<r>>
      BY <2>2, OneElement
    <3> QED
      BY <1>6, <2>7, <3>1 DEF Known
  <2>8. AwaitedIsKnown(c)'
    <3>1. ASSUME NEW v \in Workers, Waits(v, c)', ~exeReady'[c] PROVE Known(c, Rec(v, TRUE))'
      BY <1>1, <1>6, <2>1, <2>3, <2>6, <3>1 DEF AwaitedIsKnown
    <3>2. ASSUME NEW v \in Workers, Assigned(v, c)' PROVE Known(c, Rec(v, FALSE))'
      <4>1. Assigned(v, c) /\ Rec(v, FALSE) # q
        BY <1>1, <1>6, <3>2, RecFacts
      <4> QED
        BY <2>1, <2>6, <4>1 DEF AwaitedIsKnown
    <3> QED
      BY <3>1, <3>2 DEF AwaitedIsKnown
  <2>9. KnownAwaits(c)'
    BY <1>6, <2>1, <2>7 DEF KnownAwaits
  <2> QED
    BY <1>5, <2>4, <2>5, <2>8, <2>9 DEF CallRight
<1> QED
  BY <1>2, <1>6, <1>7

-----------------------------------------------------------------------------
(* The invariant.                                                          *)
LEMMA InitCInv ==
  ASSUME Init
  PROVE  CInv
<1>1. AInv
  BY InitAInv
<1>2. \A w \in Workers : (\A f \in Frames(w) : FALSE) /\ \A e \in ToSet(cmds[w]) : FALSE
  BY DEF Init, Frames, ToSet
<1>3. ASSUME NEW c \in Cmds PROVE CallRight(c)
  <2>1. callers[c] = <<>> /\ ~exeReady[c] /\ Len(<<>>) <= 1
    BY DEF Init
  <2>2. \A w \in Workers : ~Handling(w, c) /\ ~Replying(w, c) /\ ~Waits(w, c) /\ ~Assigned(w, c)
    BY <1>2 DEF Init, Handling, Replying, Waits, Assigned
  <2>3. \A w \in Workers : \A r : ~Taken(w, c, r)
    BY <1>2 DEF Taken
  <2>4. \A r : ~Known(c, r)
    BY <2>1, <2>3, OneElement DEF Known
  <2> QED
    BY <2>1, <2>2, <2>3, <2>4
    DEF CallRight, ResultGiven, OneRecord, AwaitedIsKnown, KnownAwaits, Carried
<1> QED
  BY <1>1, <1>3 DEF CInv

LEMMA StutterCInv ==
  ASSUME CInv, UNCHANGED vars
  PROVE  CInv'
<1>1. AInv'
  BY CParts, StutterAInv
<1>2. \A w \in Workers : Frames(w)' = Frames(w)
  BY DEF vars, Frames
<1>3. OnlyAbout({})
  BY <1>2 DEF OnlyAbout, vars, AllNormal
<1> QED
  BY <1>1, <1>3, CStep

LEMMA NextCInv ==
  ASSUME CInv, [Next]_vars
  PROVE  CInv'
<1>1. AInv'
  BY CParts, NextAInv
<1>2. ASSUME NEW c \in Cmds, OnlyAbout({c}), CallRight(c)' PROVE CInv'
  BY <1>1, <1>2, CStep
<1>3. ASSUME NEW w \in Workers,
             \/ UserEvent(w) \/ EventDone(w) \/ UserHandlerReturns(w) \/ DestroyAsked(w) \/ Halt(w)
      PROVE  CInv'
  <2>1. OnlyAbout({})
    BY <1>3, QuietSteps
  <2> QED
    BY <1>1, <2>1, CStep
<1>4. ASSUME NEW w \in Workers, SubmitEvent(w) \/ NextPostponed(w) PROVE CInv'
  BY <1>1, <1>2, <1>4, ProcessMoves DEF Moving
<1>5. ASSUME NEW w \in Workers, HandlerReturns(w) PROVE CInv'
  BY <1>1, <1>2, <1>5, ReturnMoves DEF Moving
<1>6. ASSUME NEW w \in Workers, HandlerKeeps(w) PROVE CInv'
  BY <1>1, <1>2, <1>6, KeepsMoves DEF Moving
<1>7. ASSUME NEW w \in Workers, KeptIsAnswered(w) PROVE CInv'
  BY <1>1, <1>2, <1>7, KeptMoves DEF Moving
<1>8. ASSUME NEW w \in Workers, ReplyEvent(w) PROVE CInv'
  BY <1>1, <1>2, <1>8, ReplyEventMoves DEF Moving
<1>9. ASSUME NEW w \in Workers, HandlerRedirects(w) PROVE CInv'
  BY <1>1, <1>2, <1>9, RedirectMoves DEF Moving
<1>10. ASSUME NEW w \in Workers, AsyncCall(w) PROVE CInv'
  BY <1>1, <1>2, <1>10, AsyncRight DEF Creating
<1>11. ASSUME NEW w \in Workers, SyncCall(w) PROVE CInv'
  BY <1>1, <1>2, <1>11, SyncRight DEF Creating
<1>12. ASSUME NEW w \in Workers, SyncCallReturns(w) PROVE CInv'
  BY <1>1, <1>2, <1>12, ReturnRight DEF Returning
<1>13. ASSUME NEW w \in Workers, SyncCallTimesOut(w) PROVE CInv'
  BY <1>1, <1>2, <1>13, TimeoutRight DEF Returning
<1>14. ASSUME NEW w \in Workers, ReplyTakes(w) PROVE CInv'
  BY <1>1, <1>2, <1>14, TakeRight
<1>15. ASSUME NEW w \in Workers, ReplyDelivers(w) PROVE CInv'
  BY <1>1, <1>2, <1>15, DeliverRight DEF Delivering
<1>16. ASSUME NEW w \in Workers, Cleaned(w) PROVE CInv'
  BY <1>1, <1>16, CleanedRight DEF CInv
<1>17. CASE UNCHANGED vars
  BY <1>17, StutterCInv
<1> QED
  BY <1>3, <1>4, <1>5, <1>6, <1>7, <1>8, <1>9, <1>10, <1>11, <1>12, <1>13, <1>14, <1>15, <1>16, <1>17
  DEF Next, LoopStep, HandlerStep, WaitStep, ReplyStep, LifeStep

LEMMA AnswerInvariant == Spec => []CInv
<1>1. Init => CInv
  BY InitCInv
<1>2. CInv /\ [Next]_vars => CInv'
  BY NextCInv
<1> QED
  BY <1>1, <1>2, PTL DEF Spec

-----------------------------------------------------------------------------
(* The steps of CommandPromise.                                            *)
LEMMA WaitFrame ==
  AInv => \A c \in Cmds : \A w \in Workers : Waits(w, c) <=> Frame("wait", c) \in Frames(w)
<1> SUFFICES ASSUME AInv, NEW c \in Cmds, NEW w \in Workers
             PROVE  Waits(w, c) <=> Frame("wait", c) \in Frames(w)
  OBVIOUS
<1>1. ASSUME NEW f \in Frames(w), f.cmd = c, f.kind = "wait" PROVE f = Frame("wait", c)
  <2>1. f \in FrameSet /\ FrameRight(f)
    BY Parts DEF Frames, ToSet, Stacked
  <2>2. f.rec = NoRec
    BY <1>1, <2>1 DEF FrameRight
  <2> QED
    BY <1>1, <2>1, <2>2 DEF FrameSet, Frame
<1>2. Frame("wait", c).cmd = c /\ Frame("wait", c).kind = "wait"
  BY FrameFacts
<1> QED
  BY <1>1, <1>2 DEF Waits

LEMMA WaitingIsSync ==
  AInv => \A c \in Cmds : c \in SyncCmds <=> \E w \in Workers : Waits(w, c)
BY WaitFrame DEF SyncCmds

LEMMA WaitingIsSyncNext ==
  AInv' => (\A c \in Cmds : c \in SyncCmds <=> \E w \in Workers : Waits(w, c))'
BY WaitingIsSync, PTL

LEMMA OthersWait ==
  ASSUME NEW C, OnlyAbout(C), NEW x \in Cmds, x \notin C
  PROVE  \A v \in Workers : Waits(v, x)' <=> Waits(v, x)
BY DEF OnlyAbout, Waits

SameWaiting == \A x \in Cmds : \A v \in Workers : Waits(v, x)' <=> Waits(v, x)

LEMMA MovingWaits ==
  ASSUME NEW c \in Cmds, OnlyAbout({c}), \A v \in Workers : Waits(v, c)' <=> Waits(v, c)
  PROVE  SameWaiting
BY OthersWait DEF SameWaiting

LEMMA SameSync ==
  ASSUME AInv, AInv', SameWaiting
  PROVE  SyncCmds' = SyncCmds
<1>1. SyncCmds \subseteq Cmds /\ SyncCmds' \subseteq Cmds
  BY DEF SyncCmds
<1>2. \A c \in Cmds : c \in SyncCmds' <=> c \in SyncCmds
  BY WaitingIsSync, WaitingIsSyncNext DEF SameWaiting
<1> QED
  BY <1>1, <1>2

LEMMA MapStutter ==
  ASSUME AInv, AInv', SameWaiting, UNCHANGED <<exeReady, result>>
  PROVE  UNCHANGED Promise!vars
BY SameSync DEF Promise!vars

LEMMA MapComplete ==
  ASSUME AInv, AInv', SameWaiting, UNCHANGED exeReady, NEW c \in Cmds, result[c] = "none",
         NEW r \in {"done", "refused"}, result' = [result EXCEPT ![c] = r]
  PROVE  Promise!Next
<1>1. Promise!Complete(c)
  BY SameSync DEF Promise!Complete
<1> QED
  BY <1>1 DEF Promise!Next

LEMMA MapCall ==
  ASSUME AInv, AInv', NEW w \in Workers, NEW c \in Cmds, Creating(w, c),
         \A v \in Workers : Waits(v, c)' <=> v = w
  PROVE  Promise!Next
<1>1. \A x \in Cmds : x # c => \A v \in Workers : Waits(v, x)' <=> Waits(v, x)
  BY OthersWait DEF Creating
<1>2. c \notin SyncCmds /\ c \in SyncCmds'
  BY WaitingIsSync, WaitingIsSyncNext DEF Creating
<1>3. \A x \in Cmds : x # c => (x \in SyncCmds' <=> x \in SyncCmds)
  BY <1>1, WaitingIsSync, WaitingIsSyncNext
<1>4. SyncCmds \subseteq Cmds /\ SyncCmds' \subseteq Cmds
  BY DEF SyncCmds
<1>5. SyncCmds' = SyncCmds \cup {c}
  BY <1>2, <1>3, <1>4
<1>6. Promise!Call(c)
  BY <1>2, <1>5 DEF Promise!Call, Creating, ResultOrRefused
<1> QED
  BY <1>6 DEF Promise!Next

LEMMA MapReturn ==
  ASSUME AInv, AInv', NEW w \in Workers, NEW c \in Cmds, Returning(w, c),
         UNCHANGED <<exeReady, result>>, exeReady[c] \/ c \in Timed
  PROVE  Promise!Next
<1>1. \A x \in Cmds : x # c => \A v \in Workers : Waits(v, x)' <=> Waits(v, x)
  BY OthersWait DEF Returning
<1>2. c \in SyncCmds /\ c \notin SyncCmds'
  BY WaitingIsSync, WaitingIsSyncNext DEF Returning
<1>3. \A x \in Cmds : x # c => (x \in SyncCmds' <=> x \in SyncCmds)
  BY <1>1, WaitingIsSync, WaitingIsSyncNext
<1>4. SyncCmds \subseteq Cmds /\ SyncCmds' \subseteq Cmds
  BY DEF SyncCmds
<1>5. SyncCmds' = SyncCmds \ {c}
  BY <1>2, <1>3, <1>4
<1>6. Promise!Return(c)
  BY <1>2, <1>5 DEF Promise!Return
<1> QED
  BY <1>6 DEF Promise!Next

LEMMA MapAnswer ==
  ASSUME AInv, AInv', SameWaiting, UNCHANGED result, NEW c \in Cmds,
         result[c] # "none", ~exeReady[c], exeReady' = [exeReady EXCEPT ![c] = TRUE]
  PROVE  Promise!Next
<1>1. {x \in Cmds : exeReady'[x]} = {x \in Cmds : exeReady[x]} \cup {c}
  BY DEF AInv, TypeOK
<1>2. Promise!Answer(c)
  BY <1>1, SameSync DEF Promise!Answer
<1> QED
  BY <1>2 DEF Promise!Next

LEMMA QuietWaits ==
  ASSUME OnlyAbout({})
  PROVE  SameWaiting
BY OthersWait DEF SameWaiting

LEMMA MapStep ==
  ASSUME CInv, AInv', Next
  PROVE  Promise!Next \/ UNCHANGED Promise!vars
<1>1. AInv
  BY CParts
<1>2. ASSUME NEW c \in Cmds, Moving(c) PROVE SameWaiting
  BY <1>2, MovingWaits DEF Moving, RecordsSame
<1>3. ASSUME NEW w \in Workers,
             \/ UserEvent(w) \/ EventDone(w) \/ UserHandlerReturns(w) \/ DestroyAsked(w) \/ Halt(w)
      PROVE  UNCHANGED Promise!vars
  BY <1>1, <1>3, QuietSteps, QuietWaits, MapStutter
<1>4. ASSUME NEW w \in Workers, SubmitEvent(w) \/ NextPostponed(w) PROVE UNCHANGED Promise!vars
  BY <1>1, <1>2, <1>4, ProcessMoves, MapStutter
<1>5. ASSUME NEW w \in Workers, HandlerReturns(w) PROVE Promise!Next
  BY <1>1, <1>2, <1>5, ReturnMoves, MapComplete
<1>6. ASSUME NEW w \in Workers, HandlerKeeps(w) PROVE UNCHANGED Promise!vars
  BY <1>1, <1>2, <1>6, KeepsMoves, MapStutter
<1>7. ASSUME NEW w \in Workers, KeptIsAnswered(w) PROVE Promise!Next
  BY <1>1, <1>2, <1>7, KeptMoves, MapComplete
<1>8. ASSUME NEW w \in Workers, ReplyEvent(w) PROVE UNCHANGED Promise!vars
  BY <1>1, <1>2, <1>8, ReplyEventMoves, MapStutter
<1>9. ASSUME NEW w \in Workers, HandlerRedirects(w)
      PROVE  Promise!Next \/ UNCHANGED Promise!vars
  <2>1. PICK c \in Cmds : Moving(c) /\ ResultOrRefused(c) /\ UNCHANGED exeReady
    BY <1>9, RedirectMoves
  <2>2. SameWaiting
    BY <1>2, <2>1
  <2> QED
    BY <1>1, <2>1, <2>2, MapStutter, MapComplete DEF ResultOrRefused
<1>10. ASSUME NEW w \in Workers, AsyncCall(w)
       PROVE  Promise!Next \/ UNCHANGED Promise!vars
  <2>1. PICK c \in Cmds : Creating(w, c) /\ \A v \in Workers : ~Waits(v, c)'
    BY <1>10, AsyncRight
  <2>2. SameWaiting
    BY <2>1, MovingWaits DEF Creating
  <2> QED
    BY <1>1, <2>1, <2>2, MapStutter, MapComplete DEF Creating, ResultOrRefused
<1>11. ASSUME NEW w \in Workers, SyncCall(w) PROVE Promise!Next
  BY <1>1, <1>11, SyncRight, MapCall
<1>12. ASSUME NEW w \in Workers, SyncCallReturns(w) PROVE Promise!Next
  BY <1>1, <1>12, ReturnRight, MapReturn
<1>13. ASSUME NEW w \in Workers, SyncCallTimesOut(w) PROVE Promise!Next
  BY <1>1, <1>13, TimeoutRight, MapReturn
<1>14. ASSUME NEW w \in Workers, ReplyTakes(w) PROVE UNCHANGED Promise!vars
  BY <1>1, <1>14, TakeRight, MovingWaits, MapStutter
<1>15. ASSUME NEW w \in Workers, ReplyDelivers(w)
       PROVE  Promise!Next \/ UNCHANGED Promise!vars
  <2>1. PICK c \in Cmds : Delivering(w, c)
    BY <1>15, DeliverRight
  <2>2. SameWaiting
    BY <2>1, MovingWaits DEF Delivering
  <2> QED
    BY <1>1, <2>1, <2>2, MapStutter, MapAnswer DEF Delivering
<1>16. ASSUME NEW w \in Workers, Cleaned(w) PROVE UNCHANGED Promise!vars
  BY <1>1, <1>16, CleanedRight, MapStutter DEF SameWaiting
<1> QED
  BY <1>3, <1>4, <1>5, <1>6, <1>7, <1>8, <1>9, <1>10, <1>11, <1>12, <1>13, <1>14, <1>15, <1>16
  DEF Next, LoopStep, HandlerStep, WaitStep, ReplyStep, LifeStep

LEMMA MapInit ==
  ASSUME Init
  PROVE  Promise!Init
<1>1. SyncCmds = {}
  BY DEF Init, SyncCmds, Frames, ToSet
<1> QED
  BY <1>1 DEF Init, Promise!Init

LEMMA MapUnchanged ==
  ASSUME UNCHANGED vars
  PROVE  UNCHANGED Promise!vars
BY DEF vars, Promise!vars, SyncCmds, Frames

(* The promise of a synchronous call is kept (Worker::Execute): the caller *)
(* is answered at most once, only after the command has got its one result,*)
(* and it returns after the answer or on its timeout, whoever redirects,   *)
(* refuses, gives up or is destroyed meanwhile.                            *)
THEOREM PromiseTheorem == Spec => PromiseKept
<1>1. Init => Promise!Init
  BY MapInit
<1>2. CInv /\ CInv' /\ [Next]_vars => [Promise!Next]_Promise!vars
  BY MapStep, MapUnchanged DEF CInv
<1>3. Spec => []CInv
  BY AnswerInvariant
<1> QED
  BY <1>1, <1>2, <1>3, PTL DEF Spec, PromiseKept, Promise!Spec

-----------------------------------------------------------------------------
(* A command with a worker has a custodian.                                *)
LEMMA WithAWorker ==
  ASSUME NEW c \in Cmds, NEW w \in Workers, Handling(w, c) \/ Replying(w, c)
  PROVE  Custodians(c) # {}
<1>1. CASE c \in held[w]
  <2>1. <<w, "held", 0>> \in Custodians(c)
    BY <1>1 DEF Custodians
  <2> QED
    BY <2>1
<1>2. CASE \E f \in Frames(w) : f.cmd = c /\ f.kind \in {"exec", "reply"}
  <2>1. PICK i \in DOMAIN stack[w] : stack[w][i].cmd = c /\ stack[w][i].kind \in {"exec", "reply"}
    BY <1>2 DEF Frames, ToSet
  <2>2. <<w, "frame", i>> \in Custodians(c)
    BY <2>1 DEF Custodians
  <2> QED
    BY <2>2
<1>3. CASE \E e \in ToSet(cmds[w]) : e.cmd = c /\ e.kind # "assign"
  <2>1. PICK i \in DOMAIN cmds[w] : cmds[w][i].cmd = c /\ cmds[w][i].kind # "assign"
    BY <1>3 DEF ToSet
  <2>2. <<w, "queue", i>> \in Custodians(c)
    BY <2>1 DEF Custodians
  <2> QED
    BY <2>2
<1> QED
  BY <1>1, <1>2, <1>3 DEF Handling, Replying

(* Who knows of a command that nobody gave up finds it with a worker.      *)
LEMMA KnownIsWithAWorker ==
  ASSUME NEW c \in Cmds, NEW r, Known(c, r), Carried(c)
  PROVE  Custodians(c) # {}
<1>1. CASE callers[c] = <<r>>
  <2>1. PICK w \in Workers : Handling(w, c) \/ Replying(w, c)
    BY <1>1, OneElement DEF Carried
  <2> QED
    BY <2>1, WithAWorker
<1>2. CASE \E w \in Workers : Taken(w, c, r)
  <2>1. PICK w \in Workers : Replying(w, c)
    BY <1>2 DEF Taken, Replying
  <2> QED
    BY <2>1, WithAWorker
<1> QED
  BY <1>1, <1>2 DEF Known

LEMMA AwaitedIsWithAWorker == CInv => (AllNormal => NoCommandLost)
<1> SUFFICES ASSUME CInv, AllNormal, NEW c \in Cmds, Awaited(c) PROVE Custodians(c) # {}
  BY DEF NoCommandLost
<1>1. AInv /\ AwaitedIsKnown(c) /\ Carried(c)
  BY CParts DEF CallRight
<1>2. PICK w \in Workers : \/ Frame("wait", c) \in Frames(w) /\ ~exeReady[c]
                           \/ Holds(w, c, "assign")
  BY DEF Awaited
<1>3. CASE Frame("wait", c) \in Frames(w) /\ ~exeReady[c]
  <2>1. Known(c, Rec(w, TRUE))
    BY <1>1, <1>3, WaitFrame DEF AwaitedIsKnown
  <2> QED
    BY <1>1, <2>1, KnownIsWithAWorker
<1>4. CASE Holds(w, c, "assign")
  <2>1. Assigned(w, c)
    BY <1>4, EntryFacts DEF Holds, Assigned
  <2>2. Known(c, Rec(w, FALSE))
    BY <1>1, <2>1 DEF AwaitedIsKnown
  <2> QED
    BY <1>1, <2>2, KnownIsWithAWorker
<1> QED
  BY <1>2, <1>3, <1>4

(* "Once command is submitted it is guaranteed that it will be executed or *)
(* command will be canceled" (RunCommandInTheThread): while no worker is   *)
(* destroyed, a command somebody waits for, in a call or as the worker that*)
(* assigned it, is in a queue, in the hands of a thread or kept, however   *)
(* often it was redirected, postponed or refused.                          *)
THEOREM NothingLostTheorem == Spec => [](AllNormal => NoCommandLost)
<1>1. CInv => (AllNormal => NoCommandLost)
  BY AwaitedIsWithAWorker
<1> QED
  BY <1>1, AnswerInvariant, PTL

(* Where no worker may be destroyed, all stay normal.                      *)
LEMMA StaysNormal == ASSUME Destroyable = {} PROVE Spec => []AllNormal
<1>1. Init => AllNormal
  BY DEF Init, AllNormal
<1>2. ASSUME AllNormal, [Next]_vars PROVE AllNormal'
  <2>1. ASSUME NEW w \in Workers, LifeStep(w) PROVE FALSE
    BY <1>2, <2>1 DEF LifeStep, DestroyAsked, Halt, Cleaned, AllNormal
  <2>2. UNCHANGED life
    BY <1>2, <2>1
    DEF Next, vars, lives, UserEvent, KeptIsAnswered, LoopStep, HandlerStep, WaitStep, ReplyStep,
        SubmitEvent, ReplyEvent, NextPostponed, EventDone, HandlerReturns, UserHandlerReturns,
        HandlerKeeps, HandlerRedirects, AsyncCall, SyncCall, SyncCallReturns, SyncCallTimesOut,
        ReplyTakes, ReplyDelivers
  <2> QED
    BY <1>2, <2>2 DEF AllNormal
<1> QED
  BY <1>1, <1>2, PTL DEF Spec

(* Without destruction no awaited command is lost, ever.                   *)
COROLLARY NeverLost == ASSUME Destroyable = {} PROVE Spec => []NoCommandLost
BY NothingLostTheorem, StaysNormal, PTL

-----------------------------------------------------------------------------
(* The caller Reply has taken is still there.                              *)
LEMMA SyncTarget ==
  ASSUME CInv, NEW w \in Workers, NEW f \in Frames(w), f.kind = "reply", f.rec # NoRec
  PROVE  /\ f.rec \in Recs /\ f.cmd \in Cmds
         /\ f.rec.sync /\ f.cmd \notin Timed => Frame("wait", f.cmd) \in Frames(f.rec.worker)
<1>1. f \in FrameSet /\ FrameRight(f) /\ AInv
  BY CParts, Parts DEF Frames, ToSet, Stacked
<1>2. f.rec \in Recs /\ f.cmd \in Cmds
  BY <1>1 DEF FrameSet, FrameRight
<1>3. ASSUME f.rec.sync, f.cmd \notin Timed PROVE Frame("wait", f.cmd) \in Frames(f.rec.worker)
  <2> DEFINE v == f.rec.worker
  <2>1. v \in Workers /\ f.rec = Rec(v, TRUE)
    BY <1>2, <1>3 DEF Recs, Rec
  <2>2. Taken(w, f.cmd, f.rec)
    BY DEF Taken
  <2>3. Known(f.cmd, Rec(v, TRUE))
    BY <2>1, <2>2 DEF Known
  <2>4. Waits(v, f.cmd)
    BY <1>2, <1>3, <2>1, <2>3, CParts DEF KnownAwaits
  <2> QED
    BY <1>1, <1>2, <2>1, <2>4, WaitFrame
<1> QED
  BY <1>2, <1>3

LEMMA TargetThere == ASSUME Timed = {} PROVE CInv => (AllNormal => ReplyTargetAlive)
<1> SUFFICES ASSUME CInv, AllNormal, NEW w \in Workers, NEW f \in Frames(w),
                    f.kind = "reply", f.rec # NoRec
             PROVE  IF f.rec.sync THEN Frame("wait", f.cmd) \in Frames(f.rec.worker)
                                  ELSE life[f.rec.worker] # "gone"
  BY DEF ReplyTargetAlive
<1>1. f.rec \in Recs /\ (f.rec.sync => Frame("wait", f.cmd) \in Frames(f.rec.worker))
  BY SyncTarget
<1>2. f.rec.worker \in Workers
  BY <1>1 DEF Recs
<1> QED
  BY <1>1, <1>2 DEF AllNormal

(* "we must be sure that event is accepted" (GetCommandReply): where calls *)
(* have no timeout and no worker is destroyed, the caller a reply has taken*)
(* and will write through still waits on its thread's stack, or is a worker*)
(* that exists.                                                            *)
THEOREM TargetTheorem == ASSUME Timed = {} PROVE Spec => [](AllNormal => ReplyTargetAlive)
<1>1. CInv => (AllNormal => ReplyTargetAlive)
  BY TargetThere
<1> QED
  BY <1>1, AnswerInvariant, PTL
=============================================================================
