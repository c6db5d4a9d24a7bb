----------------------------- MODULE ObjectRef -----------------------------
(***************************************************************************)
(* The life of one dabc::Object: its reference counter, its list of        *)
(* children and the staged destruction that DecReference drives            *)
(* (base/src/Object.cxx, base/src/Reference.cxx, and the destroy queue of  *)
(* base/src/Manager.cxx).                                                  *)
(*                                                                         *)
(* A C++ Reference variable is a TOKEN.  `held' is the set of tokens that  *)
(* point to the object and are counted; `refcnt' is the integer the code   *)
(* keeps.  Nothing in the code ties one to the other: that they agree is a *)
(* property of the protocol.                                               *)
(*                                                                         *)
(* DecReference takes the object mutex several times and calls user code   *)
(* in between, so every critical section is an action of its own and       *)
(* `run[t]' says where in DecReference the call made on token t stands.    *)
(***************************************************************************)
EXTENDS Naturals, FiniteSets

CONSTANTS
  Refs,     (* Reference variables of threads that use the object          *)
  Parent,   (* the entry of the parent's child list, one of Refs           *)
  Kids,     (* fObjectParent references of child objects                   *)
  Thrd,     (* the count DecReference delegates to the object's thread     *)
  Mgr,      (* the entry of the manager's fDestroyQueue                    *)
  Local,    (* the Reference variable local to DecReference                *)
  LateAdd   (* whether a child may be created after destruction began      *)

ASSUME RefsAssumption ==
  /\ IsFiniteSet(Refs) /\ IsFiniteSet(Kids)
  /\ Parent \in Refs
  /\ Refs \cap Kids = {}
  /\ {Thrd, Mgr, Local} \cap (Refs \cup Kids) = {}
  /\ Thrd # Mgr /\ Thrd # Local /\ Mgr # Local
  /\ LateAdd \in BOOLEAN

(* References a thread owns itself: what it may work through.  The entry   *)
(* of the parent's list belongs to the list.                               *)
Users == Refs \ {Parent}

Tokens == Refs \cup Kids \cup {Thrd, Mgr, Local}

(* Object::EState; "Freed" is what follows the destructor. *)
Stages == {"Normal", "WaitForThread", "DoingDestroy", "WaitForDestructor",
           "Destructor", "Freed"}

(* Where a call of DecReference stands between its critical sections. *)
Points == {"idle", "deletethis", "rmchilds", "askthread", "cleanup",
           "unparent", "finish", "tomanager", "delete"}

VARIABLES
  state,        (* the stage bits of fObjectFlags                           *)
  refcnt,       (* fObjectRefCnt                                            *)
  held,         (* tokens that hold a counted reference                     *)
  kids,         (* fObjectChilds                                            *)
  orphans,      (* orphans[t]: children the RemoveChilds call of t took out *)
                (* of the list and has still to release (del_vect)          *)
  listed,       (* the object is in the child list of its parent            *)
  run,          (* [Tokens -> Points]                                       *)
  autoDestroy,  (* flAutoDestroy                                            *)
  hasThread,    (* flHasThread                                              *)
  cleanupBit,   (* flCleanup                                                *)
  promised      (* the thread accepted to call DestroyCalledFromOwnThread   *)

flags == <<autoDestroy, hasThread, cleanupBit>>
vars  == <<state, refcnt, held, kids, orphans, listed, run, flags, promised>>

Idle(t)   == run[t] = "idle"
HeldIdle(t) == t \in held /\ Idle(t)

(* The object is born with one reference on it: the creator's, or, when a  *)
(* parent was given to the constructor, the one in the parent's list.      *)
Init ==
  /\ state = "Normal"
  /\ held \in {{r} : r \in Refs}
  /\ listed = (Parent \in held)
  /\ refcnt = 1
  /\ kids = {} /\ orphans = [t \in Tokens |-> {}]
  /\ run = [t \in Tokens |-> "idle"]
  /\ autoDestroy \in BOOLEAN /\ hasThread \in BOOLEAN /\ cleanupBit \in BOOLEAN
  /\ promised = FALSE

-----------------------------------------------------------------------------
(* Object::IncReference: refused (with an exception) in the destructor.    *)
IncReference(t) ==
  /\ state # "Destructor"
  /\ held' = held \cup {t}
  /\ refcnt' = refcnt + 1

(***************************************************************************)
(* The first critical section of DecReference(ask, dec, fromThread),       *)
(* called on token t.  `n' and `h' are the counter and the tokens after    *)
(* the decrement; the four disjuncts are the outcomes of the switch.       *)
(***************************************************************************)
(* Mutant: the counter is compared with the children and one user more. *)
MustDestroyWithUser(ask, dec, n) ==
  \/ ask
  \/ autoDestroy /\ n = 0
  \/ autoDestroy /\ dec /\ n <= Cardinality(kids) + 1

MustDestroy(ask, dec, n) ==
  \/ ask
  \/ autoDestroy /\ n = 0
  \/ autoDestroy /\ dec /\ n = Cardinality(kids)

(* Mutant: any caller that asks may go on while the thread is awaited. *)
UnblocksWaitAny(ask, fromThread) == ask \/ fromThread

(* Only the thread's own call ends the wait for the thread. *)
UnblocksWait(ask, fromThread) == fromThread

DecReference(t, ask, dec, fromThread) ==
  LET n == IF dec THEN refcnt - 1 ELSE refcnt
      h == IF dec THEN held \ {t} ELSE held
      destroy == MustDestroy(ask, dec, n)
      unblock == UnblocksWait(ask, fromThread)
      Leave(point) == run' = [run EXCEPT ![t] = point]
  IN /\ dec => refcnt > 0        (* otherwise the code throws *)
     /\ \/ /\ \/ state = "Normal" /\ ~destroy
              \/ state = "WaitForThread" /\ ~unblock
              \/ state \in {"DoingDestroy", "Destructor"}
              \/ state = "WaitForDestructor" /\ n # 0
           /\ refcnt' = n /\ held' = h
           /\ Leave("idle")
           /\ UNCHANGED state
        \/ /\ state = "Normal" /\ destroy /\ hasThread
           /\ state' = "WaitForThread"
           /\ refcnt' = n + 1 /\ held' = h \cup {Thrd}
           /\ Leave("askthread")
        \/ /\ \/ state = "Normal" /\ destroy /\ ~hasThread
              \/ state = "WaitForThread" /\ unblock
           /\ state' = "DoingDestroy"
           /\ refcnt' = n /\ held' = h
           /\ Leave("cleanup")
        \/ /\ state = "WaitForDestructor" /\ n = 0
           /\ state' = "Destructor"
           /\ refcnt' = n /\ held' = h
           /\ Leave("delete")

-----------------------------------------------------------------------------
(* Operations of threads that hold a reference.                            *)

(* A Reference is copied from another one, or taken from the child list    *)
(* (GetChildRef holds fObjectBlock meanwhile, so the list entry stays).    *)
Acquire(r) ==
  /\ r \in Users /\ r \notin held /\ Idle(r)
  /\ held \cap (Refs \cup Kids) # {}
  /\ IncReference(r)
  /\ UNCHANGED <<state, kids, orphans, listed, run, flags, promised>>

(* A reference in a list goes only when the list gives it up. *)
Loose(r) == r = Parent => ~listed

(* Reference::Release *)
Release(r) ==
  /\ r \in Refs /\ HeldIdle(r) /\ Loose(r)
  /\ DecReference(r, FALSE, TRUE, FALSE)
  /\ UNCHANGED <<kids, orphans, listed, flags, promised>>

(* Reference::Destroy *)
Destroy(r) ==
  /\ r \in Refs /\ HeldIdle(r) /\ Loose(r)
  /\ DecReference(r, TRUE, TRUE, FALSE)
  /\ UNCHANGED <<kids, orphans, listed, flags, promised>>

(* Object::Destroy(obj): no decrement, the caller keeps its reference. *)
DestroyObj(r) ==
  /\ r \in Users /\ HeldIdle(r)
  /\ DecReference(r, TRUE, FALSE, FALSE)
  /\ UNCHANGED <<kids, orphans, listed, flags, promised>>

(* Object::DeleteThis checks the state in one critical section ... *)
DeleteThis(r) ==
  /\ r \in Users /\ HeldIdle(r)
  /\ state = "Normal"
  /\ cleanupBit' = TRUE
  /\ run' = [run EXCEPT ![r] = "deletethis"]
  /\ UNCHANGED <<state, refcnt, held, kids, orphans, listed, autoDestroy, hasThread, promised>>

(* ... and calls Destroy(this) after it. *)
DeleteThisDestroy(r) ==
  /\ run[r] = "deletethis"
  /\ DecReference(r, TRUE, FALSE, FALSE)
  /\ UNCHANGED <<kids, orphans, listed, flags, promised>>

(* The parent's AddChildAt: an owner marks its children for autodestroy. *)
Adopt(owner) ==
  /\ Parent \notin held /\ Idle(Parent)
  /\ held \cap Users # {}
  /\ LateAdd \/ state = "Normal"
  /\ IncReference(Parent)
  /\ listed' = TRUE
  /\ autoDestroy' = (owner \/ autoDestroy)
  /\ UNCHANGED <<state, kids, orphans, run, hasThread, cleanupBit, promised>>

(* The parent's RemoveChild or RemoveChilds extracts the entry from the    *)
(* list; Release(Parent) or Destroy(Parent) follows.                       *)
ParentExtracts ==
  /\ listed
  /\ listed' = FALSE
  /\ UNCHANGED <<state, refcnt, held, kids, orphans, run, flags, promised>>

(* AssignToThread and DettachFromThread switch flHasThread. *)
SwitchThread(r) ==
  /\ r \in Users /\ HeldIdle(r)
  /\ state = "Normal"
  /\ hasThread' = ~hasThread
  /\ UNCHANGED <<state, refcnt, held, kids, orphans, listed, run, autoDestroy, cleanupBit, promised>>

-----------------------------------------------------------------------------
(* Children.                                                               *)

(* AddChildAt on this object, from the constructor of child k.  The code   *)
(* does not look at the state of the parent.                               *)
AddChild(k) ==
  /\ k \in Kids \ held /\ Idle(k)
  /\ held \cap Users # {}
  /\ LateAdd \/ state = "Normal"
  /\ held' = held \cup {k} /\ refcnt' = refcnt + 1
  /\ kids' = kids \cup {k}
  /\ UNCHANGED <<state, orphans, listed, run, flags, promised>>

(* Mutant: the counter is decremented by the whole list. *)
RemoveChildAll(k) ==
  /\ k \in kids
  /\ kids' = kids \ {k} /\ held' = held \ {k}
  /\ refcnt' = refcnt - 1 - Cardinality(kids)
  /\ UNCHANGED <<state, orphans, listed, run, flags, promised>>

(* RemoveChild, from the cleanup of child k: the counter is decremented    *)
(* under the mutex without asking DecReference.                            *)
RemoveChild(k) ==
  /\ k \in kids
  /\ kids' = kids \ {k}
  /\ held' = held \ {k}
  /\ refcnt' = IF refcnt > 1 THEN refcnt - 1 ELSE 0
  /\ UNCHANGED <<state, orphans, listed, run, flags, promised>>

(* RemoveChilds takes the whole list ... *)
TakeChilds(t) ==
  /\ orphans' = [orphans EXCEPT ![t] = kids]
  /\ kids' = {}

(* ... and then releases fObjectParent of each child outside the mutex.    *)
ReleaseOrphan(t, k) ==
  /\ k \in orphans[t]
  /\ orphans' = [orphans EXCEPT ![t] = @ \ {k}]
  /\ DecReference(k, FALSE, TRUE, FALSE)
  /\ UNCHANGED <<kids, listed, flags, promised>>

(* RemoveChilds called by a user of the object, through its reference. *)
RemoveChilds(r) ==
  /\ r \in Users /\ HeldIdle(r)
  /\ kids # {}
  /\ TakeChilds(r)
  /\ run' = [run EXCEPT ![r] = "rmchilds"]
  /\ UNCHANGED <<state, refcnt, held, listed, flags, promised>>

RemoveChildsReturns(r) ==
  /\ run[r] = "rmchilds" /\ orphans[r] = {}
  /\ run' = [run EXCEPT ![r] = "idle"]
  /\ UNCHANGED <<state, refcnt, held, kids, orphans, listed, flags, promised>>

-----------------------------------------------------------------------------
(* The destruction itself.                                                 *)

(* Mutant: the object's count is not delegated to the thread. *)
ThreadAcceptsUncounted(t) ==
  /\ run[t] = "askthread"
  /\ promised' = TRUE
  /\ refcnt' = refcnt - 1
  /\ run' = [run EXCEPT ![t] = "idle"]
  /\ UNCHANGED <<state, held, kids, orphans, listed, flags>>

(* DestroyByOwnThread succeeded: the thread now owns the delegated count. *)
ThreadAccepts(t) ==
  /\ run[t] = "askthread"
  /\ promised' = TRUE
  /\ run' = [run EXCEPT ![t] = "idle"]
  /\ UNCHANGED <<state, refcnt, held, kids, orphans, listed, flags>>

(* Mutant: the refusal puts the object back into its normal life. *)
ThreadRefusesToNormal(t) ==
  /\ run[t] = "askthread"
  /\ state' = "Normal"
  /\ held' = held \ {Thrd} /\ refcnt' = refcnt - 1
  /\ run' = [run EXCEPT ![t] = "cleanup"]
  /\ UNCHANGED <<kids, orphans, listed, flags, promised>>

(* DestroyByOwnThread failed: the caller takes the count back and goes on. *)
ThreadRefuses(t) ==
  /\ run[t] = "askthread"
  /\ state' = "DoingDestroy"
  /\ held' = held \ {Thrd} /\ refcnt' = refcnt - 1
  /\ run' = [run EXCEPT ![t] = "cleanup"]
  /\ UNCHANGED <<kids, orphans, listed, flags, promised>>

(* ClearThreadRef and DestroyCalledFromOwnThread, in the object's thread. *)
ThreadDestroys ==
  /\ promised /\ HeldIdle(Thrd)
  /\ promised' = FALSE
  /\ hasThread' = FALSE
  /\ DecReference(Thrd, TRUE, TRUE, TRUE)
  /\ UNCHANGED <<kids, orphans, listed, autoDestroy, cleanupBit>>

(* ObjectCleanup: first the children ... *)
CleanupChilds(t) ==
  /\ run[t] = "cleanup"
  /\ TakeChilds(t)
  /\ run' = [run EXCEPT ![t] = "unparent"]
  /\ UNCHANGED <<state, refcnt, held, listed, flags, promised>>

(* ... then, when all of them are released, the entry in the parent's      *)
(* list, if it is still there: RemoveChild(this, false) takes it out and   *)
(* releases it.                                                            *)
CleanupParent(t) ==
  /\ run[t] = "unparent" /\ orphans[t] = {}
  /\ run' = [run EXCEPT ![t] = "finish"]
  /\ listed' = FALSE
  /\ IF listed
     THEN held' = held \ {Parent} /\ refcnt' = refcnt - 1
     ELSE UNCHANGED <<held, refcnt>>
  /\ UNCHANGED <<state, kids, orphans, flags, promised>>

(* Mutant: the destructor does not wait for the remaining references. *)
FinishDestroyAtOnce(t) ==
  /\ run[t] = "finish"
  /\ state' = "Destructor"
  /\ run' = [run EXCEPT ![t] = "delete"]
  /\ UNCHANGED <<refcnt, held, kids, orphans, listed, flags, promised>>

(* Mutant: the object waits for a last Release although nobody is left. *)
FinishDestroyWaits(t) ==
  /\ run[t] = "finish"
  /\ state' = "WaitForDestructor"
  /\ run' = [run EXCEPT ![t] = "idle"]
  /\ UNCHANGED <<refcnt, held, kids, orphans, listed, flags, promised>>

(* The critical section after ObjectCleanup decides who deletes. *)
FinishDestroy(t) ==
  /\ run[t] = "finish"
  /\ \/ /\ cleanupBit
        /\ state' = "WaitForDestructor"
        /\ held' = held \cup {Local} /\ refcnt' = refcnt + 1
        /\ run' = [run EXCEPT ![t] = "tomanager"]
     \/ /\ ~cleanupBit /\ refcnt = 0
        /\ state' = "Destructor"
        /\ run' = [run EXCEPT ![t] = "delete"]
        /\ UNCHANGED <<held, refcnt>>
     \/ /\ ~cleanupBit /\ refcnt # 0
        /\ state' = "WaitForDestructor"
        /\ run' = [run EXCEPT ![t] = "idle"]
        /\ UNCHANGED <<held, refcnt>>
  /\ UNCHANGED <<kids, orphans, listed, flags, promised>>

(* Manager::DestroyObject copies the local reference into its queue. *)
ManagerQueues(t) ==
  /\ run[t] = "tomanager"
  /\ IncReference(Mgr)
  /\ run' = [run EXCEPT ![t] = "idle"]
  /\ UNCHANGED <<state, kids, orphans, listed, flags, promised>>

(* The local reference is released when DecReference returns. *)
ReleaseLocal ==
  /\ HeldIdle(Local) /\ \A t \in Tokens : run[t] # "tomanager"
  /\ DecReference(Local, FALSE, TRUE, FALSE)
  /\ UNCHANGED <<kids, orphans, listed, flags, promised>>

(* Manager::ProcessDestroyQueue destroys every queued reference. *)
ManagerDestroys ==
  /\ HeldIdle(Mgr)
  /\ DecReference(Mgr, TRUE, TRUE, FALSE)
  /\ UNCHANGED <<kids, orphans, listed, flags, promised>>

(* DecReference returned true: the caller executes `delete'. *)
Delete(t) ==
  /\ run[t] = "delete"
  /\ state' = "Freed"
  /\ run' = [run EXCEPT ![t] = "idle"]
  /\ UNCHANGED <<refcnt, held, kids, orphans, listed, flags, promised>>

-----------------------------------------------------------------------------
UserStep(r) ==
  \/ Acquire(r) \/ Release(r) \/ Destroy(r) \/ DestroyObj(r)
  \/ DeleteThis(r) \/ DeleteThisDestroy(r) \/ SwitchThread(r)
  \/ RemoveChilds(r) \/ RemoveChildsReturns(r)

ChildStep(k) == AddChild(k) \/ RemoveChild(k)

DestroyStep(t) ==
  \/ ThreadAccepts(t) \/ ThreadRefuses(t)
  \/ CleanupChilds(t) \/ CleanupParent(t) \/ FinishDestroy(t)
  \/ ManagerQueues(t) \/ Delete(t)
  \/ \E k \in Kids : ReleaseOrphan(t, k)

SystemStep == ThreadDestroys \/ ManagerDestroys \/ ReleaseLocal

Next ==
  \/ \E r \in Refs : UserStep(r)
  \/ \E owner \in BOOLEAN : Adopt(owner)
  \/ ParentExtracts
  \/ \E k \in Kids : ChildStep(k)
  \/ \E t \in Tokens : DestroyStep(t)
  \/ SystemStep

(* A call under way runs on; the object's thread and the manager's thread  *)
(* serve their queues; a parent that took the entry out of its list        *)
(* releases it.  Users are free never to release.                          *)
Fairness ==
  /\ \A t \in Tokens : WF_vars(DestroyStep(t))
  /\ \A r \in Users : WF_vars(DeleteThisDestroy(r) \/ RemoveChildsReturns(r))
  /\ WF_vars(ThreadDestroys) /\ WF_vars(ManagerDestroys) /\ WF_vars(ReleaseLocal)
  /\ WF_vars(Release(Parent) \/ Destroy(Parent))

Spec == Init /\ [][Next]_vars /\ Fairness
-----------------------------------------------------------------------------
(* Properties.                                                             *)

TypeOK ==
  /\ state \in Stages
  /\ refcnt \in Nat
  /\ held \subseteq Tokens
  /\ kids \subseteq Kids
  /\ orphans \in [Tokens -> SUBSET Kids]
  /\ listed \in BOOLEAN
  /\ run \in [Tokens -> Points]
  /\ autoDestroy \in BOOLEAN /\ hasThread \in BOOLEAN
  /\ cleanupBit \in BOOLEAN /\ promised \in BOOLEAN

(* fObjectRefCnt counts the references that exist, whichever calls of      *)
(* DecReference, RemoveChild and the two delegations (to the thread, to    *)
(* the manager) are interleaved.                                           *)
RefCountExact == refcnt = Cardinality(held)

(* Tokens whose call is inside the destruction. *)
Destroying == {t \in Tokens : run[t] \in {"cleanup", "unparent", "finish",
                                          "tomanager", "delete"}}

(* ObjectCleanup and the destructor have one executor, and it deletes the  *)
(* object only when nobody, not even a call that stands elsewhere in       *)
(* DecReference or DeleteThis, can touch the memory again.  IncReference   *)
(* is therefore never refused and DecReference never finds 0.              *)
DestroyedAlone ==
  /\ \A s, t \in Destroying : s = t
  /\ state \in {"Destructor", "Freed"} => held = {}
  /\ state = "Freed" => \A t \in Tokens : run[t] = "idle" /\ orphans[t] = {}

(* "somebody else has reference, when it release reference object will be  *)
(* automatically destroyed" (DecReference): an object that waits for its   *)
(* destructor is waiting for somebody.                                     *)
WaitingHasRef == state = "WaitForDestructor" => refcnt > 0

Rank == [s \in Stages |->
  CASE s = "Normal" -> 0 [] s = "WaitForThread" -> 1 [] s = "DoingDestroy" -> 2
    [] s = "WaitForDestructor" -> 3 [] s = "Destructor" -> 4 [] s = "Freed" -> 5]

(* "Normally they should go one after another" (EState): no stage is ever  *)
(* entered again, so that ObjectCleanup runs at most once.                 *)
StagesInOrder == [][state' # state => Rank[state'] > Rank[state]]_vars

(* Autodestroy collects an object that only its own children reference,    *)
(* never one that somebody else still uses: a plain Release begins the     *)
(* destruction only then.                                                  *)
AutoDestroyOnlyUnused ==
  [][ (\E r \in Refs : Release(r) /\ state = "Normal" /\ state' # "Normal")
        => held' \ {Thrd} \subseteq kids ]_vars

(* Once the thread of the object promised to destroy it, no other thread   *)
(* runs its cleanup.                                                       *)
CleanupInOwnThread ==
  [][ promised /\ state' = "DoingDestroy" => run'[Thrd] = "cleanup" ]_vars

(* An object whose destruction was asked for is deleted as soon as its     *)
(* users have dropped their references, whichever of them drops the last.  *)
EventuallyFreed ==
  <>(state # "Normal") /\ <>[](held \cap Users = {})
    => <>(state = "Freed")

-----------------------------------------------------------------------------
(* The invariant that makes the properties above inductive.                *)

(* A call that stands inside the destruction of the object. *)
InDestroy(t) == run[t] \notin {"idle", "deletethis", "rmchilds"}

(* What the lists hold is counted, and is in one list only. *)
ListsCounted ==
  /\ kids \subseteq held
  /\ listed => Parent \in held
  /\ \A t \in Tokens :
       /\ orphans[t] \subseteq held \ kids
       /\ orphans[t] # {} => run[t] \in {"rmchilds", "unparent"}
       /\ \A s \in Tokens \ {t} : orphans[s] \cap orphans[t] = {}

(* A user in the middle of DeleteThis or RemoveChilds keeps its reference, *)
(* so that giving a child back begins or ends nothing.                     *)
UsersInside ==
  /\ \A t \in Tokens : run[t] \in {"deletethis", "rmchilds"} => t \in Users \cap held
  /\ \A k \in Kids : run[k] = "idle"

(* The stage tells how far the one call that destroys the object has got,  *)
(* and which of the three delegated counts exist.                          *)
StageMatchesCall ==
  /\ \A s, t \in Tokens : InDestroy(s) /\ InDestroy(t) => s = t
  /\ promised => state = "WaitForThread"
  /\ (Thrd \in held) = (state = "WaitForThread")
  /\ Mgr \in held \/ Local \in held => state = "WaitForDestructor"
  /\ \A t \in Tokens :
       /\ run[t] = "askthread" => state = "WaitForThread" /\ ~promised
       /\ run[t] \in {"cleanup", "unparent", "finish"} => state = "DoingDestroy"
       /\ run[t] = "tomanager" =>
            state = "WaitForDestructor" /\ Local \in held /\ Mgr \notin held
       /\ run[t] = "delete" => state = "Destructor"
  /\ state \in {"Destructor", "Freed"} => held = {}

(* Without late children the list stays empty once it was cleaned. *)
CleanedStaysEmpty ==
  /\ \/ LateAdd \/ kids = {} \/ state \in {"Normal", "WaitForThread"}
     \/ \E t \in Tokens : run[t] = "cleanup"
  /\ LateAdd \/ WaitingHasRef

IInv ==
  /\ TypeOK /\ RefCountExact
  /\ ListsCounted /\ UsersInside /\ StageMatchesCall /\ CleanedStaysEmpty

=============================================================================
