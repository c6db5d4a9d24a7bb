-------------------------- MODULE ObjectRefProofs --------------------------
(***************************************************************************)
(* Proofs about ObjectRef, for any number of references and children.      *)
(*                                                                         *)
(* IInv is inductive.  DecReference, which nine of the operations end      *)
(* with, is treated once (DecReferenceKeepsIInv); the lemmas that follow   *)
(* it take the other operations one at a time.                             *)
(***************************************************************************)
EXTENDS ObjectRef, FiniteSetTheorems, TLAPS

(* There are finitely many references. *)
LEMMA TokensFinite == IsFiniteSet(Tokens)
<1>1. IsFiniteSet({Thrd, Mgr, Local})
  <2>1. IsFiniteSet({Thrd})
    BY FS_Singleton
  <2>2. IsFiniteSet({Thrd} \cup {Mgr}) /\ IsFiniteSet({Thrd} \cup {Mgr} \cup {Local})
    BY <2>1, FS_AddElement
  <2>3. {Thrd, Mgr, Local} = {Thrd} \cup {Mgr} \cup {Local}
    OBVIOUS
  <2> QED BY <2>2, <2>3
<1>2. IsFiniteSet(Refs \cup Kids)
  BY RefsAssumption, FS_Union
<1> QED BY <1>1, <1>2, FS_Union DEF Tokens

(* One more, or one less, reference changes the count by one. *)
LEMMA CountOneMore ==
  ASSUME NEW h \in SUBSET Tokens, NEW t \in Tokens, t \notin h
  PROVE  Cardinality(h \cup {t}) = Cardinality(h) + 1
BY TokensFinite, FS_Subset, FS_AddElement

LEMMA CountOneLess ==
  ASSUME NEW h \in SUBSET Tokens, NEW t \in h
  PROVE  /\ Cardinality(h \ {t}) = Cardinality(h) - 1
         /\ Cardinality(h) \in Nat /\ Cardinality(h) > 0
<1>1. IsFiniteSet(h)
  BY TokensFinite, FS_Subset
<1>2. Cardinality(h \ {t}) = Cardinality(h) - 1
  BY <1>1, FS_RemoveElement
<1>3. Cardinality(h) \in Nat /\ Cardinality(h \ {t}) \in Nat
  BY <1>1, FS_RemoveElement, FS_CardinalityType
<1> QED BY <1>2, <1>3

LEMMA CountZero ==
  ASSUME NEW h \in SUBSET Tokens
  PROVE  (Cardinality(h) = 0) = (h = {})
BY TokensFinite, FS_Subset, FS_EmptySet

-----------------------------------------------------------------------------
(* The initial states. *)
LEMMA InitIInv == Init => IInv
<1> SUFFICES ASSUME Init PROVE IInv
  OBVIOUS
<1>1. PICK r \in Refs : held = {r}
  BY DEF Init
<1>2. held \subseteq Tokens /\ Cardinality(held) = 1
  BY <1>1, FS_Singleton DEF Tokens
<1>3. TypeOK
  <2>1. listed \in BOOLEAN /\ refcnt \in Nat
    BY DEF Init
  <2>2. run \in [Tokens -> Points] /\ orphans \in [Tokens -> SUBSET Kids]
    BY DEF Init, Points
  <2>3. state \in Stages /\ kids \subseteq Kids /\ promised \in BOOLEAN
    BY DEF Init, Stages
  <2> QED BY <1>2, <2>1, <2>2, <2>3 DEF Init, TypeOK
<1>4. RefCountExact
  BY <1>2 DEF Init, RefCountExact
<1>5. ListsCounted /\ UsersInside
  BY DEF Init, ListsCounted, UsersInside, Tokens
<1>6. StageMatchesCall
  BY <1>1, RefsAssumption DEF Init, StageMatchesCall, InDestroy
<1>7. CleanedStaysEmpty
  BY DEF Init, CleanedStaysEmpty, WaitingHasRef
<1> QED BY <1>3, <1>4, <1>5, <1>6, <1>7 DEF IInv

-----------------------------------------------------------------------------
(* What the callers of DecReference guarantee. *)
MayDecrement(t, dec, ft) ==
  /\ t \in Tokens \cap held
  /\ run[t] \in {"idle", "deletethis"}
  /\ dec => /\ run[t] = "idle" /\ t \notin kids
            /\ t = Parent => ~listed
  /\ t \in Kids => run'[t] = "idle"
  /\ t = Thrd <=> ft
  /\ t = Local => \A s \in Tokens : run[s] # "tomanager"
  /\ kids' = kids /\ listed' = listed
  /\ autoDestroy' \in BOOLEAN /\ hasThread' \in BOOLEAN /\ cleanupBit' \in BOOLEAN
  /\ promised' = IF ft THEN FALSE ELSE promised
  /\ orphans' \in [Tokens -> SUBSET Kids]
  /\ \A s \in Tokens : /\ orphans'[s] \subseteq orphans[s]
                       /\ dec => t \notin orphans'[s]

(* DecReference keeps the invariant. *)
LEMMA DecReferenceKeepsIInv ==
  ASSUME IInv, NEW t, NEW ask \in BOOLEAN, NEW dec \in BOOLEAN, NEW ft \in BOOLEAN,
         ft => dec /\ promised,
         MayDecrement(t, dec, ft), DecReference(t, ask, dec, ft)
  PROVE  IInv'
<1> DEFINE n == IF dec THEN refcnt - 1 ELSE refcnt
           h == IF dec THEN held \ {t} ELSE held
<1> USE DEF IInv
<1>1. /\ t \in Tokens /\ t \in held /\ h \subseteq held /\ h \subseteq Tokens
      /\ n \in Nat /\ n = Cardinality(h)
  <2>1. t \in Tokens /\ t \in held /\ h \subseteq held /\ h \subseteq Tokens
    BY DEF MayDecrement, TypeOK
  <2>2. n \in Nat /\ n = Cardinality(h)
    BY <2>1, CountOneLess DEF TypeOK, RefCountExact
  <2> QED BY <2>1, <2>2
<1>2. (n = 0) = (h = {})
  BY <1>1, CountZero
<1>3. /\ run' \in [Tokens -> Points]
      /\ \A s \in Tokens \ {t} : run'[s] = run[s]
      /\ run'[t] \in {"idle", "askthread", "cleanup", "delete"}
  BY <1>1 DEF DecReference, TypeOK, Points
<1>4. kids \subseteq h /\ (listed => Parent \in h)
  BY DEF MayDecrement, ListsCounted
<1>5. \A s \in Tokens : orphans'[s] \subseteq h
  BY DEF MayDecrement, ListsCounted
<1>6. \A s \in Tokens \ {t} : run[s] \in {"deletethis", "rmchilds"} => s \in Users \cap h
  BY DEF MayDecrement, UsersInside
<1>7. orphans[t] = {} /\ ~InDestroy(t)
  BY <1>1 DEF MayDecrement, ListsCounted, InDestroy
<1>8. \A s \in Tokens \ {t} : InDestroy(s)' = InDestroy(s)
  BY <1>3 DEF InDestroy
<1> HIDE DEF n, h
<1>9. h \subseteq held' => ListsCounted' /\ UsersInside'
  <2> SUFFICES ASSUME h \subseteq held' PROVE ListsCounted' /\ UsersInside'
    OBVIOUS
  <2>1. \A s \in Tokens : /\ orphans'[s] \subseteq held' \ kids'
                          /\ orphans'[s] # {} => run'[s] \in {"rmchilds", "unparent"}
                          /\ \A u \in Tokens \ {s} : orphans'[u] \cap orphans'[s] = {}
    BY <1>3, <1>5, <1>7 DEF MayDecrement, ListsCounted
  <2>2. ListsCounted'
    BY <1>4, <2>1 DEF MayDecrement, ListsCounted
  <2>3. UsersInside'
    BY <1>3, <1>6 DEF UsersInside, MayDecrement, Tokens
  <2> QED BY <2>2, <2>3
<1>10. CASE
        /\ \/ state = "Normal" /\ ~MustDestroy(ask, dec, n)
           \/ state = "WaitForThread" /\ ~UnblocksWait(ask, ft)
           \/ state \in {"DoingDestroy", "Destructor"}
           \/ state = "WaitForDestructor" /\ n # 0
        /\ refcnt' = n /\ held' = h
        /\ run' = [run EXCEPT ![t] = "idle"]
        /\ state' = state
  <2>1. TypeOK' /\ RefCountExact'
    BY <1>1, <1>3, <1>10 DEF TypeOK, RefCountExact, MayDecrement
  <2>2. ~InDestroy(t)' /\ run'[t] = "idle"
    BY <1>1, <1>10 DEF InDestroy, TypeOK
  <2>3. ft => state # "WaitForThread"
    BY <1>10 DEF UnblocksWait
  <2>4. StageMatchesCall'
    BY <1>1, <1>3, <1>7, <1>8, <1>10, <2>2, <2>3, RefsAssumption
       DEF StageMatchesCall, MayDecrement, h
  <2>5. CleanedStaysEmpty'
    <3>1. \A s \in Tokens : run[s] = "cleanup" => run'[s] = "cleanup"
      BY <1>3, <1>7 DEF InDestroy
    <3>2. state = "WaitForDestructor" => n > 0
      BY <1>1, <1>10
    <3> QED BY <1>10, <3>1, <3>2
            DEF CleanedStaysEmpty, WaitingHasRef, MayDecrement
  <2> QED BY <1>9, <1>10, <2>1, <2>4, <2>5
<1>11. CASE
        /\ state = "Normal" /\ MustDestroy(ask, dec, n) /\ hasThread
        /\ state' = "WaitForThread"
        /\ refcnt' = n + 1 /\ held' = h \cup {Thrd}
        /\ run' = [run EXCEPT ![t] = "askthread"]
  <2>1. ~ft /\ t # Thrd /\ Thrd \in Tokens /\ Thrd \notin h /\ ~promised /\ ~promised'
    BY <1>1, <1>11 DEF StageMatchesCall, MayDecrement, Tokens
  <2>2. TypeOK' /\ RefCountExact'
    BY <1>1, <1>3, <1>11, <2>1, CountOneMore
       DEF TypeOK, RefCountExact, MayDecrement, Stages
  <2>3. run'[t] = "askthread" /\ \A s \in Tokens : InDestroy(s)' => s = t
    BY <1>1, <1>8, <1>11 DEF StageMatchesCall, InDestroy, TypeOK, Points
  <2>4. StageMatchesCall'
    BY <1>1, <1>3, <1>11, <2>1, <2>3, RefsAssumption
       DEF StageMatchesCall, InDestroy, h
  <2>5. CleanedStaysEmpty'
    BY <1>11 DEF CleanedStaysEmpty, WaitingHasRef
  <2> QED BY <1>9, <1>11, <2>2, <2>4, <2>5
<1>12. CASE
        /\ \/ state = "Normal" /\ MustDestroy(ask, dec, n) /\ ~hasThread
           \/ state = "WaitForThread" /\ UnblocksWait(ask, ft)
        /\ state' = "DoingDestroy"
        /\ refcnt' = n /\ held' = h
        /\ run' = [run EXCEPT ![t] = "cleanup"]
  <2>1. TypeOK' /\ RefCountExact'
    BY <1>1, <1>3, <1>12 DEF TypeOK, RefCountExact, MayDecrement, Stages
  <2>2. ~promised' /\ Thrd \notin h /\ Mgr \notin h /\ Local \notin h
    BY <1>1, <1>12 DEF StageMatchesCall, MayDecrement, UnblocksWait, h
  <2>3. run'[t] = "cleanup" /\ \A s \in Tokens : InDestroy(s)' => s = t
    BY <1>1, <1>8, <1>12
       DEF StageMatchesCall, InDestroy, TypeOK, MayDecrement, UnblocksWait, Points
  <2>4. StageMatchesCall'
    BY <1>1, <1>3, <1>12, <2>2, <2>3 DEF StageMatchesCall, InDestroy
  <2>5. CleanedStaysEmpty'
    BY <1>1, <1>12, <2>3 DEF CleanedStaysEmpty, WaitingHasRef
  <2> QED BY <1>9, <1>12, <2>1, <2>4, <2>5
<1>13. CASE
        /\ state = "WaitForDestructor" /\ n = 0
        /\ state' = "Destructor"
        /\ refcnt' = n /\ held' = h
        /\ run' = [run EXCEPT ![t] = "delete"]
  <2>1. TypeOK' /\ RefCountExact'
    BY <1>1, <1>3, <1>13 DEF TypeOK, RefCountExact, MayDecrement, Stages
  <2>2. \A s \in Tokens \ {t} : ~InDestroy(s)
    <3> SUFFICES ASSUME NEW s \in Tokens \ {t}, InDestroy(s) PROVE FALSE
      OBVIOUS
    <3>1. run[s] = "tomanager"
      BY <1>13 DEF StageMatchesCall, InDestroy, TypeOK, Points
    <3>2. Local \in held /\ Local # t
      BY <3>1 DEF StageMatchesCall, MayDecrement
    <3> QED BY <1>2, <1>13, <3>2 DEF h
  <2>3. run'[t] = "delete" /\ \A s \in Tokens : InDestroy(s)' => s = t
    BY <1>1, <1>8, <1>13, <2>2 DEF TypeOK
  <2>4. StageMatchesCall'
    BY <1>1, <1>2, <1>3, <1>13, <2>3 DEF StageMatchesCall, InDestroy, MayDecrement
  <2>5. CleanedStaysEmpty'
    BY <1>2, <1>4, <1>13 DEF CleanedStaysEmpty, WaitingHasRef, MayDecrement
  <2> QED BY <1>9, <1>13, <2>1, <2>4, <2>5
<1> QED BY <1>10, <1>11, <1>12, <1>13 DEF DecReference, n, h

-----------------------------------------------------------------------------
(* The operations that end with a call of DecReference. *)

LEMMA RefsApart ==
  /\ Refs \subseteq Tokens /\ Kids \subseteq Tokens /\ Refs \cap Kids = {}
  /\ {Thrd, Mgr, Local} \subseteq Tokens
  /\ \A t \in Refs \cup Kids : t # Thrd /\ t # Mgr /\ t # Local
  /\ Thrd # Mgr /\ Thrd # Local /\ Mgr # Local
  /\ Parent \in Refs /\ Users \subseteq Refs /\ Parent \notin Users
BY RefsAssumption DEF Tokens, Users

LEMMA UserDecrementsKeepIInv ==
  ASSUME IInv, NEW r \in Refs,
         Release(r) \/ Destroy(r) \/ DestroyObj(r) \/ DeleteThisDestroy(r)
  PROVE  IInv'
<1> USE DEF IInv, HeldIdle, Idle
<1>1. \A s \in Tokens : orphans[s] \subseteq Kids
  BY DEF TypeOK
<1>2. ASSUME UNCHANGED <<kids, orphans, listed, flags, promised>>
      PROVE  /\ kids' = kids /\ listed' = listed /\ promised' = promised
             /\ autoDestroy' \in BOOLEAN /\ hasThread' \in BOOLEAN
             /\ cleanupBit' \in BOOLEAN
             /\ orphans' = orphans /\ orphans' \in [Tokens -> SUBSET Kids]
  BY <1>2 DEF TypeOK, flags
<1>3. r \in Tokens /\ r \notin Kids /\ r # Thrd /\ r # Local /\ r \notin kids
  BY RefsApart DEF TypeOK
<1>4. CASE Release(r)
  <2>1. MayDecrement(r, TRUE, FALSE)
    BY <1>1, <1>2, <1>3, <1>4 DEF MayDecrement, Release, Loose
  <2> QED BY <1>4, <2>1, DecReferenceKeepsIInv DEF Release
<1>5. CASE Destroy(r)
  <2>1. MayDecrement(r, TRUE, FALSE)
    BY <1>1, <1>2, <1>3, <1>5 DEF MayDecrement, Destroy, Loose
  <2> QED BY <1>5, <2>1, DecReferenceKeepsIInv DEF Destroy
<1>6. CASE DestroyObj(r)
  <2>1. MayDecrement(r, FALSE, FALSE)
    BY <1>1, <1>2, <1>3, <1>6 DEF MayDecrement, DestroyObj
  <2> QED BY <1>6, <2>1, DecReferenceKeepsIInv DEF DestroyObj
<1>7. CASE DeleteThisDestroy(r)
  <2>1. MayDecrement(r, FALSE, FALSE)
    BY <1>1, <1>2, <1>3, <1>7 DEF MayDecrement, DeleteThisDestroy, UsersInside
  <2> QED BY <1>7, <2>1, DecReferenceKeepsIInv DEF DeleteThisDestroy
<1> QED BY <1>4, <1>5, <1>6, <1>7

(* Whoever releases a child is inside of RemoveChilds with a reference of  *)
(* its own, or destroys the object already: the release starts nothing.    *)
LEMMA OrphanReleaseIsQuiet ==
  ASSUME IInv, NEW t \in Tokens, NEW k \in Kids, ReleaseOrphan(t, k)
  PROVE  run'[k] = "idle"
<1> USE DEF IInv
<1> DEFINE h == held \ {k}
<1>1. /\ k \in orphans[t] /\ k \in held /\ k \notin kids /\ k \in Tokens
      /\ run[t] \in {"rmchilds", "unparent"}
      /\ h \subseteq Tokens /\ refcnt - 1 = Cardinality(h)
  <2>1. k \in orphans[t] /\ k \in held /\ k \notin kids /\ k \in Tokens
        /\ run[t] \in {"rmchilds", "unparent"}
    BY RefsApart DEF ReleaseOrphan, ListsCounted
  <2>2. held \subseteq Tokens /\ refcnt = Cardinality(held)
    BY DEF TypeOK, RefCountExact
  <2> QED BY <2>1, <2>2, CountOneLess
<1>2. CASE run[t] = "unparent"
  <2>1. state = "DoingDestroy"
    BY <1>2 DEF StageMatchesCall
  <2> QED BY <1>1, <2>1 DEF ReleaseOrphan, DecReference, TypeOK
<1>3. CASE run[t] = "rmchilds"
  <2>1. t \in h /\ t \notin Kids
    BY <1>1, <1>3, RefsApart DEF UsersInside
  <2>2. refcnt - 1 # 0
    BY <1>1, <2>1, CountZero
  <2>3. refcnt - 1 # Cardinality(kids)
    <3>1. IsFiniteSet(h) /\ kids \subseteq h /\ kids # h
      BY <1>1, <2>1, TokensFinite, FS_Subset DEF ListsCounted, TypeOK
    <3> QED BY <1>1, <3>1, FS_Subset
  <2>4. ~MustDestroy(FALSE, TRUE, refcnt - 1) /\ ~UnblocksWait(FALSE, FALSE)
    BY <2>2, <2>3 DEF MustDestroy, UnblocksWait
  <2>5. run' = [run EXCEPT ![k] = "idle"]
    BY <2>2, <2>4 DEF ReleaseOrphan, DecReference
  <2> QED BY <1>1, <2>5 DEF TypeOK
<1> QED BY <1>1, <1>2, <1>3

LEMMA ReleaseOrphanKeepsIInv ==
  ASSUME IInv, NEW t \in Tokens, NEW k \in Kids, ReleaseOrphan(t, k)
  PROVE  IInv'
<1> USE DEF IInv
<1>1. k \in held \cap Tokens /\ k \notin kids /\ run[k] = "idle" /\ k # Thrd
      /\ k # Local /\ k # Parent
  BY RefsApart DEF ListsCounted, UsersInside, ReleaseOrphan
<1>2. /\ orphans' \in [Tokens -> SUBSET Kids]
      /\ \A s \in Tokens : orphans'[s] \subseteq orphans[s] /\ k \notin orphans'[s]
  <2>1. orphans' = [orphans EXCEPT ![t] = orphans[t] \ {k}]
    BY DEF ReleaseOrphan
  <2>2. \A s \in Tokens \ {t} : k \notin orphans[s]
    BY DEF ListsCounted, ReleaseOrphan
  <2> QED BY <2>1, <2>2 DEF TypeOK
<1>3. MayDecrement(k, TRUE, FALSE)
  BY <1>1, <1>2, OrphanReleaseIsQuiet DEF MayDecrement, ReleaseOrphan, TypeOK, flags
<1> QED BY <1>3, DecReferenceKeepsIInv DEF ReleaseOrphan

(* The counts that were delegated to the thread, to the manager, and to    *)
(* the local variable of DecReference. *)
LEMMA DelegatedDecrementsKeepIInv ==
  ASSUME IInv, SystemStep
  PROVE  IInv'
<1> USE DEF IInv, HeldIdle, Idle
<1>1. \A s \in Tokens : orphans[s] \subseteq Kids
  BY DEF TypeOK
<1>2. \A t \in {Thrd, Mgr, Local} : t \in Tokens /\ t \notin Kids /\ t # Parent /\ t \notin kids
  BY RefsApart DEF TypeOK
<1>3. CASE ThreadDestroys
  <2>1. MayDecrement(Thrd, TRUE, TRUE) /\ promised
    BY <1>1, <1>2, <1>3, RefsApart DEF MayDecrement, ThreadDestroys, TypeOK
  <2> QED BY <1>3, <2>1, DecReferenceKeepsIInv DEF ThreadDestroys
<1>4. CASE ManagerDestroys
  <2>1. MayDecrement(Mgr, TRUE, FALSE)
    BY <1>1, <1>2, <1>4, RefsApart DEF MayDecrement, ManagerDestroys, TypeOK, flags
  <2> QED BY <1>4, <2>1, DecReferenceKeepsIInv DEF ManagerDestroys
<1>5. CASE ReleaseLocal
  <2>1. MayDecrement(Local, TRUE, FALSE)
    BY <1>1, <1>2, <1>5, RefsApart DEF MayDecrement, ReleaseLocal, TypeOK, flags
  <2> QED BY <1>5, <2>1, DecReferenceKeepsIInv DEF ReleaseLocal
<1> QED BY <1>3, <1>4, <1>5 DEF SystemStep

-----------------------------------------------------------------------------
(* A new reference: a copy, an entry of the parent's list, a new child.    *)

LEMMA NewReferenceKeepsIInv ==
  ASSUME IInv, NEW r \in Refs, Acquire(r)
  PROVE  IInv'
<1> USE DEF IInv
<1>1. r \in Tokens /\ r \notin held /\ held # {} /\ r # Thrd /\ r # Mgr /\ r # Local
  BY RefsApart DEF Acquire
<1>2. held' = held \cup {r} /\ refcnt' = refcnt + 1
  BY DEF Acquire, IncReference
<1>3. UNCHANGED <<state, kids, orphans, listed, run, flags, promised>>
  BY DEF Acquire
<1>4. TypeOK' /\ RefCountExact'
  BY <1>1, <1>2, <1>3, CountOneMore DEF TypeOK, RefCountExact, flags
<1>5. ListsCounted' /\ UsersInside'
  BY <1>1, <1>2, <1>3 DEF ListsCounted, UsersInside
<1>6. StageMatchesCall'
  BY <1>1, <1>2, <1>3 DEF StageMatchesCall, InDestroy
<1>7. CleanedStaysEmpty'
  BY <1>2, <1>3 DEF CleanedStaysEmpty, WaitingHasRef, TypeOK
<1> QED BY <1>4, <1>5, <1>6, <1>7

LEMMA AdoptKeepsIInv ==
  ASSUME IInv, NEW owner \in BOOLEAN, Adopt(owner)
  PROVE  IInv'
<1> USE DEF IInv
<1>1. Parent \in Tokens /\ Parent \notin held /\ held # {}
      /\ Parent # Thrd /\ Parent # Mgr /\ Parent # Local
  BY RefsApart DEF Adopt
<1>2. held' = held \cup {Parent} /\ refcnt' = refcnt + 1 /\ listed' = TRUE
  BY DEF Adopt, IncReference
<1>3. /\ UNCHANGED <<state, kids, orphans, run, hasThread, cleanupBit, promised>>
      /\ autoDestroy' \in BOOLEAN
  BY DEF Adopt, TypeOK
<1>4. TypeOK' /\ RefCountExact'
  BY <1>1, <1>2, <1>3, CountOneMore DEF TypeOK, RefCountExact
<1>5. ListsCounted' /\ UsersInside'
  BY <1>1, <1>2, <1>3 DEF ListsCounted, UsersInside
<1>6. StageMatchesCall'
  BY <1>1, <1>2, <1>3 DEF StageMatchesCall, InDestroy
<1>7. CleanedStaysEmpty'
  BY <1>2, <1>3 DEF CleanedStaysEmpty, WaitingHasRef, TypeOK
<1> QED BY <1>4, <1>5, <1>6, <1>7

LEMMA ChildStepKeepsIInv ==
  ASSUME IInv, NEW k \in Kids, ChildStep(k)
  PROVE  IInv'
<1> USE DEF IInv
<1>1. k \in Tokens /\ k # Thrd /\ k # Mgr /\ k # Local /\ k # Parent /\ k \notin Users
  BY RefsApart
<1>2. UNCHANGED <<state, orphans, listed, run, flags, promised>>
  BY DEF ChildStep, AddChild, RemoveChild
<1>3. CASE AddChild(k)
  <2>1. /\ k \notin held /\ held # {} /\ (LateAdd \/ state = "Normal")
        /\ held' = held \cup {k} /\ refcnt' = refcnt + 1 /\ kids' = kids \cup {k}
    BY <1>3 DEF AddChild
  <2>2. TypeOK' /\ RefCountExact'
    BY <1>1, <1>2, <2>1, CountOneMore DEF TypeOK, RefCountExact, flags
  <2>3. ListsCounted' /\ UsersInside'
    BY <1>1, <1>2, <2>1 DEF ListsCounted, UsersInside
  <2>4. StageMatchesCall'
    BY <1>1, <1>2, <2>1 DEF StageMatchesCall, InDestroy
  <2>5. CleanedStaysEmpty'
    BY <1>2, <2>1 DEF CleanedStaysEmpty, WaitingHasRef, TypeOK
  <2> QED BY <2>2, <2>3, <2>4, <2>5
<1>4. CASE RemoveChild(k)
  <2>1. /\ k \in kids /\ k \in held /\ kids' = kids \ {k} /\ held' = held \ {k}
        /\ held \subseteq Tokens /\ refcnt = Cardinality(held)
    BY <1>4 DEF RemoveChild, ListsCounted, TypeOK, RefCountExact
  <2>2. refcnt' = refcnt - 1 /\ refcnt' = Cardinality(held') /\ refcnt' \in Nat
    BY <1>4, <2>1, CountOneLess DEF RemoveChild
  <2>3. TypeOK' /\ RefCountExact'
    BY <1>2, <2>1, <2>2 DEF TypeOK, RefCountExact, flags
  <2>4. ListsCounted' /\ UsersInside'
    BY <1>1, <1>2, <2>1 DEF ListsCounted, UsersInside
  <2>5. StageMatchesCall'
    BY <1>1, <1>2, <2>1 DEF StageMatchesCall, InDestroy
  <2>6. CleanedStaysEmpty'
    BY <1>2, <2>1 DEF CleanedStaysEmpty, WaitingHasRef, StageMatchesCall
  <2> QED BY <2>3, <2>4, <2>5, <2>6
<1> QED BY <1>3, <1>4 DEF ChildStep

-----------------------------------------------------------------------------
(* Operations that count nothing.                                          *)

LEMMA UncountedStepsKeepIInv ==
  ASSUME IInv,
         \/ ParentExtracts
         \/ \E r \in Refs : \/ DeleteThis(r) \/ SwitchThread(r)
                            \/ RemoveChilds(r) \/ RemoveChildsReturns(r)
  PROVE  IInv'
<1> USE DEF IInv
<1>1. CASE ParentExtracts
  BY <1>1 DEF ParentExtracts, flags, TypeOK, RefCountExact, ListsCounted, UsersInside,
              StageMatchesCall, InDestroy, CleanedStaysEmpty, WaitingHasRef
<1>2. ASSUME NEW r \in Refs, DeleteThis(r)
      PROVE  IInv'
  <2>1. r \in Tokens /\ r \in Users \cap held /\ run[r] = "idle" /\ r \notin Kids
    BY <1>2, RefsApart DEF DeleteThis, HeldIdle, Idle
  <2>2. /\ run' = [run EXCEPT ![r] = "deletethis"] /\ cleanupBit' = TRUE
        /\ UNCHANGED <<state, refcnt, held, kids, orphans, listed, autoDestroy,
                       hasThread, promised>>
    BY <1>2 DEF DeleteThis
  <2>3. TypeOK' /\ RefCountExact'
    BY <2>1, <2>2 DEF TypeOK, RefCountExact, Points
  <2>4. ListsCounted' /\ UsersInside'
    BY <2>1, <2>2, RefsApart DEF ListsCounted, UsersInside, TypeOK
  <2>5. StageMatchesCall'
    BY <2>1, <2>2 DEF StageMatchesCall, InDestroy, TypeOK
  <2>6. CleanedStaysEmpty'
    BY <2>1, <2>2 DEF CleanedStaysEmpty, WaitingHasRef, TypeOK
  <2> QED BY <2>3, <2>4, <2>5, <2>6
<1>3. ASSUME NEW r \in Refs, SwitchThread(r)
      PROVE  IInv'
  BY <1>3 DEF SwitchThread, TypeOK, RefCountExact, ListsCounted, UsersInside,
              StageMatchesCall, InDestroy, CleanedStaysEmpty, WaitingHasRef
<1>4. ASSUME NEW r \in Refs, RemoveChilds(r)
      PROVE  IInv'
  <2>1. r \in Tokens /\ r \in Users \cap held /\ run[r] = "idle" /\ r \notin Kids
        /\ orphans[r] = {}
    BY <1>4, RefsApart DEF RemoveChilds, HeldIdle, Idle, ListsCounted
  <2>2. /\ run' = [run EXCEPT ![r] = "rmchilds"]
        /\ orphans' = [orphans EXCEPT ![r] = kids] /\ kids' = {}
        /\ UNCHANGED <<state, refcnt, held, listed, flags, promised>>
    BY <1>4 DEF RemoveChilds, TakeChilds
  <2>3. TypeOK' /\ RefCountExact'
    BY <2>1, <2>2 DEF TypeOK, RefCountExact, Points, flags
  <2>4. ListsCounted'
    BY <2>1, <2>2 DEF ListsCounted, TypeOK
  <2>5. UsersInside'
    BY <2>1, <2>2, RefsApart DEF UsersInside, TypeOK
  <2>6. StageMatchesCall'
    BY <2>1, <2>2 DEF StageMatchesCall, InDestroy, TypeOK
  <2>7. CleanedStaysEmpty'
    BY <2>1, <2>2 DEF CleanedStaysEmpty, WaitingHasRef
  <2> QED BY <2>3, <2>4, <2>5, <2>6, <2>7
<1>5. ASSUME NEW r \in Refs, RemoveChildsReturns(r)
      PROVE  IInv'
  <2>1. r \in Tokens /\ run[r] = "rmchilds" /\ orphans[r] = {}
    BY <1>5, RefsApart DEF RemoveChildsReturns
  <2>2. /\ run' = [run EXCEPT ![r] = "idle"]
        /\ UNCHANGED <<state, refcnt, held, kids, orphans, listed, flags, promised>>
    BY <1>5 DEF RemoveChildsReturns
  <2>3. TypeOK' /\ RefCountExact'
    BY <2>1, <2>2 DEF TypeOK, RefCountExact, Points, flags
  <2>4. ListsCounted' /\ UsersInside'
    BY <2>1, <2>2, RefsApart DEF ListsCounted, UsersInside, TypeOK
  <2>5. StageMatchesCall'
    BY <2>1, <2>2 DEF StageMatchesCall, InDestroy, TypeOK
  <2>6. CleanedStaysEmpty'
    BY <2>1, <2>2 DEF CleanedStaysEmpty, WaitingHasRef, TypeOK
  <2> QED BY <2>3, <2>4, <2>5, <2>6
<1> QED BY <1>1, <1>2, <1>3, <1>4, <1>5

-----------------------------------------------------------------------------
(* The steps of the call that destroys the object.                         *)

(* Only token t moves, and t is the one call inside of the destruction. *)
LEMMA TheOneInside ==
  ASSUME IInv, NEW t \in Tokens, InDestroy(t)
  PROVE  /\ t \notin Kids
         /\ \A s \in Tokens \ {t} : run[s] \in {"idle", "deletethis", "rmchilds"}
         /\ \A s \in Tokens \ {t} : orphans[s] # {} => run[s] = "rmchilds"
BY DEF IInv, StageMatchesCall, UsersInside, ListsCounted, InDestroy

LEMMA ThreadAnswersKeepIInv ==
  ASSUME IInv, NEW t \in Tokens, ThreadAccepts(t) \/ ThreadRefuses(t)
  PROVE  IInv'
<1> USE DEF IInv
<1>1. /\ run[t] = "askthread" /\ InDestroy(t) /\ orphans[t] = {}
      /\ state = "WaitForThread" /\ ~promised /\ Thrd \in held
      /\ Mgr \notin held /\ Local \notin held
  BY DEF ThreadAccepts, ThreadRefuses, InDestroy, ListsCounted, StageMatchesCall
<1>2. /\ t \notin Kids
      /\ \A s \in Tokens \ {t} : run[s] \in {"idle", "deletethis", "rmchilds"}
  BY <1>1, TheOneInside
<1>3. UNCHANGED <<kids, orphans, listed, flags>>
  BY DEF ThreadAccepts, ThreadRefuses
<1>4. CASE ThreadAccepts(t)
  <2>1. /\ run' = [run EXCEPT ![t] = "idle"] /\ promised' = TRUE
        /\ UNCHANGED <<state, refcnt, held>>
    BY <1>4 DEF ThreadAccepts
  <2>2. TypeOK' /\ RefCountExact'
    BY <1>3, <2>1 DEF TypeOK, RefCountExact, Points, flags
  <2>3. ListsCounted' /\ UsersInside'
    BY <1>1, <1>2, <1>3, <2>1 DEF ListsCounted, UsersInside, TypeOK
  <2>4. StageMatchesCall'
    BY <1>1, <1>2, <2>1 DEF StageMatchesCall, InDestroy, TypeOK
  <2>5. CleanedStaysEmpty'
    BY <1>1, <2>1 DEF CleanedStaysEmpty, WaitingHasRef
  <2> QED BY <2>2, <2>3, <2>4, <2>5
<1>5. CASE ThreadRefuses(t)
  <2>1. /\ run' = [run EXCEPT ![t] = "cleanup"] /\ state' = "DoingDestroy"
        /\ held' = held \ {Thrd} /\ refcnt' = refcnt - 1 /\ promised' = promised
    BY <1>5 DEF ThreadRefuses
  <2>2. TypeOK' /\ RefCountExact'
    <3>1. refcnt' = Cardinality(held') /\ refcnt' \in Nat
      BY <1>1, <2>1, CountOneLess DEF TypeOK, RefCountExact
    <3>2. run' \in [Tokens -> Points] /\ held' \subseteq Tokens
      BY <2>1 DEF TypeOK, Points
    <3> QED BY <1>3, <2>1, <3>1, <3>2 DEF TypeOK, RefCountExact, Stages, flags
  <2>3. ListsCounted' /\ UsersInside'
    BY <1>1, <1>2, <1>3, <2>1, RefsApart DEF ListsCounted, UsersInside, TypeOK
  <2>4. StageMatchesCall'
    BY <1>1, <1>2, <2>1 DEF StageMatchesCall, InDestroy, TypeOK
  <2>5. CleanedStaysEmpty'
    BY <2>1 DEF CleanedStaysEmpty, WaitingHasRef, TypeOK
  <2> QED BY <2>2, <2>3, <2>4, <2>5
<1> QED BY <1>4, <1>5

LEMMA CleanupKeepsIInv ==
  ASSUME IInv, NEW t \in Tokens, CleanupChilds(t) \/ CleanupParent(t)
  PROVE  IInv'
<1> USE DEF IInv
<1>1. /\ run[t] \in {"cleanup", "unparent"} /\ InDestroy(t)
      /\ orphans[t] = {} \/ run[t] = "unparent"
      /\ state = "DoingDestroy" /\ ~promised
      /\ Thrd \notin held /\ Mgr \notin held /\ Local \notin held
  BY DEF CleanupChilds, CleanupParent, InDestroy, ListsCounted, StageMatchesCall
<1>2. /\ t \notin Kids
      /\ \A s \in Tokens \ {t} : run[s] \in {"idle", "deletethis", "rmchilds"}
  BY <1>1, TheOneInside DEF CleanupChilds, CleanupParent, InDestroy
<1>3. CASE CleanupChilds(t)
  <2>1. /\ run' = [run EXCEPT ![t] = "unparent"]
        /\ orphans' = [orphans EXCEPT ![t] = kids] /\ kids' = {}
        /\ UNCHANGED <<state, refcnt, held, listed, flags, promised>>
        /\ run[t] = "cleanup"
    BY <1>3 DEF CleanupChilds, TakeChilds
  <2>2. TypeOK' /\ RefCountExact'
    BY <2>1 DEF TypeOK, RefCountExact, Points, flags
  <2>3. ListsCounted'
    BY <1>1, <2>1 DEF ListsCounted, TypeOK
  <2>4. UsersInside'
    BY <1>2, <2>1 DEF UsersInside, TypeOK
  <2>5. StageMatchesCall'
    BY <1>1, <1>2, <2>1 DEF StageMatchesCall, InDestroy, TypeOK
  <2>6. CleanedStaysEmpty'
    BY <1>1, <2>1 DEF CleanedStaysEmpty, WaitingHasRef
  <2> QED BY <2>2, <2>3, <2>4, <2>5, <2>6
<1>4. CASE CleanupParent(t)
  <2>1. /\ run' = [run EXCEPT ![t] = "finish"] /\ listed' = FALSE
        /\ UNCHANGED <<state, kids, orphans, flags, promised>>
        /\ run[t] = "unparent" /\ orphans[t] = {}
    BY <1>4 DEF CleanupParent
  <2>2. /\ held' \subseteq held /\ held \subseteq held' \cup {Parent}
        /\ TypeOK' /\ RefCountExact'
    <3>1. CASE listed
      <4>1. Parent \in held /\ held' = held \ {Parent} /\ refcnt' = refcnt - 1
        BY <1>4, <3>1 DEF CleanupParent, ListsCounted
      <4>2. refcnt' = Cardinality(held') /\ refcnt' \in Nat
        BY <4>1, CountOneLess DEF TypeOK, RefCountExact
      <4>3. run' \in [Tokens -> Points] /\ held' \subseteq Tokens
        BY <2>1, <4>1 DEF TypeOK, Points
      <4> QED BY <2>1, <4>1, <4>2, <4>3 DEF TypeOK, RefCountExact, flags
    <3>2. CASE ~listed
      BY <1>4, <2>1, <3>2 DEF CleanupParent, TypeOK, RefCountExact, Points, flags
    <3> QED BY <3>1, <3>2
  <2>3. ListsCounted'
    <3>1. Parent \notin Kids /\ kids \subseteq Kids
          /\ \A s \in Tokens : orphans[s] \subseteq Kids
      BY RefsApart DEF TypeOK
    <3> QED BY <1>2, <2>1, <2>2, <3>1 DEF ListsCounted, TypeOK
  <2>4. UsersInside'
    BY <1>2, <2>1, <2>2, RefsApart DEF UsersInside, TypeOK
  <2>5. StageMatchesCall'
    BY <1>1, <1>2, <2>1, <2>2 DEF StageMatchesCall, InDestroy, TypeOK
  <2>6. CleanedStaysEmpty'
    BY <1>1, <1>2, <2>1 DEF CleanedStaysEmpty, WaitingHasRef
  <2> QED BY <2>2, <2>3, <2>4, <2>5, <2>6
<1> QED BY <1>3, <1>4

LEMMA FinishKeepsIInv ==
  ASSUME IInv, NEW t \in Tokens, FinishDestroy(t) \/ ManagerQueues(t) \/ Delete(t)
  PROVE  IInv'
<1> USE DEF IInv
<1>1. /\ run[t] \in {"finish", "tomanager", "delete"} /\ InDestroy(t) /\ orphans[t] = {}
      /\ ~promised /\ Thrd \notin held /\ Mgr \notin held
  BY RefsApart DEF FinishDestroy, ManagerQueues, Delete, InDestroy, ListsCounted, StageMatchesCall
<1>2. /\ t \notin Kids
      /\ \A s \in Tokens \ {t} : run[s] \in {"idle", "deletethis", "rmchilds"}
  BY <1>1, TheOneInside
<1>3. UNCHANGED <<kids, orphans, listed, flags, promised>>
  BY DEF FinishDestroy, ManagerQueues, Delete
<1>4. ASSUME run' \in [Tokens -> Points], run' = [run EXCEPT ![t] = run'[t]],
             held \subseteq held', run'[t] \notin {"deletethis", "rmchilds"}
      PROVE  ListsCounted' /\ UsersInside'
  <2>1. \A s \in Tokens \ {t} : run'[s] = run[s]
    BY <1>4
  <2>2. ListsCounted'
    BY <1>1, <1>3, <1>4, <2>1 DEF ListsCounted
  <2>3. UsersInside'
    BY <1>2, <1>4, <2>1, RefsApart DEF UsersInside
  <2> QED BY <2>2, <2>3
<1>5. CASE FinishDestroy(t)
  <2>1. run[t] = "finish" /\ state = "DoingDestroy" /\ Local \notin held
    BY <1>5 DEF FinishDestroy, StageMatchesCall
  <2>2. LateAdd \/ kids = {}
    BY <1>2, <2>1 DEF CleanedStaysEmpty
  <2>3. CASE /\ state' = "WaitForDestructor"
             /\ held' = held \cup {Local} /\ refcnt' = refcnt + 1
             /\ run' = [run EXCEPT ![t] = "tomanager"]
    <3>1. TypeOK' /\ RefCountExact'
      BY <1>3, <2>1, <2>3, CountOneMore, RefsApart
         DEF TypeOK, RefCountExact, Points, Stages, flags
    <3>2. StageMatchesCall'
      BY <1>1, <1>2, <1>3, <2>1, <2>3, RefsApart DEF StageMatchesCall, InDestroy, TypeOK
    <3>3. CleanedStaysEmpty'
      BY <1>3, <2>2, <2>3 DEF CleanedStaysEmpty, WaitingHasRef, TypeOK
    <3> QED BY <1>4, <2>3, <3>1, <3>2, <3>3 DEF TypeOK
  <2>4. CASE /\ refcnt = 0 /\ state' = "Destructor"
             /\ run' = [run EXCEPT ![t] = "delete"]
             /\ UNCHANGED <<held, refcnt>>
    <3>1. TypeOK' /\ RefCountExact'
      BY <1>3, <2>4 DEF TypeOK, RefCountExact, Points, Stages, flags
    <3>2. held' = {}
      BY <2>4, CountZero DEF TypeOK, RefCountExact
    <3>3. StageMatchesCall'
      BY <1>1, <1>2, <1>3, <2>4, <3>2 DEF StageMatchesCall, InDestroy, TypeOK
    <3>4. CleanedStaysEmpty'
      BY <1>3, <2>2, <2>4 DEF CleanedStaysEmpty, WaitingHasRef
    <3> QED BY <1>4, <2>4, <3>1, <3>3, <3>4 DEF TypeOK
  <2>5. CASE /\ refcnt # 0 /\ state' = "WaitForDestructor"
             /\ run' = [run EXCEPT ![t] = "idle"]
             /\ UNCHANGED <<held, refcnt>>
    <3>1. TypeOK' /\ RefCountExact'
      BY <1>3, <2>5 DEF TypeOK, RefCountExact, Points, Stages, flags
    <3>2. StageMatchesCall'
      BY <1>1, <1>2, <1>3, <2>1, <2>5 DEF StageMatchesCall, InDestroy, TypeOK
    <3>3. CleanedStaysEmpty'
      BY <1>3, <2>2, <2>5 DEF CleanedStaysEmpty, WaitingHasRef, TypeOK
    <3> QED BY <1>4, <2>5, <3>1, <3>2, <3>3 DEF TypeOK
  <2> QED BY <1>5, <2>3, <2>4, <2>5 DEF FinishDestroy
<1>6. CASE ManagerQueues(t)
  <2>1. /\ run[t] = "tomanager" /\ state = "WaitForDestructor" /\ Local \in held
        /\ held' = held \cup {Mgr} /\ refcnt' = refcnt + 1 /\ state' = state
        /\ run' = [run EXCEPT ![t] = "idle"]
    BY <1>6 DEF ManagerQueues, IncReference, StageMatchesCall
  <2>2. TypeOK' /\ RefCountExact'
    BY <1>1, <1>3, <2>1, CountOneMore, RefsApart DEF TypeOK, RefCountExact, Points, flags
  <2>3. StageMatchesCall'
    BY <1>1, <1>2, <1>3, <2>1, RefsApart DEF StageMatchesCall, InDestroy, TypeOK
  <2>4. CleanedStaysEmpty'
    BY <1>2, <1>3, <2>1 DEF CleanedStaysEmpty, WaitingHasRef, TypeOK
  <2> QED BY <1>4, <2>1, <2>2, <2>3, <2>4 DEF TypeOK
<1>7. CASE Delete(t)
  <2>1. /\ run[t] = "delete" /\ state = "Destructor" /\ held = {}
        /\ held' = held /\ refcnt' = refcnt /\ state' = "Freed"
        /\ run' = [run EXCEPT ![t] = "idle"]
    BY <1>7 DEF Delete, StageMatchesCall
  <2>2. TypeOK' /\ RefCountExact'
    BY <1>3, <2>1 DEF TypeOK, RefCountExact, Points, Stages, flags
  <2>3. StageMatchesCall'
    BY <1>1, <1>2, <1>3, <2>1 DEF StageMatchesCall, InDestroy, TypeOK
  <2>4. CleanedStaysEmpty'
    BY <1>2, <1>3, <2>1 DEF CleanedStaysEmpty, WaitingHasRef, ListsCounted
  <2> QED BY <1>4, <2>1, <2>2, <2>3, <2>4 DEF TypeOK
<1> QED BY <1>5, <1>6, <1>7

-----------------------------------------------------------------------------
(* Every step keeps the invariant. *)
LEMMA NextIInv == IInv /\ [Next]_vars => IInv'
<1> SUFFICES ASSUME IInv, [Next]_vars PROVE IInv'
  OBVIOUS
<1>1. ASSUME NEW r \in Refs, UserStep(r) PROVE IInv'
  BY <1>1, UserDecrementsKeepIInv, NewReferenceKeepsIInv, UncountedStepsKeepIInv DEF UserStep
<1>2. ASSUME NEW owner \in BOOLEAN, Adopt(owner) PROVE IInv'
  BY <1>2, AdoptKeepsIInv
<1>3. CASE ParentExtracts
  BY <1>3, UncountedStepsKeepIInv
<1>4. ASSUME NEW k \in Kids, ChildStep(k) PROVE IInv'
  BY <1>4, ChildStepKeepsIInv
<1>5. ASSUME NEW t \in Tokens, DestroyStep(t) PROVE IInv'
  BY <1>5, ThreadAnswersKeepIInv, CleanupKeepsIInv, FinishKeepsIInv, ReleaseOrphanKeepsIInv
     DEF DestroyStep
<1>6. CASE SystemStep
  BY <1>6, DelegatedDecrementsKeepIInv
<1>7. CASE UNCHANGED vars
  BY <1>7 DEF vars, flags, IInv, TypeOK, RefCountExact, ListsCounted, UsersInside,
              StageMatchesCall, InDestroy, CleanedStaysEmpty, WaitingHasRef
<1> QED BY <1>1, <1>2, <1>3, <1>4, <1>5, <1>6, <1>7 DEF Next

(* IInv holds in every reachable state, for any number of references and   *)
(* children and every order of the calls. *)
THEOREM InductiveInvariant == Spec => []IInv
BY InitIInv, NextIInv, PTL DEF Spec

(* The variables of the model keep their types; in particular fObjectRefCnt *)
(* never becomes negative. *)
THEOREM TypeCorrect == Spec => []TypeOK
<1>1. IInv => TypeOK
  BY DEF IInv
<1> QED BY <1>1, InductiveInvariant, PTL

(* fObjectRefCnt is the number of references that exist. *)
THEOREM CountIsExact == Spec => []RefCountExact
<1>1. IInv => RefCountExact
  BY DEF IInv
<1> QED BY <1>1, InductiveInvariant, PTL

(* One call destroys the object, and nobody refers to it any more when it  *)
(* is deleted. *)
THEOREM NobodyIsLeft == Spec => []DestroyedAlone
<1>1. IInv => DestroyedAlone
  <2> SUFFICES ASSUME IInv PROVE DestroyedAlone
    OBVIOUS
  <2>1. \A s, t \in Destroying : s = t
    BY DEF IInv, StageMatchesCall, Destroying, InDestroy
  <2>2. state \in {"Destructor", "Freed"} => held = {}
    BY DEF IInv, StageMatchesCall
  <2>3. state = "Freed" => \A t \in Tokens : run[t] = "idle" /\ orphans[t] = {}
    BY <2>2 DEF IInv, StageMatchesCall, UsersInside, ListsCounted, TypeOK, Points
  <2> QED BY <2>1, <2>2, <2>3 DEF DestroyedAlone
<1> QED BY <1>1, InductiveInvariant, PTL

(* If no child comes late, an object that waits for its destructor has     *)
(* a reference left whose release will delete it. *)
THEOREM SomebodyWillDelete == Spec => [](LateAdd \/ WaitingHasRef)
<1>1. IInv => LateAdd \/ WaitingHasRef
  BY DEF IInv, CleanedStaysEmpty
<1> QED BY <1>1, InductiveInvariant, PTL

-----------------------------------------------------------------------------
(* What a step may do to the stage.                                        *)

LEMMA DecReferenceMovesOn ==
  ASSUME NEW t, NEW ask, NEW dec, NEW ft, DecReference(t, ask, dec, ft)
  PROVE  \/ state' = state
         \/ state = "Normal" /\ state' \in {"WaitForThread", "DoingDestroy"}
         \/ state = "WaitForThread" /\ ft /\ state' = "DoingDestroy"
              /\ run' = [run EXCEPT ![t] = "cleanup"]
         \/ state = "WaitForDestructor" /\ state' = "Destructor"
BY DEF DecReference, UnblocksWait

LEMMA StageMovesOn ==
  ASSUME IInv, Next
  PROVE  \/ state' = state
         \/ state = "Normal" /\ state' \in {"WaitForThread", "DoingDestroy"}
         \/ state = "WaitForThread" /\ state' = "DoingDestroy"
              /\ \/ ~promised
                 \/ run' = [run EXCEPT ![Thrd] = "cleanup"]
         \/ state = "DoingDestroy" /\ state' \in {"WaitForDestructor", "Destructor"}
         \/ state = "WaitForDestructor" /\ state' = "Destructor"
         \/ state = "Destructor" /\ state' = "Freed"
<1> DEFINE Moves ==
       \/ state' = state
       \/ state = "Normal" /\ state' \in {"WaitForThread", "DoingDestroy"}
       \/ state = "WaitForThread" /\ state' = "DoingDestroy"
            /\ \/ ~promised
               \/ run' = [run EXCEPT ![Thrd] = "cleanup"]
       \/ state = "DoingDestroy" /\ state' \in {"WaitForDestructor", "Destructor"}
       \/ state = "WaitForDestructor" /\ state' = "Destructor"
       \/ state = "Destructor" /\ state' = "Freed"
<1>1. ASSUME NEW r \in Refs, UserStep(r) PROVE Moves
  <2>1. CASE Release(r)
    BY <2>1, DecReferenceMovesOn DEF Release
  <2>2. CASE Destroy(r)
    BY <2>2, DecReferenceMovesOn DEF Destroy
  <2>3. CASE DestroyObj(r)
    BY <2>3, DecReferenceMovesOn DEF DestroyObj
  <2>4. CASE DeleteThisDestroy(r)
    BY <2>4, DecReferenceMovesOn DEF DeleteThisDestroy
  <2>5. CASE Acquire(r) \/ DeleteThis(r) \/ SwitchThread(r) \/ RemoveChilds(r)
              \/ RemoveChildsReturns(r)
    BY <2>5 DEF Acquire, DeleteThis, SwitchThread, RemoveChilds, RemoveChildsReturns
  <2> QED BY <1>1, <2>1, <2>2, <2>3, <2>4, <2>5 DEF UserStep
<1>2. ASSUME NEW t \in Tokens, DestroyStep(t) PROVE Moves
  <2>1. CASE ThreadAccepts(t) \/ CleanupChilds(t) \/ CleanupParent(t) \/ ManagerQueues(t)
    BY <2>1 DEF ThreadAccepts, CleanupChilds, CleanupParent, ManagerQueues
  <2>2. CASE ThreadRefuses(t)
    BY <2>2 DEF ThreadRefuses, IInv, StageMatchesCall
  <2>3. CASE FinishDestroy(t)
    BY <2>3 DEF FinishDestroy, IInv, StageMatchesCall
  <2>4. CASE Delete(t)
    BY <2>4 DEF Delete, IInv, StageMatchesCall
  <2>5. ASSUME NEW k \in Kids, ReleaseOrphan(t, k) PROVE Moves
    BY <2>5, DecReferenceMovesOn DEF ReleaseOrphan
  <2> QED BY <1>2, <2>1, <2>2, <2>3, <2>4, <2>5 DEF DestroyStep
<1>3. CASE SystemStep
  <2>1. CASE ThreadDestroys
    BY <2>1, DecReferenceMovesOn DEF ThreadDestroys
  <2>2. CASE ManagerDestroys
    BY <2>2, DecReferenceMovesOn DEF ManagerDestroys
  <2>3. CASE ReleaseLocal
    BY <2>3, DecReferenceMovesOn DEF ReleaseLocal
  <2> QED BY <1>3, <2>1, <2>2, <2>3 DEF SystemStep
<1>4. ASSUME NEW owner \in BOOLEAN, Adopt(owner) PROVE Moves
  BY <1>4 DEF Adopt
<1>5. CASE ParentExtracts
  BY <1>5 DEF ParentExtracts
<1>6. ASSUME NEW k \in Kids, ChildStep(k) PROVE Moves
  BY <1>6 DEF ChildStep, AddChild, RemoveChild
<1> QED BY <1>1, <1>2, <1>3, <1>4, <1>5, <1>6 DEF Next

(* The stages follow one another and none is entered twice: ObjectCleanup  *)
(* and the destructor run at most once. *)
THEOREM StagesFollow == Spec => StagesInOrder
<1>1. IInv /\ [Next]_vars => [state' # state => Rank[state'] > Rank[state]]_vars
  <2> SUFFICES ASSUME IInv, Next, state' # state PROVE Rank[state'] > Rank[state]
    OBVIOUS
  <2>1. /\ Rank["Normal"] = 0 /\ Rank["WaitForThread"] = 1 /\ Rank["DoingDestroy"] = 2
        /\ Rank["WaitForDestructor"] = 3 /\ Rank["Destructor"] = 4 /\ Rank["Freed"] = 5
    BY DEF Rank, Stages
  <2> QED BY <2>1, StageMovesOn
<1> QED BY <1>1, InductiveInvariant, PTL DEF Spec, StagesInOrder

(* While the thread's promise is open only the thread begins the cleanup. *)
THEOREM OwnThreadCleans == Spec => CleanupInOwnThread
<1>1. IInv /\ [Next]_vars =>
        [promised /\ state' = "DoingDestroy" => run'[Thrd] = "cleanup"]_vars
  <2> SUFFICES ASSUME IInv, Next, promised, state' = "DoingDestroy"
               PROVE  run'[Thrd] = "cleanup"
    OBVIOUS
  <2>1. state = "WaitForThread" /\ run \in [Tokens -> Points] /\ Thrd \in Tokens
    BY RefsApart DEF IInv, StageMatchesCall, TypeOK
  <2> QED BY <2>1, StageMovesOn
<1> QED BY <1>1, InductiveInvariant, PTL DEF Spec, CleanupInOwnThread

(* A Release begins the destruction only of an object that nobody but its  *)
(* own children refers to. *)
THEOREM AutoDestroyIsSafe == Spec => AutoDestroyOnlyUnused
<1>1. IInv /\ [Next]_vars =>
        [(\E r \in Refs : Release(r) /\ state = "Normal" /\ state' # "Normal")
           => held' \ {Thrd} \subseteq kids]_vars
  <2> SUFFICES ASSUME IInv, NEW r \in Refs, Release(r), state = "Normal", state' # "Normal"
               PROVE  held' \ {Thrd} \subseteq kids
    OBVIOUS
  <2> DEFINE h == held \ {r}
  <2>1. /\ r \in held /\ h \subseteq Tokens /\ IsFiniteSet(h) /\ kids \subseteq h
        /\ refcnt - 1 = Cardinality(h)
    <3>1. r \in held /\ held \subseteq Tokens /\ kids \subseteq Kids /\ kids \subseteq held
          /\ refcnt = Cardinality(held)
      BY DEF Release, HeldIdle, IInv, TypeOK, ListsCounted, RefCountExact
    <3> QED BY <3>1, RefsApart, CountOneLess, TokensFinite, FS_Subset
  <2>2. refcnt - 1 = 0 \/ refcnt - 1 = Cardinality(kids)
    BY DEF Release, DecReference, MustDestroy
  <2>3. held' \ {Thrd} \subseteq h
    BY DEF Release, DecReference
  <2>4. CASE refcnt - 1 = 0
    BY <2>1, <2>3, <2>4, CountZero
  <2>5. CASE refcnt - 1 = Cardinality(kids)
    BY <2>1, <2>3, <2>5, FS_Subset
  <2> QED BY <2>2, <2>4, <2>5
<1> QED BY <1>1, InductiveInvariant, PTL DEF Spec, AutoDestroyOnlyUnused
=============================================================================
