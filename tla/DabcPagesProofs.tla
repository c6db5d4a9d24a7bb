-------------------------- MODULE DabcPagesProofs --------------------------
(***************************************************************************)
(* Proofs about the pages of the web server itself, for any network, any   *)
(* length of the ring in the server, any length the browser asks for and   *)
(* any number of changes, openings and lost answers: the types of all      *)
(* pages, and the series drawn for an item with history, which is right    *)
(* while the server runs.                                                  *)
(***************************************************************************)
EXTENDS DabcPages, SequenceLemmas

Entries == [version : Nat, val : Nat]

HistoryTypes ==
  /\ version \in Nat /\ nodeVersion \in Nat /\ value \in Nat
  /\ recorded \in BOOLEAN /\ ring \in Seq(Entries)
  /\ hlimit \in Nat \ {0} /\ known \in Nat /\ kept \in Seq(Nat)

(* The ring ends with the value before the present one, and no entry is    *)
(* newer than the item.                                                    *)
RingRight ==
  /\ nodeVersion <= version
  /\ ~recorded => ring = <<>>
  /\ \A n \in 1..Len(ring) : /\ ring[n].version <= nodeVersion
                             /\ ring[n].val = value + n - Len(ring) - 1

(* The item had value v at version k: the entries made since then are the  *)
(* ones with that value and the later ones.                                *)
Marks(k, v) ==
  /\ k <= version /\ v <= value
  /\ \A n \in 1..Len(ring) : ring[n].version > k <=> ring[n].val >= v

KeptRight == kept # <<>> => ring # <<>> /\ Consecutive(kept)

(* What the browser keeps ends just before the value that its version      *)
(* stands for.                                                             *)
KeptUpTo(k) ==
  k > 0 => \E v \in Nat : Marks(k, v) /\ (kept # <<>> => kept[Len(kept)] = v - 1)

(* An answer, joined with what the browser keeps, ends just before the     *)
(* value that comes with it.                                               *)
Joined == IF request.history = <<>> THEN kept ELSE Joins(request.history, request.gap)
AnswerRight ==
  /\ request.version \in Nat /\ request.val \in Nat
  /\ Marks(request.version, request.val)
  /\ Joined \in Seq(Nat)
  /\ Joined # <<>> => /\ ring # <<>> /\ Consecutive(Joined)
                      /\ Joined[Len(Joined)] = request.val - 1

RequestRight ==
  \/ request.at = "none" /\ KeptUpTo(known)
  \/ /\ request.at = "sent" /\ known = 0
     /\ request.version \in Nat /\ request.hlimit = hlimit
     /\ KeptUpTo(request.version)
  \/ request.at = "answered" /\ known = 0 /\ AnswerRight

SeriesRight ==
  HistoryTypes /\ RingRight /\ KeptRight /\ RequestRight /\ Consecutive(series)
SeriesInv == restarts \in Nat /\ (restarts = 0 => SeriesRight)

-----------------------------------------------------------------------------
(* LastOf is the end of a sequence.                                        *)
LEMMA LastOfIsEnd ==
  ASSUME NEW S, NEW s \in Seq(S), NEW n \in Nat
  PROVE  /\ LastOf(s, n) \in Seq(S)
         /\ Len(s) <= n => LastOf(s, n) = s
         /\ Len(s) > n => /\ Len(LastOf(s, n)) = n
                          /\ \A i \in 1..n : LastOf(s, n)[i] = s[i + (Len(s) - n)]
<1>1. Len(s) \in Nat
  OBVIOUS
<1>2. CASE Len(s) <= n
  <2>1. (IF Len(s) > n THEN Len(s) - n ELSE 0) + 1 = 1
    BY <1>1, <1>2
  <2>2. LastOf(s, n) = SubSeq(s, 1, Len(s))
    BY <2>1, Zenon DEF LastOf
  <2>3. SubSeq(s, 1, Len(s)) = s
    OBVIOUS
  <2>4. LastOf(s, n) = s
    BY <2>2, <2>3
  <2>5. ~(Len(s) > n)
    BY <1>1, <1>2
  <2> QED
    BY <2>4, <2>5, Zenon
<1>3. CASE Len(s) > n
  <2>1. LastOf(s, n) = SubSeq(s, Len(s) - n + 1, Len(s))
    BY <1>1, <1>3 DEF LastOf
  <2> QED
    BY <1>1, <1>3, <2>1
<1> QED
  BY <1>1, <1>2, <1>3

(* The end of a consecutive series is one, with the same last value.       *)
LEMMA EndIsConsecutive ==
  ASSUME NEW s \in Seq(Nat), Consecutive(s), NEW n \in Nat \ {0}, s # <<>>
  PROVE  /\ LastOf(s, n) \in Seq(Nat) /\ LastOf(s, n) # <<>> /\ Len(LastOf(s, n)) <= n
         /\ Consecutive(LastOf(s, n))
         /\ LastOf(s, n)[Len(LastOf(s, n))] = s[Len(s)]
<1>1. Len(s) \in Nat
  OBVIOUS
<1>2. CASE Len(s) <= n
  BY <1>1, <1>2, LastOfIsEnd
<1>3. CASE Len(s) > n
  <2> DEFINE t == LastOf(s, n)
  <2>1. t \in Seq(Nat) /\ Len(t) = n /\ \A i \in 1..n : t[i] = s[i + (Len(s) - n)]
    BY <1>1, <1>3, LastOfIsEnd
  <2> HIDE DEF t
  <2>2. ASSUME NEW i \in 1..Len(t) - 1 PROVE t[i + 1] = t[i] + 1
    <3> DEFINE j == i + (Len(s) - n)
    <3>1. i \in 1..n /\ i + 1 \in 1..n /\ j \in 1..Len(s) - 1
      BY <1>1, <1>3, <2>1
    <3>2. t[i] = s[j]
      BY <2>1, <3>1
    <3>3. t[i + 1] = s[(i + 1) + (Len(s) - n)]
      BY <2>1, <3>1
    <3>4. (i + 1) + (Len(s) - n) = j + 1
      BY <1>1, <3>1
    <3>5. s[j + 1] = s[j] + 1
      BY <3>1 DEF Consecutive
    <3> QED
      BY <3>2, <3>3, <3>4, <3>5
  <2>3. t # <<>> /\ t[Len(t)] = s[Len(s)]
    BY <1>1, <1>3, <2>1
  <2> QED
    BY <2>1, <2>2, <2>3 DEF Consecutive, t
<1> QED
  BY <1>1, <1>2, <1>3

(* Two consecutive series that meet make one.                              *)
LEMMA JoinIsConsecutive ==
  ASSUME NEW s \in Seq(Nat), NEW t \in Seq(Nat), s # <<>>, t # <<>>,
         Consecutive(s), Consecutive(t), t[1] = s[Len(s)] + 1
  PROVE  /\ s \o t \in Seq(Nat) /\ s \o t # <<>>
         /\ Consecutive(s \o t)
         /\ (s \o t)[Len(s \o t)] = t[Len(t)]
<1> DEFINE u == s \o t
<1>1. /\ Len(s) \in Nat \ {0} /\ Len(t) \in Nat \ {0}
      /\ u \in Seq(Nat) /\ Len(u) = Len(s) + Len(t)
  OBVIOUS
<1>2. \A i \in 1..Len(s) : u[i] = s[i]
  BY <1>1
<1>3. \A i \in 1..Len(t) : u[Len(s) + i] = t[i]
  BY <1>1
<1> HIDE DEF u
<1>4. ASSUME NEW i \in 1..Len(u) - 1 PROVE u[i + 1] = u[i] + 1
  <2>1. i \in Nat \ {0} /\ i < Len(s) + Len(t)
    BY <1>1
  <2>2. CASE i < Len(s)
    <3>1. i \in 1..Len(s) - 1 /\ i \in 1..Len(s) /\ i + 1 \in 1..Len(s)
      BY <1>1, <2>1, <2>2, SMTT(30)
    <3> QED
      BY <1>2, <3>1 DEF Consecutive
  <2>3. CASE i = Len(s)
    <3>1. u[i] = s[i] /\ u[i + 1] = t[1]
      BY <1>1, <1>2, <1>3, <2>3
    <3> QED
      BY <2>3, <3>1
  <2>4. CASE i > Len(s)
    <3> DEFINE j == i - Len(s)
    <3>1. /\ j \in 1..Len(t) - 1 /\ j \in 1..Len(t) /\ j + 1 \in 1..Len(t)
          /\ i = Len(s) + j /\ i + 1 = Len(s) + (j + 1)
      BY <1>1, <2>1, <2>4, SMTT(30)
    <3>2. u[i] = t[j] /\ u[i + 1] = t[j + 1]
      BY <1>3, <3>1
    <3> QED
      BY <3>1, <3>2 DEF Consecutive
  <2> QED
    BY <1>1, <2>1, <2>2, <2>3, <2>4
<1>5. u # <<>> /\ u[Len(u)] = t[Len(t)]
  BY <1>1, <1>3
<1> QED
  BY <1>1, <1>4, <1>5 DEF Consecutive, u

(* The value of the answer behind a history that ends just before it.      *)
LEMMA ExtractIsConsecutive ==
  ASSUME NEW s \in Seq(Nat), NEW v \in Nat,
         s # <<>> => Consecutive(s) /\ s[Len(s)] = v - 1
  PROVE  Consecutive(ExtractSeries(s, v))
<1> DEFINE u == Append(s, v)
<1>1. /\ Len(s) \in Nat /\ Len(u) = Len(s) + 1
      /\ \A i \in 1..Len(u) : u[i] = IF i <= Len(s) THEN s[i] ELSE v
  OBVIOUS
<1> HIDE DEF u
<1>2. ASSUME NEW i \in 1..Len(u) - 1 PROVE u[i + 1] = u[i] + 1
  <2>1. i \in 1..Len(s) /\ i \in 1..Len(u) /\ i + 1 \in 1..Len(u) /\ s # <<>>
    BY <1>1
  <2>2. CASE i < Len(s)
    BY <1>1, <2>1, <2>2 DEF Consecutive
  <2>3. CASE i = Len(s)
    <3>1. s[i] \in Nat
      BY <2>1
    <3> QED
      BY <1>1, <2>1, <2>3, <3>1
  <2> QED
    BY <1>1, <2>1, <2>2, <2>3
<1> QED
  BY <1>2 DEF Consecutive, ExtractSeries, u

(* The fields of the entries of a sequence.                                *)
LEMMA EntryFields ==
  ASSUME NEW s \in Seq(Entries), NEW n \in 1..Len(s)
  PROVE  s[n].version \in Nat /\ s[n].val \in Nat
<1>1. s[n] \in Entries
  OBVIOUS
<1> QED
  BY <1>1 DEF Entries

-----------------------------------------------------------------------------
LEMMA SeriesInvInit == HistoryInit => SeriesInv
<1> SUFFICES ASSUME HistoryInit PROVE SeriesInv
  OBVIOUS
<1>1. HistoryTypes
  <2>1. hlimit \in Nat \ {0}
    BY HistoryAssumption DEF HistoryInit
  <2>2. <<>> \in Seq(Entries) /\ <<>> \in Seq(Nat)
    OBVIOUS
  <2> QED
    BY <2>1, <2>2 DEF HistoryInit, HistoryTypes
<1>2. RingRight /\ KeptRight /\ Consecutive(series)
  BY DEF HistoryInit, RingRight, KeptRight, Consecutive
<1>3. RequestRight
  BY DEF HistoryInit, NoRequest, RequestRight, KeptUpTo
<1> QED
  BY <1>1, <1>2, <1>3 DEF HistoryInit, SeriesInv, SeriesRight

(* What the browser has is not touched by a change of the server, as long  *)
(* as the marks stay right: the ring is longer or has moved on.            *)
LEMMA MarksKept ==
  ASSUME UNCHANGED <<hlimit, known, kept, series, request>>, SeriesRight,
         ring # <<>> => ring' # <<>>,
         \A k, v \in Nat : Marks(k, v) => Marks(k, v)'
  PROVE  KeptRight' /\ RequestRight' /\ Consecutive(series)'
<1>1. KeptRight' /\ Consecutive(series)'
  BY DEF SeriesRight, KeptRight, Consecutive
<1>2. \A k \in Nat : KeptUpTo(k) => KeptUpTo(k)'
  BY DEF KeptUpTo
<1>3. AnswerRight => AnswerRight'
  BY DEF AnswerRight, Joined, Joins, LastOf, Consecutive
<1>4. known \in Nat
  BY DEF SeriesRight, HistoryTypes
<1>5. RequestRight'
  <2>1. CASE request.at = "none" /\ KeptUpTo(known)
    BY <1>2, <1>4, <2>1 DEF RequestRight, KeptUpTo
  <2>2. CASE /\ request.at = "sent" /\ known = 0
             /\ request.version \in Nat /\ request.hlimit = hlimit
             /\ KeptUpTo(request.version)
    BY <1>2, <2>2 DEF RequestRight, KeptUpTo
  <2>3. CASE request.at = "answered" /\ known = 0 /\ AnswerRight
    BY <1>3, <2>3 DEF RequestRight
  <2> QED
    BY <2>1, <2>2, <2>3 DEF SeriesRight, RequestRight
<1> QED
  BY <1>1, <1>5

(* A change of the value: the entry that is made, if one is, is newer than *)
(* every mark and holds the value before.                                  *)
LEMMA ChangeKeepsSeries ==
  ASSUME SeriesRight, ServerChange
  PROVE  SeriesRight'
<1> USE DEF HistoryTypes
<1>1. HistoryTypes /\ RingRight /\ Capacity \in Nat \ {0}
  BY HistoryAssumption DEF SeriesRight
<1>2. /\ version' = version + 1 /\ nodeVersion' = version + 1 /\ value' = value + 1
      /\ recorded' = TRUE /\ UNCHANGED <<hlimit, known, kept, series, request>>
  BY DEF ServerChange, browserVars
<1>3. CASE ~recorded
  <2>1. ring = <<>> /\ ring' = ring /\ Len(ring) = 0
    BY <1>1, <1>3 DEF ServerChange, RingRight
  <2>2. HistoryTypes' /\ RingRight'
    BY <1>1, <1>2, <2>1 DEF RingRight
  <2>3. \A k, v \in Nat : Marks(k, v) => Marks(k, v)'
    BY <1>1, <1>2, <2>1 DEF Marks
  <2> QED
    BY <1>2, <2>1, <2>2, <2>3, MarksKept DEF SeriesRight
<1>4. CASE recorded
  <2> DEFINE e == [version |-> version + 1, val |-> value]
             s == Append(ring, e)
             c == IF Len(s) > Capacity THEN Len(s) - Capacity ELSE 0
  <2>1. e \in Entries /\ s \in Seq(Entries) /\ Len(s) = Len(ring) + 1 /\ Len(ring) \in Nat
    BY <1>1 DEF Entries
  <2>2. /\ \A n \in 1..Len(ring) : s[n] = ring[n]
        /\ s[Len(ring) + 1] = e
    BY <1>1, <2>1
  <2>3. ring' = LastOf(s, Capacity)
    BY <1>2, <1>4 DEF ServerChange, Record
  <2> HIDE DEF s
  <2>4. /\ ring' \in Seq(Entries) /\ c \in 0..Len(ring) /\ Len(ring') = Len(s) - c
        /\ \A n \in 1..Len(ring') : ring'[n] = s[n + c]
    <3>1. CASE Len(s) <= Capacity
      <4>1. Capacity \in Nat /\ ~(Len(s) > Capacity)
        BY <1>1, <2>1, <3>1
      <4>2. c = 0
        BY <4>1
      <4>3. ring' = s
        BY <2>1, <2>3, <3>1, <4>1, LastOfIsEnd
      <4> QED
        BY <2>1, <4>2, <4>3
    <3>2. CASE Len(s) > Capacity
      <4>1. /\ c = Len(s) - Capacity /\ ring' \in Seq(Entries) /\ Len(ring') = Capacity
            /\ \A n \in 1..Capacity : ring'[n] = s[n + (Len(s) - Capacity)]
        BY <1>1, <2>1, <2>3, <3>2, LastOfIsEnd
      <4> QED
        BY <1>1, <2>1, <3>2, <4>1
    <3> QED
      BY <1>1, <2>1, <3>1, <3>2
  <2>5. \A n \in 1..Len(s) : /\ s[n].version <= version + 1
                             /\ s[n].val = value' + n - Len(s) - 1
    <3> TAKE n \in 1..Len(s)
    <3>1. CASE n = Len(s)
      <4>1. s[n].version = version + 1 /\ s[n].val = value
        BY <2>1, <2>2, <3>1
      <4>2. n \in Nat /\ value \in Nat /\ value' = value + 1
        BY <1>1, <1>2, <2>1
      <4>3. version + 1 \in Nat
        BY <1>1
      <4>4. value' + n - Len(s) - 1 = value
        BY <3>1, <4>2
      <4> QED
        BY <4>1, <4>3, <4>4
    <3>2. CASE n # Len(s)
      <4>1. n \in 1..Len(ring) /\ s[n] = ring[n] /\ Len(s) = Len(ring) + 1
        BY <1>1, <2>1, <2>2, <3>2
      <4>2. ring[n].version \in Nat
        BY <1>1, <4>1, EntryFields
      <4>3. ring[n].version <= nodeVersion /\ nodeVersion <= version
        BY <1>1, <4>1 DEF RingRight
      <4>4. ring[n].val = value + n - Len(ring) - 1
        BY <1>1, <4>1 DEF RingRight
      <4>5. value' + n - Len(s) - 1 = value + n - Len(ring) - 1
        <5>1. value \in Nat /\ n \in Nat /\ Len(ring) \in Nat /\ value' = value + 1
          BY <1>1, <1>2, <2>1
        <5> QED
          BY <4>1, <5>1
      <4>6. ring[n].version <= version + 1
        BY <1>1, <4>2, <4>3
      <4> QED
        BY <4>1, <4>4, <4>5, <4>6
    <3> QED
      BY <3>1, <3>2
  <2> HIDE DEF c
  <2>6. HistoryTypes' /\ ring' # <<>>
    BY <1>1, <1>2, <2>1, <2>4
  <2>7. RingRight'
    <3>1. ASSUME NEW n \in 1..Len(ring')
          PROVE  /\ ring'[n].version <= nodeVersion'
                 /\ ring'[n].val = value' + n - Len(ring') - 1
      <4>1. n + c \in 1..Len(s) /\ ring'[n] = s[n + c] /\ Len(ring') = Len(s) - c
        BY <2>1, <2>4
      <4>2. n \in Nat /\ c \in Nat /\ Len(s) \in Nat /\ value' \in Nat
        BY <1>1, <1>2, <2>1, <2>4
      <4> QED
        BY <1>2, <2>5, <4>1, <4>2
    <3> QED
      BY <1>2, <3>1 DEF RingRight
  <2>8. ASSUME NEW k \in Nat, NEW v \in Nat, Marks(k, v)
        PROVE  Marks(k, v)'
    <3>1. k <= version /\ v <= value
      BY <2>8 DEF Marks
    <3>2. \A n \in 1..Len(s) : s[n].version > k <=> s[n].val >= v
      <4> TAKE n \in 1..Len(s)
      <4>1. CASE n = Len(s)
        BY <1>1, <2>1, <2>2, <3>1, <4>1
      <4>2. CASE n # Len(s)
        <5>1. n \in 1..Len(ring) /\ s[n] = ring[n]
          BY <1>1, <2>1, <2>2, <4>2
        <5> QED
          BY <2>8, <5>1 DEF Marks
      <4> QED
        BY <4>1, <4>2
    <3>3. ASSUME NEW n \in 1..Len(ring')
          PROVE  ring'[n].version > k <=> ring'[n].val >= v
      <4>1. n + c \in 1..Len(s) /\ ring'[n] = s[n + c]
        BY <2>1, <2>4
      <4> QED
        BY <3>2, <4>1
    <3> QED
      BY <1>1, <1>2, <3>1, <3>3 DEF Marks
  <2> QED
    BY <1>2, <2>6, <2>7, <2>8, MarksKept DEF SeriesRight
<1> QED
  BY <1>3, <1>4

(* Versions that grow elsewhere change no entry and no mark.               *)
LEMMA TouchKeepsSeries ==
  ASSUME SeriesRight, ServerTouch
  PROVE  SeriesRight'
<1>1. HistoryTypes /\ RingRight
  BY DEF SeriesRight
<1>2. /\ version' = version + 1 /\ nodeVersion' \in {version + 1, nodeVersion}
      /\ UNCHANGED <<value, recorded, ring>>
      /\ UNCHANGED <<hlimit, known, kept, series, request>>
  BY DEF ServerTouch, browserVars
<1>3. HistoryTypes'
  BY <1>1, <1>2 DEF HistoryTypes
<1>4. version \in Nat /\ nodeVersion \in Nat /\ nodeVersion <= version
  BY <1>1 DEF HistoryTypes, RingRight
<1>5. RingRight'
  <2>1. ASSUME NEW n \in 1..Len(ring)
        PROVE  ring[n].version <= nodeVersion'
    <3>1. ring[n] \in Entries /\ ring[n].version <= nodeVersion
      BY <1>1 DEF HistoryTypes, RingRight
    <3> QED
      BY <1>2, <1>4, <3>1 DEF Entries
  <2> QED
    BY <1>1, <1>2, <1>4, <2>1 DEF RingRight
<1>6. \A k, v \in Nat : Marks(k, v) => Marks(k, v)'
  BY <1>2, <1>4 DEF Marks
<1> QED
  BY <1>2, <1>3, <1>5, <1>6, MarksKept DEF SeriesRight

(* The entries in the answer are the values just before the present one.   *)
LEMMA WindowIsRight ==
  ASSUME HistoryTypes, RingRight, NEW h \in Nat \ {0}
  PROVE  LET w == LastOf(ring, h)
         IN  /\ w \in Seq(Entries) /\ Len(w) <= Len(ring)
             /\ ring # <<>> => w # <<>>
             /\ \A n \in 1..Len(w) : /\ w[n].val = value + n - Len(w) - 1
                                     /\ \E m \in 1..Len(ring) : w[n] = ring[m]
<1> DEFINE w == LastOf(ring, h)
           d == Len(ring) - Len(w)
<1>1. ring \in Seq(Entries) /\ Len(ring) \in Nat /\ h \in Nat /\ value \in Nat
  BY DEF HistoryTypes
<1>2. /\ w \in Seq(Entries) /\ Len(w) \in Nat /\ d \in Nat
      /\ (ring # <<>> => w # <<>>)
      /\ \A n \in 1..Len(w) : w[n] = ring[n + d]
  <2>1. CASE Len(ring) <= h
    <3>1. w = ring
      BY <1>1, <2>1, LastOfIsEnd
    <3>2. d = 0
      BY <1>1, <3>1
    <3> QED
      BY <1>1, <3>1, <3>2
  <2>2. CASE Len(ring) > h
    <3>1. /\ w \in Seq(Entries) /\ Len(w) = h
          /\ \A n \in 1..h : w[n] = ring[n + (Len(ring) - h)]
      BY <1>1, <2>2, LastOfIsEnd
    <3> HIDE DEF w
    <3> QED
      BY <1>1, <2>2, <3>1
  <2> QED
    BY <1>1, <2>1, <2>2
<1> HIDE DEF w
<1>3. ASSUME NEW n \in 1..Len(w)
      PROVE  w[n].val = value + n - Len(w) - 1 /\ \E m \in 1..Len(ring) : w[n] = ring[m]
  <2>1. n \in Nat /\ n + d \in 1..Len(ring)
    BY <1>1, <1>2
  <2>2. ring[n + d].val = value + (n + d) - Len(ring) - 1
    BY <2>1 DEF RingRight
  <2>3. value + (n + d) - Len(ring) - 1 = value + n - Len(w) - 1
    BY <1>1, <1>2, <2>1
  <2> QED
    BY <1>2, <2>1, <2>2, <2>3
<1>4. Len(w) <= Len(ring)
  BY <1>1, <1>2
<1> QED
  BY <1>2, <1>3, <1>4 DEF w

(* The answer of the server, joined with what the browser keeps, ends just *)
(* before the value in the answer: an answer without gap begins at the     *)
(* value that the version of the browser marks.                            *)
LEMMA ReplyKeepsSeries ==
  ASSUME SeriesRight, ServerReply
  PROVE  SeriesRight'
<1> DEFINE w == Window
           k == request.version
           f == FirstNews
           a == Values(News)
           J == IF a = <<>> THEN kept ELSE Joins(a, HistoryGap)
<1>1. HistoryTypes /\ RingRight /\ KeptRight /\ Consecutive(series)
  BY DEF SeriesRight
<1>2. /\ known = 0 /\ k \in Nat /\ request.hlimit = hlimit /\ KeptUpTo(k)
  BY DEF SeriesRight, ServerReply, RequestRight
<1>3. /\ value \in Nat /\ hlimit \in Nat \ {0} /\ kept \in Seq(Nat)
      /\ version \in Nat /\ nodeVersion \in Nat /\ ring \in Seq(Entries)
  BY <1>1 DEF HistoryTypes
<1>4. /\ w \in Seq(Entries) /\ Len(w) \in Nat /\ (ring # <<>> => w # <<>>)
      /\ Len(w) <= Len(ring) /\ DOMAIN w = 1..Len(w)
      /\ \A n \in 1..Len(w) : /\ w[n].val = value + n - Len(w) - 1
                              /\ \E m \in 1..Len(ring) : w[n] = ring[m]
  <2>1. w = LastOf(ring, hlimit)
    BY <1>2, Zenon DEF Window
  <2> HIDE DEF w
  <2>2. /\ w \in Seq(Entries) /\ (ring # <<>> => w # <<>>) /\ Len(w) <= Len(ring)
        /\ \A n \in 1..Len(w) : /\ w[n].val = value + n - Len(w) - 1
                                /\ \E m \in 1..Len(ring) : w[n] = ring[m]
    BY <1>1, <1>3, <2>1, WindowIsRight
  <2> QED
    BY <2>2
<1> HIDE DEF w
<1>5. ASSUME NEW v \in Nat, Marks(k, v), k > 0, NEW n \in 1..Len(w)
      PROVE  /\ EntryIsNews(w[n]) <=> w[n].val >= v
             /\ EntryIsOlder(w[n]) => w[n].val < v
  <2>1. PICK m \in 1..Len(ring) : w[n] = ring[m]
    BY <1>4
  <2>2. w[n].version > k <=> w[n].val >= v
    BY <1>5, <2>1 DEF Marks
  <2>3. w[n].version \in Nat /\ w[n].val \in Nat
    BY <1>4, EntryFields
  <2> QED
    BY <1>2, <1>5, <2>2, <2>3 DEF EntryIsNews, EntryIsOlder
<1>6. \E g \in 1..Len(w) + 1 : \A m \in DOMAIN w : EntryIsNews(w[m]) <=> m >= g
  <2>1. CASE k = 0
    <3>1. \A m \in DOMAIN w : EntryIsNews(w[m]) <=> m >= 1
      BY <1>4, <2>1 DEF EntryIsNews
    <3>2. 1 \in 1..Len(w) + 1
      BY <1>4
    <3> QED
      BY <3>1, <3>2, Zenon
  <2>2. CASE k > 0
    <3>1. PICK v \in Nat : Marks(k, v)
      BY <2>2, <1>2 DEF KeptUpTo
    <3>2. v <= value
      BY <3>1 DEF Marks
    <3> DEFINE g == IF v + Len(w) >= value THEN v + Len(w) - value + 1 ELSE 1
    <3>3. g \in 1..Len(w) + 1
      BY <1>3, <1>4, <3>2
    <3>4. ASSUME NEW m \in 1..Len(w) PROVE EntryIsNews(w[m]) <=> m >= g
      <4>1. EntryIsNews(w[m]) <=> w[m].val >= v
        BY <1>5, <2>2, <3>1
      <4>2. w[m].val = value + m - Len(w) - 1
        BY <1>4
      <4>3. value + m - Len(w) - 1 >= v <=> m >= g
        BY <1>3, <1>4
      <4> QED
        BY <4>1, <4>2, <4>3
    <3> QED
      BY <1>4, <3>3, <3>4
  <2> QED
    BY <1>2, <2>1, <2>2
<1>7. /\ f \in 1..Len(w) + 1
      /\ \A m \in 1..Len(w) : EntryIsNews(w[m]) <=> m >= f
  BY <1>4, <1>6, Zenon DEF FirstNews, w
<1> HIDE DEF f
<1>8. /\ a \in Seq(Nat) /\ Len(a) \in Nat /\ Len(a) = Len(w) + 1 - f
      /\ \A i \in 1..Len(a) : a[i] = w[i + f - 1].val
  <2> DEFINE q == SubSeq(w, f, Len(w))
  <2>1. News = q
    BY DEF News, f, w
  <2>2. /\ q \in Seq(Entries) /\ Len(q) = Len(w) + 1 - f /\ Len(q) \in Nat
        /\ \A i \in 1..Len(q) : q[i] = w[i + f - 1]
    BY <1>4, <1>7
  <2> HIDE DEF q
  <2>3. a = [i \in 1..Len(q) |-> q[i].val]
    BY <2>1, <2>2 DEF Values
  <2>4. \A i \in 1..Len(q) : q[i].val \in Nat
    BY <2>2, EntryFields
  <2>5. a \in Seq(Nat) /\ Len(a) = Len(q)
    BY <2>2, <2>3, <2>4
  <2> QED
    BY <2>2, <2>3, <2>5
<1> HIDE DEF a
<1>9. \A i \in 1..Len(a) : a[i] = value + i - Len(a) - 1
  <2> TAKE i \in 1..Len(a)
  <2>1. i + f - 1 \in 1..Len(w)
    BY <1>4, <1>7, <1>8
  <2>2. a[i] = value + (i + f - 1) - Len(w) - 1
    BY <1>4, <1>8, <2>1
  <2>3. value + (i + f - 1) - Len(w) - 1 = value + i - Len(a) - 1
    BY <1>3, <1>4, <1>7, <1>8
  <2> QED
    BY <2>2, <2>3
<1>10. a # <<>> => /\ ring # <<>> /\ Consecutive(a) /\ a[Len(a)] = value - 1
                   /\ Len(a) \in Nat \ {0}
  <2> SUFFICES ASSUME a # <<>> PROVE /\ ring # <<>> /\ Consecutive(a) /\ a[Len(a)] = value - 1
                   /\ Len(a) \in Nat \ {0}
    OBVIOUS
  <2>1. Len(a) \in Nat \ {0}
    BY <1>8
  <2>2. Len(ring) # 0
    BY <1>3, <1>4, <1>7, <1>8, <2>1
  <2>3. ring # <<>>
    BY <2>2
  <2>4. a[Len(a)] = value - 1
    <3>1. Len(a) \in 1..Len(a)
      BY <2>1
    <3>2. a[Len(a)] = value + Len(a) - Len(a) - 1
      BY <1>9, <3>1
    <3> QED
      BY <1>3, <2>1, <3>2
  <2>5. ASSUME NEW i \in 1..Len(a) - 1 PROVE a[i + 1] = a[i] + 1
    <3>1. i \in 1..Len(a) /\ i + 1 \in 1..Len(a)
      BY <2>1
    <3>2. a[i] = value + i - Len(a) - 1 /\ a[i + 1] = value + (i + 1) - Len(a) - 1
      BY <1>9, <3>1
    <3> QED
      BY <1>3, <2>1, <3>1, <3>2
  <2> QED
    BY <2>1, <2>3, <2>4, <2>5 DEF Consecutive
<1>11. ASSUME kept # <<>>, a # <<>>, ~HistoryGap
       PROVE  a[1] = kept[Len(kept)] + 1
  <2>1. PICK n \in 1..Len(w) : w[n].version < k
    BY <1>4, <1>11 DEF HistoryGap, EntryIsOlder, w
  <2>2. w[n].version \in Nat
    BY <1>4, <2>1, EntryFields
  <2>3. k > 0
    BY <1>2, <2>1, <2>2
  <2>4. PICK v \in Nat : Marks(k, v) /\ kept[Len(kept)] = v - 1
    BY <1>2, <1>11, <2>3 DEF KeptUpTo
  <2>5. n < f
    <3>1. ~EntryIsNews(w[n])
      BY <1>2, <2>1, <2>2, <2>3 DEF EntryIsNews
    <3> QED
      BY <1>4, <1>7, <3>1
  <2>6. Len(a) \in Nat \ {0} /\ f \in 1..Len(w) /\ f - 1 \in 1..Len(w)
    BY <1>4, <1>7, <1>8, <1>10, <1>11, <2>5
  <2>7. w[f].val >= v /\ ~(w[f - 1].val >= v)
    <3>1. EntryIsNews(w[f]) /\ ~EntryIsNews(w[f - 1])
      BY <1>7, <2>6
    <3> QED
      BY <1>5, <2>3, <2>4, <2>6, <3>1
  <2>8. w[f].val = value + f - Len(w) - 1 /\ w[f - 1].val = value + (f - 1) - Len(w) - 1
    BY <1>4, <2>6
  <2>9. w[f].val = v
    <3>1. value + f - Len(w) - 1 >= v /\ ~(value + (f - 1) - Len(w) - 1 >= v)
      BY <2>7, <2>8
    <3>2. f \in Nat /\ Len(w) \in Nat /\ value \in Nat
      BY <1>3, <1>4, <2>6
    <3>3. value + f - Len(w) - 1 = v
      BY <3>1, <3>2
    <3> QED
      BY <2>8, <3>3
  <2>10. a[1] = w[f].val
    <3>1. 1 \in 1..Len(a) /\ 1 + f - 1 = f
      BY <2>6
    <3> QED
      BY <1>8, <3>1
  <2> QED
    BY <2>4, <2>9, <2>10
<1>12. ASSUME kept # <<>>, a = <<>>
       PROVE  kept[Len(kept)] = value - 1
  <2>1. Len(w) \in 1..Len(w) /\ f = Len(w) + 1
    <3>1. ring # <<>>
      BY <1>1, <1>12 DEF KeptRight
    <3>2. Len(a) = 0 /\ Len(w) # 0
      BY <1>4, <1>12, <3>1
    <3> QED
      BY <1>4, <1>7, <1>8, <3>2
  <2>2. ~EntryIsNews(w[Len(w)])
    BY <1>4, <1>7, <2>1
  <2>3. k > 0
    BY <1>2, <2>2 DEF EntryIsNews
  <2>4. PICK v \in Nat : Marks(k, v) /\ kept[Len(kept)] = v - 1
    BY <1>2, <1>12, <2>3 DEF KeptUpTo
  <2>5. ~(w[Len(w)].val >= v) /\ w[Len(w)].val = value + Len(w) - Len(w) - 1
    BY <1>4, <1>5, <2>1, <2>2, <2>3, <2>4
  <2>6. v <= value
    BY <2>4 DEF Marks
  <2>7. v = value
    BY <1>3, <1>4, <2>5, <2>6
  <2> QED
    BY <2>4, <2>7
<1>13. /\ J \in Seq(Nat)
       /\ J # <<>> => ring # <<>> /\ Consecutive(J) /\ J[Len(J)] = value - 1
  <2>1. CASE a = <<>>
    BY <1>1, <1>3, <1>12, <2>1 DEF KeptRight
  <2>2. CASE a # <<>> /\ (kept = <<>> \/ Len(a) >= hlimit \/ HistoryGap)
    <3>1. J = a
      BY <2>2, Zenon DEF Joins
    <3> QED
      BY <1>8, <1>10, <2>2, <3>1
  <2>3. CASE a # <<>> /\ ~(kept = <<>> \/ Len(a) >= hlimit \/ HistoryGap)
    <3> DEFINE t == LastOf(kept, hlimit - Len(a))
    <3>1. J = t \o a
      BY <2>3, Zenon DEF Joins
    <3>2. hlimit - Len(a) \in Nat \ {0}
      BY <1>3, <1>8, <2>3
    <3>3. Consecutive(kept)
      BY <1>1, <2>3 DEF KeptRight
    <3>4. /\ t \in Seq(Nat) /\ t # <<>> /\ Consecutive(t)
          /\ t[Len(t)] = kept[Len(kept)]
      BY <1>3, <2>3, <3>2, <3>3, EndIsConsecutive
    <3> HIDE DEF t
    <3>5. a[1] = t[Len(t)] + 1
      BY <1>11, <2>3, <3>4
    <3>6. /\ t \o a \in Seq(Nat) /\ Consecutive(t \o a)
          /\ (t \o a)[Len(t \o a)] = a[Len(a)]
      BY <1>8, <1>10, <2>3, <3>4, <3>5, JoinIsConsecutive
    <3> QED
      BY <1>10, <2>3, <3>1, <3>6, Zenon
  <2> QED
    BY <2>1, <2>2, <2>3
<1> HIDE DEF J
<1>14. Marks(nodeVersion, value)
  <2>1. nodeVersion <= version /\ value <= value
    BY <1>1, <1>3 DEF RingRight
  <2>2. ASSUME NEW n \in 1..Len(ring)
        PROVE  ~(ring[n].version > nodeVersion) /\ ~(ring[n].val >= value)
    <3>1. /\ ring[n].version <= nodeVersion
          /\ ring[n].val = value + n - Len(ring) - 1
      BY <1>1 DEF RingRight
    <3>2. ring[n].version \in Nat /\ Len(ring) \in Nat
      BY <1>3, EntryFields
    <3>3. ~(value + n - Len(ring) - 1 >= value)
      BY <1>3, <3>2
    <3> QED
      BY <1>3, <3>1, <3>2, <3>3
  <2> QED
    BY <2>1, <2>2 DEF Marks
<1>15. /\ request' = [at |-> "answered", version |-> nodeVersion, val |-> value,
                      gap |-> HistoryGap, history |-> a]
       /\ UNCHANGED <<version, nodeVersion, value, recorded, ring, hlimit, known, kept, series>>
  BY DEF ServerReply, serverVars, browserVars, a
<1>16. Joined' = J
  BY <1>15 DEF Joined, Joins, J, LastOf
<1>17. AnswerRight'
  BY <1>3, <1>13, <1>14, <1>15, <1>16 DEF AnswerRight, Marks, Consecutive
<1>18. HistoryTypes' /\ RingRight' /\ KeptRight' /\ Consecutive(series)'
  BY <1>1, <1>15 DEF HistoryTypes, RingRight, KeptRight, Consecutive
<1> QED
  BY <1>2, <1>15, <1>17, <1>18 DEF SeriesRight, RequestRight

(* The steps of the browser.                                               *)
LEMMA BrowserKeepsSeries ==
  ASSUME SeriesRight, MakeItemRequest \/ AfterItemRequest \/ RequestLost
  PROVE  SeriesRight'
<1>1. HistoryTypes /\ RingRight /\ KeptRight /\ RequestRight /\ Consecutive(series)
  BY DEF SeriesRight
<1>2. UNCHANGED <<version, nodeVersion, value, recorded, ring, hlimit>>
  BY DEF MakeItemRequest, AfterItemRequest, RequestLost, serverVars, browserVars
<1>3. RingRight'
  BY <1>1, <1>2 DEF RingRight
<1>4. CASE MakeItemRequest
  <2>1. /\ request.at = "none" /\ UNCHANGED <<kept, series>> /\ known' = 0
        /\ request' = [at |-> "sent", version |-> known, hlimit |-> hlimit]
    BY <1>4 DEF MakeItemRequest
  <2>2. KeptUpTo(known) /\ known \in Nat
    BY <1>1, <2>1 DEF RequestRight, HistoryTypes
  <2>3. HistoryTypes' /\ KeptRight' /\ Consecutive(series)'
    BY <1>1, <1>2, <2>1 DEF HistoryTypes, KeptRight, Consecutive
  <2>4. KeptUpTo(request.version)'
    BY <1>2, <2>1, <2>2 DEF KeptUpTo, Marks
  <2>5. RequestRight'
    BY <1>2, <2>1, <2>2, <2>4 DEF RequestRight
  <2> QED
    BY <1>3, <2>3, <2>5 DEF SeriesRight
<1>5. CASE AfterItemRequest
  <2>1. /\ request.at = "answered" /\ request' = NoRequest
        /\ known' = request.version /\ kept' = Joined
        /\ series' = ExtractSeries(Joined, request.val)
    BY <1>5 DEF AfterItemRequest, Joined
  <2>2. AnswerRight
    BY <1>1, <2>1 DEF RequestRight
  <2>3. HistoryTypes'
    BY <1>1, <1>2, <2>1, <2>2 DEF HistoryTypes, AnswerRight
  <2>4. KeptRight'
    BY <1>2, <2>1, <2>2 DEF KeptRight, AnswerRight, Consecutive
  <2>5. Consecutive(series')
    BY <2>1, <2>2, ExtractIsConsecutive DEF AnswerRight
  <2>6. KeptUpTo(known)'
    BY <1>2, <2>1, <2>2 DEF KeptUpTo, AnswerRight, Marks
  <2>7. RequestRight'
    BY <2>1, <2>6 DEF RequestRight, NoRequest
  <2> QED
    BY <1>3, <2>3, <2>4, <2>5, <2>7 DEF SeriesRight, Consecutive
<1>6. CASE RequestLost
  <2>1. /\ request.at # "none" /\ request' = NoRequest
        /\ UNCHANGED <<known, kept, series>>
    BY <1>6 DEF RequestLost, browserVars
  <2>2. known = 0
    BY <1>1, <2>1 DEF RequestRight
  <2>3. HistoryTypes' /\ KeptRight' /\ Consecutive(series)'
    BY <1>1, <1>2, <2>1 DEF HistoryTypes, KeptRight, Consecutive
  <2>4. RequestRight'
    BY <2>1, <2>2 DEF RequestRight, NoRequest, KeptUpTo
  <2> QED
    BY <1>3, <2>3, <2>4 DEF SeriesRight
<1> QED
  BY <1>4, <1>5, <1>6

LEMMA SeriesInvNext == SeriesInv /\ [HistoryNext]_historyVars => SeriesInv'
<1> SUFFICES ASSUME SeriesInv, [HistoryNext]_historyVars PROVE SeriesInv'
  OBVIOUS
<1>1. CASE ServerRestart
  <2>1. restarts' \in Nat /\ restarts' # 0
    BY <1>1 DEF SeriesInv, ServerRestart
  <2> QED
    BY <2>1 DEF SeriesInv
<1>2. CASE UNCHANGED historyVars
  <2> USE <1>2 DEF historyVars, serverVars, browserVars
  <2>1. HistoryTypes' = HistoryTypes /\ RingRight' = RingRight /\ KeptRight' = KeptRight
    BY DEF HistoryTypes, RingRight, KeptRight, Consecutive
  <2>2. RequestRight' = RequestRight
    BY DEF RequestRight, KeptUpTo, Marks, AnswerRight, Joined, Joins, LastOf, Consecutive
  <2> QED
    BY <2>1, <2>2 DEF SeriesInv, SeriesRight, Consecutive
<1>3. CASE HistoryNext /\ ~ServerRestart
  <2>1. restarts' = restarts
    BY <1>3 DEF HistoryNext, ServerChange, ServerTouch, ServerReply, MakeItemRequest,
                AfterItemRequest, RequestLost, serverVars
  <2>2. SeriesRight => SeriesRight'
    BY <1>3, ChangeKeepsSeries, TouchKeepsSeries, ReplyKeepsSeries, BrowserKeepsSeries
       DEF HistoryNext
  <2> QED
    BY <2>1, <2>2 DEF SeriesInv
<1> QED
  BY <1>1, <1>2, <1>3

(* While the server runs, what the browser draws for an item with history  *)
(* has no value missing, doubled or out of order, whatever the ring holds, *)
(* the browser asks for and loses (dabc.js:1030-1066,                      *)
(* Hierarchy.cxx:113-152).                                                 *)
THEOREM HistorySafe == HistorySpec => []SeriesIsConsecutive
<1>1. SeriesInv => SeriesIsConsecutive
  BY DEF SeriesInv, SeriesRight, SeriesIsConsecutive
<1> QED
  BY SeriesInvInit, SeriesInvNext, <1>1, PTL DEF HistorySpec

-----------------------------------------------------------------------------
(* The types of the page of the event builder network.  A main request is  *)
(* only sent while a batch is free, and until its answer comes no requests *)
(* for nodes are added.                                                    *)
AskedSet == [batch : Batches, row : Rows \cup {CalRow}, of : Nodes]
BnetInv ==
  /\ BnetTypeOK /\ asked \subseteq AskedSet
  /\ mainreq \in {"idle", "sent", "answered"}
  /\ mainreq # "idle" => FreeBatches # {}
  /\ answer \in ServerLists \cup {<<>>}

LEMMA ListRows ==
  ASSUME NEW list \in ServerLists \cup {<<>>}, NEW row \in DOMAIN list
  PROVE  row \in Rows /\ list[row] \in Nodes
<1>1. list \in ServerLists
  OBVIOUS
<1>2. list \in Seq(Nodes)
  BY <1>1, BnetAssumption DEF BnetAssumption
<1> QED
  BY <1>1, <1>2 DEF Rows

LEMMA InfoRequestsTyped ==
  ASSUME NEW b \in Batches, NEW list \in ServerLists \cup {<<>>}, NEW cal \in Nodes \cup {Nobody}
  PROVE  InfoRequests(b, list, cal) \subseteq AskedSet
<1> SUFFICES ASSUME NEW r \in InfoRequests(b, list, cal) PROVE r \in AskedSet
  OBVIOUS
<1>1. CASE \E n \in DOMAIN list : r = [batch |-> b, row |-> n, of |-> list[n]]
  <2>1. PICK n \in DOMAIN list : r = [batch |-> b, row |-> n, of |-> list[n]]
    BY <1>1
  <2>2. n \in Rows /\ list[n] \in Nodes
    BY ListRows
  <2> QED
    BY <2>1, <2>2 DEF AskedSet
<1>2. CASE cal # Nobody /\ r = [batch |-> b, row |-> CalRow, of |-> cal]
  BY <1>2 DEF AskedSet
<1> QED
  BY <1>1, <1>2 DEF InfoRequests

LEMMA MainKeepsBnetInv ==
  ASSUME BnetInv, SendMainRequest \/ MasterAnswers \/ MainFails
  PROVE  BnetInv'
<1>1. /\ served' = served /\ items' = items /\ info' = info /\ calItem' = calItem /\ asked' = asked
  BY DEF SendMainRequest, MasterAnswers, MainFails
<1>2. FreeBatches' = FreeBatches
  BY <1>1 DEF FreeBatches
<1>3. /\ mainreq' \in {"idle", "sent", "answered"}
      /\ mainreq' # "idle" => FreeBatches # {}
  BY DEF SendMainRequest, MasterAnswers, MainFails, BnetInv
<1>4. answer' \in ServerLists \cup {<<>>}
  BY DEF SendMainRequest, MasterAnswers, MainFails, BnetInv, BnetTypeOK
<1> QED
  BY <1>1, <1>2, <1>3, <1>4 DEF BnetInv, BnetTypeOK

LEMMA ArrivalKeepsBnetInv ==
  ASSUME BnetInv, MainArrives
  PROVE  BnetInv'
<1>1. /\ mainreq' = "idle" /\ items' = answer /\ answer' = <<>> /\ served' = served
      /\ items' \in ServerLists \cup {<<>>}
  BY DEF MainArrives, BnetInv
<1>2. info' \in [Rows -> Nodes \cup {Nobody}] /\ calItem' \in Nodes \cup {Nobody}
  <2>1. \/ info' = NoInfo /\ calItem' = Nobody
        \/ info' = info /\ calItem' = calItem
    BY DEF MainArrives
  <2> QED
    BY <2>1 DEF NoInfo, BnetInv, BnetTypeOK
<1>3. PICK b \in Batches : \/ asked' = asked
                           \/ asked' = asked \cup InfoRequests(b, items', calItem')
  <2>1. PICK b : b = CHOOSE c \in FreeBatches : TRUE
    OBVIOUS
  <2>2. b \in FreeBatches
    BY <2>1 DEF BnetInv, MainArrives
  <2>3. b \in Batches
    BY <2>2 DEF FreeBatches
  <2> QED
    BY <2>1, <2>3 DEF MainArrives
<1>4. asked' \subseteq AskedSet
  <2>1. InfoRequests(b, items', calItem') \subseteq AskedSet
    BY <1>1, <1>2, InfoRequestsTyped
  <2> QED
    BY <1>3, <2>1 DEF BnetInv
<1> QED
  BY <1>1, <1>2, <1>4 DEF BnetInv, BnetTypeOK, AskedSet

LEMMA InfoKeepsBnetInv ==
  ASSUME BnetInv, NEW r \in asked, InfoArrives(r) \/ InfoFails(r)
  PROVE  BnetInv'
<1>1. /\ asked' = asked \ {r} /\ served' = served /\ items' = items /\ calItem' = calItem
      /\ mainreq' = mainreq /\ answer' = answer
  BY DEF InfoArrives, InfoFails
<1>2. r \in AskedSet
  BY DEF BnetInv
<1>3. FreeBatches \subseteq FreeBatches'
  BY <1>1 DEF FreeBatches
<1>4. info' \in [Rows -> Nodes \cup {Nobody}]
  <2>1. \/ info' = info
        \/ r.row # CalRow /\ info' = [info EXCEPT ![r.row] = r.of]
    BY DEF InfoArrives, InfoFails
  <2> QED
    BY <1>2, <2>1 DEF BnetInv, BnetTypeOK, AskedSet
<1> QED
  BY <1>1, <1>3, <1>4 DEF BnetInv, BnetTypeOK

LEMMA UserKeepsBnetInv ==
  ASSUME BnetInv,
         \/ \E row \in Rows : DisplayCalItem(row)
         \/ ClearCalItem
         \/ Cleanup
         \/ \E list \in ServerLists : ListChanges(list)
         \/ UNCHANGED bnetVars
  PROVE  BnetInv'
<1>1. /\ items' = items /\ info' = info /\ asked' = asked
      /\ mainreq' = mainreq /\ answer' = answer
  BY DEF DisplayCalItem, ClearCalItem, Cleanup, ListChanges, bnetVars
<1>2. FreeBatches' = FreeBatches
  BY <1>1 DEF FreeBatches
<1>3. served' \in ServerLists
  BY DEF DisplayCalItem, ClearCalItem, Cleanup, ListChanges, bnetVars, BnetInv, BnetTypeOK
<1>4. calItem' \in Nodes \cup {Nobody}
  <2>1. CASE \E row \in Rows : DisplayCalItem(row)
    <3>1. PICK row \in DOMAIN items : calItem' = items[row]
      BY <2>1 DEF DisplayCalItem
    <3> QED
      BY <3>1, ListRows DEF BnetInv, BnetTypeOK
  <2>2. CASE ~\E row \in Rows : DisplayCalItem(row)
    BY <2>2 DEF ClearCalItem, Cleanup, ListChanges, bnetVars, BnetInv, BnetTypeOK
  <2> QED
    BY <2>1, <2>2
<1> QED
  BY <1>1, <1>2, <1>3, <1>4 DEF BnetInv, BnetTypeOK

LEMMA InitBnetInv == BnetInit => BnetInv
BY DEF BnetInit, BnetInv, BnetTypeOK, NoInfo

LEMMA NextBnetInv == BnetInv /\ [BnetNext]_bnetVars => BnetInv'
<1> SUFFICES ASSUME BnetInv, [BnetNext]_bnetVars PROVE BnetInv'
  OBVIOUS
<1> QED
  BY MainKeepsBnetInv, ArrivalKeepsBnetInv, InfoKeepsBnetInv, UserKeepsBnetInv DEF BnetNext

-----------------------------------------------------------------------------
(* The types of the control pages.                                         *)
LEMMA InitStatusType == StatusInit => StatusTypeOK
BY StatusAssumption DEF StatusAssumption, StatusInit, StatusTypeOK, Openings

LEMMA NextStatusType == StatusTypeOK /\ [StatusNext]_statusVars => StatusTypeOK'
<1> SUFFICES ASSUME StatusTypeOK, [StatusNext]_statusVars PROVE StatusTypeOK'
  OBVIOUS
<1>1. opened \in Nat /\ Openings \subseteq Nat
  BY StatusAssumption DEF StatusAssumption, StatusTypeOK, Openings
<1>2. CASE Open
  BY <1>1, <1>2 DEF Open, StatusTypeOK
<1>3. CASE ElementsGone \/ UNCHANGED statusVars
  BY <1>3 DEF ElementsGone, statusVars, StatusTypeOK
<1>4. CASE \E h \in Openings : StopsItself(h) \/ AsksStatus(h) \/ StatusArrives(h) \/ StatusFails(h)
  BY <1>4 DEF StopsItself, AsksStatus, StatusArrives, StatusFails, StatusTypeOK
<1> QED
  BY <1>2, <1>3, <1>4 DEF StatusNext

-----------------------------------------------------------------------------
(* The types of the history, also when the server restarts.  The versions  *)
(* in the ring grow, so that the news among its entries are its last ones  *)
(* and an answer is no longer than what the browser asked for.             *)
RingGrows ==
  /\ \A n \in 1..Len(ring) : ring[n].version <= version
  /\ \A n, m \in 1..Len(ring) : n <= m => ring[n].version <= ring[m].version
RequestTypes ==
  \/ request.at = "none"
  \/ request.at = "sent" /\ request.version \in 0..steps /\ request.hlimit = hlimit
  \/ /\ request.at = "answered" /\ request.version \in 0..steps
     /\ request.history \in Seq(Nat) /\ Len(request.history) <= hlimit
HistoryInv ==
  /\ HistoryTypes /\ HistoryTypeOK /\ RingGrows /\ RequestTypes
  /\ steps \in Nat /\ version <= steps

LEMMA EndIsShort ==
  ASSUME NEW S, NEW s \in Seq(S), NEW n \in Nat
  PROVE  /\ LastOf(s, n) \in Seq(S) /\ Len(LastOf(s, n)) <= n
         /\ \E d \in Nat : \A i \in 1..Len(LastOf(s, n)) : i + d \in 1..Len(s) /\ LastOf(s, n)[i] = s[i + d]
<1>1. Len(s) \in Nat
  OBVIOUS
<1>2. CASE Len(s) <= n
  <2>1. LastOf(s, n) = s
    BY <1>2, LastOfIsEnd
  <2>2. \A i \in 1..Len(s) : i + 0 \in 1..Len(s) /\ s[i] = s[i + 0]
    BY <1>1
  <2> QED
    BY <1>1, <1>2, <2>1, <2>2
<1>3. CASE Len(s) > n
  <2>1. PICK d \in Nat : d = Len(s) - n
    BY <1>1, <1>3
  <2>2. /\ LastOf(s, n) \in Seq(S) /\ Len(LastOf(s, n)) = n
        /\ \A i \in 1..n : LastOf(s, n)[i] = s[i + d]
    BY <1>3, <2>1, LastOfIsEnd
  <2>3. PICK t : t = LastOf(s, n)
    OBVIOUS
  <2>4. t \in Seq(S) /\ Len(t) = n /\ \A i \in 1..n : t[i] = s[i + d]
    BY <2>2, <2>3
  <2>5. \A i \in 1..n : i + d \in 1..Len(s)
    BY <1>1, <1>3, <2>1
  <2>6. Len(t) <= n /\ \A i \in 1..Len(t) : i + d \in 1..Len(s) /\ t[i] = s[i + d]
    BY <2>4, <2>5
  <2> QED
    BY <2>1, <2>3, <2>4, <2>6
<1>4. Len(s) <= n \/ Len(s) > n
  BY <1>1
<1> QED
  BY <1>2, <1>3, <1>4, Zenon

(* A change records what was there before, under a version of its own.     *)
LEMMA ChangeKeepsHistoryInv ==
  ASSUME HistoryInv, ServerChange
  PROVE  HistoryInv'
<1>1. /\ version \in Nat /\ value \in Nat /\ steps \in Nat /\ version <= steps /\ ring \in Seq(Entries)
      /\ Capacity \in Nat \ {0}
  BY HistoryAssumption DEF HistoryAssumption, HistoryInv, HistoryTypes
<1>2. /\ version' = version + 1 /\ nodeVersion' = version + 1 /\ value' = value + 1
      /\ recorded' = TRUE /\ steps' = steps + 1
      /\ hlimit' = hlimit /\ known' = known /\ kept' = kept /\ request' = request
  BY DEF ServerChange, ServerStep, browserVars
<1>3. ring' \in Seq(Entries) /\ Len(ring') <= Capacity /\ RingGrows'
  <2>1. CASE recorded
    <3>1. PICK e : e = [version |-> version + 1, val |-> value]
      OBVIOUS
    <3>2. e \in Entries /\ e.version = version + 1
      BY <1>1, <3>1 DEF Entries
    <3>3. PICK s : s = Append(ring, e)
      OBVIOUS
    <3>4. s \in Seq(Entries) /\ s = Append(ring, e)
      BY <1>1, <3>2, <3>3
    <3>5. ring' = LastOf(s, Capacity)
      BY <1>2, <2>1, <3>1, <3>4 DEF ServerChange, Record
    <3>6. /\ \A n \in 1..Len(s) : s[n].version <= version + 1
          /\ \A n, m \in 1..Len(s) : n <= m => s[n].version <= s[m].version
      <4>1. PICK l \in Nat : l = Len(ring) /\ Len(s) = l + 1 /\ s[l + 1] = e
        BY <1>1, <3>4
      <4>2. \A n \in 1..l : s[n] = ring[n]
        BY <1>1, <3>4, <4>1
      <4>3. \A n \in 1..l : ring[n].version \in Nat /\ ring[n].version <= version
        BY <1>1, <4>1, EntryFields DEF HistoryInv, RingGrows
      <4>4. \A n \in 1..Len(s) : n \in 1..l \/ n = l + 1
        BY <4>1
      <4>5. \A n \in 1..Len(s) : s[n].version <= version + 1
        BY <1>1, <3>2, <4>1, <4>2, <4>3, <4>4
      <4>6. ASSUME NEW n \in 1..Len(s), NEW m \in 1..Len(s), n <= m PROVE s[n].version <= s[m].version
        <5>1. CASE m \in 1..l
          <6>1. n \in 1..l
            BY <4>6, <5>1
          <6> QED
            BY <4>1, <4>2, <4>6, <5>1, <6>1 DEF HistoryInv, RingGrows
        <5>2. CASE m = l + 1
          BY <3>2, <4>1, <4>5, <5>2
        <5> QED
          BY <4>4, <5>1, <5>2
      <4> QED
        BY <4>5, <4>6
    <3>7. /\ ring' \in Seq(Entries) /\ Len(ring') <= Capacity
          /\ \E d \in Nat : \A i \in 1..Len(ring') : i + d \in 1..Len(s) /\ ring'[i] = s[i + d]
      <4>1. PICK t : t = LastOf(s, Capacity)
        OBVIOUS
      <4>2. Capacity \in Nat /\ s \in Seq(Entries)
        BY <1>1, <3>4
      <4>3. t \in Seq(Entries) /\ Len(t) <= Capacity
        BY <4>1, <4>2, EndIsShort
      <4>4. \E d \in Nat : \A i \in 1..Len(t) : i + d \in 1..Len(s) /\ t[i] = s[i + d]
        BY <4>1, <4>2, EndIsShort
      <4> QED
        BY <3>5, <4>1, <4>3, <4>4
    <3>8. PICK d \in Nat : \A i \in 1..Len(ring') : i + d \in 1..Len(s) /\ ring'[i] = s[i + d]
      BY <3>7
    <3>9. \A n \in 1..Len(ring') : ring'[n].version <= version'
      BY <1>2, <3>6, <3>8
    <3>10. ASSUME NEW n \in 1..Len(ring'), NEW m \in 1..Len(ring'), n <= m
          PROVE  ring'[n].version <= ring'[m].version
      <4>1. n + d <= m + d
        BY <3>10
      <4> QED
        BY <3>6, <3>8, <4>1
    <3> QED
      BY <3>7, <3>9, <3>10 DEF RingGrows
  <2>2. CASE ~recorded
    <3>1. ring' = ring
      BY <2>2 DEF ServerChange
    <3>2. \A n \in 1..Len(ring) : ring[n].version \in Nat /\ ring[n].version <= version
      BY <1>1, EntryFields DEF HistoryInv, RingGrows
    <3>3. \A n \in 1..Len(ring) : ring[n].version <= version + 1
      BY <1>1, <3>2
    <3> QED
      BY <1>1, <1>2, <3>1, <3>3 DEF HistoryInv, HistoryTypeOK, RingGrows
  <2> QED
    BY <2>1, <2>2
<1>4. RequestTypes'
  <2>1. 0..steps \subseteq 0..steps'
    BY <1>1, <1>2
  <2> QED
    BY <1>2, <2>1 DEF HistoryInv, RequestTypes
<1>5. HistoryTypes'
  BY <1>1, <1>2, <1>3 DEF HistoryInv, HistoryTypes
<1>6. known' \in 0..steps' /\ nodeVersion' \in 0..version' /\ version' <= steps' /\ steps' \in Nat
  BY <1>1, <1>2 DEF HistoryInv, HistoryTypeOK
<1> QED
  BY <1>2, <1>3, <1>4, <1>5, <1>6 DEF HistoryInv, HistoryTypeOK

LEMMA TouchKeepsHistoryInv ==
  ASSUME HistoryInv, ServerTouch \/ ServerRestart
  PROVE  HistoryInv'
<1>1. /\ version \in Nat /\ value \in Nat /\ steps \in Nat /\ version <= steps /\ ring \in Seq(Entries)
      /\ nodeVersion \in 0..version
  BY DEF HistoryInv, HistoryTypes, HistoryTypeOK
<1>2. /\ steps' = steps + 1
      /\ hlimit' = hlimit /\ known' = known /\ kept' = kept /\ request' = request
  BY DEF ServerTouch, ServerRestart, ServerStep, browserVars
<1>3. RequestTypes' /\ known' \in 0..steps'
  <2>1. 0..steps \subseteq 0..steps'
    BY <1>1, <1>2
  <2> QED
    BY <1>2, <2>1 DEF HistoryInv, HistoryTypeOK, RequestTypes
<1>4. CASE ServerTouch
  <2>1. /\ version' = version + 1 /\ nodeVersion' \in {version', nodeVersion}
        /\ value' = value /\ recorded' = recorded /\ ring' = ring
    BY <1>4 DEF ServerTouch
  <2>2. \A n \in 1..Len(ring) : ring[n].version \in Nat /\ ring[n].version <= version
    BY <1>1, EntryFields DEF HistoryInv, RingGrows
  <2>3. \A n \in 1..Len(ring) : ring[n].version <= version + 1
    BY <1>1, <2>2
  <2>4. RingGrows'
    BY <2>1, <2>3 DEF HistoryInv, RingGrows
  <2>5. /\ version' \in Nat /\ nodeVersion' \in Nat /\ nodeVersion' \in 0..version'
        /\ version' <= steps' /\ steps' \in Nat
    BY <1>1, <1>2, <2>1
  <2>6. HistoryTypes'
    BY <1>2, <2>1, <2>5 DEF HistoryInv, HistoryTypes
  <2> QED
    BY <1>2, <1>3, <2>1, <2>4, <2>5, <2>6 DEF HistoryInv, HistoryTypeOK
<1>5. CASE ServerRestart
  <2>1. /\ version' = 1 /\ nodeVersion' = 1 /\ value' = value + 2 /\ recorded' = TRUE /\ ring' = <<>>
    BY <1>5 DEF ServerRestart
  <2>2. ring' \in Seq(Entries) /\ Len(ring') = 0 /\ Capacity \in Nat
    BY <2>1, HistoryAssumption DEF HistoryAssumption
  <2>3. RingGrows'
    BY <2>2 DEF RingGrows
  <2>4. /\ version' \in Nat /\ nodeVersion' \in Nat /\ nodeVersion' \in 0..version'
        /\ version' <= steps' /\ steps' \in Nat /\ value' \in Nat
    BY <1>1, <1>2, <2>1
  <2>5. HistoryTypes'
    BY <1>2, <2>1, <2>2, <2>4 DEF HistoryInv, HistoryTypes
  <2> QED
    BY <1>2, <1>3, <2>2, <2>3, <2>4, <2>5 DEF HistoryInv, HistoryTypeOK
<1> QED
  BY <1>4, <1>5

(* Where the versions grow there is a first entry with news.               *)
LEMMA NewsAreLast ==
  ASSUME NEW w \in Seq(Entries), request.version \in Nat,
         \A n, m \in 1..Len(w) : n <= m => w[n].version <= w[m].version
  PROVE  \E g \in 1..Len(w) + 1 : \A m \in DOMAIN w : EntryIsNews(w[m]) <=> m >= g
<1>1. PICK l \in Nat : l = Len(w) /\ DOMAIN w = 1..l
  OBVIOUS
<1> DEFINE T == {n \in 1..l + 1 : n = l + 1 \/ EntryIsNews(w[n])}
<1>2. T \subseteq Nat /\ l + 1 \in T
  BY <1>1
<1>3. PICK g \in T : \A n \in T : g <= n
  BY <1>2, LeastNumber
<1>4. ASSUME NEW m \in 1..l PROVE EntryIsNews(w[m]) <=> m >= g
  <2>1. ASSUME EntryIsNews(w[m]) PROVE m >= g
    <3>1. m \in T
      BY <1>1, <2>1
    <3> QED
      BY <1>1, <1>3, <3>1
  <2>2. ASSUME m >= g PROVE EntryIsNews(w[m])
    <3>1. g \in 1..l /\ EntryIsNews(w[g])
      BY <1>1, <1>3, <2>2
    <3>2. w[g].version <= w[m].version /\ w[g].version \in Nat /\ w[m].version \in Nat
      BY <1>1, <2>2, <3>1, EntryFields
    <3> QED
      BY <3>1, <3>2 DEF EntryIsNews
  <2> QED
    BY <2>1, <2>2
<1>5. g \in 1..l + 1
  BY <1>3
<1> QED
  BY <1>1, <1>4, <1>5

LEMMA ReplyKeepsHistoryInv ==
  ASSUME HistoryInv, ServerReply
  PROVE  HistoryInv'
<1>1. /\ version' = version /\ nodeVersion' = nodeVersion /\ value' = value /\ recorded' = recorded
      /\ ring' = ring /\ steps' = steps /\ hlimit' = hlimit /\ known' = known /\ kept' = kept
  BY DEF ServerReply, serverVars, browserVars
<1>2. /\ request.version \in Nat /\ request.hlimit = hlimit /\ hlimit \in Nat /\ steps \in Nat
      /\ ring \in Seq(Entries) /\ nodeVersion \in 0..steps
  BY DEF ServerReply, HistoryInv, HistoryTypes, HistoryTypeOK, RequestTypes
<1>3. PICK w : w = Window
  OBVIOUS
<1>4. w = LastOf(ring, hlimit)
  BY <1>2, <1>3, Zenon DEF Window
<1>5. w \in Seq(Entries) /\ Len(w) <= hlimit
  BY <1>2, <1>4, EndIsShort
<1>6. \A n, m \in 1..Len(w) : n <= m => w[n].version <= w[m].version
  <2>1. \E d \in Nat : \A i \in 1..Len(w) : i + d \in 1..Len(ring) /\ w[i] = ring[i + d]
    BY <1>2, <1>4, EndIsShort
  <2>2. PICK d \in Nat : \A i \in 1..Len(w) : i + d \in 1..Len(ring) /\ w[i] = ring[i + d]
    BY <2>1
  <2>3. ASSUME NEW n \in 1..Len(w), NEW m \in 1..Len(w), n <= m PROVE w[n].version <= w[m].version
    <3>1. n + d <= m + d
      BY <2>3
    <3> QED
      BY <2>2, <3>1 DEF HistoryInv, RingGrows
  <2> QED
    BY <2>3
<1>7. \E g \in 1..Len(w) + 1 : \A m \in DOMAIN w : EntryIsNews(w[m]) <=> m >= g
  BY <1>2, <1>5, <1>6, NewsAreLast
<1>8. FirstNews \in 1..Len(w) + 1
  BY <1>3, <1>7, Zenon DEF FirstNews
<1>9. PICK q : q = News
  OBVIOUS
<1>10. q \in Seq(Entries) /\ Len(q) \in Nat /\ Len(q) <= Len(w)
  <2>1. PICK f \in 1..Len(w) + 1 : f = FirstNews
    BY <1>8
  <2>2. q = SubSeq(w, f, Len(w))
    BY <1>3, <1>9, <2>1 DEF News
  <2> QED
    BY <1>5, <2>1, <2>2
<1>11. PICK a : a = Values(q)
  OBVIOUS
<1>12. a \in Seq(Nat) /\ Len(a) = Len(q)
  <2>1. a = [i \in 1..Len(q) |-> q[i].val]
    BY <1>10, <1>11 DEF Values
  <2>2. \A i \in 1..Len(q) : q[i].val \in Nat
    BY <1>10, EntryFields
  <2> QED
    BY <1>10, <2>1, <2>2
<1>13. request' = [at |-> "answered", version |-> nodeVersion, val |-> value,
                   gap |-> HistoryGap, history |-> a]
  BY <1>9, <1>11 DEF ServerReply
<1>14. request'.at = "answered" /\ request'.version = nodeVersion /\ request'.history = a
  BY <1>13
<1>15. Len(a) <= hlimit
  BY <1>2, <1>5, <1>10, <1>12
<1>16. RequestTypes'
  BY <1>1, <1>2, <1>12, <1>14, <1>15 DEF RequestTypes
<1> QED
  BY <1>1, <1>16 DEF HistoryInv, HistoryTypes, HistoryTypeOK, RingGrows

LEMMA BrowserKeepsHistoryInv ==
  ASSUME HistoryInv, MakeItemRequest \/ AfterItemRequest \/ RequestLost \/ UNCHANGED historyVars
  PROVE  HistoryInv'
<1>1. /\ version' = version /\ nodeVersion' = nodeVersion /\ value' = value /\ recorded' = recorded
      /\ ring' = ring /\ steps' = steps /\ hlimit' = hlimit
  BY DEF MakeItemRequest, AfterItemRequest, RequestLost, historyVars, serverVars, browserVars
<1>2. /\ hlimit \in Nat \ {0} /\ kept \in Seq(Nat) /\ Len(kept) <= hlimit
      /\ known \in 0..steps /\ steps \in Nat
  BY DEF HistoryInv, HistoryTypes, HistoryTypeOK
<1>3. /\ kept' \in Seq(Nat) /\ Len(kept') <= hlimit /\ known' \in 0..steps /\ RequestTypes'
  <2>1. CASE MakeItemRequest
    <3>1. /\ request' = [at |-> "sent", version |-> known, hlimit |-> hlimit]
          /\ known' = 0 /\ kept' = kept
      BY <2>1 DEF MakeItemRequest
    <3>2. request'.at = "sent" /\ request'.version = known /\ request'.hlimit = hlimit
      BY <3>1
    <3> QED
      BY <1>1, <1>2, <3>1, <3>2 DEF RequestTypes
  <2>2. CASE RequestLost \/ UNCHANGED historyVars
    <3>1. kept' = kept /\ known' = known /\ (request' = NoRequest \/ request' = request)
      BY <2>2 DEF RequestLost, historyVars, browserVars
    <3> QED
      BY <1>1, <1>2, <3>1 DEF NoRequest, HistoryInv, RequestTypes
  <2>3. CASE AfterItemRequest
    <3>1. /\ request.at = "answered" /\ request.version \in 0..steps
          /\ request.history \in Seq(Nat) /\ Len(request.history) <= hlimit
      BY <2>3 DEF AfterItemRequest, HistoryInv, RequestTypes
    <3>2. request' = NoRequest /\ known' = request.version
      BY <2>3 DEF AfterItemRequest
    <3>3. PICK a \in Seq(Nat) : a = request.history /\ Len(a) <= hlimit
      BY <3>1
    <3>4. kept' = IF a = <<>> THEN kept ELSE Joins(a, request.gap)
      BY <2>3, <3>3 DEF AfterItemRequest
    <3>5. \/ kept' = kept
          \/ kept' = a
          \/ ~(Len(a) >= hlimit) /\ kept' = LastOf(kept, hlimit - Len(a)) \o a
      BY <3>4, Zenon DEF Joins
    <3>6. ASSUME ~(Len(a) >= hlimit), kept' = LastOf(kept, hlimit - Len(a)) \o a
          PROVE  kept' \in Seq(Nat) /\ Len(kept') <= hlimit
      <4>1. PICK l \in Nat : l = Len(a) /\ l < hlimit
        <5>1. Len(a) \in Nat /\ ~(Len(a) >= hlimit) /\ hlimit \in Nat
          BY <1>2, <3>3, <3>6
        <5> QED
          BY <5>1
      <4>2. PICK n \in Nat : n = hlimit - Len(a)
        <5>1. hlimit - l \in Nat
          BY <1>2, <4>1
        <5> QED
          BY <4>1, <5>1
      <4>3. PICK t : t = LastOf(kept, n)
        OBVIOUS
      <4>4. t \in Seq(Nat) /\ Len(t) <= n
        BY <1>2, <4>2, <4>3, EndIsShort
      <4>5. PICK u : u = t \o a
        OBVIOUS
      <4>6. u \in Seq(Nat) /\ Len(u) = Len(t) + Len(a)
        BY <3>3, <4>4, <4>5
      <4>7. Len(u) <= hlimit
        BY <1>2, <3>3, <4>2, <4>4, <4>6
      <4> QED
        BY <3>6, <4>2, <4>3, <4>5, <4>6, <4>7
    <3>7. kept' \in Seq(Nat) /\ Len(kept') <= hlimit
      BY <1>2, <3>3, <3>5, <3>6
    <3> QED
      BY <1>1, <3>1, <3>2, <3>7 DEF NoRequest, RequestTypes
  <2> QED
    BY <2>1, <2>2, <2>3
<1>4. known' \in Nat
  BY <1>2, <1>3
<1> QED
  BY <1>1, <1>3, <1>4 DEF HistoryInv, HistoryTypes, HistoryTypeOK, RingGrows

LEMMA InitHistoryInv == HistoryInit => HistoryInv
<1> SUFFICES ASSUME HistoryInit PROVE HistoryInv
  OBVIOUS
<1>1. /\ version = 0 /\ nodeVersion = 0 /\ value = 1 /\ recorded = FALSE /\ ring = <<>>
      /\ hlimit \in HLimits /\ known = 0 /\ kept = <<>> /\ steps = 0 /\ request.at = "none"
  BY DEF HistoryInit, NoRequest
<1>2. hlimit \in Nat \ {0} /\ Capacity \in Nat
  BY <1>1, HistoryAssumption DEF HistoryAssumption
<1>3. ring \in Seq(Entries) /\ kept \in Seq(Nat) /\ Len(ring) = 0 /\ Len(kept) = 0
  BY <1>1
<1>4. RingGrows
  BY <1>3 DEF RingGrows
<1>5. HistoryTypes
  BY <1>1, <1>2, <1>3 DEF HistoryTypes
<1>6. HistoryTypeOK
  BY <1>1, <1>2, <1>3 DEF HistoryTypeOK
<1>7. RequestTypes
  BY <1>1 DEF RequestTypes
<1> QED
  BY <1>1, <1>4, <1>5, <1>6, <1>7 DEF HistoryInv

LEMMA NextHistoryInv == HistoryInv /\ [HistoryNext]_historyVars => HistoryInv'
BY ChangeKeepsHistoryInv, TouchKeepsHistoryInv, ReplyKeepsHistoryInv, BrowserKeepsHistoryInv
   DEF HistoryNext

-----------------------------------------------------------------------------
(* The pages side by side: a page takes its own steps only.                *)
LEMMA PagesRun ==
  DabcSpec => /\ BnetInit /\ [][BnetNext]_bnetVars
              /\ StatusInit /\ [][StatusNext]_statusVars
              /\ HistorySpec
<1>1. DabcInit => BnetInit /\ StatusInit /\ HistoryInit
  BY DEF DabcInit
<1>2. [DabcNext]_dabcVars => [BnetNext]_bnetVars /\ [StatusNext]_statusVars /\ [HistoryNext]_historyVars
  BY DEF DabcNext, dabcVars, BnetStep, StatusStep, HistoryStep
<1> QED
  BY <1>1, <1>2, PTL DEF DabcSpec, HistorySpec

(* The types of all pages; no history in the browser is longer than its    *)
(* owner allows, nor the ring of the server (dabc.js:121, 346-369,         *)
(* 1030-1066, Hierarchy.cxx:113-152).                                      *)
THEOREM DabcType == DabcSpec => []DabcTypeOK
<1>1. BnetInv /\ StatusTypeOK /\ HistoryInv => DabcTypeOK
  BY DEF BnetInv, HistoryInv, DabcTypeOK
<1>2. DabcSpec => []BnetInv /\ []StatusTypeOK /\ []HistoryInv
  BY PagesRun, InitBnetInv, NextBnetInv, InitStatusType, NextStatusType,
     InitHistoryInv, NextHistoryInv, PTL DEF HistorySpec
<1> QED
  BY <1>1, <1>2, PTL

(* The series of an item is right on a page that draws it.                 *)
COROLLARY SeriesSafe == DabcSpec => []SeriesIsConsecutive
BY PagesRun, HistorySafe, PTL
=============================================================================
