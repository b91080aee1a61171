--------------------------- MODULE StmCan_proofs ---------------------------
(* Theorems about StmCan, for every number of mailboxes, frames, identifiers *)
(* and troubles.                                                            *)
EXTENDS StmCan, FiniteSetTheorems, SequenceTheorems, WellFoundedInduction, TLAPS

-----------------------------------------------------------------------------
(* Numbers *)

LEMMA MinFacts ==
  ASSUME NEW S \in SUBSET Nat, S # {}
  PROVE  Min(S) \in S /\ \A y \in S : Min(S) =< y
<1> DEFINE R == OpToRel(<, Nat)
<1>1. \A x, y \in Nat : y < x => <<y, x>> \in R
  BY DEF OpToRel
<1> HIDE DEF R
<1>2. \E x \in S : \A y \in S : ~(<<y, x>> \in R)
  <2>1. IsWellFoundedOn(R, Nat)
    BY NatLessThanWellFounded DEF R
  <2> QED
    BY <2>1, WFMin
<1>3. PICK x \in S : \A y \in S : ~(<<y, x>> \in R)
  BY <1>2
<1>4. \A y \in S : ~(y < x)
  BY <1>1, <1>3
<1>5. \A y \in S : x =< y
  BY <1>4
<1> QED
  BY <1>5 DEF Min

\* An initial part of an interval is an interval.
LEMMA InitialPart ==
  ASSUME NEW n \in Nat, NEW K \in SUBSET (1..n),
         \A i, k \in 1..n : i < k /\ k \in K => i \in K
  PROVE  Cardinality(K) \in 0..n /\ K = 1..Cardinality(K)
<1> DEFINE C == (1..(n + 1)) \ K
           p == Min(C)
<1>1. n + 1 \in C /\ C \in SUBSET Nat
  OBVIOUS
<1>2. p \in C /\ \A y \in C : p =< y
  BY <1>1, MinFacts
<1> HIDE DEF p
<1>3. p \in 1..(n + 1) /\ p \notin K
  BY <1>2
<1>4. ASSUME NEW i \in K
      PROVE  i \in 1..(p - 1)
  <2>1. i \in 1..n
    OBVIOUS
  <2>2. i # p
    BY <1>3
  <2>3. ~(p < i)
    BY <1>3, <2>1
  <2> QED
    BY <1>3, <2>1, <2>2, <2>3
<1>5. ASSUME NEW i \in 1..(p - 1)
      PROVE  i \in K
  <2>1. i \in 1..(n + 1) /\ ~(p =< i)
    BY <1>3
  <2> QED
    BY <1>2, <2>1
<1>6. K = 1..(p - 1)
  BY <1>4, <1>5
<1>7. 1 \in Int /\ p - 1 \in Int /\ (1 > p - 1 => p = 1)
  BY <1>3
<1>8. Cardinality(1..(p - 1)) = p - 1
  BY <1>3, <1>7, FS_Interval
<1> QED
  BY <1>3, <1>6, <1>8

-----------------------------------------------------------------------------
(* libcanard's queue *)

\* Where a frame is put.
Place(q, f) == 1 + Quantify(DOMAIN q, LAMBDA i : q[i].id <= f.id)

LEMMA PlaceFacts ==
  ASSUME NEW q \in Seq(Frames), Sorted(q), NEW f \in Frames
  PROVE  /\ Place(q, f) \in 1..(Len(q) + 1)
         /\ \A i \in 1..Len(q) : i < Place(q, f) <=> q[i].id <= f.id
<1> DEFINE K == {i \in DOMAIN q : q[i].id <= f.id}
<1>1. PICK n \in Nat : n = Len(q) /\ DOMAIN q = 1..n
  OBVIOUS
<1>2. f.id \in Nat /\ \A i \in 1..n : q[i].id \in Nat
  <2>1. \A i \in 1..n : q[i] \in Frames
    BY <1>1
  <2> QED
    BY <2>1, SizesAssumption DEF Frames
<1>3. \A i, k \in 1..n : i < k /\ k \in K => i \in K
  BY <1>1, <1>2 DEF Sorted
<1>4. K \in SUBSET (1..n)
  BY <1>1
<1>5. Place(q, f) = 1 + Cardinality(K)
  BY DEF Place, Quantify
<1>6. \A i \in 1..n : i \in K <=> q[i].id <= f.id
  BY <1>1
<1> HIDE DEF K
<1>7. Cardinality(K) \in 0..n /\ K = 1..Cardinality(K)
  BY <1>3, <1>4, InitialPart
<1>8. \A i \in 1..n : i \in K <=> i < 1 + Cardinality(K)
  BY <1>7
<1> QED
  BY <1>1, <1>5, <1>6, <1>7, <1>8

\* A frame that is queued moves those behind it back by one.
LEMMA EnqueueFacts ==
  ASSUME NEW q \in Seq(Frames), Sorted(q), NEW f \in Frames
  PROVE  LET r == Enqueue(q, f)
             p == Place(q, f)
         IN  /\ r \in Seq(Frames) /\ Len(r) = Len(q) + 1 /\ Sorted(r)
             /\ p \in 1..Len(r) /\ r[p] = f
             /\ \A i \in 1..Len(q) : /\ i < p => r[i] = q[i]
                                     /\ i >= p => r[i + 1] = q[i]
<1> DEFINE r == Enqueue(q, f)
           p == Place(q, f)
           a == SubSeq(q, 1, p - 1)
           b == SubSeq(q, p, Len(q))
<1>1. PICK n \in Nat : n = Len(q) /\ DOMAIN q = 1..n
  OBVIOUS
<1>2. p \in 1..(n + 1) /\ \A i \in 1..n : i < p <=> q[i].id <= f.id
  BY <1>1, PlaceFacts
<1>3. r = a \o <<f>> \o b
  BY DEF Enqueue, InsertAt, Place
<1> HIDE DEF p
<1>4. /\ a \in Seq(Frames) /\ Len(a) = p - 1
      /\ \A i \in 1..(p - 1) : a[i] = q[i]
  BY <1>1, <1>2
<1>5. /\ b \in Seq(Frames) /\ Len(b) = n + 1 - p
      /\ \A i \in 1..(n + 1 - p) : b[i] = q[p + i - 1]
  BY <1>1, <1>2
<1> HIDE DEF a, b, r
<1>6. PICK c : c = a \o <<f>>
  OBVIOUS
<1>7. c \in Seq(Frames) /\ Len(c) = p /\ c[p] = f /\ \A i \in 1..(p - 1) : c[i] = q[i]
  BY <1>2, <1>4, <1>6
<1>8. /\ r \in Seq(Frames) /\ Len(r) = n + 1
      /\ \A i \in 1..p : r[i] = c[i]
      /\ \A i \in 1..(n + 1 - p) : r[p + i] = b[i]
  <2>1. r = c \o b
    BY <1>3, <1>6
  <2>2. p \in Nat /\ n + 1 - p \in Nat /\ p + (n + 1 - p) = n + 1
    BY <1>2
  <2>3. PICK m \in Nat : m = n + 1 - p
    BY <2>2
  <2>4. r \in Seq(Frames) /\ Len(r) = p + m
    <3>1. c \o b \in Seq(Frames) /\ Len(c \o b) = Len(c) + Len(b)
      BY <1>5, <1>7
    <3> QED
      BY <1>5, <1>7, <2>1, <2>3, <3>1
  <2>5. \A i \in 1..(p + m) : r[i] = IF i <= p THEN c[i] ELSE b[i - p]
    BY <1>5, <1>7, <2>1, <2>2, <2>3, ConcatProperties
  <2>6. \A i \in 1..p : i \in 1..(p + m) /\ i <= p
    BY <2>2, <2>3
  <2>7. \A i \in 1..m : p + i \in 1..(p + m) /\ ~(p + i <= p) /\ (p + i) - p = i
    BY <2>2, <2>3
  <2>8. \A i \in 1..m : r[p + i] = b[i]
    BY <2>5, <2>7
  <2> QED
    BY <2>2, <2>3, <2>4, <2>5, <2>6, <2>8
<1>9. \A i \in 1..n : i >= p => r[i + 1] = q[i]
  <2> SUFFICES ASSUME NEW i \in 1..n, i >= p
               PROVE  r[i + 1] = q[i]
    OBVIOUS
  <2>1. i + 1 - p \in 1..(n + 1 - p) /\ p + (i + 1 - p) = i + 1 /\ p + (i + 1 - p) - 1 = i
    BY <1>2
  <2> QED
    BY <1>5, <1>8, <2>1
<1>10. r[p] = f /\ \A i \in 1..n : i < p => r[i] = q[i]
  BY <1>2, <1>7, <1>8
<1>11. Sorted(r)
  <2> SUFFICES ASSUME NEW i \in 1..(n + 1), NEW k \in 1..(n + 1), i < k
               PROVE  r[i].id <= r[k].id
    BY <1>8 DEF Sorted
  <2>1. f.id \in Nat /\ \A m \in 1..n : q[m].id \in Nat
    <3>1. \A m \in 1..n : q[m] \in Frames
      BY <1>1
    <3> QED
      BY <3>1, SizesAssumption DEF Frames
  <2>2. \A j, m \in 1..n : j < m => q[j].id <= q[m].id
    BY <1>1 DEF Sorted
  <2>3. CASE k < p
    <3>1. i \in 1..n /\ k \in 1..n /\ i < p
      BY <1>2, <2>3
    <3> QED
      BY <1>10, <2>2, <2>3, <3>1
  <2>4. CASE k = p
    <3>1. i \in 1..n /\ i < p
      BY <1>2, <2>4
    <3> QED
      BY <1>2, <1>10, <2>4, <3>1
  <2>5. CASE k > p
    <3>1. k - 1 \in 1..n /\ k - 1 >= p /\ (k - 1) + 1 = k
      BY <1>2, <2>5
    <3>2. r[k] = q[k - 1] /\ f.id <= q[k - 1].id
      BY <1>2, <1>9, <2>1, <3>1
    <3>3. CASE i < p
      <4>1. i \in 1..n /\ i < k - 1
        BY <1>2, <3>1, <3>3
      <4> QED
        BY <1>10, <2>2, <3>1, <3>2, <3>3, <4>1
    <3>4. CASE i = p
      BY <1>10, <3>2, <3>4
    <3>5. CASE i > p
      <4>1. i - 1 \in 1..n /\ i - 1 >= p /\ (i - 1) + 1 = i /\ i - 1 < k - 1
        BY <1>2, <3>5
      <4> QED
        BY <1>9, <2>2, <3>1, <3>2, <4>1
    <3> QED
      BY <1>2, <3>3, <3>4, <3>5
  <2> QED
    BY <1>2, <2>3, <2>4, <2>5
<1> QED
  BY <1>1, <1>2, <1>8, <1>9, <1>10, <1>11 DEF p, r

LEMMA EnqueuedFrames ==
  ASSUME NEW q \in Seq(Frames), Sorted(q), NEW f \in Frames
  PROVE  LET r == Enqueue(q, f)
         IN  /\ \A k \in DOMAIN r : r[k] = f \/ \E i \in DOMAIN q : r[k] = q[i]
             /\ \E k \in DOMAIN r : r[k] = f
             /\ \A i \in DOMAIN q : \E k \in DOMAIN r : r[k] = q[i]
             /\ (/\ \A i, k \in DOMAIN q : q[i].n = q[k].n => i = k
                 /\ \A i \in DOMAIN q : q[i].n # f.n)
                => \A i, k \in DOMAIN r : r[i].n = r[k].n => i = k
<1> DEFINE r == Enqueue(q, f)
           p == Place(q, f)
<1>1. PICK n \in Nat : n = Len(q) /\ DOMAIN q = 1..n
  OBVIOUS
<1>2. /\ DOMAIN r = 1..(n + 1) /\ p \in 1..(n + 1) /\ r[p] = f
      /\ \A i \in 1..n : (i < p => r[i] = q[i]) /\ (i >= p => r[i + 1] = q[i])
  <2>1. /\ r \in Seq(Frames) /\ Len(r) = Len(q) + 1 /\ p \in 1..Len(r) /\ r[p] = f
        /\ \A i \in 1..Len(q) : (i < p => r[i] = q[i]) /\ (i >= p => r[i + 1] = q[i])
    BY EnqueueFacts
  <2> HIDE DEF r, p
  <2>2. DOMAIN r = 1..Len(r)
    BY <2>1
  <2> QED
    BY <1>1, <2>1, <2>2
<1> HIDE DEF r, p
<1>3. \A k \in 1..(n + 1) : \/ k = p
                            \/ k \in 1..n /\ k < p /\ r[k] = q[k]
                            \/ k - 1 \in 1..n /\ k > p /\ r[k] = q[k - 1]
  <2> SUFFICES ASSUME NEW k \in 1..(n + 1), k # p
               PROVE  \/ k \in 1..n /\ k < p /\ r[k] = q[k]
                      \/ k - 1 \in 1..n /\ k > p /\ r[k] = q[k - 1]
    OBVIOUS
  <2>1. CASE k < p
    <3>1. k \in 1..n
      BY <1>2, <2>1
    <3> QED
      BY <1>2, <2>1, <3>1
  <2>2. CASE k > p
    <3>1. k - 1 \in 1..n /\ k - 1 >= p /\ (k - 1) + 1 = k
      BY <1>2, <2>2
    <3> QED
      BY <1>2, <2>2, <3>1
  <2> QED
    BY <1>2, <2>1, <2>2
<1>4. \A k \in 1..(n + 1) : r[k] = f \/ \E i \in 1..n : r[k] = q[i]
  BY <1>2, <1>3
<1>5. ASSUME NEW i \in 1..n
      PROVE  \E k \in 1..(n + 1) : r[k] = q[i]
  <2>1. i \in 1..(n + 1) /\ i + 1 \in 1..(n + 1) /\ (i < p \/ i >= p)
    BY <1>2
  <2> QED
    BY <1>2, <2>1
<1>6. ASSUME \A i, k \in 1..n : q[i].n = q[k].n => i = k, \A i \in 1..n : q[i].n # f.n,
             NEW i \in 1..(n + 1), NEW k \in 1..(n + 1), r[i].n = r[k].n
      PROVE  i = k
  <2>1. CASE i = p
    BY <1>2, <1>3, <1>6, <2>1
  <2>2. CASE k = p
    BY <1>2, <1>3, <1>6, <2>2
  <2>3. CASE i # p /\ k # p
    <3>1. PICK j \in 1..n :
            r[i] = q[j] /\ ((j = i /\ i < p) \/ (j = i - 1 /\ i > p))
      <4>1. (i \in 1..n /\ i < p /\ r[i] = q[i]) \/ (i - 1 \in 1..n /\ i > p /\ r[i] = q[i - 1])
        BY <1>3, <2>3
      <4> QED
        BY <4>1
    <3>2. PICK m \in 1..n :
            r[k] = q[m] /\ ((m = k /\ k < p) \/ (m = k - 1 /\ k > p))
      <4>1. (k \in 1..n /\ k < p /\ r[k] = q[k]) \/ (k - 1 \in 1..n /\ k > p /\ r[k] = q[k - 1])
        BY <1>3, <2>3
      <4> QED
        BY <4>1
    <3>3. j = m
      BY <1>6, <3>1, <3>2
    <3> QED
      BY <1>2, <3>1, <3>2, <3>3
  <2> QED
    BY <2>1, <2>2, <2>3
<1>7. DOMAIN q = 1..n /\ DOMAIN r = 1..(n + 1)
  BY <1>1, <1>2
<1>8. /\ \A k \in DOMAIN r : r[k] = f \/ \E i \in DOMAIN q : r[k] = q[i]
      /\ \E k \in DOMAIN r : r[k] = f
      /\ \A i \in DOMAIN q : \E k \in DOMAIN r : r[k] = q[i]
  BY <1>2, <1>4, <1>5, <1>7
<1>9. (/\ \A i, k \in DOMAIN q : q[i].n = q[k].n => i = k
       /\ \A i \in DOMAIN q : q[i].n # f.n)
      => \A i, k \in DOMAIN r : r[i].n = r[k].n => i = k
  BY <1>6, <1>7
<1> QED
  BY <1>8, <1>9 DEF r

-----------------------------------------------------------------------------
(* The state *)

LEMMA QueueFrame ==
  ASSUME TypeOK, NEW i \in DOMAIN txq
  PROVE  txq[i] \in Frames /\ txq[i].n \in Numbers /\ txq[i].id \in Nat
<1>1. txq[i] \in Frames
  BY DEF TypeOK
<1> QED
  BY <1>1, SizesAssumption DEF Frames

LEMMA BoxFrame ==
  ASSUME TypeOK, NEW b \in Waiting
  PROVE  /\ b \in Mailboxes /\ box[b] \in Frames
         /\ box[b].n \in Numbers /\ box[b].id \in Nat
<1>1. b \in Mailboxes /\ box[b] \in Frames
  BY DEF TypeOK, Waiting
<1> QED
  BY <1>1, SizesAssumption DEF Frames

LEMMA FreeIsNone == \A f \in Frames : f # Free
<1>1. \A f \in Frames : f.n \in Numbers
  BY DEF Frames
<1>2. Free.n = 0 /\ 0 \notin Numbers
  BY SizesAssumption DEF Free, Numbers
<1> QED
  BY <1>1, <1>2

LEMMA CountFacts ==
  ASSUME NEW S \in SUBSET Mailboxes
  PROVE  /\ IsFiniteSet(S) /\ Cardinality(S) \in Nat /\ Cardinality(Mailboxes) \in Nat
         /\ Cardinality(S) <= Cardinality(Mailboxes)
         /\ S # {} => 1 <= Cardinality(S)
         /\ \A b \in S : Cardinality(S \ {b}) = Cardinality(S) - 1
<1>1. IsFiniteSet(Mailboxes)
  BY SizesAssumption
<1>2. IsFiniteSet(S) /\ Cardinality(S) <= Cardinality(Mailboxes)
  BY <1>1, FS_Subset
<1>3. Cardinality(S) \in Nat /\ Cardinality(Mailboxes) \in Nat
  BY <1>1, <1>2, FS_CardinalityType
<1>4. S # {} => Cardinality(S) # 0
  BY <1>2, FS_EmptySet
<1>5. \A b \in S : Cardinality(S \ {b}) = Cardinality(S) - 1
  BY <1>2, FS_RemoveElement
<1> QED
  BY <1>2, <1>3, <1>4, <1>5

LEMMA LessUrgentFacts ==
  ASSUME NEW id
  PROVE  /\ LessUrgent(id) \in SUBSET Mailboxes /\ Cardinality(LessUrgent(id)) \in Nat
         /\ Cardinality(LessUrgent(id)) <= Cardinality(Mailboxes)
<1>1. LessUrgent(id) \in SUBSET Mailboxes
  BY DEF LessUrgent, Waiting
<1> QED
  BY <1>1, CountFacts

\* The mailbox that Transmit takes, and what is in it after.
LEMMA TransmitFacts ==
  ASSUME TypeOK, Transmit
  PROVE  \E b \in Mailboxes \ Waiting :
           /\ box' = [box EXCEPT ![b] = Head(txq)] /\ Waiting' = Waiting \cup {b}
           /\ box'[b] = Head(txq) /\ \A c \in Waiting : box'[c] = box[c]
<1> DEFINE b == Min(Mailboxes \ Waiting)
<1>1. b \in Mailboxes \ Waiting
  <2>1. Mailboxes \ Waiting \in SUBSET Nat
    BY SizesAssumption
  <2>2. Mailboxes \ Waiting # {}
    BY DEF Transmit, Waiting
  <2> QED
    BY <2>1, <2>2, MinFacts
<1>2. box' = [box EXCEPT ![b] = Head(txq)] /\ box \in [Mailboxes -> Frames \cup {Free}]
  BY DEF Transmit, TypeOK
<1> HIDE DEF b
<1>3. Head(txq) # Free
  <2>1. txq \in Seq(Frames) /\ txq # <<>>
    BY DEF Transmit, TypeOK
  <2>2. Head(txq) \in Frames
    BY <2>1
  <2> QED
    BY <2>2, FreeIsNone
<1>4. box'[b] = Head(txq) /\ \A c \in Mailboxes : c # b => box'[c] = box[c]
  BY <1>1, <1>2
<1>5. Waiting' = Waiting \cup {b}
  BY <1>1, <1>3, <1>4 DEF Waiting
<1>6. \A c \in Waiting : c \in Mailboxes /\ c # b
  BY <1>1 DEF Waiting
<1> QED
  BY <1>1, <1>2, <1>4, <1>5, <1>6

-----------------------------------------------------------------------------
(* Types *)

LEMMA InitTypeOK == Init => TypeOK
<1> SUFFICES ASSUME Init PROVE TypeOK
  OBVIOUS
<1>1. Min(Mailboxes) \in Mailboxes
  BY SizesAssumption, MinFacts
<1>2. 0 \in 0..MaxFrames /\ 0 \in 0..MaxTrouble
  BY SizesAssumption
<1>3. txq \in Seq(Frames)
  BY DEF Init
<1>4. box \in [Mailboxes -> Frames \cup {Free}]
  BY DEF Init
<1>5. left \in [Numbers -> 0..2] /\ passed \in [Numbers -> Nat] /\ lost \subseteq Numbers
  BY DEF Init
<1> QED
  BY <1>1, <1>2, <1>3, <1>4, <1>5 DEF Init, TypeOK

LEMMA SendTypeOK ==
  ASSUME LeaveInv, NEW id \in Ids, Send(id)
  PROVE  /\ TypeOK'
         /\ [id |-> id, n |-> made + 1] \in Frames /\ made + 1 \in Numbers
<1> DEFINE f == [id |-> id, n |-> made + 1]
<1>1. made \in 0..MaxFrames /\ txq \in Seq(Frames) /\ Sorted(txq) /\ MaxFrames \in Nat
  BY SizesAssumption DEF LeaveInv, TypeOK
<1>2. made + 1 \in Numbers /\ made' = made + 1 /\ made' \in 0..MaxFrames
  BY <1>1 DEF Send, Numbers
<1>3. f \in Frames
  BY <1>2 DEF Frames
<1>4. txq' \in Seq(Frames)
  BY <1>1, <1>3, EnqueueFacts DEF Send
<1>5. TypeOK
  BY DEF LeaveInv
<1> QED
  BY <1>2, <1>3, <1>4, <1>5 DEF TypeOK, Send, controller, Waiting

LEMMA TransmitTypeOK ==
  ASSUME TypeOK, Transmit
  PROVE  TypeOK'
<1>1. PICK b \in Mailboxes \ Waiting :
        box' = [box EXCEPT ![b] = Head(txq)] /\ Waiting' = Waiting \cup {b}
  BY TransmitFacts
<1>2. txq \in Seq(Frames) /\ txq # <<>> /\ txq' = Tail(txq)
  BY DEF TypeOK, Transmit
<1>3. Head(txq) \in Frames /\ txq' \in Seq(Frames)
  BY <1>2
<1>4. box' \in [Mailboxes -> Frames \cup {Free}]
  BY <1>1, <1>3 DEF TypeOK
<1>5. UNCHANGED <<pc, restart_pending, wire, won, off, made, left, lost, passed, trouble>>
  BY DEF Transmit, history
<1> QED
  BY <1>1, <1>3, <1>4, <1>5 DEF TypeOK

LEMMA RestartTypeOK ==
  ASSUME TypeOK, Restart
  PROVE  TypeOK'
<1>1. {box[b].n : b \in Waiting} \subseteq Numbers
  BY BoxFrame
<1>2. lost' \subseteq Numbers
  BY <1>1 DEF Restart, TypeOK
<1>3. box' \in [Mailboxes -> Frames \cup {Free}]
  BY DEF Restart
<1>4. wire' \in {"idle", "other"}
  BY DEF Restart, TypeOK
<1>5. /\ pc' = "work" /\ restart_pending' = FALSE /\ off' = FALSE
      /\ UNCHANGED <<txq, won, made, left, passed, trouble>>
  BY DEF Restart
<1> QED
  BY <1>2, <1>3, <1>4, <1>5 DEF TypeOK

LEMMA LeftTypeOK ==
  ASSUME TypeOK, Left
  PROVE  /\ TypeOK'
         /\ won \in Waiting /\ won \in Mailboxes /\ Waiting' = Waiting \ {won}
         /\ \A c \in Waiting' : box'[c] = box[c]
<1>1. won \in Waiting /\ won \in Mailboxes
  BY DEF Left, TypeOK
<1>2. /\ box \in [Mailboxes -> Frames \cup {Free}] /\ box' = [box EXCEPT ![won] = Free]
      /\ UNCHANGED <<pc, txq, restart_pending, won, off, made, lost, trouble>>
      /\ wire' = "idle"
  BY DEF TypeOK, Left
<1>3. box' \in [Mailboxes -> Frames \cup {Free}]
  BY <1>2
<1>4. Waiting' = Waiting \ {won} /\ \A c \in Waiting' : box'[c] = box[c]
  BY <1>1, <1>2 DEF Waiting
<1>5. left' \in [Numbers -> 0..2]
  <2>1. /\ left' = [left EXCEPT ![box[won].n] = IF @ < 2 THEN @ + 1 ELSE @]
        /\ left \in [Numbers -> 0..2] /\ box[won].n \in Numbers
    BY <1>1, BoxFrame DEF Left, TypeOK
  <2>2. \A x \in 0..2 : (IF x < 2 THEN x + 1 ELSE x) \in 0..2
    OBVIOUS
  <2> QED
    BY <2>1, <2>2
<1>6. passed' \in [Numbers -> Nat]
  BY DEF Left, TypeOK
<1> QED
  BY <1>1, <1>2, <1>3, <1>4, <1>5, <1>6 DEF TypeOK

LEMMA TroubleTypeOK ==
  ASSUME TypeOK, Trouble
  PROVE  TypeOK' /\ UNCHANGED <<txq, box, won, made, left, lost, passed>>
                 /\ (wire' = "ours" => wire = "ours")
<1>1. trouble' \in 0..MaxTrouble
  BY SizesAssumption DEF TypeOK, Trouble
<1>2. /\ UNCHANGED <<box, won, pc, txq, restart_pending, made, left, lost, passed>>
      /\ wire' \in {"idle", "ours", "other"} /\ off' \in BOOLEAN
      /\ wire' = "ours" => wire = "ours" /\ off' = off
  BY DEF TypeOK, Trouble, OtherWins, Destroyed, BusOff
<1> QED
  BY <1>1, <1>2 DEF TypeOK, Waiting

\* The steps that leave the frames where they are.
Still == FlushBegin \/ Flushed \/ Win \/ OtherLeft \/ Trouble

LEMMA StillFacts ==
  ASSUME TypeOK, Still \/ UNCHANGED vars
  PROVE  /\ TypeOK' /\ UNCHANGED <<txq, box, made, left, lost, passed>>
         /\ wire' = "ours" => \/ wire = "ours" /\ won' = won
                              \/ won' \in Waiting /\ First(won')
<1>1. CASE FlushBegin \/ Flushed
  BY <1>1 DEF FlushBegin, Flushed, controller, history, TypeOK, Waiting
<1>2. CASE Win
  BY <1>2 DEF Win, history, TypeOK, Waiting
<1>3. CASE OtherLeft
  BY <1>3 DEF OtherLeft, history, TypeOK, Waiting
<1>4. CASE Trouble
  BY <1>4, TroubleTypeOK
<1>5. CASE UNCHANGED vars
  BY <1>5 DEF vars, controller, history, TypeOK, Waiting
<1> QED
  BY <1>1, <1>2, <1>3, <1>4, <1>5 DEF Still

-----------------------------------------------------------------------------
(* Each frame in one place *)

Placed == Sorted(txq) /\ Distinct /\ \A n \in Numbers : OnePlace(n)

LEMMA SendPlaced ==
  ASSUME LeaveInv, NEW id \in Ids, Send(id)
  PROVE  Placed'
<1> DEFINE f == [id |-> id, n |-> made + 1]
           r == Enqueue(txq, f)
<1>1. /\ made' = made + 1 /\ txq' = r /\ UNCHANGED <<box, left, lost>>
  BY DEF Send, controller
<1>2. /\ f \in Frames /\ made + 1 \in Numbers /\ txq \in Seq(Frames) /\ Sorted(txq)
      /\ made \in Nat
  BY SendTypeOK, SizesAssumption DEF LeaveInv, TypeOK
<1>3. f.n = made + 1
  OBVIOUS
<1>4. \A n \in Numbers : n \in Nat /\ OnePlace(n)
  BY SizesAssumption DEF LeaveInv, Numbers
<1>5. ~InQueue(made + 1) /\ ~InBox(made + 1) /\ made + 1 \notin lost /\ left[made + 1] = 0
  <2>1. ~(made + 1 <= made)
    BY <1>2
  <2> QED
    BY <1>2, <1>4, <2>1 DEF OnePlace
<1>6. \A i \in DOMAIN txq : txq[i].n # f.n
  BY <1>3, <1>5 DEF InQueue
<1> HIDE DEF f, r
<1>7. /\ \A k \in DOMAIN r : r[k] = f \/ \E i \in DOMAIN txq : r[k] = txq[i]
      /\ \E k \in DOMAIN r : r[k] = f
      /\ \A i \in DOMAIN txq : \E k \in DOMAIN r : r[k] = txq[i]
      /\ \A i, k \in DOMAIN r : r[i].n = r[k].n => i = k
  BY <1>2, <1>6, EnqueuedFrames DEF LeaveInv, Distinct, r
<1>8. Sorted(txq)'
  BY <1>1, <1>2, EnqueueFacts DEF r, Sorted
<1>9. Distinct'
  BY <1>1, <1>7 DEF Distinct, LeaveInv, Waiting
<1>10. ASSUME NEW n \in Numbers
       PROVE  OnePlace(n)'
  <2>1. InBox(n)' <=> InBox(n)
    BY <1>1 DEF InBox, Waiting
  <2>2. InQueue(n)' <=> InQueue(n) \/ n = made + 1
    BY <1>1, <1>3, <1>7 DEF InQueue
  <2>3. CASE n = made + 1
    <3>1. n <= made'
      BY <1>1, <1>2, <2>3
    <3> QED
      BY <1>1, <1>5, <2>1, <2>2, <2>3, <3>1 DEF OnePlace
  <2>4. CASE n # made + 1
    <3>1. n <= made' <=> n <= made
      BY <1>1, <1>2, <1>4, <2>4
    <3> QED
      BY <1>1, <1>4, <2>1, <2>2, <2>4, <3>1 DEF OnePlace
  <2> QED
    BY <2>3, <2>4
<1> QED
  BY <1>8, <1>9, <1>10 DEF Placed

\* The head of the queue goes, the others move up.
LEMMA TailFrames ==
  ASSUME TypeOK, txq # <<>>, txq' = Tail(txq)
  PROVE  /\ 1 \in DOMAIN txq /\ Head(txq) = txq[1]
         /\ \A i \in DOMAIN txq' : /\ i \in Nat /\ i + 1 \in DOMAIN txq /\ 1 < i + 1
                                   /\ txq'[i] = txq[i + 1]
         /\ \A i \in DOMAIN txq : i = 1 \/ \E k \in DOMAIN txq' : txq'[k] = txq[i]
<1>1. PICK n \in Nat : n = Len(txq) /\ DOMAIN txq = 1..n
  BY DEF TypeOK
<1>2. n >= 1 /\ Head(txq) = txq[1]
  BY <1>1 DEF TypeOK
<1>3. DOMAIN txq' = 1..(n - 1) /\ \A i \in 1..(n - 1) : txq'[i] = txq[i + 1]
  BY <1>1, <1>2 DEF TypeOK
<1>4. \A i \in 1..(n - 1) : i \in Nat /\ i + 1 \in 1..n /\ 1 < i + 1
  OBVIOUS
<1>5. ASSUME NEW i \in 1..n, i # 1
      PROVE  \E k \in 1..(n - 1) : txq'[k] = txq[i]
  <2>1. i - 1 \in 1..(n - 1) /\ (i - 1) + 1 = i
    BY <1>5
  <2>2. txq'[i - 1] = txq[i]
    BY <1>3, <2>1
  <2> QED
    BY <2>1, <2>2
<1>6. 1 \in 1..n
  BY <1>2
<1> QED
  BY <1>1, <1>2, <1>3, <1>4, <1>5, <1>6

LEMMA TransmitPlaced ==
  ASSUME LeaveInv, Transmit
  PROVE  Placed'
<1>1. TypeOK /\ Sorted(txq) /\ Distinct /\ \A n \in Numbers : OnePlace(n)
  BY DEF LeaveInv
<1>2. txq # <<>> /\ txq' = Tail(txq) /\ UNCHANGED <<made, left, lost>>
  BY DEF Transmit, history
<1>3. /\ 1 \in DOMAIN txq /\ Head(txq) = txq[1]
      /\ \A i \in DOMAIN txq' : /\ i \in Nat /\ i + 1 \in DOMAIN txq /\ 1 < i + 1
                                /\ txq'[i] = txq[i + 1]
      /\ \A i \in DOMAIN txq : i = 1 \/ \E k \in DOMAIN txq' : txq'[k] = txq[i]
  BY <1>1, <1>2, TailFrames
<1>4. PICK b \in Mailboxes \ Waiting :
        /\ Waiting' = Waiting \cup {b}
        /\ box'[b] = txq[1] /\ \A c \in Waiting : box'[c] = box[c]
  BY <1>1, <1>3, TransmitFacts
<1>5. txq[1].n \in Numbers
  BY <1>1, <1>3, QueueFrame
<1>6. ~InBox(txq[1].n)
  BY <1>1, <1>3, <1>5 DEF OnePlace, InQueue
<1>7. \A i \in DOMAIN txq' : txq'[i].n # txq[1].n
  BY <1>1, <1>3 DEF Distinct
<1>8. Sorted(txq)'
  <2> SUFFICES ASSUME NEW i \in DOMAIN txq', NEW k \in DOMAIN txq', i < k
               PROVE  txq'[i].id <= txq'[k].id
    BY DEF Sorted
  <2>1. i + 1 < k + 1
    BY <1>3
  <2> QED
    BY <1>1, <1>3, <2>1 DEF Sorted
<1>9. Distinct'
  <2>1. ASSUME NEW i \in DOMAIN txq', NEW k \in DOMAIN txq', txq'[i].n = txq'[k].n
        PROVE  i = k
    <3>1. i + 1 = k + 1
      BY <1>1, <1>3, <2>1 DEF Distinct
    <3> QED
      BY <1>3, <3>1
  <2>2. ASSUME NEW c \in Waiting', NEW d \in Waiting', box'[c].n = box'[d].n
        PROVE  c = d
    <3>1. \A e \in Waiting : box[e].n # txq[1].n
      BY <1>6 DEF InBox
    <3> QED
      BY <1>1, <1>4, <2>2, <3>1 DEF Distinct
  <2> QED
    BY <2>1, <2>2 DEF Distinct
<1>10. ASSUME NEW n \in Numbers
       PROVE  OnePlace(n)'
  <2>1. InBox(n)' <=> InBox(n) \/ n = txq[1].n
    BY <1>4 DEF InBox
  <2>2. InQueue(n) <=> InQueue(n)' \/ n = txq[1].n
    BY <1>3 DEF InQueue
  <2>3. ~(InQueue(n)' /\ n = txq[1].n)
    BY <1>7 DEF InQueue
  <2>4. OnePlace(n)
    BY <1>1
  <2> QED
    BY <1>2, <2>1, <2>2, <2>3, <2>4 DEF OnePlace
<1> QED
  BY <1>8, <1>9, <1>10 DEF Placed

LEMMA RestartPlaced ==
  ASSUME LeaveInv, Restart
  PROVE  Placed'
<1>1. /\ txq = <<>> /\ UNCHANGED <<txq, made, left>>
      /\ lost' = lost \cup {box[b].n : b \in Waiting}
  BY DEF Restart
<1>2. Waiting' = {}
  BY DEF Restart, Waiting
<1>3. Sorted(txq)' /\ Distinct'
  BY <1>1, <1>2 DEF Sorted, Distinct
<1>4. ASSUME NEW n \in Numbers
      PROVE  OnePlace(n)'
  <2>1. ~InQueue(n) /\ ~InQueue(n)' /\ ~InBox(n)'
    BY <1>1, <1>2 DEF InQueue, InBox
  <2>2. n \in lost' <=> n \in lost \/ InBox(n)
    BY <1>1 DEF InBox
  <2>3. OnePlace(n)
    BY DEF LeaveInv
  <2> QED
    BY <1>1, <2>1, <2>2, <2>3 DEF OnePlace
<1> QED
  BY <1>3, <1>4 DEF Placed

LEMMA LeftPlaced ==
  ASSUME LeaveInv, Left
  PROVE  Placed'
<1>1. TypeOK /\ Sorted(txq) /\ Distinct /\ \A n \in Numbers : OnePlace(n)
  BY DEF LeaveInv
<1>2. /\ won \in Waiting /\ Waiting' = Waiting \ {won}
      /\ \A c \in Waiting' : box'[c] = box[c]
  BY <1>1, LeftTypeOK
<1>3. UNCHANGED <<txq, made, lost>>
      /\ left' = [left EXCEPT ![box[won].n] = IF @ < 2 THEN @ + 1 ELSE @]
  BY DEF Left
<1>4. box[won].n \in Numbers /\ left \in [Numbers -> 0..2] /\ InBox(box[won].n)
  BY <1>1, <1>2, BoxFrame DEF TypeOK, InBox
<1>5. Sorted(txq)' /\ Distinct'
  BY <1>1, <1>2, <1>3 DEF Sorted, Distinct
<1>6. ASSUME NEW n \in Numbers
      PROVE  OnePlace(n)'
  <2>1. InQueue(n)' <=> InQueue(n)
    BY <1>3 DEF InQueue
  <2>2. InBox(n)' <=> InBox(n) /\ n # box[won].n
    BY <1>1, <1>2 DEF InBox, Distinct
  <2>3. OnePlace(n)
    BY <1>1
  <2>4. CASE n = box[won].n
    <3>1. left[n] = 0 /\ n \notin lost /\ ~InQueue(n) /\ n <= made
      BY <1>4, <2>3, <2>4 DEF OnePlace
    <3>2. left'[n] = 1
      BY <1>3, <1>4, <2>4, <3>1
    <3> QED
      BY <1>3, <2>1, <2>2, <2>4, <3>1, <3>2 DEF OnePlace
  <2>5. CASE n # box[won].n
    <3>1. left'[n] = left[n]
      BY <1>3, <1>4, <2>5
    <3> QED
      BY <1>3, <2>1, <2>2, <2>3, <2>5, <3>1 DEF OnePlace
  <2> QED
    BY <2>4, <2>5
<1> QED
  BY <1>5, <1>6 DEF Placed

LEMMA StillPlaced ==
  ASSUME LeaveInv, Still \/ UNCHANGED vars
  PROVE  Placed'
<1>1. UNCHANGED <<txq, box, made, left, lost>> /\ UNCHANGED Waiting
  BY StillFacts DEF LeaveInv, Waiting
<1> QED
  BY <1>1 DEF LeaveInv, Placed, Sorted, Distinct, OnePlace, InQueue, InBox

-----------------------------------------------------------------------------
(* No frame is passed by more than the mailboxes hold *)

Patient == Patience /\ InversionBounded

LEMMA PatienceFacts ==
  ASSUME LeaveInv
  PROVE  /\ TypeOK /\ Cardinality(Mailboxes) \in Nat
         /\ \A n \in Numbers : /\ passed[n] \in Nat /\ passed[n] <= Cardinality(Mailboxes)
                               /\ n > made => passed[n] = 0
         /\ \A i \in DOMAIN txq :
              passed[txq[i].n] + Cardinality(LessUrgent(txq[i].id)) <= Cardinality(Mailboxes)
         /\ \A b \in Waiting : passed[box[b].n] + Ahead(box[b].id) <= Cardinality(Mailboxes)
         /\ \A i \in DOMAIN txq : \A b \in Waiting : txq[i].n # box[b].n
<1>1. Cardinality(Mailboxes) \in Nat
  BY CountFacts
<1>2. \A n \in Numbers : passed[n] \in Nat
  BY DEF LeaveInv, TypeOK
<1>3. ASSUME NEW i \in DOMAIN txq, NEW b \in Waiting
      PROVE  txq[i].n # box[b].n
  <2>1. txq[i].n \in Numbers
    BY QueueFrame DEF LeaveInv
  <2>2. InQueue(txq[i].n) => ~InBox(txq[i].n)
    BY <2>1 DEF LeaveInv, OnePlace
  <2> QED
    BY <2>2 DEF InQueue, InBox
<1> QED
  BY <1>1, <1>2, <1>3 DEF LeaveInv, Patience, InversionBounded

LEMMA AheadType == \A id : Ahead(id) \in {0, 1} /\ Ahead(id)' \in {0, 1}
BY DEF Ahead

LEMMA SendPatient ==
  ASSUME LeaveInv, NEW id \in Ids, Send(id)
  PROVE  Patient'
<1> DEFINE f == [id |-> id, n |-> made + 1]
<1>1. /\ made' = made + 1 /\ txq' = Enqueue(txq, f) /\ UNCHANGED <<box, wire, won, passed>>
  BY DEF Send, controller
<1>2. /\ f \in Frames /\ made + 1 \in Numbers /\ txq \in Seq(Frames) /\ Sorted(txq)
      /\ made \in Nat /\ f.n = made + 1
  BY SendTypeOK, SizesAssumption DEF LeaveInv, TypeOK
<1>3. /\ \A b : LessUrgent(b)' = LessUrgent(b) /\ Ahead(b)' = Ahead(b)
      /\ Waiting' = Waiting
  BY <1>1 DEF LessUrgent, Ahead, Waiting
<1> HIDE DEF f
<1>4. \A k \in DOMAIN txq' : txq'[k] = f \/ \E i \in DOMAIN txq : txq'[k] = txq[i]
  BY <1>1, <1>2, EnqueuedFrames
<1>5. passed[f.n] = 0
  <2>1. made + 1 > made
    BY <1>2
  <2> QED
    BY <1>2, <2>1, PatienceFacts
<1>6. passed[f.n] + Cardinality(LessUrgent(f.id)) <= Cardinality(Mailboxes)
  BY <1>5, LessUrgentFacts
<1>7. \A k \in DOMAIN txq' :
        passed[txq'[k].n] + Cardinality(LessUrgent(txq'[k].id)) <= Cardinality(Mailboxes)
  BY <1>4, <1>6, PatienceFacts
<1>8. \A n \in Numbers : n > made' => passed[n] = 0
  <2>1. \A n \in Numbers : n > made + 1 => n > made
    BY <1>2, SizesAssumption DEF Numbers
  <2> QED
    BY <1>1, <2>1, PatienceFacts
<1> QED
  BY <1>1, <1>3, <1>7, <1>8, PatienceFacts DEF Patient, Patience, InversionBounded

LEMMA TransmitPatient ==
  ASSUME LeaveInv, Transmit
  PROVE  Patient'
<1> DEFINE M == Cardinality(Mailboxes)
<1>1. TypeOK /\ Sorted(txq)
  BY DEF LeaveInv
<1>2. txq # <<>> /\ txq' = Tail(txq) /\ UNCHANGED <<made, passed, wire, won>>
  BY DEF Transmit, history
<1>3. /\ 1 \in DOMAIN txq /\ Head(txq) = txq[1]
      /\ \A i \in DOMAIN txq' : /\ i \in Nat /\ i + 1 \in DOMAIN txq /\ 1 < i + 1
                                /\ txq'[i] = txq[i + 1]
  BY <1>1, <1>2, TailFrames
<1>4. PICK b \in Mailboxes \ Waiting :
        /\ Waiting' = Waiting \cup {b}
        /\ box'[b] = txq[1] /\ \A c \in Waiting : box'[c] = box[c]
  BY <1>1, <1>3, TransmitFacts
<1>5. wire = "ours" => won \in Waiting
  BY <1>1 DEF TypeOK
<1>6. \A id : Ahead(id)' = Ahead(id)
  BY <1>2, <1>4, <1>5 DEF Ahead
<1>7. txq[1].n \in Numbers /\ txq[1].id \in Nat
  BY <1>1, <1>3, QueueFrame
<1>8. ASSUME NEW i \in DOMAIN txq'
      PROVE  passed[txq'[i].n] + Cardinality(LessUrgent(txq[i].id)') <= M
  <2>1. txq[1].id <= txq'[i].id /\ txq'[i].id \in Nat
    BY <1>1, <1>3, QueueFrame DEF Sorted
  <2>2. LessUrgent(txq[i].id)' = LessUrgent(txq[i + 1].id)
    BY <1>3, <1>4, <1>7, <2>1 DEF LessUrgent
  <2> QED
    BY <1>3, <2>2, PatienceFacts
<1>9. passed[txq[1].n] + Ahead(txq[1].id) <= M
  <2>1. passed[txq[1].n] + Cardinality(LessUrgent(txq[1].id)) <= M
        /\ passed[txq[1].n] \in Nat /\ M \in Nat
    BY <1>3, <1>7, PatienceFacts
  <2>2. Ahead(txq[1].id) <= Cardinality(LessUrgent(txq[1].id))
    <3>1. LessUrgent(txq[1].id) \in SUBSET Mailboxes /\ Cardinality(LessUrgent(txq[1].id)) \in Nat
      BY LessUrgentFacts
    <3>2. Ahead(txq[1].id) = 1 => won \in LessUrgent(txq[1].id)
      BY <1>5 DEF Ahead, LessUrgent
    <3>3. Ahead(txq[1].id) = 1 => 1 <= Cardinality(LessUrgent(txq[1].id))
      BY <3>1, <3>2, CountFacts
    <3> QED
      BY <3>1, <3>3, AheadType
  <2>3. PICK x \in Nat, y \in Nat, z \in {0, 1} :
          /\ x = passed[txq[1].n] /\ y = Cardinality(LessUrgent(txq[1].id))
          /\ z = Ahead(txq[1].id)
    BY <2>1, LessUrgentFacts, AheadType
  <2> QED
    BY <2>1, <2>2, <2>3
<1>10. ASSUME NEW c \in Waiting'
       PROVE  passed[box'[c].n] + Ahead(box[c].id)' <= M
  <2>1. Ahead(box[c].id)' = Ahead(IF c = b THEN txq[1].id ELSE box[c].id)
    BY <1>2, <1>4, <1>5 DEF Ahead
  <2> QED
    BY <1>4, <1>9, <2>1, PatienceFacts
<1> QED
  BY <1>2, <1>8, <1>10, PatienceFacts DEF Patient, Patience, InversionBounded

LEMMA RestartPatient ==
  ASSUME LeaveInv, Restart
  PROVE  Patient'
<1>1. txq = <<>> /\ UNCHANGED <<txq, made, passed>>
  BY DEF Restart
<1>2. Waiting' = {}
  BY DEF Restart, Waiting
<1> QED
  BY <1>1, <1>2, PatienceFacts DEF Patient, Patience, InversionBounded

\* The mailbox that has left was one of those that pass a queued frame, or the one
\* ahead of the frames in the others.
LEMMA LeftPatient ==
  ASSUME LeaveInv, Left
  PROVE  Patient'
<1> DEFINE M == Cardinality(Mailboxes)
           f == box[won]
           Late(n) == \E g \in Pending : g.n = n /\ g.id < f.id
<1>1. /\ TypeOK /\ won \in Waiting /\ Waiting' = Waiting \ {won}
      /\ \A c \in Waiting' : box'[c] = box[c]
  BY LeftTypeOK DEF LeaveInv
<1>2. /\ UNCHANGED <<txq, made>> /\ wire = "ours" /\ wire' = "idle"
      /\ passed' = [n \in Numbers |-> IF Late(n) THEN passed[n] + 1 ELSE passed[n]]
  BY DEF Left
<1>3. f \in Frames /\ f.id \in Nat
  BY <1>1, BoxFrame
<1>4. \A g \in Pending : \/ \E i \in DOMAIN txq : g = txq[i]
                         \/ \E b \in Waiting : g = box[b]
  BY DEF Pending, ToSet
<1> HIDE DEF f
<1>5. ASSUME NEW i \in DOMAIN txq
      PROVE  Late(txq[i].n) => won \in LessUrgent(txq[i].id)
  <2> SUFFICES ASSUME NEW g \in Pending, g.n = txq[i].n, g.id < f.id
               PROVE  won \in LessUrgent(txq[i].id)
    OBVIOUS
  <2>1. g = txq[i]
    <3>1. \A b \in Waiting : g # box[b]
      BY PatienceFacts
    <3>2. PICK k \in DOMAIN txq : g = txq[k]
      BY <1>4, <3>1
    <3> QED
      BY <3>2 DEF LeaveInv, Distinct
  <2>2. txq[i].id \in Nat
    BY <1>1, QueueFrame
  <2> QED
    BY <1>1, <1>3, <2>1, <2>2 DEF LessUrgent, f
<1>6. ASSUME NEW b \in Waiting
      PROVE  Late(box[b].n) => Ahead(box[b].id) = 1
  <2> SUFFICES ASSUME NEW g \in Pending, g.n = box[b].n, g.id < f.id
               PROVE  Ahead(box[b].id) = 1
    OBVIOUS
  <2>1. g = box[b]
    <3>1. \A i \in DOMAIN txq : g # txq[i]
      BY PatienceFacts
    <3>2. PICK c \in Waiting : g = box[c]
      BY <1>4, <3>1
    <3> QED
      BY <3>2 DEF LeaveInv, Distinct
  <2>2. box[b].id \in Nat
    BY <1>1, BoxFrame
  <2> QED
    BY <1>2, <1>3, <2>1, <2>2 DEF Ahead, f
<1> HIDE DEF Late
<1>7. M \in Nat /\ \A n \in Numbers : passed[n] \in Nat /\ passed[n] <= M
  BY PatienceFacts
<1>8. \A i \in DOMAIN txq : LessUrgent(txq[i].id)' = LessUrgent(txq[i].id) \ {won}
  BY <1>1, <1>2 DEF LessUrgent
<1>9. ASSUME NEW i \in DOMAIN txq
      PROVE  passed'[txq[i].n] + Cardinality(LessUrgent(txq[i].id)') <= M
  <2>1. txq[i].n \in Numbers
    BY <1>1, QueueFrame
  <2>2. PICK S \in SUBSET Mailboxes : S = LessUrgent(txq[i].id)
    BY LessUrgentFacts
  <2>3. /\ passed[txq[i].n] \in Nat /\ passed[txq[i].n] + Cardinality(S) <= M
        /\ Cardinality(S) \in Nat
    BY <1>7, <2>1, <2>2, PatienceFacts, CountFacts
  <2>4. passed'[txq[i].n] = IF Late(txq[i].n) THEN passed[txq[i].n] + 1 ELSE passed[txq[i].n]
    BY <1>2, <2>1
  <2>5. Cardinality(S \ {won}) = IF won \in S THEN Cardinality(S) - 1 ELSE Cardinality(S)
    <3>1. won \notin S => S \ {won} = S
      OBVIOUS
    <3> QED
      BY <3>1, CountFacts
  <2>6. Late(txq[i].n) => won \in S
    BY <1>5, <2>2
  <2>7. Cardinality(LessUrgent(txq[i].id)') = Cardinality(S \ {won})
    <3>1. LessUrgent(txq[i].id)' = S \ {won}
      BY <1>8, <2>2
    <3> QED
      BY <3>1, Zenon
  <2>8. passed'[txq[i].n] + Cardinality(S \ {won}) <= M
    <3>1. PICK c \in Nat : c = Cardinality(S)
      BY <2>3
    <3> QED
      BY <1>7, <2>3, <2>4, <2>5, <2>6, <3>1
  <2> QED
    BY <2>7, <2>8
<1>10. ASSUME NEW b \in Waiting
       PROVE  passed'[box[b].n] <= M
  <2>1. box[b].n \in Numbers
    BY <1>1, BoxFrame
  <2>2. passed[box[b].n] \in Nat /\ passed[box[b].n] + Ahead(box[b].id) <= M
    BY <1>7, <2>1, PatienceFacts
  <2>3. passed'[box[b].n] = IF Late(box[b].n) THEN passed[box[b].n] + 1 ELSE passed[box[b].n]
    BY <1>2, <2>1
  <2> QED
    BY <1>6, <1>7, <2>2, <2>3, AheadType
<1>11. ASSUME NEW c \in Waiting'
       PROVE  passed'[box'[c].n] + Ahead(box[c].id)' <= M
  <2>1. c \in Waiting /\ box'[c] = box[c] /\ box[c].n \in Numbers
    BY <1>1, BoxFrame
  <2>2. passed'[box[c].n] \in Nat
    BY <2>1, LeftTypeOK, <1>1 DEF TypeOK
  <2>3. Ahead(box[c].id)' = 0
    BY <1>2 DEF Ahead
  <2> QED
    BY <1>10, <2>1, <2>2, <2>3
<1>12. ASSUME NEW n \in Numbers
       PROVE  passed'[n] <= M /\ (n > made' => passed'[n] = 0)
  <2>1. CASE Late(n)
    <3>1. PICK g \in Pending : g.n = n
      BY <2>1 DEF Late
    <3>2. InQueue(n) \/ InBox(n)
      BY <1>4, <3>1 DEF InQueue, InBox
    <3>3. n <= made /\ ~(n > made)
      <4>1. n <= made
        BY <3>2 DEF LeaveInv, OnePlace
      <4>2. n \in Nat /\ made \in Nat
        BY <1>1, SizesAssumption DEF Numbers, TypeOK
      <4> QED
        BY <4>1, <4>2
    <3>4. CASE InBox(n)
      BY <1>2, <1>10, <3>3, <3>4 DEF InBox
    <3>5. CASE InQueue(n)
      <4>1. PICK i \in DOMAIN txq : txq[i].n = n
        BY <3>5 DEF InQueue
      <4>2. passed'[n] + Cardinality(LessUrgent(txq[i].id)') <= M
        BY <1>9, <4>1
      <4>3. passed'[n] \in Nat
        BY LeftTypeOK, <1>1 DEF TypeOK
      <4>4. Cardinality(LessUrgent(txq[i].id)') \in Nat
        <5>1. LessUrgent(txq[i].id) \ {won} \in SUBSET Mailboxes
          BY LessUrgentFacts
        <5> QED
          BY <1>8, <5>1, CountFacts
      <4> QED
        BY <1>2, <1>7, <3>3, <4>2, <4>3, <4>4
    <3> QED
      BY <3>2, <3>4, <3>5
  <2>2. CASE ~Late(n)
    BY <1>2, <2>2, PatienceFacts
  <2> QED
    BY <2>1, <2>2
<1> QED
  BY <1>2, <1>9, <1>11, <1>12 DEF Patient, Patience, InversionBounded

\* Who wins the arbitration is ahead of nobody.
LEMMA StillPatient ==
  ASSUME LeaveInv, Still \/ UNCHANGED vars
  PROVE  Patient'
<1>1. /\ UNCHANGED <<txq, box, made, passed>> /\ UNCHANGED Waiting
      /\ wire' = "ours" => \/ wire = "ours" /\ won' = won
                           \/ won' \in Waiting /\ First(won')
  BY StillFacts DEF LeaveInv, Waiting
<1>2. TypeOK
  BY DEF LeaveInv
<1>3. \A id : LessUrgent(id)' = LessUrgent(id)
  BY <1>1 DEF LessUrgent
<1>4. ASSUME NEW b \in Waiting
      PROVE  Ahead(box[b].id)' <= Ahead(box[b].id)
  <2>1. CASE wire' = "ours" /\ wire = "ours" /\ won' = won
    BY <1>1, <2>1 DEF Ahead
  <2>2. CASE won' \in Waiting /\ First(won')
    <3>1. box[won'].id \in Nat /\ box[b].id \in Nat
      BY <1>2, <2>2, BoxFrame
    <3>2. ~(box[won'].id > box[b].id)
      BY <2>2, <3>1 DEF First
    <3> QED
      BY <1>1, <3>2, AheadType DEF Ahead
  <2>3. CASE wire' # "ours"
    BY <2>3, AheadType DEF Ahead
  <2> QED
    BY <1>1, <2>1, <2>2, <2>3
<1>5. ASSUME NEW b \in Waiting
      PROVE  passed[box[b].n] + Ahead(box[b].id)' <= Cardinality(Mailboxes)
  <2>1. /\ passed[box[b].n] + Ahead(box[b].id) <= Cardinality(Mailboxes)
        /\ passed[box[b].n] \in Nat /\ Cardinality(Mailboxes) \in Nat
    BY <1>2, BoxFrame, PatienceFacts
  <2> QED
    BY <1>4, <2>1, AheadType
<1> QED
  BY <1>1, <1>3, <1>5, PatienceFacts DEF Patient, Patience, InversionBounded

-----------------------------------------------------------------------------
(* The invariant *)

LEMMA InitLeaveInv == Init => LeaveInv
<1> SUFFICES ASSUME Init PROVE LeaveInv
  OBVIOUS
<1>1. TypeOK
  BY InitTypeOK
<1>2. txq = <<>> /\ Waiting = {}
  BY DEF Init, Waiting
<1>3. Sorted(txq) /\ Distinct
  BY <1>2 DEF Sorted, Distinct
<1>4. ASSUME NEW n \in Numbers
      PROVE  OnePlace(n) /\ passed[n] = 0
  <2>1. ~InQueue(n) /\ ~InBox(n)
    BY <1>2 DEF InQueue, InBox
  <2>2. made = 0 /\ n \notin lost /\ left[n] = 0 /\ passed[n] = 0
    BY DEF Init
  <2>3. ~(n <= 0)
    BY SizesAssumption DEF Numbers
  <2> QED
    BY <2>1, <2>2, <2>3 DEF OnePlace
<1>5. 0 <= Cardinality(Mailboxes)
  BY CountFacts
<1> QED
  BY <1>1, <1>2, <1>3, <1>4, <1>5 DEF LeaveInv, Patience, InversionBounded

LEMMA NextLeaveInv == LeaveInv /\ [Next]_vars => LeaveInv'
<1> SUFFICES ASSUME LeaveInv, [Next]_vars
             PROVE  TypeOK' /\ Placed' /\ Patient'
  BY DEF LeaveInv, Placed, Patient
<1>1. TypeOK
  BY DEF LeaveInv
<1>2. ASSUME NEW id \in Ids, Send(id)
      PROVE  TypeOK' /\ Placed' /\ Patient'
  BY <1>2, SendTypeOK, SendPlaced, SendPatient
<1>3. CASE Transmit
  BY <1>1, <1>3, TransmitTypeOK, TransmitPlaced, TransmitPatient
<1>4. CASE Restart
  BY <1>1, <1>4, RestartTypeOK, RestartPlaced, RestartPatient
<1>5. CASE Left
  BY <1>1, <1>5, LeftTypeOK, LeftPlaced, LeftPatient
<1>6. CASE Still \/ UNCHANGED vars
  BY <1>1, <1>6, StillFacts, StillPlaced, StillPatient
<1> QED
  BY <1>2, <1>3, <1>4, <1>5, <1>6 DEF Next, Slave, Bus, Still

\* The numbers of the frames in the queue and in the mailboxes, those that are lost
\* and those that have left make one for each frame.
LEMMA OnceEach == LeaveInv => LeavesOnce
<1> SUFFICES ASSUME LeaveInv, NEW n \in 1..made
             PROVE  left[n] + (IF n \in lost THEN 1 ELSE 0)
                      + Cardinality({i \in DOMAIN txq : txq[i].n = n})
                      + Cardinality({b \in Mailboxes : box[b].n = n}) = 1
  BY DEF LeavesOnce, Quantify
<1> DEFINE Q == {i \in DOMAIN txq : txq[i].n = n}
           B == {b \in Mailboxes : box[b].n = n}
<1>1. n \in Numbers /\ n <= made /\ n # 0
  BY SizesAssumption DEF LeaveInv, TypeOK, Numbers
<1>2. OnePlace(n) /\ left[n] \in 0..2
  BY <1>1 DEF LeaveInv, TypeOK
<1>3. B = {b \in Waiting : box[b].n = n}
  <2>1. \A b \in Mailboxes : box[b].n = n => box[b] # Free
    BY <1>1 DEF Free
  <2> QED
    BY <2>1 DEF Waiting
<1>4. InQueue(n) => \E i : Q = {i}
  BY DEF InQueue, LeaveInv, Distinct
<1>5. ~InQueue(n) => Q = {}
  BY DEF InQueue
<1>6. ASSUME InBox(n)
      PROVE  \E b : B = {b}
  <2>1. PICK b \in Waiting : box[b].n = n
    BY <1>6 DEF InBox
  <2>2. \A c \in Waiting : box[c].n = n <=> c = b
    BY <2>1 DEF LeaveInv, Distinct
  <2>3. B = {b}
    BY <1>3, <2>1, <2>2
  <2> QED
    BY <2>3
<1>7. ~InBox(n) => B = {}
  BY <1>3 DEF InBox
<1> HIDE DEF Q, B
<1>8. Cardinality(Q) = (IF InQueue(n) THEN 1 ELSE 0)
  BY <1>4, <1>5, FS_EmptySet, FS_Singleton
<1>9. Cardinality(B) = (IF InBox(n) THEN 1 ELSE 0)
  BY <1>6, <1>7, FS_EmptySet, FS_Singleton
<1>10. left[n] + (IF n \in lost THEN 1 ELSE 0) + Cardinality(Q) + Cardinality(B) = 1
  BY <1>1, <1>2, <1>8, <1>9 DEF OnePlace
<1> QED
  BY <1>10 DEF Q, B

LEMMA OnlyMailboxesLost ==
  ASSUME LeaveInv, [Next]_vars, NEW f \in Frames, f \in Pending, f.n \in lost'
  PROVE  f \in {box[b] : b \in Waiting}
<1>1. (\E i \in DOMAIN txq : f = txq[i]) \/ f \in {box[b] : b \in Waiting}
  BY DEF Pending, ToSet
<1>2. CASE Restart
  <2>1. DOMAIN txq = {}
    BY <1>2 DEF Restart
  <2> QED
    BY <1>1, <2>1
<1>3. CASE ~Restart
  <2>1. lost' = lost
    BY <1>3 DEF Next, Slave, Bus, FlushBegin, Transmit, Flushed, Win, Left, OtherLeft,
                Trouble, Send, history, vars
  <2>2. f.n \in Numbers
    BY DEF Frames
  <2>3. InQueue(f.n) \/ InBox(f.n)
    BY <1>1 DEF InQueue, InBox
  <2> QED
    BY <2>1, <2>2, <2>3 DEF LeaveInv, OnePlace
<1> QED
  BY <1>2, <1>3

-----------------------------------------------------------------------------
(* The theorems *)

\* The invariant that relates the queue, the mailboxes and what has become of each
\* frame holds in every reachable state.
THEOREM LeaveInvariant == Spec => []LeaveInv
BY InitLeaveInv, NextLeaveInv, PTL DEF Spec

\* The queue, the mailboxes and the bus keep to their types: who is on the wire has
\* a frame, and the bus is not off.
THEOREM TypeCorrect == Spec => []TypeOK
<1>1. LeaveInv => TypeOK
  BY DEF LeaveInv
<1> QED
  BY <1>1, LeaveInvariant, PTL

\* uavcan_flush neither drops a frame that uavcan_can_tx refuses nor hands one over
\* twice, whatever the bus does and however often the node restarts.
THEOREM FramesLeaveOnce == Spec => []LeavesOnce
BY OnceEach, LeaveInvariant, PTL

\* No frame is passed by more less urgent ones than there are mailboxes, although the
\* queue, the mailboxes and the bus order frames each for itself.
THEOREM InversionIsBounded == Spec => []InversionBounded
<1>1. LeaveInv => InversionBounded
  BY DEF LeaveInv
<1> QED
  BY <1>1, LeaveInvariant, PTL

\* A restart loses only frames that the controller has already, for uavcan_update
\* restarts the node after the flush.
THEOREM RestartsLoseLittle == Spec => RestartLosesLittle
<1> DEFINE Lost == \A f \in Frames : f \in Pending /\ f.n \in lost'
                                      => f \in {box[b] : b \in Waiting}
<1>1. LeaveInv /\ [Next]_vars => Lost
  BY OnlyMailboxesLost
<1>2. LeaveInv /\ [Next]_vars => [Lost]_vars
  BY <1>1
<1> QED
  BY <1>2, LeaveInvariant, PTL DEF Spec, RestartLosesLittle
=============================================================================
