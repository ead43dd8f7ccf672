---------------------------- MODULE Alarm_proofs ----------------------------
(***************************************************************************)
(* Proofs about the alarms: the type invariant, the promise of             *)
(* alarm_cancel, that no expiry is lost, that the list is the schedule of  *)
(* the alarms that are set, and that periodic alarms do not drift.         *)
(***************************************************************************)
EXTENDS Alarm, SequenceTheorems, FiniteSetTheorems, WellFoundedInduction, TLAPS

-----------------------------------------------------------------------------
(* Lists without duplicates.                                               *)

Distinct(list) == \A j, k \in 1..Len(list) : list[j] = list[k] => j = k

NotIn(list, a) == \A k \in 1..Len(list) : list[k] # a

(* The first i places of a list, a piece, and the list from place j.       *)
Splice(list, i, mid, j) == SubSeq(list, 1, i) \o mid \o SubSeq(list, j, Len(list))

(* How long a splice is, and what is at each place.                        *)
Spliced(all, list, i, mid, j) ==
    /\ all \in Seq(Alarms)
    /\ Len(all) = i + Len(mid) + (Len(list) - j + 1)
    /\ \A k \in 1..i : all[k] = list[k]
    /\ \A k \in 1..Len(mid) : all[i + k] = mid[k]
    /\ \A k \in (i + Len(mid) + 1)..(i + Len(mid) + Len(list) - j + 1) :
          all[k] = list[k - i - Len(mid) + j - 1]

LEMMA SpliceList ==
    ASSUME NEW list \in Seq(Alarms), NEW i \in 0..Len(list), NEW j \in 1..(Len(list) + 1),
           NEW mid \in Seq(Alarms)
    PROVE  Spliced(Splice(list, i, mid, j), list, i, mid, j)
<1> DEFINE n == Len(mid)
<1>n. n \in Nat /\ n = Len(mid)
  OBVIOUS
<1> HIDE DEF n
<1> DEFINE p == SubSeq(list, 1, i)
           q == SubSeq(list, j, Len(list))
           pm == p \o mid
<1>1. p \in Seq(Alarms) /\ Len(p) = i /\ \A k \in 1..i : p[k] = list[k]
  BY SubSeqProperties
<1>2. /\ q \in Seq(Alarms) /\ Len(q) = Len(list) - j + 1
      /\ \A k \in 1..(Len(list) - j + 1) : q[k] = list[j + k - 1]
  BY SubSeqProperties
<1> HIDE DEF p, q
<1>0. Len(list) \in Nat
  OBVIOUS
<1>3. /\ pm \in Seq(Alarms) /\ Len(pm) = i + n
      /\ \A k \in 1..(i + n) : pm[k] = IF k <= i THEN p[k] ELSE mid[k - i]
  <2>1. /\ p \o mid \in Seq(Alarms) /\ Len(p \o mid) = Len(p) + Len(mid)
        /\ \A k \in 1..(Len(p) + Len(mid)) :
              (p \o mid)[k] = IF k <= Len(p) THEN p[k] ELSE mid[k - Len(p)]
    BY <1>1, ConcatProperties, Zenon
  <2>2. Len(p) = i /\ Len(mid) = n
    BY <1>n, <1>1
  <2> QED
    BY <2>1, <2>2, Zenon
<1> HIDE DEF pm
<1> DEFINE all == pm \o q
<1>4. /\ all \in Seq(Alarms) /\ Len(all) = Len(pm) + Len(q)
      /\ \A k \in 1..(Len(pm) + Len(q)) :
            all[k] = IF k <= Len(pm) THEN pm[k] ELSE q[k - Len(pm)]
  BY <1>2, <1>3, ConcatProperties, Zenon
<1>5. Splice(list, i, mid, j) = all
  BY DEF Splice, p, q, pm
<1> HIDE DEF all
<1>6. \A k \in 1..(i + n) : all[k] = pm[k]
  <2> TAKE k \in 1..(i + n)
  <2>1. k \in 1..(Len(pm) + Len(q)) /\ k <= Len(pm)
    BY <1>n, <1>0, <1>2, <1>3
  <2> QED
    BY <1>4, <2>1
<1>7. \A k \in (i + n + 1)..(i + n + Len(list) - j + 1) : all[k] = list[k - i - n + j - 1]
  <2> TAKE k \in (i + n + 1)..(i + n + Len(list) - j + 1)
  <2>1. all[k] = q[k - (i + n)]
    <3>1. k \in 1..(Len(pm) + Len(q)) /\ ~(k <= Len(pm)) /\ k - Len(pm) = k - (i + n)
      BY <1>n, <1>0, <1>2, <1>3
    <3> QED
      BY <1>4, <3>1
  <2>2. k - (i + n) \in 1..(Len(list) - j + 1) /\ j + (k - (i + n)) - 1 = k - i - n + j - 1
    BY <1>n
  <2> QED
    BY <1>2, <2>1, <2>2
<1>8. Len(all) = i + n + (Len(list) - j + 1)
  BY <1>n, <1>2, <1>3, <1>4
<1>9. \A k \in 1..i : all[k] = list[k]
  BY <1>n, <1>0, <1>1, <1>3, <1>6
<1>10. \A k \in 1..n : all[i + k] = mid[k]
  <2> TAKE k \in 1..n
  <2>1. i + k \in 1..(i + n) /\ ~(i + k <= i) /\ i + k - i = k
    BY <1>n
  <2> QED
    BY <1>3, <1>6, <2>1
<1> QED
  BY <1>n, <1>4, <1>5, <1>7, <1>8, <1>9, <1>10 DEF Spliced

(* rest is the list without the alarm at that place.                       *)
TakenAt(list, rest, a, at) ==
    /\ at \in 1..Len(list) /\ list[at] = a
    /\ rest \in Seq(Alarms) /\ Len(rest) = Len(list) - 1
    /\ \A k \in 1..(at - 1) : rest[k] = list[k]
    /\ \A k \in at..(Len(list) - 1) : rest[k] = list[k + 1]
    /\ \A k \in 1..Len(rest) : rest[k] = IF k < at THEN list[k] ELSE list[k + 1]

(* Without takes an alarm out of one place.                                *)
LEMMA WithoutPlaces ==
    ASSUME NEW list \in Seq(Alarms), NEW a \in Alarms, ~NotIn(list, a)
    PROVE  \E at \in 1..Len(list) : TakenAt(list, Without(list, a), a, at)
<1> DEFINE at == CHOOSE k \in 1..Len(list) : list[k] = a
           left == Splice(list, at - 1, <<>>, at + 1)
<1>1. at \in 1..Len(list) /\ list[at] = a
  BY DEF NotIn
<1>2. Without(list, a) = left
  <2>1. Without(list, a) = SubSeq(list, 1, at - 1) \o SubSeq(list, at + 1, Len(list))
    BY DEF Without, NotIn
  <2>2. SubSeq(list, 1, at - 1) \in Seq(Alarms)
    BY <1>1, SubSeqProperties
  <2> QED
    BY <2>1, <2>2 DEF Splice
<1> HIDE DEF at
<1>3. /\ left \in Seq(Alarms) /\ Len(left) = Len(list) - 1
      /\ \A k \in 1..(at - 1) : left[k] = list[k]
      /\ \A k \in at..(Len(list) - 1) : left[k] = list[k + 1]
  <2> DEFINE before == at - 1
             after == at + 1
             none == <<>>
  <2>1. /\ before \in 0..Len(list) /\ after \in 1..(Len(list) + 1)
        /\ none \in Seq(Alarms)
    BY <1>1
  <2>a. before = at - 1 /\ after = at + 1 /\ Len(none) = 0 /\ left = Splice(list, before, none, after)
    OBVIOUS
  <2> HIDE DEF before, after, none, left
  <2>b. Spliced(left, list, before, none, after)
    BY <2>1, <2>a, SpliceList
  <2>2. /\ left \in Seq(Alarms)
        /\ Len(left) = at - 1 + 0 + (Len(list) - (at + 1) + 1)
        /\ \A k \in 1..(at - 1) : left[k] = list[k]
        /\ \A k \in (at - 1 + 0 + 1)..(at - 1 + 0 + Len(list) - (at + 1) + 1) :
              left[k] = list[k - (at - 1) - 0 + (at + 1) - 1]
    BY <2>a, <2>b, Zenon DEF Spliced
  <2> HIDE DEF left
  <2>3. Len(list) \in Nat
    OBVIOUS
  <2> QED
    BY <1>1, <2>2, <2>3
<1>4. \A k \in 1..Len(left) : left[k] = IF k < at THEN list[k] ELSE list[k + 1]
  <2> HIDE DEF left
  <2> TAKE k \in 1..Len(left)
  <2>1. Len(list) \in Nat
    OBVIOUS
  <2>2. CASE k < at
    BY <1>1, <1>3, <2>1, <2>2
  <2>3. CASE ~(k < at)
    BY <1>1, <1>3, <2>1, <2>3
  <2> QED
    BY <2>2, <2>3
<1> HIDE DEF left
<1>5. TakenAt(list, left, a, at)
  BY <1>1, <1>3, <1>4 DEF TakenAt
<1> QED
  BY <1>1, <1>2, <1>5

(* What Without takes out is the alarm and nothing else; an alarm that is  *)
(* not the front leaves the front where it is.                             *)
LEMMA WithoutList ==
    ASSUME NEW list \in Seq(Alarms), NEW a \in Alarms, Distinct(list)
    PROVE  /\ Without(list, a) \in Seq(Alarms)
           /\ Distinct(Without(list, a))
           /\ NotIn(Without(list, a), a)
           /\ \A b \in Alarms : NotIn(list, b) => NotIn(Without(list, a), b)
           /\ list # <<>> /\ Head(list) # a =>
                 Without(list, a) # <<>> /\ Head(Without(list, a)) = Head(list)
<1>1. CASE NotIn(list, a)
  BY <1>1 DEF Without, NotIn
<1>2. CASE ~NotIn(list, a)
  <2> DEFINE rest == Without(list, a)
  <2>1. PICK at \in 1..Len(list) : TakenAt(list, rest, a, at)
    BY <1>2, WithoutPlaces
  <2> HIDE DEF rest
  <2>2. rest \in Seq(Alarms)
    BY <2>1 DEF TakenAt
  <2>3. Distinct(rest)
    <3> DEFINE old(k) == IF k < at THEN k ELSE k + 1
    <3>1. \A k \in 1..Len(rest) : old(k) \in 1..Len(list) /\ rest[k] = list[old(k)]
      <4> TAKE k \in 1..Len(rest)
      <4>1. rest[k] = IF k < at THEN list[k] ELSE list[k + 1]
        BY <2>1 DEF TakenAt
      <4>2. old(k) \in 1..Len(list)
        BY <2>1 DEF TakenAt
      <4> QED
        BY <4>1, <4>2
    <3>2. \A j, k \in 1..Len(rest) : old(j) = old(k) => j = k
      BY <2>1 DEF TakenAt
    <3> HIDE DEF old
    <3> QED
      BY <3>1, <3>2 DEF Distinct
  <2>4. NotIn(rest, a)
    BY <2>1 DEF Distinct, NotIn, TakenAt
  <2>5. ASSUME NEW b \in Alarms, NotIn(list, b) PROVE NotIn(rest, b)
    BY <2>1, <2>5 DEF NotIn, TakenAt
  <2>6. ASSUME list # <<>>, Head(list) # a PROVE rest # <<>> /\ Head(rest) = Head(list)
    BY <2>1, <2>6 DEF TakenAt
  <2> QED
    BY <2>2, <2>3, <2>4, <2>5, <2>6 DEF rest
<1> QED
  BY <1>1, <1>2

(* The place where InsertSorted puts an alarm exists.                      *)
LEMMA PlaceExists ==
    ASSUME NEW list \in Seq(Alarms), NEW a \in Alarms, NEW due \in [Alarms -> Nat]
    PROVE  \E k \in 1..(Len(list) + 1) :
              /\ \A j \in 1..(k - 1) : due[list[j]] < due[a]
              /\ k \in 1..Len(list) => due[list[k]] >= due[a]
<1> DEFINE Late == {k \in Nat : k \in 1..(Len(list) + 1)
                                 /\ (k \in 1..Len(list) => due[list[k]] >= due[a])}
<1>1. Len(list) + 1 \in Late /\ Late \subseteq Nat
  OBVIOUS
<1>2. IsWellFoundedOn(OpToRel(<, Nat), Nat)
  BY NatLessThanWellFounded
<1>3. PICK k \in Late : \A j \in Late : ~(<<j, k>> \in OpToRel(<, Nat))
  BY <1>1, <1>2, WFMin
<1>4. \A j \in Late : ~(j < k)
  BY <1>1, <1>3 DEF OpToRel
<1>5. \A j \in 1..(k - 1) : due[list[j]] < due[a]
  BY <1>4
<1> QED
  BY <1>3, <1>5

(* longer is the list with the alarm at that place, where it is in order.   *)
PutAt(list, longer, a, due, at) ==
    /\ at \in 1..(Len(list) + 1)
    /\ \A j \in 1..(at - 1) : due[list[j]] < due[a]
    /\ at \in 1..Len(list) => due[list[at]] >= due[a]
    /\ longer \in Seq(Alarms) /\ Len(longer) = Len(list) + 1
    /\ \A k \in 1..(at - 1) : longer[k] = list[k]
    /\ longer[at] = a
    /\ \A k \in (at + 1)..(Len(list) + 1) : longer[k] = list[k - 1]
    /\ \A k \in 1..Len(longer) :
          longer[k] = IF k < at THEN list[k] ELSE IF k = at THEN a ELSE list[k - 1]

(* InsertSorted puts the alarm in one place.                               *)
LEMMA InsertPlaces ==
    ASSUME NEW list \in Seq(Alarms), NEW a \in Alarms, NEW due \in [Alarms -> Nat]
    PROVE  \E at \in 1..(Len(list) + 1) : PutAt(list, InsertSorted(list, a, due), a, due, at)
<1> DEFINE at == CHOOSE k \in 1..(Len(list) + 1) :
                     /\ \A j \in 1..(k - 1) : due[list[j]] < due[a]
                     /\ k \in 1..Len(list) => due[list[k]] >= due[a]
           one == <<a>>
           longer == Splice(list, at - 1, one, at)
<1>1. at \in 1..(Len(list) + 1)
  BY PlaceExists
<1>0. /\ \A j \in 1..(at - 1) : due[list[j]] < due[a]
      /\ at \in 1..Len(list) => due[list[at]] >= due[a]
  BY PlaceExists
<1>2. InsertSorted(list, a, due) = longer
  BY DEF InsertSorted, Splice
<1> HIDE DEF at
<1>3. one \in Seq(Alarms) /\ 1 = Len(one) /\ one[1] = a
  OBVIOUS
<1> HIDE DEF one
<1>4. /\ longer \in Seq(Alarms) /\ Len(longer) = Len(list) + 1
      /\ \A k \in 1..(at - 1) : longer[k] = list[k]
      /\ longer[at] = a
      /\ \A k \in (at + 1)..(Len(list) + 1) : longer[k] = list[k - 1]
  <2>1. at - 1 \in 0..Len(list) /\ 1 \in Nat
    BY <1>1
  <2>2. /\ longer \in Seq(Alarms)
        /\ Len(longer) = at - 1 + 1 + (Len(list) - at + 1)
        /\ \A k \in 1..(at - 1) : longer[k] = list[k]
        /\ \A k \in 1..1 : longer[at - 1 + k] = one[k]
        /\ \A k \in (at - 1 + 1 + 1)..(at - 1 + 1 + Len(list) - at + 1) :
              longer[k] = list[k - (at - 1) - 1 + at - 1]
    <3> DEFINE before == at - 1
    <3>1. before \in 0..Len(list) /\ before = at - 1 /\ longer = Splice(list, before, one, at)
      BY <2>1
    <3> HIDE DEF before, longer
    <3>2. Spliced(longer, list, before, one, at)
      BY <1>1, <1>3, <3>1, SpliceList
    <3> QED
      BY <1>3, <3>1, <3>2, Zenon DEF Spliced
  <2> HIDE DEF longer
  <2> QED
    BY <1>1, <1>3, <2>2
<1> HIDE DEF longer
<1>5. \A k \in 1..Len(longer) :
         longer[k] = IF k < at THEN list[k] ELSE IF k = at THEN a ELSE list[k - 1]
  <2> TAKE k \in 1..Len(longer)
  <2>1. Len(list) \in Nat
    OBVIOUS
  <2>2. CASE k < at
    BY <1>1, <1>4, <2>1, <2>2
  <2>3. CASE k = at
    BY <1>1, <1>4, <2>3
  <2>4. CASE k > at
    BY <1>1, <1>4, <2>1, <2>4
  <2> QED
    BY <1>1, <1>4, <2>1, <2>2, <2>3, <2>4
<1>6. PutAt(list, longer, a, due, at)
  BY <1>0, <1>1, <1>4, <1>5 DEF PutAt
<1> QED
  BY <1>1, <1>2, <1>6

(* InsertSorted adds the alarm; the front stays or is the new one.         *)
LEMMA InsertList ==
    ASSUME NEW list \in Seq(Alarms), NEW a \in Alarms, NEW due \in [Alarms -> Nat],
           Distinct(list), NotIn(list, a)
    PROVE  /\ InsertSorted(list, a, due) \in Seq(Alarms)
           /\ Distinct(InsertSorted(list, a, due))
           /\ InsertSorted(list, a, due) # <<>>
           /\ \A b \in Alarms : b # a /\ NotIn(list, b) => NotIn(InsertSorted(list, a, due), b)
           /\ Head(InsertSorted(list, a, due)) = a
                 \/ (list # <<>> /\ Head(InsertSorted(list, a, due)) = Head(list))
<1> DEFINE longer == InsertSorted(list, a, due)
<1>0. PICK at \in 1..(Len(list) + 1) : PutAt(list, longer, a, due, at)
  BY InsertPlaces
<1> HIDE DEF longer
<1>1. at \in 1..(Len(list) + 1)
  BY <1>0
<1>4. /\ longer \in Seq(Alarms) /\ Len(longer) = Len(list) + 1
      /\ \A k \in 1..(at - 1) : longer[k] = list[k]
      /\ longer[at] = a
      /\ \A k \in (at + 1)..(Len(list) + 1) : longer[k] = list[k - 1]
  BY <1>0 DEF PutAt
<1>5. \A k \in 1..Len(longer) :
         longer[k] = IF k < at THEN list[k] ELSE IF k = at THEN a ELSE list[k - 1]
  BY <1>0 DEF PutAt
<1>6. Distinct(longer)
  <2> SUFFICES ASSUME NEW j \in 1..Len(longer), NEW k \in 1..Len(longer), longer[j] = longer[k]
               PROVE  j = k
    BY DEF Distinct
  <2>1. Len(list) \in Nat
    OBVIOUS
  <2>2. \A m \in 1..Len(longer) : m # at => longer[m] # a
    <3> TAKE m \in 1..Len(longer)
    <3>1. CASE m < at
      <4>1. m \in 1..(at - 1) /\ m \in 1..Len(list)
        BY <1>1, <1>4, <2>1, <3>1
      <4>2. longer[m] = list[m]
        BY <1>4, <4>1
      <4> QED
        BY <4>1, <4>2 DEF NotIn
    <3>2. CASE m > at
      <4>1. m - 1 \in 1..Len(list) /\ m \in (at + 1)..(Len(list) + 1)
        BY <1>1, <1>4, <2>1, <3>2
      <4>2. longer[m] = list[m - 1]
        BY <1>4, <4>1
      <4> QED
        BY <4>1, <4>2 DEF NotIn
    <3> QED
      BY <1>1, <1>4, <2>1, <3>1, <3>2
  <2>3. CASE j = at \/ k = at
    BY <1>4, <2>2, <2>3
  <2>4. CASE j # at /\ k # at
    <3> DEFINE old(m) == IF m < at THEN m ELSE m - 1
    <3>1. \A m \in 1..Len(longer) : m # at => old(m) \in 1..Len(list) /\ longer[m] = list[old(m)]
      <4> SUFFICES ASSUME NEW m \in 1..Len(longer), m # at
                   PROVE  old(m) \in 1..Len(list) /\ longer[m] = list[old(m)]
        OBVIOUS
      <4>1. longer[m] = IF m < at THEN list[m] ELSE list[m - 1]
        BY <1>5
      <4>2. Len(longer) = Len(list) + 1
        BY <1>4
      <4>3. old(m) \in 1..Len(list)
        BY <1>1, <2>1, <4>2
      <4> QED
        BY <4>1, <4>3
    <3>2. list[old(j)] = list[old(k)] /\ old(j) \in 1..Len(list) /\ old(k) \in 1..Len(list)
      BY <2>4, <3>1
    <3>3. old(j) = old(k)
      BY <3>2 DEF Distinct
    <3> QED
      BY <1>1, <1>4, <2>1, <2>4, <3>3
  <2> QED
    BY <2>3, <2>4
<1>7. ASSUME NEW b \in Alarms, b # a, NotIn(list, b) PROVE NotIn(longer, b)
  <2> SUFFICES ASSUME NEW m \in 1..Len(longer) PROVE longer[m] # b
    BY DEF NotIn
  <2>1. Len(list) \in Nat
    OBVIOUS
  <2>2. CASE m < at
    <3>1. m \in 1..(at - 1) /\ m \in 1..Len(list)
      BY <1>1, <1>4, <2>1, <2>2
    <3>2. longer[m] = list[m]
      BY <1>4, <3>1
    <3> QED
      BY <1>7, <3>1, <3>2 DEF NotIn
  <2>3. CASE m = at
    BY <1>4, <1>7, <2>3
  <2>4. CASE m > at
    <3>1. m - 1 \in 1..Len(list) /\ longer[m] = list[m - 1]
      BY <1>1, <1>4, <2>1, <2>4
    <3> QED
      BY <1>7, <3>1 DEF NotIn
  <2> QED
    BY <1>1, <1>4, <2>1, <2>2, <2>3, <2>4
<1>8. longer # <<>> /\ (Head(longer) = a \/ (list # <<>> /\ Head(longer) = Head(list)))
  <2>0. Len(list) \in Nat
    OBVIOUS
  <2>1. longer # <<>> /\ Head(longer) = longer[1]
    BY <1>4, <2>0
  <2>2. CASE at = 1
    <3>1. longer[1] = a
      BY <1>4, <2>2
    <3> QED
      BY <2>1, <3>1
  <2>3. CASE at > 1
    <3>1. longer[1] = list[1] /\ list # <<>> /\ Head(list) = list[1]
      BY <1>1, <1>4, <2>0, <2>3
    <3> QED
      BY <2>1, <3>1
  <2> QED
    BY <1>1, <2>0, <2>1, <2>2, <2>3
<1> QED
  BY <1>4, <1>6, <1>7, <1>8 DEF longer

-----------------------------------------------------------------------------
(* What the handlers do to the list and the timer.                         *)

(* An alarm taken out and put back somewhere: alarm_set.  When it neither  *)
(* was nor becomes the front, the front is what it was.                    *)
LEMMA MoveList ==
    ASSUME NEW list \in Seq(Alarms), NEW a \in Alarms, NEW due \in [Alarms -> Nat],
           Distinct(list), NEW moved, moved = InsertSorted(Without(list, a), a, due)
    PROVE  /\ moved \in Seq(Alarms) /\ Distinct(moved) /\ moved # <<>>
           /\ \A b \in Alarms : b # a /\ NotIn(list, b) => NotIn(moved, b)
           /\ ~(IsFront(list, a) \/ IsFront(moved, a)) => list # <<>> /\ Head(moved) = Head(list)
<1> DEFINE rest == Without(list, a)
<1>1. /\ rest \in Seq(Alarms) /\ Distinct(rest) /\ NotIn(rest, a)
      /\ \A b \in Alarms : NotIn(list, b) => NotIn(rest, b)
      /\ list # <<>> /\ Head(list) # a => rest # <<>> /\ Head(rest) = Head(list)
  BY WithoutList, Zenon
<1>2. list = <<>> => rest = <<>>
  BY DEF Without
<1> HIDE DEF rest
<1>3. moved = InsertSorted(rest, a, due)
  BY DEF rest
<1>4. /\ moved \in Seq(Alarms) /\ Distinct(moved) /\ moved # <<>>
      /\ \A b \in Alarms : b # a /\ NotIn(rest, b) => NotIn(moved, b)
      /\ Head(moved) = a \/ (rest # <<>> /\ Head(moved) = Head(rest))
  <2> DEFINE put == InsertSorted(rest, a, due)
  <2>1. /\ put \in Seq(Alarms) /\ Distinct(put) /\ put # <<>>
        /\ \A b \in Alarms : b # a /\ NotIn(rest, b) => NotIn(put, b)
        /\ Head(put) = a \/ (rest # <<>> /\ Head(put) = Head(rest))
    BY <1>1, InsertList, Zenon
  <2>2. moved = put
    BY <1>3
  <2> HIDE DEF put
  <2> QED
    BY <2>1, <2>2
<1> QED
  BY <1>1, <1>2, <1>4 DEF IsFront

(* The front alarm taken from the list: callback_dispatch.                 *)
LEMMA TakeList ==
    ASSUME NEW list \in Seq(Alarms), Distinct(list), list # <<>>
    PROVE  /\ Head(list) \in Alarms /\ Tail(list) \in Seq(Alarms) /\ Distinct(Tail(list))
           /\ NotIn(Tail(list), Head(list)) /\ ~NotIn(list, Head(list))
           /\ \A b \in Alarms : NotIn(list, b) => NotIn(Tail(list), b)
<1>1. Len(list) \in Nat \ {0} /\ Head(list) = list[1] /\ 1 \in 1..Len(list)
  OBVIOUS
<1>2. /\ Tail(list) \in Seq(Alarms) /\ Len(Tail(list)) = Len(list) - 1
      /\ \A k \in 1..Len(Tail(list)) : Tail(list)[k] = list[k + 1]
  BY HeadTailProperties
<1>3. \A k \in 1..Len(Tail(list)) : k + 1 \in 1..Len(list) /\ k + 1 # 1
  BY <1>1, <1>2
<1>4. list[1] \in Alarms
  BY <1>1
<1>5. Distinct(Tail(list))
  BY <1>2, <1>3 DEF Distinct
<1>6. NotIn(Tail(list), list[1])
  BY <1>1, <1>2, <1>3 DEF Distinct, NotIn
<1>7. ~NotIn(list, list[1])
  BY <1>1 DEF NotIn
<1>8. \A b \in Alarms : NotIn(list, b) => NotIn(Tail(list), b)
  BY <1>2, <1>3 DEF NotIn
<1> QED
  BY <1>1, <1>2, <1>4, <1>5, <1>6, <1>7, <1>8

(* reschedule_root_alarm: the timer stays a time, the counts stay counts,  *)
(* and afterwards the front of the list is covered.                        *)
LEMMA RescheduleFacts ==
    ASSUME time \in Nat, timer \in Nat, fired \in Nat, NEW needed \in BOOLEAN,
           NEW list \in Seq(Alarms), NEW due \in [Alarms -> Nat], NEW posts \in Nat,
           Reschedule(needed, list, due, posts)
    PROVE  /\ timer' \in Nat /\ fired' \in Nat /\ alarm_expired' \in Nat
           /\ needed /\ list # <<>> => timer' = due[Head(list)] \/ fired' + alarm_expired' > 0
           /\ ~needed => timer' = timer /\ fired' = fired /\ alarm_expired' = posts
<1>1. list # <<>> => Head(list) \in Alarms /\ due[Head(list)] \in Nat
  OBVIOUS
<1> QED
  BY <1>1 DEF Reschedule

-----------------------------------------------------------------------------
(* Type correctness.                                                       *)

(* Shared by the three invariants: the list names an alarm once, a period  *)
(* is never 0, and whoever is inside alarm_cancel cancels an alarm.        *)
Shape ==
    /\ Distinct(alarms)
    /\ \A a \in Alarms : grid[a] # OneShot => grid[a].period # 0
    /\ \A c \in Callers : canceller[c] # "out" => target[c] \in Alarms

Sound == TypeOK /\ Shape

(* What alarm_set does to the list keeps Sound.                            *)
LEMMA SetSound ==
    ASSUME Sound, NEW c \in Callers, NEW a \in Alarms, NEW p \in Periods,
           NEW periodic \in BOOLEAN, AlarmSet(c, a, p, periodic)
    PROVE  Sound'
<1> DEFINE due == [deadline EXCEPT ![a] = time + p]
           list == InsertSorted(Without(alarms, a), a, due)
           needed == IsFront(alarms, a) \/ IsFront(list, a)
<1>0. time \in Nat /\ p \in Nat /\ p # 0
  BY AlarmAssumption DEF Sound, TypeOK
<1>1. due \in [Alarms -> Nat]
  BY <1>0 DEF Sound, TypeOK
<1>2. /\ deadline' = due /\ alarms' = list
      /\ grid' = [grid EXCEPT ![a] = IF periodic THEN Periodic(p) ELSE OneShot]
      /\ Reschedule(needed, list, due, alarm_expired)
      /\ clean' = [d \in Callers |-> clean[d] /\ target[d] # a]
      /\ quiet' = [quiet EXCEPT ![a] = FALSE]
      /\ UNCHANGED <<time, dispatcher, firing, canceller, target>>
  BY DEF AlarmSet
<1> HIDE DEF due
<1>3. list \in Seq(Alarms) /\ Distinct(list)
  <2> DEFINE moved == InsertSorted(Without(alarms, a), a, due)
  <2>1. alarms \in Seq(Alarms) /\ Distinct(alarms)
    BY DEF Sound, TypeOK, Shape
  <2>2. moved \in Seq(Alarms) /\ Distinct(moved)
    BY <1>1, <2>1, MoveList
  <2> QED
    BY <2>2
<1> HIDE DEF list
<1>4. needed \in BOOLEAN
  BY DEF IsFront
<1> HIDE DEF needed
<1>5. timer' \in Nat /\ fired' \in Nat /\ alarm_expired' \in Nat
  <2>1. time \in Nat /\ timer \in Nat /\ fired \in Nat /\ alarm_expired \in Nat
    BY DEF Sound, TypeOK
  <2> QED
    BY <1>1, <1>2, <1>3, <1>4, <2>1, RescheduleFacts, Zenon
<1>6. /\ Periodic(p) \in [phase : Nat, period : Nat] /\ Periodic(p).period # 0
      /\ OneShot \in [phase : Nat, period : Nat]
  BY <1>0 DEF Periodic, OneShot
<1>7. grid' \in [Alarms -> [phase : Nat, period : Nat]]
  BY <1>2, <1>6 DEF Sound, TypeOK
<1>8. \A b \in Alarms : grid'[b] # OneShot => grid'[b].period # 0
  BY <1>2, <1>6 DEF Sound, TypeOK, Shape
<1>9. clean' \in [Callers -> BOOLEAN] /\ quiet' \in [Alarms -> BOOLEAN]
  BY <1>2 DEF Sound, TypeOK
<1>10. TypeOK'
  BY <1>1, <1>2, <1>3, <1>5, <1>7, <1>9 DEF Sound, TypeOK
<1>11. Shape'
  BY <1>2, <1>3, <1>8 DEF Sound, Shape
<1> QED
  BY <1>10, <1>11 DEF Sound

(* alarm_cancel, under the monitor.                                        *)
LEMMA CancelSound ==
    ASSUME Sound, NEW c \in Callers, NEW a \in Alarms, AlarmCancel(c, a)
    PROVE  Sound'
<1> DEFINE due == [deadline EXCEPT ![a] = 0]
           list == Without(alarms, a)
           needed == IsFront(alarms, a)
<1>0. alarms \in Seq(Alarms) /\ Distinct(alarms)
  BY DEF Sound, TypeOK, Shape
<1>1. due \in [Alarms -> Nat]
  BY DEF Sound, TypeOK
<1>2. /\ deadline' = due /\ alarms' = list
      /\ grid' = [grid EXCEPT ![a] = OneShot]
      /\ Reschedule(needed, list, due, alarm_expired)
      /\ canceller' = [canceller EXCEPT ![c] = "waiting"]
      /\ target' = [target EXCEPT ![c] = a]
      /\ clean' = [clean EXCEPT ![c] = (c = Dispatcher => firing # a)]
      /\ UNCHANGED <<time, dispatcher, firing, quiet>>
  BY DEF AlarmCancel
<1> HIDE DEF due
<1>3. list \in Seq(Alarms) /\ Distinct(list)
  BY <1>0, WithoutList, Zenon
<1> HIDE DEF list
<1>4. needed \in BOOLEAN
  BY DEF IsFront
<1> HIDE DEF needed
<1>5. timer' \in Nat /\ fired' \in Nat /\ alarm_expired' \in Nat
  <2>1. time \in Nat /\ timer \in Nat /\ fired \in Nat /\ alarm_expired \in Nat
    BY DEF Sound, TypeOK
  <2> QED
    BY <1>1, <1>2, <1>3, <1>4, <2>1, RescheduleFacts, Zenon
<1>6. OneShot \in [phase : Nat, period : Nat]
  BY DEF OneShot
<1>7. /\ grid' \in [Alarms -> [phase : Nat, period : Nat]]
      /\ \A b \in Alarms : grid'[b] # OneShot => grid'[b].period # 0
  BY <1>2, <1>6 DEF Sound, TypeOK, Shape
<1>8. /\ clean' \in [Callers -> BOOLEAN]
      /\ canceller' \in [Callers -> {"out", "waiting", "locked"}]
      /\ target' \in [Callers -> Alarms \cup {NoAlarm}]
  BY <1>2 DEF Sound, TypeOK
<1>9. \A d \in Callers : canceller'[d] # "out" => target'[d] \in Alarms
  BY <1>2 DEF Sound, TypeOK, Shape
<1>10. TypeOK'
  BY <1>1, <1>2, <1>3, <1>5, <1>7, <1>8 DEF Sound, TypeOK
<1>11. Shape'
  BY <1>2, <1>3, <1>7, <1>9 DEF Sound, Shape
<1> QED
  BY <1>10, <1>11 DEF Sound

(* The next time of a periodic alarm is a time.                            *)
LEMMA NextInstanceIsTime ==
    ASSUME time \in Nat, NEW g \in [phase : Nat, period : Nat], g.period # 0
    PROVE  NextInstance(g) \in Nat
<1> DEFINE d == time - g.phase
           p == g.period
<1>1. d \in Int /\ p \in Nat \ {0}
  OBVIOUS
<1> HIDE DEF d, p
<1>2. d % p \in 0..(p - 1)
  BY <1>1
<1>3. time + p - (d % p) \in Nat
  BY <1>1, <1>2
<1> QED
  BY <1>3 DEF NextInstance, d, p

(* What the dispatcher leaves of the list when it takes the front alarm.   *)
LEMMA TakenList ==
    ASSUME Sound, DispatchTakes
    PROVE  /\ alarms # <<>> /\ Head(alarms) \in Alarms /\ firing' = Head(alarms)
           /\ dispatcher = "woken" /\ dispatcher' = "lock"
           /\ ~NotIn(alarms, Head(alarms))
           /\ alarms' \in Seq(Alarms) /\ Distinct(alarms')
           /\ \A b \in Alarms : NotIn(alarms, b) => NotIn(alarms', b)
           /\ deadline' \in [Alarms -> Nat]
           /\ \A b \in Alarms : b # Head(alarms) => deadline'[b] = deadline[b]
           /\ Reschedule(TRUE, alarms', deadline', alarm_expired)
           /\ UNCHANGED <<time, grid, cancelVars>>
<1> DEFINE a == Head(alarms)
           rest == Tail(alarms)
           periodic == grid[a] # OneShot
           due == [deadline EXCEPT ![a] = IF periodic THEN NextInstance(grid[a]) ELSE 0]
           list == IF periodic THEN InsertSorted(rest, a, due) ELSE rest
<1>1. /\ dispatcher = "woken" /\ ~NothingDue
      /\ deadline' = due /\ alarms' = list
      /\ Reschedule(TRUE, list, due, alarm_expired)
      /\ dispatcher' = "lock" /\ firing' = a
      /\ UNCHANGED <<time, grid, cancelVars>>
  BY DEF DispatchTakes
<1>2. alarms \in Seq(Alarms) /\ Distinct(alarms) /\ alarms # <<>>
  BY <1>1 DEF Sound, TypeOK, Shape, NothingDue
<1>3. /\ a \in Alarms /\ rest \in Seq(Alarms) /\ Distinct(rest) /\ NotIn(rest, a)
      /\ ~NotIn(alarms, a) /\ \A b \in Alarms : NotIn(alarms, b) => NotIn(rest, b)
  BY <1>2, TakeList, Zenon
<1> HIDE DEF a, rest
<1>4. periodic => NextInstance(grid[a]) \in Nat
  <2>1. time \in Nat /\ grid[a] \in [phase : Nat, period : Nat]
    BY <1>3 DEF Sound, TypeOK
  <2>2. periodic => grid[a].period # 0
    BY <1>3 DEF Sound, Shape
  <2> QED
    BY <2>1, <2>2, NextInstanceIsTime
<1> HIDE DEF periodic
<1>5. due \in [Alarms -> Nat] /\ \A b \in Alarms : b # a => due[b] = deadline[b]
  BY <1>3, <1>4 DEF Sound, TypeOK
<1> HIDE DEF due
<1>6. /\ list \in Seq(Alarms) /\ Distinct(list)
      /\ \A b \in Alarms : b # a /\ NotIn(rest, b) => NotIn(list, b)
  <2>1. CASE periodic
    <3> DEFINE put == InsertSorted(rest, a, due)
    <3>1. /\ put \in Seq(Alarms) /\ Distinct(put)
          /\ \A b \in Alarms : b # a /\ NotIn(rest, b) => NotIn(put, b)
      BY <1>3, <1>5, InsertList, Zenon
    <3>2. list = put
      BY <2>1
    <3> HIDE DEF put, list
    <3> QED
      BY <3>1, <3>2
  <2>2. CASE ~periodic
    BY <1>3, <2>2
  <2> QED
    BY <2>1, <2>2
<1> HIDE DEF list
<1>7. \A b \in Alarms : NotIn(alarms, b) => NotIn(list, b)
  BY <1>3, <1>6
<1>8. a = Head(alarms)
  BY DEF a
<1> QED
  BY <1>1, <1>2, <1>3, <1>5, <1>6, <1>7, <1>8

(* Every step keeps Sound: one case for each action.                       *)
LEMMA SoundStep == Sound /\ [Next]_vars => Sound'
<1> SUFFICES ASSUME Sound, [Next]_vars PROVE Sound'
  OBVIOUS
<1> USE DEF scheduleVars, timerVars, cancelVars
<1>0. time \in Nat /\ timer \in Nat /\ fired \in Nat /\ alarm_expired \in Nat
  BY DEF Sound, TypeOK
<1>1. CASE UNCHANGED vars
  BY <1>1 DEF Sound, TypeOK, Shape, vars
<1>2. ASSUME NEW c \in Callers, Call(c) PROVE Sound'
  BY <1>2, SetSound, CancelSound DEF Call
<1>3. ASSUME NEW c \in Callers, CancelLocks(c) PROVE Sound'
  <2>1. canceller' \in [Callers -> {"out", "waiting", "locked"}]
    BY <1>3 DEF CancelLocks, Sound, TypeOK
  <2>2. TypeOK'
    BY <1>3, <2>1 DEF CancelLocks, Sound, TypeOK
  <2>3. Shape'
    BY <1>3 DEF CancelLocks, Sound, TypeOK, Shape
  <2> QED
    BY <2>2, <2>3 DEF Sound
<1>4. ASSUME NEW c \in Callers, CancelReturns(c) PROVE Sound'
  <2>1. /\ canceller' \in [Callers -> {"out", "waiting", "locked"}]
        /\ target' \in [Callers -> Alarms \cup {NoAlarm}]
        /\ clean' \in [Callers -> BOOLEAN]
    BY <1>4 DEF CancelReturns, Sound, TypeOK
  <2>2. quiet' \in [Alarms -> BOOLEAN]
    <3>1. target[c] \in Alarms
      BY <1>4 DEF CancelReturns, Sound, Shape
    <3>2. (quiet[target[c]] \/ clean[c]) \in BOOLEAN
      OBVIOUS
    <3> QED
      BY <1>4, <3>1, <3>2 DEF CancelReturns, Sound, TypeOK
  <2>3. TypeOK'
    BY <1>4, <2>1, <2>2 DEF CancelReturns, Sound, TypeOK
  <2>4. Shape'
    BY <1>4 DEF CancelReturns, Sound, TypeOK, Shape
  <2> QED
    BY <2>3, <2>4 DEF Sound
<1>5. CASE Tick
  BY <1>0, <1>5, AlarmAssumption DEF Tick, Sound, TypeOK, Shape
<1>6. CASE TimerCallback
  BY <1>0, <1>6 DEF TimerCallback, Sound, TypeOK, Shape
<1>7. CASE DispatchWakes
  BY <1>0, <1>7 DEF DispatchWakes, Sound, TypeOK, Shape
<1>8. CASE DispatchFindsNothing
  <2>1. timer' \in Nat /\ fired' \in Nat /\ alarm_expired' \in Nat
    <3>1. alarms \in Seq(Alarms) /\ deadline \in [Alarms -> Nat] /\ TRUE \in BOOLEAN
      BY DEF Sound, TypeOK
    <3>2. Reschedule(TRUE, alarms, deadline, alarm_expired)
      BY <1>8 DEF DispatchFindsNothing
    <3> QED
      BY <1>0, <3>1, <3>2, RescheduleFacts, Zenon
  <2> QED
    BY <1>8, <2>1 DEF DispatchFindsNothing, Sound, TypeOK, Shape
<1>9. CASE DispatchTakes
  <2>1. /\ Head(alarms) \in Alarms /\ firing' = Head(alarms) /\ dispatcher' = "lock"
        /\ alarms' \in Seq(Alarms) /\ Distinct(alarms')
        /\ deadline' \in [Alarms -> Nat]
        /\ Reschedule(TRUE, alarms', deadline', alarm_expired)
        /\ UNCHANGED <<time, grid, cancelVars>>
    BY <1>9, TakenList, Zenon
  <2>2. timer' \in Nat /\ fired' \in Nat /\ alarm_expired' \in Nat
    <3>1. TRUE \in BOOLEAN
      OBVIOUS
    <3> QED
      BY <1>0, <2>1, <3>1, RescheduleFacts, Zenon
  <2>3. TypeOK'
    BY <2>1, <2>2 DEF Sound, TypeOK
  <2>4. Shape'
    BY <2>1 DEF Sound, Shape
  <2> QED
    BY <2>3, <2>4 DEF Sound
<1>10. CASE DispatchLocks
  BY <1>10 DEF DispatchLocks, Sound, TypeOK, Shape
<1>11. CASE CallbackReturns
  BY <1>11 DEF CallbackReturns, Sound, TypeOK, Shape
<1> QED
  BY <1>1, <1>2, <1>3, <1>4, <1>5, <1>6, <1>7, <1>8, <1>9, <1>10, <1>11
     DEF Next, CancelStep, DispatchStep

(* In every reachable state Sound holds.                                   *)
LEMMA SoundInvariant == Spec => []Sound
<1>1. Init => Sound
  <2> SUFFICES ASSUME Init PROVE Sound
    OBVIOUS
  <2>1. OneShot \in [phase : Nat, period : Nat]
    BY DEF OneShot
  <2>2. TypeOK
    BY <2>1, AlarmAssumption DEF Init, TypeOK
  <2>3. Shape
    BY DEF Init, Shape, Distinct
  <2> QED
    BY <2>2, <2>3 DEF Sound
<1> QED
  BY <1>1, SoundStep, PTL DEF Spec

(* The variables of the alarms stay in their sets, for any number of       *)
(* threads and alarms.                                                     *)
THEOREM TypeCorrect == Spec => []TypeOK
<1>1. Sound => TypeOK
  BY DEF Sound
<1> QED
  BY <1>1, SoundInvariant, PTL

-----------------------------------------------------------------------------
(* No expiry is lost.                                                      *)

(* The timer is set only when the front of the list has changed; when it   *)
(* has not, what covered it still does.                                    *)
LEMMA CoveredAfterSet ==
    ASSUME Sound, HeadIsCovered, NEW c \in Callers, NEW a \in Alarms, NEW p \in Periods,
           NEW periodic \in BOOLEAN, AlarmSet(c, a, p, periodic)
    PROVE  HeadIsCovered'
<1> DEFINE due == [deadline EXCEPT ![a] = time + p]
           list == InsertSorted(Without(alarms, a), a, due)
           needed == IsFront(alarms, a) \/ IsFront(list, a)
<1>1. time \in Nat /\ timer \in Nat /\ fired \in Nat /\ alarm_expired \in Nat
  BY DEF Sound, TypeOK
<1>2. alarms \in Seq(Alarms) /\ Distinct(alarms) /\ due \in [Alarms -> Nat]
  BY <1>1, AlarmAssumption DEF Sound, TypeOK, Shape
<1>3. \A b \in Alarms : b # a => due[b] = deadline[b]
  BY DEF Sound, TypeOK
<1>4. /\ deadline' = due /\ alarms' = list /\ dispatcher' = dispatcher
      /\ Reschedule(needed, list, due, alarm_expired)
  BY DEF AlarmSet
<1> HIDE DEF due
<1>5. /\ list \in Seq(Alarms) /\ list # <<>>
      /\ ~needed => alarms # <<>> /\ Head(list) = Head(alarms)
  <2> DEFINE moved == InsertSorted(Without(alarms, a), a, due)
  <2>1. /\ moved \in Seq(Alarms) /\ moved # <<>>
        /\ ~(IsFront(alarms, a) \/ IsFront(moved, a)) =>
              alarms # <<>> /\ Head(moved) = Head(alarms)
    BY <1>2, MoveList
  <2> QED
    BY <2>1
<1>6. ~needed => alarms # <<>> /\ Head(alarms) # a
  BY <1>5 DEF IsFront
<1> HIDE DEF list
<1>7. needed \in BOOLEAN
  BY DEF IsFront
<1> HIDE DEF needed
<1>8. /\ needed => timer' = due[Head(list)] \/ fired' + alarm_expired' > 0
      /\ ~needed => timer' = timer /\ fired' = fired /\ alarm_expired' = alarm_expired
  BY <1>1, <1>2, <1>4, <1>5, <1>7, RescheduleFacts, Zenon
<1>9. CASE needed
  BY <1>4, <1>8, <1>9 DEF HeadIsCovered
<1>10. CASE ~needed
  <2>1. Head(alarms) \in Alarms /\ due[Head(list)] = deadline[Head(alarms)]
    BY <1>2, <1>3, <1>5, <1>6, <1>10
  <2>2. timer = deadline[Head(alarms)] \/ fired + alarm_expired > 0 \/ dispatcher = "woken"
    BY <1>6, <1>10 DEF HeadIsCovered
  <2> QED
    BY <1>4, <1>8, <1>10, <2>1, <2>2 DEF HeadIsCovered
<1> QED
  BY <1>9, <1>10

(* The same of alarm_cancel: the alarm behind a cancelled front is covered. *)
LEMMA CoveredAfterCancel ==
    ASSUME Sound, HeadIsCovered, NEW c \in Callers, NEW a \in Alarms, AlarmCancel(c, a)
    PROVE  HeadIsCovered'
<1> DEFINE due == [deadline EXCEPT ![a] = 0]
           list == Without(alarms, a)
           needed == IsFront(alarms, a)
<1>1. time \in Nat /\ timer \in Nat /\ fired \in Nat /\ alarm_expired \in Nat
  BY DEF Sound, TypeOK
<1>2. alarms \in Seq(Alarms) /\ Distinct(alarms) /\ due \in [Alarms -> Nat]
  BY DEF Sound, TypeOK, Shape
<1>3. \A b \in Alarms : b # a => due[b] = deadline[b]
  BY DEF Sound, TypeOK
<1>4. /\ deadline' = due /\ alarms' = list /\ dispatcher' = dispatcher
      /\ Reschedule(needed, list, due, alarm_expired)
  BY DEF AlarmCancel
<1> HIDE DEF due
<1>5. /\ list \in Seq(Alarms)
      /\ alarms # <<>> /\ Head(alarms) # a => list # <<>> /\ Head(list) = Head(alarms)
  BY <1>2, WithoutList, Zenon
<1>6. alarms = <<>> => list = <<>>
  BY DEF Without
<1> HIDE DEF list
<1>7. needed \in BOOLEAN /\ (~needed /\ alarms # <<>> => Head(alarms) # a)
  BY DEF IsFront
<1> HIDE DEF needed
<1>8. /\ needed /\ list # <<>> => timer' = due[Head(list)] \/ fired' + alarm_expired' > 0
      /\ ~needed => timer' = timer /\ fired' = fired /\ alarm_expired' = alarm_expired
  BY <1>1, <1>2, <1>4, <1>5, <1>7, RescheduleFacts, Zenon
<1>9. CASE needed
  BY <1>4, <1>8, <1>9 DEF HeadIsCovered
<1>10. CASE ~needed /\ list # <<>>
  <2>1. alarms # <<>> /\ Head(alarms) # a /\ Head(list) = Head(alarms)
    BY <1>5, <1>6, <1>7, <1>10
  <2>2. Head(alarms) \in Alarms /\ due[Head(list)] = deadline[Head(alarms)]
    BY <1>2, <1>3, <2>1
  <2>3. timer = deadline[Head(alarms)] \/ fired + alarm_expired > 0 \/ dispatcher = "woken"
    BY <2>1 DEF HeadIsCovered
  <2> QED
    BY <1>4, <1>8, <1>10, <2>2, <2>3 DEF HeadIsCovered
<1>11. CASE list = <<>>
  BY <1>4, <1>11 DEF HeadIsCovered
<1> QED
  BY <1>9, <1>10, <1>11

(* Whatever is set or cancelled, by whom and when, while the timer fires   *)
(* and the dispatcher runs: while an alarm is set, the timer is armed for  *)
(* the earliest or the dispatcher has been, or is about to be, woken up.   *)
THEOREM NoExpiryIsLost == Spec => []HeadIsCovered
<1>1. Init => HeadIsCovered
  BY DEF Init, HeadIsCovered
<1>2. Sound /\ HeadIsCovered /\ [Next]_vars => HeadIsCovered'
  <2> SUFFICES ASSUME Sound, HeadIsCovered, [Next]_vars PROVE HeadIsCovered'
    OBVIOUS
  <2> USE DEF scheduleVars, timerVars, cancelVars
  <2>0. time \in Nat /\ timer \in Nat /\ fired \in Nat /\ alarm_expired \in Nat
    BY DEF Sound, TypeOK
  <2>1. CASE UNCHANGED vars
    BY <2>1 DEF HeadIsCovered, vars
  <2>2. ASSUME NEW c \in Callers, Call(c) PROVE HeadIsCovered'
    BY <2>2, CoveredAfterSet, CoveredAfterCancel DEF Call
  <2>3. ASSUME NEW c \in Callers, CancelStep(c) PROVE HeadIsCovered'
    BY <2>3 DEF CancelStep, CancelLocks, CancelReturns, HeadIsCovered
  <2>4. CASE Tick
    BY <2>0, <2>4 DEF Tick, HeadIsCovered
  <2>5. CASE TimerCallback
    BY <2>0, <2>5 DEF TimerCallback, HeadIsCovered
  <2>6. CASE DispatchWakes
    BY <2>6 DEF DispatchWakes, HeadIsCovered
  <2>7. CASE DispatchFindsNothing
    <3>1. /\ alarms \in Seq(Alarms) /\ deadline \in [Alarms -> Nat] /\ TRUE \in BOOLEAN
          /\ Reschedule(TRUE, alarms, deadline, alarm_expired)
      BY <2>7 DEF DispatchFindsNothing, Sound, TypeOK
    <3>2. alarms # <<>> => timer' = deadline[Head(alarms)] \/ fired' + alarm_expired' > 0
      BY <2>0, <3>1, RescheduleFacts, Zenon
    <3> QED
      BY <2>7, <3>2 DEF DispatchFindsNothing, HeadIsCovered
  <2>8. CASE DispatchTakes
    <3>1. /\ alarms' \in Seq(Alarms) /\ deadline' \in [Alarms -> Nat]
          /\ Reschedule(TRUE, alarms', deadline', alarm_expired)
      BY <2>8, TakenList, Zenon
    <3>2. alarms' # <<>> => timer' = deadline'[Head(alarms')] \/ fired' + alarm_expired' > 0
      <4>1. TRUE \in BOOLEAN
        OBVIOUS
      <4> QED
        BY <2>0, <3>1, <4>1, RescheduleFacts, Zenon
    <3> QED
      BY <3>2 DEF HeadIsCovered
  <2>9. CASE DispatchLocks
    BY <2>9 DEF DispatchLocks, HeadIsCovered
  <2>10. CASE CallbackReturns
    BY <2>10 DEF CallbackReturns, HeadIsCovered
  <2> QED
    BY <2>1, <2>2, <2>3, <2>4, <2>5, <2>6, <2>7, <2>8, <2>9, <2>10 DEF Next, DispatchStep
<1> QED
  BY <1>1, <1>2, SoundInvariant, PTL DEF Spec

-----------------------------------------------------------------------------
(* The promise of alarm_cancel.                                            *)

(* Cancelled, and in no list: the dispatcher cannot take it.               *)
Gone(a) == NotIn(alarms, a) /\ deadline[a] = 0

(* From the moment a caller has taken the alarm off the list until it      *)
(* returns: the alarm is gone, unless somebody sets it again, and its      *)
(* callback can be running only while the caller waits for its lock.       *)
CancelGoesOn ==
    \A c \in Callers : clean[c] =>
        /\ canceller[c] # "out" /\ Gone(target[c])
        /\ firing = target[c] =>
              dispatcher = "callback" /\ canceller[c] = "waiting" /\ c # Dispatcher

(* What an idle dispatcher has in hand, and what a quiet alarm is.         *)
QuietIsGone == \A a \in Alarms : quiet[a] => Gone(a) /\ firing # a
IdleFiresNothing == firing # NoAlarm => dispatcher \in {"lock", "callback"}

CancelInv == CancelGoesOn /\ QuietIsGone /\ IdleFiresNothing

(* Setting an alarm disturbs the promise about no other alarm.             *)
LEMMA SetKeepsPromises ==
    ASSUME Sound, CancelInv, NEW c \in Callers, NEW a \in Alarms, NEW p \in Periods,
           NEW periodic \in BOOLEAN, AlarmSet(c, a, p, periodic)
    PROVE  CancelInv'
<1>1. /\ clean' = [d \in Callers |-> clean[d] /\ target[d] # a]
      /\ quiet' = [quiet EXCEPT ![a] = FALSE]
      /\ UNCHANGED <<time, dispatcher, firing, canceller, target>>
  BY DEF AlarmSet
<1>2. \A b \in Alarms : b # a /\ Gone(b) => Gone(b)'
  <2> DEFINE due == [deadline EXCEPT ![a] = time + p]
             moved == InsertSorted(Without(alarms, a), a, due)
  <2>1. alarms \in Seq(Alarms) /\ Distinct(alarms) /\ due \in [Alarms -> Nat]
    BY AlarmAssumption DEF Sound, TypeOK, Shape
  <2>2. \A b \in Alarms : b # a => due[b] = deadline[b]
    BY DEF Sound, TypeOK
  <2>3. deadline' = due /\ alarms' = moved
    BY DEF AlarmSet
  <2> HIDE DEF due
  <2>4. \A b \in Alarms : b # a /\ NotIn(alarms, b) => NotIn(moved, b)
    BY <2>1, MoveList
  <2> HIDE DEF moved
  <2> QED
    BY <2>2, <2>3, <2>4 DEF Gone
<1>3. \A d \in Callers : clean'[d] => clean[d] /\ target[d] # a /\ target[d] \in Alarms
  BY <1>1 DEF Sound, Shape, CancelInv, CancelGoesOn
<1>4. CancelGoesOn'
  BY <1>1, <1>2, <1>3 DEF CancelInv, CancelGoesOn
<1>5. QuietIsGone'
  BY <1>1, <1>2 DEF Sound, TypeOK, CancelInv, QuietIsGone
<1>6. IdleFiresNothing'
  BY <1>1 DEF CancelInv, IdleFiresNothing
<1> QED
  BY <1>4, <1>5, <1>6 DEF CancelInv

(* Under the monitor alarm_cancel makes the alarm gone; a callback that is *)
(* in progress holds the lock the caller goes on to wait for.              *)
LEMMA CancelKeepsPromises ==
    ASSUME Sound, CancelInv, NEW c \in Callers, NEW a \in Alarms, AlarmCancel(c, a)
    PROVE  CancelInv'
<1>1. /\ canceller' = [canceller EXCEPT ![c] = "waiting"]
      /\ target' = [target EXCEPT ![c] = a]
      /\ clean' = [clean EXCEPT ![c] = (c = Dispatcher => firing # a)]
      /\ UNCHANGED <<time, dispatcher, firing, quiet>>
      /\ canceller[c] = "out" /\ dispatcher # "lock"
  BY DEF AlarmCancel, MayCall, MonitorFree
<1>2. Gone(a)' /\ \A b \in Alarms : Gone(b) => Gone(b)'
  <2> DEFINE list == Without(alarms, a)
  <2>1. alarms \in Seq(Alarms) /\ Distinct(alarms)
    BY DEF Sound, TypeOK, Shape
  <2>2. NotIn(list, a) /\ \A b \in Alarms : NotIn(alarms, b) => NotIn(list, b)
    BY <2>1, WithoutList, Zenon
  <2>3. deadline' = [deadline EXCEPT ![a] = 0] /\ alarms' = list
    BY DEF AlarmCancel
  <2> HIDE DEF list
  <2> QED
    BY <2>2, <2>3 DEF Gone, Sound, TypeOK
<1>3. CancelGoesOn'
  <2> SUFFICES ASSUME NEW d \in Callers, clean'[d]
               PROVE  /\ canceller'[d] # "out" /\ Gone(target[d])'
                      /\ firing' = target'[d] =>
                            dispatcher' = "callback" /\ canceller'[d] = "waiting" /\ d # Dispatcher
    BY DEF CancelGoesOn
  <2>1. CASE d = c
    <3>1. canceller'[c] = "waiting" /\ target'[c] = a /\ (c = Dispatcher => firing # a)
      BY <1>1, <2>1 DEF Sound, TypeOK
    <3>2. firing = a => dispatcher = "callback"
      BY <1>1, AlarmAssumption DEF CancelInv, IdleFiresNothing
    <3>3. Gone(target[c])'
      BY <1>2, <3>1 DEF Gone
    <3> QED
      BY <1>1, <2>1, <3>1, <3>2, <3>3
  <2>2. CASE d # c
    <3>1. clean[d] /\ canceller'[d] = canceller[d] /\ target'[d] = target[d]
      BY <1>1, <2>2 DEF Sound, TypeOK
    <3>2. /\ canceller[d] # "out" /\ Gone(target[d])
          /\ firing = target[d] =>
                dispatcher = "callback" /\ canceller[d] = "waiting" /\ d # Dispatcher
      BY <3>1 DEF CancelInv, CancelGoesOn
    <3>3. target[d] \in Alarms
      BY <3>2 DEF Sound, Shape
    <3>4. Gone(target[d])'
      BY <1>2, <3>1, <3>2, <3>3 DEF Gone
    <3> QED
      BY <1>1, <3>1, <3>2, <3>4
  <2> QED
    BY <2>1, <2>2
<1>4. QuietIsGone'
  BY <1>1, <1>2 DEF CancelInv, QuietIsGone
<1>5. IdleFiresNothing'
  BY <1>1 DEF CancelInv, IdleFiresNothing
<1> QED
  BY <1>3, <1>4, <1>5 DEF CancelInv

(* When alarm_cancel has its lock, the callback is not in progress.        *)
LEMMA ReturnKeepsPromises ==
    ASSUME Sound, CancelInv, NEW c \in Callers, CancelStep(c)
    PROVE  CancelInv'
<1> USE DEF scheduleVars, timerVars, cancelVars
<1>1. CASE CancelLocks(c)
  <2>1. /\ canceller' = [canceller EXCEPT ![c] = "locked"] /\ canceller[c] = "waiting"
        /\ UNCHANGED <<scheduleVars, dispatcher, firing, target, clean, quiet>>
        /\ dispatcher = "callback" /\ firing = target[c] => c = Dispatcher
    BY <1>1 DEF CancelLocks, LockFree
  <2>2. CancelGoesOn'
    BY <2>1 DEF Sound, TypeOK, CancelInv, CancelGoesOn, Gone
  <2> QED
    BY <2>1, <2>2 DEF CancelInv, QuietIsGone, IdleFiresNothing, Gone
<1>2. CASE CancelReturns(c)
  <2>1. /\ canceller[c] = "locked" /\ canceller' = [canceller EXCEPT ![c] = "out"]
        /\ target' = [target EXCEPT ![c] = NoAlarm] /\ clean' = [clean EXCEPT ![c] = FALSE]
        /\ quiet' = [quiet EXCEPT ![target[c]] = quiet[target[c]] \/ clean[c]]
        /\ UNCHANGED <<scheduleVars, dispatcher, firing>>
    BY <1>2 DEF CancelReturns
  <2>2. CancelGoesOn'
    BY <2>1 DEF Sound, TypeOK, CancelInv, CancelGoesOn, Gone
  <2>3. clean[c] => Gone(target[c]) /\ firing # target[c]
    BY <2>1 DEF CancelInv, CancelGoesOn
  <2>4. ASSUME NEW a \in Alarms, quiet'[a] PROVE Gone(a) /\ firing # a
    <3>1. CASE a = target[c]
      <4>1. quiet[target[c]] \/ clean[c]
        BY <2>1, <2>4, <3>1 DEF Sound, TypeOK
      <4> QED
        BY <2>3, <3>1, <4>1 DEF CancelInv, QuietIsGone
    <3>2. CASE a # target[c]
      BY <2>1, <2>4, <3>2 DEF Sound, TypeOK, CancelInv, QuietIsGone
    <3> QED
      BY <3>1, <3>2
  <2>5. QuietIsGone'
    BY <2>1, <2>4 DEF QuietIsGone, Gone
  <2> QED
    BY <2>1, <2>2, <2>5 DEF CancelInv, IdleFiresNothing
<1> QED
  BY <1>1, <1>2 DEF CancelStep

(* The dispatcher takes what is in the list, so nothing that is gone.      *)
LEMMA TakeKeepsPromises ==
    ASSUME Sound, CancelInv, DispatchTakes
    PROVE  CancelInv'
<1>1. /\ Head(alarms) \in Alarms /\ firing' = Head(alarms)
      /\ dispatcher = "woken" /\ dispatcher' = "lock"
      /\ ~NotIn(alarms, Head(alarms))
      /\ \A b \in Alarms : NotIn(alarms, b) => NotIn(alarms', b)
      /\ \A b \in Alarms : b # Head(alarms) => deadline'[b] = deadline[b]
      /\ UNCHANGED <<time, grid, cancelVars>>
  BY TakenList, Zenon
<1>2. \A b \in Alarms : Gone(b) => Gone(b)' /\ firing' # b
  BY <1>1 DEF Gone
<1>3. \A c \in Callers : clean[c] => target[c] \in Alarms
  BY DEF Sound, Shape, CancelInv, CancelGoesOn
<1>4. CancelGoesOn'
  <2> SUFFICES ASSUME NEW c \in Callers, clean'[c]
               PROVE  canceller'[c] # "out" /\ Gone(target[c])' /\ firing' # target'[c]
    BY DEF CancelGoesOn
  <2>1. clean[c] /\ target[c] \in Alarms /\ canceller'[c] = canceller[c] /\ target'[c] = target[c]
    BY <1>1, <1>3 DEF cancelVars
  <2>2. canceller[c] # "out" /\ Gone(target[c])
    BY <2>1 DEF CancelInv, CancelGoesOn
  <2>3. Gone(target[c])' /\ firing' # target[c]
    BY <1>2, <2>1, <2>2 DEF Gone
  <2> QED
    BY <2>1, <2>2, <2>3
<1>5. QuietIsGone'
  BY <1>1, <1>2 DEF CancelInv, QuietIsGone, cancelVars
<1>6. IdleFiresNothing'
  BY <1>1 DEF IdleFiresNothing
<1> QED
  BY <1>4, <1>5, <1>6 DEF CancelInv

(* alarm.h of alarm_cancel: the callback is not in progress when the call  *)
(* returns and will not be called, until somebody sets the alarm again;    *)
(* for any number of threads, alarms and callbacks.                        *)
THEOREM CancelledIsFinal == Spec => []CancelIsFinal
<1>1. Init => CancelInv
  BY AlarmAssumption DEF Init, CancelInv, CancelGoesOn, QuietIsGone, IdleFiresNothing
<1>2. Sound /\ CancelInv /\ [Next]_vars => CancelInv'
  <2> SUFFICES ASSUME Sound, CancelInv, [Next]_vars PROVE CancelInv'
    OBVIOUS
  <2> USE DEF scheduleVars, timerVars, cancelVars
  <2>1. CASE UNCHANGED vars
    BY <2>1 DEF vars, CancelInv, CancelGoesOn, QuietIsGone, IdleFiresNothing, Gone
  <2>2. ASSUME NEW c \in Callers, Call(c) PROVE CancelInv'
    BY <2>2, SetKeepsPromises, CancelKeepsPromises DEF Call
  <2>3. ASSUME NEW c \in Callers, CancelStep(c) PROVE CancelInv'
    BY <2>3, ReturnKeepsPromises
  <2>4. CASE Tick
    BY <2>4 DEF Tick, CancelInv, CancelGoesOn, QuietIsGone, IdleFiresNothing, Gone
  <2>5. CASE TimerCallback
    BY <2>5 DEF TimerCallback, CancelInv, CancelGoesOn, QuietIsGone, IdleFiresNothing, Gone
  <2>6. CASE DispatchWakes
    BY <2>6 DEF DispatchWakes, CancelInv, CancelGoesOn, QuietIsGone, IdleFiresNothing, Gone
  <2>7. CASE DispatchFindsNothing
    BY <2>7 DEF DispatchFindsNothing, CancelInv, CancelGoesOn, QuietIsGone, IdleFiresNothing, Gone
  <2>8. CASE DispatchTakes
    BY <2>8, TakeKeepsPromises
  <2>9. CASE DispatchLocks
    BY <2>9 DEF DispatchLocks, CancelInv, CancelGoesOn, QuietIsGone, IdleFiresNothing, Gone
  <2>10. CASE CallbackReturns
    <3>1. \A c \in Callers : clean[c] => target[c] \in Alarms
      BY DEF Sound, Shape, CancelInv, CancelGoesOn
    <3> QED
      BY <2>10, <3>1, AlarmAssumption
         DEF CallbackReturns, CancelInv, CancelGoesOn, QuietIsGone, IdleFiresNothing, Gone
  <2> QED
    BY <2>1, <2>2, <2>3, <2>4, <2>5, <2>6, <2>7, <2>8, <2>9, <2>10 DEF Next, DispatchStep
<1>3. CancelInv => CancelIsFinal
  BY DEF CancelInv, QuietIsGone, CancelIsFinal, Gone
<1> QED
  BY <1>1, <1>2, <1>3, SoundInvariant, PTL DEF Spec
-----------------------------------------------------------------------------
(* The list is the schedule.                                               *)

(* The earliest deadline first; each alarm that is set and no other.       *)
Ordered(list, due) == \A j, k \in 1..Len(list) : j < k => due[list[j]] <= due[list[k]]
Lists(list, due) == \A b \in Alarms : NotIn(list, b) <=> due[b] = 0

Scheduled == Ordered(alarms, deadline) /\ Lists(alarms, deadline)

(* Removing an alarm keeps the order and the others.                       *)
LEMMA WithoutOrdered ==
    ASSUME NEW list \in Seq(Alarms), NEW a \in Alarms, NEW due \in [Alarms -> Nat],
           Ordered(list, due)
    PROVE  /\ Ordered(Without(list, a), due)
           /\ \A b \in Alarms : b # a => (NotIn(Without(list, a), b) <=> NotIn(list, b))
<1>1. CASE NotIn(list, a)
  BY <1>1 DEF Without, NotIn
<1>2. CASE ~NotIn(list, a)
  <2> DEFINE rest == Without(list, a)
             old(k, at) == IF k < at THEN k ELSE k + 1
  <2>1. PICK at \in 1..Len(list) : TakenAt(list, rest, a, at)
    BY <1>2, WithoutPlaces
  <2> HIDE DEF rest
  <2>2. Len(list) \in Nat /\ Len(rest) = Len(list) - 1
    BY <2>1 DEF TakenAt
  <2>3. \A k \in 1..Len(rest) : old(k, at) \in 1..Len(list) /\ rest[k] = list[old(k, at)]
    <3> TAKE k \in 1..Len(rest)
    <3>1. rest[k] = IF k < at THEN list[k] ELSE list[k + 1]
      BY <2>1 DEF TakenAt
    <3>2. old(k, at) \in 1..Len(list)
      BY <2>2
    <3> QED
      BY <3>1, <3>2
  <2>4. \A j, k \in 1..Len(rest) : j < k => old(j, at) < old(k, at)
    BY <2>2
  <2>5. Ordered(rest, due)
    <3> HIDE DEF old
    <3> QED
      BY <2>3, <2>4 DEF Ordered
  <2>6. ASSUME NEW b \in Alarms, b # a, NotIn(rest, b) PROVE NotIn(list, b)
    <3> SUFFICES ASSUME NEW k \in 1..Len(list) PROVE list[k] # b
      BY DEF NotIn
    <3>1. CASE k = at
      BY <2>1, <2>6, <3>1 DEF TakenAt
    <3>2. CASE k < at
      <4>1. k \in 1..Len(rest) /\ rest[k] = list[k]
        BY <2>1, <2>2, <3>2 DEF TakenAt
      <4> QED
        BY <2>6, <4>1 DEF NotIn
    <3>3. CASE k > at
      <4>1. k - 1 \in 1..Len(rest) /\ rest[k - 1] = list[k - 1 + 1] /\ k - 1 + 1 = k
        BY <2>1, <2>2, <3>3 DEF TakenAt
      <4> QED
        BY <2>6, <4>1 DEF NotIn
    <3> QED
      BY <3>1, <3>2, <3>3
  <2>7. ASSUME NEW b \in Alarms, NotIn(list, b) PROVE NotIn(rest, b)
    <3> HIDE DEF old
    <3> QED
      BY <2>3, <2>7 DEF NotIn
  <2> QED
    BY <2>5, <2>6, <2>7 DEF rest
<1> QED
  BY <1>1, <1>2

(* So does adding one, which is then in the list.                          *)
LEMMA InsertOrdered ==
    ASSUME NEW list \in Seq(Alarms), NEW a \in Alarms, NEW due \in [Alarms -> Nat],
           Ordered(list, due)
    PROVE  /\ Ordered(InsertSorted(list, a, due), due)
           /\ ~NotIn(InsertSorted(list, a, due), a)
           /\ \A b \in Alarms : b # a => (NotIn(InsertSorted(list, a, due), b) <=> NotIn(list, b))
<1> DEFINE longer == InsertSorted(list, a, due)
<1>1. PICK at \in 1..(Len(list) + 1) : PutAt(list, longer, a, due, at)
  BY InsertPlaces
<1> HIDE DEF longer
<1>2. Len(list) \in Nat /\ Len(longer) = Len(list) + 1 /\ at \in 1..Len(longer) /\ longer[at] = a
  BY <1>1 DEF PutAt
<1>3. \A k \in 1..Len(list) : list[k] \in Alarms /\ due[list[k]] \in Nat
  OBVIOUS
<1>4. due[a] \in Nat
  OBVIOUS
<1>5. \A k \in 1..(at - 1) : longer[k] = list[k] /\ k \in 1..Len(list) /\ due[list[k]] < due[a]
  BY <1>1, <1>2 DEF PutAt
<1>6. ASSUME NEW k \in (at + 1)..Len(longer)
      PROVE  longer[k] = list[k - 1] /\ k - 1 \in 1..Len(list) /\ due[a] <= due[list[k - 1]]
  <2>1. longer[k] = list[k - 1] /\ k - 1 \in 1..Len(list) /\ at \in 1..Len(list) /\ at <= k - 1
    BY <1>1, <1>2 DEF PutAt
  <2>2. due[a] <= due[list[at]]
    BY <1>1, <1>3, <1>4, <2>1 DEF PutAt
  <2>3. due[list[at]] <= due[list[k - 1]]
    <3>1. CASE at < k - 1
      BY <2>1, <3>1 DEF Ordered
    <3>2. CASE at = k - 1
      BY <1>3, <2>1, <3>2
    <3> QED
      BY <2>1, <3>1, <3>2
  <2> QED
    BY <1>3, <1>4, <2>1, <2>2, <2>3
<1>7. Ordered(longer, due)
  <2> SUFFICES ASSUME NEW j \in 1..Len(longer), NEW k \in 1..Len(longer), j < k
               PROVE  due[longer[j]] <= due[longer[k]]
    BY DEF Ordered
  <2>1. CASE k < at
    <3>1. j \in 1..(at - 1) /\ k \in 1..(at - 1)
      BY <2>1
    <3> QED
      BY <1>5, <3>1 DEF Ordered
  <2>2. CASE k = at
    <3>1. j \in 1..(at - 1)
      BY <2>2
    <3>2. due[longer[j]] < due[a] /\ due[longer[j]] \in Nat
      BY <1>3, <1>5, <3>1
    <3> QED
      BY <1>2, <1>4, <2>2, <3>2
  <2>3. CASE k > at
    <3>1. k \in (at + 1)..Len(longer)
      BY <2>3
    <3>2. longer[k] = list[k - 1] /\ k - 1 \in 1..Len(list) /\ due[a] <= due[list[k - 1]]
      BY <1>6, <3>1
    <3>3. CASE j < at
      <4>1. j \in 1..(at - 1)
        BY <3>3
      <4>2. longer[j] = list[j] /\ j \in 1..Len(list) /\ due[list[j]] < due[a]
        BY <1>5, <4>1
      <4> QED
        BY <1>3, <1>4, <3>2, <4>2
    <3>4. CASE j = at
      BY <1>2, <3>2, <3>4
    <3>5. CASE j > at
      <4>1. j \in (at + 1)..Len(longer)
        BY <3>5
      <4>2. longer[j] = list[j - 1] /\ j - 1 \in 1..Len(list) /\ j - 1 < k - 1
        BY <1>6, <4>1
      <4> QED
        BY <3>2, <4>2 DEF Ordered
    <3> QED
      BY <3>3, <3>4, <3>5
  <2> QED
    BY <2>1, <2>2, <2>3
<1>8. ~NotIn(longer, a)
  BY <1>2 DEF NotIn
<1>9. ASSUME NEW b \in Alarms, b # a, NotIn(longer, b) PROVE NotIn(list, b)
  <2> SUFFICES ASSUME NEW k \in 1..Len(list) PROVE list[k] # b
    BY DEF NotIn
  <2>1. CASE k < at
    <3>1. k \in 1..(at - 1) /\ k \in 1..Len(longer)
      BY <1>2, <2>1
    <3> QED
      BY <1>5, <1>9, <3>1 DEF NotIn
  <2>2. CASE k >= at
    <3>1. k + 1 \in (at + 1)..Len(longer) /\ k + 1 \in 1..Len(longer) /\ k + 1 - 1 = k
      BY <1>2, <2>2
    <3>2. longer[k + 1] = list[k + 1 - 1]
      BY <1>6, <3>1
    <3> QED
      BY <1>9, <3>1, <3>2 DEF NotIn
  <2> QED
    BY <2>1, <2>2
<1>10. ASSUME NEW b \in Alarms, b # a, NotIn(list, b) PROVE NotIn(longer, b)
  BY <1>2, <1>5, <1>6, <1>10 DEF NotIn
<1> QED
  BY <1>7, <1>8, <1>9, <1>10 DEF longer

(* A new deadline for an alarm that is not in the list.                    *)
LEMMA OrderedForOthers ==
    ASSUME NEW list \in Seq(Alarms), NEW a \in Alarms, NotIn(list, a),
           NEW due, NEW new, Ordered(list, due), \A b \in Alarms : b # a => new[b] = due[b]
    PROVE  Ordered(list, new)
<1>1. \A k \in 1..Len(list) : list[k] \in Alarms /\ list[k] # a
  BY DEF NotIn
<1> QED
  BY <1>1 DEF Ordered
LEMMA ScheduledAfterSet ==
    ASSUME Sound, Scheduled, NEW c \in Callers, NEW a \in Alarms, NEW p \in Periods,
           NEW periodic \in BOOLEAN, AlarmSet(c, a, p, periodic)
    PROVE  Scheduled'
<1> DEFINE due == [deadline EXCEPT ![a] = time + p]
           rest == Without(alarms, a)
           list == InsertSorted(rest, a, due)
<1>1. time + p \in Nat \ {0}
  BY AlarmAssumption DEF Sound, TypeOK
<1>2. /\ due \in [Alarms -> Nat] /\ due[a] # 0
      /\ \A b \in Alarms : b # a => due[b] = deadline[b]
  BY <1>1 DEF Sound, TypeOK
<1>3. deadline' = due /\ alarms' = list
  BY DEF AlarmSet
<1> HIDE DEF due
<1>4. /\ alarms \in Seq(Alarms) /\ Distinct(alarms) /\ deadline \in [Alarms -> Nat]
      /\ Ordered(alarms, deadline) /\ Lists(alarms, deadline)
  BY DEF Sound, TypeOK, Shape, Scheduled
<1>5. /\ rest \in Seq(Alarms) /\ NotIn(rest, a) /\ Ordered(rest, deadline)
      /\ \A b \in Alarms : b # a => (NotIn(rest, b) <=> NotIn(alarms, b))
  BY <1>4, WithoutList, WithoutOrdered
<1> HIDE DEF rest
<1>6. Ordered(rest, due)
  BY <1>2, <1>5, OrderedForOthers
<1>7. /\ Ordered(list, due) /\ ~NotIn(list, a)
      /\ \A b \in Alarms : b # a => (NotIn(list, b) <=> NotIn(rest, b))
  BY <1>2, <1>5, <1>6, InsertOrdered
<1> HIDE DEF list
<1>8. Lists(list, due)
  BY <1>2, <1>4, <1>5, <1>7 DEF Lists
<1> QED
  BY <1>3, <1>7, <1>8 DEF Scheduled

LEMMA ScheduledAfterCancel ==
    ASSUME Sound, Scheduled, NEW c \in Callers, NEW a \in Alarms, AlarmCancel(c, a)
    PROVE  Scheduled'
<1> DEFINE due == [deadline EXCEPT ![a] = 0]
           list == Without(alarms, a)
<1>1. /\ due \in [Alarms -> Nat] /\ due[a] = 0
      /\ \A b \in Alarms : b # a => due[b] = deadline[b]
  BY DEF Sound, TypeOK
<1>2. deadline' = due /\ alarms' = list
  BY DEF AlarmCancel
<1> HIDE DEF due
<1>3. /\ alarms \in Seq(Alarms) /\ Distinct(alarms) /\ deadline \in [Alarms -> Nat]
      /\ Ordered(alarms, deadline) /\ Lists(alarms, deadline)
  BY DEF Sound, TypeOK, Shape, Scheduled
<1>4. /\ list \in Seq(Alarms) /\ NotIn(list, a) /\ Ordered(list, deadline)
      /\ \A b \in Alarms : b # a => (NotIn(list, b) <=> NotIn(alarms, b))
  BY <1>3, WithoutList, WithoutOrdered
<1> HIDE DEF list
<1>5. Ordered(list, due)
  BY <1>1, <1>4, OrderedForOthers
<1>6. Lists(list, due)
  <2> SUFFICES ASSUME NEW b \in Alarms PROVE due[b] # 0 <=> ~NotIn(list, b)
    BY DEF Lists
  <2>1. CASE b = a
    BY <1>1, <1>4, <2>1
  <2>2. CASE b # a
    <3>1. /\ due[b] = deadline[b] /\ (NotIn(list, b) <=> NotIn(alarms, b))
          /\ (deadline[b] # 0 <=> ~NotIn(alarms, b))
      BY <1>1, <1>3, <1>4, <2>2 DEF Lists
    <3> QED
      BY <3>1
  <2> QED
    BY <2>1, <2>2
<1> QED
  BY <1>2, <1>5, <1>6 DEF Scheduled

(* A multiple of its period after the alarm's creation, and not now.       *)
Aligned(g, due) == (due - g.phase) % g.period = 0

LEMMA Multiple == ASSUME NEW n \in Int, NEW p \in Nat \ {0} PROVE (p * n) % p = 0
  OBVIOUS

(* From any time, the next multiple of the period.                         *)
LEMMA NextMultiple ==
    ASSUME NEW x \in Int, NEW p \in Nat \ {0}
    PROVE  (x + p - (x % p)) % p = 0
<1>1. x = p * (x \div p) + (x % p) /\ x % p \in 0..(p - 1) /\ x \div p \in Int
  OBVIOUS
<1> DEFINE n == (x \div p) + 1
<1>2. n \in Int /\ x + p - (x % p) = p * n
  BY <1>1
<1> HIDE DEF n
<1> QED
  BY <1>2, Multiple

LEMMA NextInstanceAligned ==
    ASSUME time \in Nat, NEW g \in [phase : Nat, period : Nat], g.period # 0
    PROVE  Aligned(g, NextInstance(g)) /\ NextInstance(g) > time
<1> DEFINE x == time - g.phase
           p == g.period
<1>1. x \in Int /\ p \in Nat \ {0} /\ g.phase \in Nat
  OBVIOUS
<1> HIDE DEF x, p
<1>2. x = p * (x \div p) + (x % p) /\ x % p \in 0..(p - 1) /\ x \div p \in Int
  BY <1>1
<1>3. x + p - (x % p) = p * ((x \div p) + 1)
  BY <1>1, <1>2
<1>4. (p * ((x \div p) + 1)) % p = 0
  BY <1>1, <1>2
<1>5. NextInstance(g) = time + p - (x % p)
  BY DEF NextInstance, x, p
<1>6. NextInstance(g) - g.phase = x + p - (x % p)
  BY <1>1, <1>2, <1>5 DEF x
<1>7. NextInstance(g) > time
  BY <1>1, <1>2, <1>5
<1> QED
  BY <1>3, <1>4, <1>6, <1>7 DEF Aligned, p

LEMMA ScheduledAfterTake ==
    ASSUME Sound, Scheduled, DispatchTakes
    PROVE  Scheduled'
<1> DEFINE a == Head(alarms)
           rest == Tail(alarms)
           periodic == grid[a] # OneShot
           due == [deadline EXCEPT ![a] = IF periodic THEN NextInstance(grid[a]) ELSE 0]
           list == IF periodic THEN InsertSorted(rest, a, due) ELSE rest
<1>1. deadline' = due /\ alarms' = list /\ ~NothingDue
  BY DEF DispatchTakes
<1>2. /\ alarms \in Seq(Alarms) /\ Distinct(alarms) /\ alarms # <<>> /\ deadline \in [Alarms -> Nat]
      /\ Ordered(alarms, deadline) /\ Lists(alarms, deadline)
  BY <1>1 DEF Sound, TypeOK, Shape, NothingDue, Scheduled
<1>3. a \in Alarms /\ rest \in Seq(Alarms) /\ Distinct(rest) /\ NotIn(rest, a)
  BY <1>2, TakeList, Zenon
<1>4. /\ Len(rest) = Len(alarms) - 1 /\ Len(alarms) \in Nat \ {0} /\ a = alarms[1]
      /\ \A k \in 1..Len(rest) : rest[k] = alarms[k + 1]
  BY <1>2, HeadTailProperties
<1> HIDE DEF a, rest
<1>5. Ordered(rest, deadline)
  <2> SUFFICES ASSUME NEW j \in 1..Len(rest), NEW k \in 1..Len(rest), j < k
               PROVE  deadline[rest[j]] <= deadline[rest[k]]
    BY DEF Ordered
  <2>1. /\ j + 1 \in 1..Len(alarms) /\ k + 1 \in 1..Len(alarms) /\ j + 1 < k + 1
        /\ rest[j] = alarms[j + 1] /\ rest[k] = alarms[k + 1]
    BY <1>4
  <2>2. deadline[alarms[j + 1]] <= deadline[alarms[k + 1]]
    BY <1>2, <2>1 DEF Ordered
  <2> QED
    BY <2>1, <2>2
<1>6. \A b \in Alarms : b # a => (NotIn(rest, b) <=> NotIn(alarms, b))
  <2> SUFFICES ASSUME NEW b \in Alarms, b # a PROVE NotIn(rest, b) <=> NotIn(alarms, b)
    OBVIOUS
  <2>1. ASSUME NotIn(rest, b) PROVE NotIn(alarms, b)
    <3> SUFFICES ASSUME NEW k \in 1..Len(alarms) PROVE alarms[k] # b
      BY DEF NotIn
    <3>1. CASE k = 1
      BY <1>4, <3>1
    <3>2. CASE k > 1
      <4>1. k - 1 \in 1..Len(rest) /\ k - 1 + 1 = k
        BY <1>4, <3>2
      <4>2. rest[k - 1] = alarms[k]
        BY <1>4, <4>1
      <4> QED
        BY <2>1, <4>1, <4>2 DEF NotIn
    <3> QED
      BY <3>1, <3>2
  <2>2. ASSUME NotIn(alarms, b) PROVE NotIn(rest, b)
    BY <1>4, <2>2 DEF NotIn
  <2> QED
    BY <2>1, <2>2
<1>7. periodic => NextInstance(grid[a]) \in Nat \ {0}
  <2>1. time \in Nat /\ grid[a] \in [phase : Nat, period : Nat]
    BY <1>3 DEF Sound, TypeOK
  <2>2. periodic => grid[a].period # 0
    BY <1>3 DEF Sound, Shape
  <2> QED
    BY <2>1, <2>2, NextInstanceIsTime, NextInstanceAligned
<1> HIDE DEF periodic
<1>8. /\ due \in [Alarms -> Nat] /\ (due[a] = 0 <=> ~periodic)
      /\ \A b \in Alarms : b # a => due[b] = deadline[b]
  BY <1>2, <1>3, <1>7
<1> HIDE DEF due
<1>9. Ordered(rest, due)
  BY <1>3, <1>5, <1>8, OrderedForOthers
<1>10. /\ Ordered(list, due) /\ (NotIn(list, a) <=> ~periodic)
       /\ \A b \in Alarms : b # a => (NotIn(list, b) <=> NotIn(rest, b))
  <2>1. CASE periodic
    <3> DEFINE put == InsertSorted(rest, a, due)
    <3>1. /\ Ordered(put, due) /\ ~NotIn(put, a)
          /\ \A b \in Alarms : b # a => (NotIn(put, b) <=> NotIn(rest, b))
      BY <1>3, <1>8, <1>9, InsertOrdered
    <3>2. list = put
      BY <2>1
    <3> HIDE DEF put, list
    <3> QED
      BY <2>1, <3>1, <3>2
  <2>2. CASE ~periodic
    BY <1>3, <1>9, <2>2
  <2> QED
    BY <2>1, <2>2
<1> HIDE DEF list
<1>11. Lists(list, due)
  BY <1>2, <1>6, <1>8, <1>10 DEF Lists
<1> QED
  BY <1>1, <1>10, <1>11 DEF Scheduled

LEMMA ScheduledInvariant == Spec => []Scheduled
<1>1. Init => Scheduled
  BY DEF Init, Scheduled, Ordered, Lists, NotIn
<1>2. Sound /\ Scheduled /\ [Next]_vars => Scheduled'
  <2> SUFFICES ASSUME Sound, Scheduled, [Next]_vars PROVE Scheduled'
    OBVIOUS
  <2> USE DEF scheduleVars, timerVars, cancelVars
  <2>1. ASSUME NEW c \in Callers, Call(c) PROVE Scheduled'
    BY <2>1, ScheduledAfterSet, ScheduledAfterCancel DEF Call
  <2>2. CASE DispatchTakes
    BY <2>2, ScheduledAfterTake
  <2>3. CASE UNCHANGED <<alarms, deadline>>
    BY <2>3 DEF Scheduled
  <2>4. \/ UNCHANGED <<alarms, deadline>> \/ DispatchTakes
        \/ \E c \in Callers : Call(c)
    BY DEF Next, vars, CancelStep, CancelLocks, CancelReturns, Tick, TimerCallback, DispatchStep,
       DispatchWakes, DispatchFindsNothing, DispatchLocks, CallbackReturns
  <2> QED
    BY <2>1, <2>2, <2>3, <2>4
<1> QED
  BY <1>1, <1>2, SoundInvariant, PTL DEF Spec

(* schedule_next_instance and alarm_cancel: the list holds each alarm that *)
(* is set, once, the earliest deadline first, and no other alarm.          *)
THEOREM ListIsTheSchedule == Spec => []ListIsSchedule
<1>1. Sound /\ Scheduled => ListIsSchedule
  <2> SUFFICES ASSUME Sound, Scheduled PROVE ListIsSchedule
    OBVIOUS
  <2>1. alarms \in Seq(Alarms) /\ Distinct(alarms) /\ DOMAIN alarms = 1..Len(alarms)
    BY DEF Sound, TypeOK, Shape
  <2>2. ASSUME NEW a \in Alarms
        PROVE  Cardinality({k \in DOMAIN alarms : alarms[k] = a}) = IF deadline[a] # 0 THEN 1 ELSE 0
    <3> DEFINE places == {k \in DOMAIN alarms : alarms[k] = a}
    <3>1. CASE NotIn(alarms, a)
      <4>1. places = {} /\ deadline[a] = 0
        BY <2>1, <3>1 DEF NotIn, Scheduled, Lists
      <4> QED
        BY <4>1, FS_EmptySet
    <3>2. CASE ~NotIn(alarms, a)
      <4>1. PICK k \in 1..Len(alarms) : alarms[k] = a
        BY <3>2 DEF NotIn
      <4>2. places = {k} /\ deadline[a] # 0
        BY <2>1, <3>2, <4>1 DEF Distinct, Scheduled, Lists
      <4> QED
        BY <4>2, FS_Singleton
    <3> QED
      BY <3>1, <3>2
  <2>3. \A j, k \in DOMAIN alarms : j < k => deadline[alarms[j]] <= deadline[alarms[k]]
    BY <2>1 DEF Scheduled, Ordered
  <2> QED
    BY <2>2, <2>3 DEF ListIsSchedule, Sound
<1> QED
  BY <1>1, ScheduledInvariant, SoundInvariant, PTL

-----------------------------------------------------------------------------
(* Periods.                                                                *)

(* The next time that schedule_next_instance computes is a whole number of *)
(* periods after the creation of the alarm, however late its callback has  *)
(* run or its dispatch was: periodic alarms do not drift.                  *)
THEOREM PeriodicAlarmsDoNotDrift == Spec => []PeriodsDoNotDrift
<1>1. Init => PeriodsDoNotDrift
  BY DEF Init, PeriodsDoNotDrift
<1>2. Sound /\ PeriodsDoNotDrift /\ [Next]_vars => PeriodsDoNotDrift'
  <2> SUFFICES ASSUME Sound, PeriodsDoNotDrift, [Next]_vars PROVE PeriodsDoNotDrift'
    OBVIOUS
  <2> USE DEF scheduleVars, timerVars, cancelVars
  <2>0. /\ time \in Nat /\ deadline \in [Alarms -> Nat] /\ grid \in [Alarms -> [phase : Nat, period : Nat]]
        /\ \A a \in Alarms : grid[a] # OneShot => grid[a].period # 0
    BY DEF Sound, TypeOK, Shape
  <2>1. ASSUME NEW a \in Alarms, NEW g, NEW d,
               \A b \in Alarms : b # a => grid'[b] = grid[b] /\ deadline'[b] = deadline[b],
               grid'[a] = g, deadline'[a] = d, g # OneShot /\ d # 0 => Aligned(g, d)
        PROVE  PeriodsDoNotDrift'
    BY <2>1 DEF PeriodsDoNotDrift, Aligned
  <2>2. ASSUME NEW c \in Callers, NEW a \in Alarms, NEW p \in Periods, NEW periodic \in BOOLEAN,
               AlarmSet(c, a, p, periodic)
        PROVE  PeriodsDoNotDrift'
    <3>1. p \in Nat \ {0}
      BY AlarmAssumption
    <3> DEFINE g == IF periodic THEN Periodic(p) ELSE OneShot
    <3>2. /\ deadline'[a] = time + p /\ grid'[a] = g
          /\ \A b \in Alarms : b # a => grid'[b] = grid[b] /\ deadline'[b] = deadline[b]
      BY <2>0, <2>2 DEF AlarmSet
    <3>3. Aligned(Periodic(p), time + p)
      <4>1. Periodic(p).phase = time % p /\ Periodic(p).period = p
        BY DEF Periodic
      <4>2. ((time + p) - (time % p)) % p = 0
        <5>1. time % p \in Int /\ time + p - (time % p) = (time + p) - (time % p)
          BY <2>0, <3>1
        <5> QED
          BY <2>0, <3>1, <5>1, NextMultiple
      <4> QED
        BY <4>1, <4>2 DEF Aligned
    <3> HIDE DEF g
    <3>4. (periodic /\ g = Periodic(p)) \/ g = OneShot
      BY DEF g
    <3>5. g # OneShot => Aligned(g, time + p)
      BY <3>3, <3>4
    <3> QED
      BY <2>1, <3>2, <3>5
  <2>3. ASSUME NEW c \in Callers, NEW a \in Alarms, AlarmCancel(c, a)
        PROVE  PeriodsDoNotDrift'
    <3>1. /\ grid'[a] = OneShot /\ deadline'[a] = 0
          /\ \A b \in Alarms : b # a => grid'[b] = grid[b] /\ deadline'[b] = deadline[b]
      BY <2>0, <2>3 DEF AlarmCancel
    <3> QED
      BY <2>1, <3>1
  <2>4. CASE DispatchTakes
    <3> DEFINE a == Head(alarms)
    <3>1. /\ a \in Alarms /\ grid' = grid
          /\ \A b \in Alarms : b # a => deadline'[b] = deadline[b]
      BY <2>4, TakenList
    <3>2. deadline'[a] = IF grid[a] # OneShot THEN NextInstance(grid[a]) ELSE 0
      BY <2>0, <2>4, <3>1 DEF DispatchTakes
    <3> HIDE DEF a
    <3>3. grid[a] # OneShot => Aligned(grid[a], NextInstance(grid[a]))
      BY <2>0, <3>1, NextInstanceAligned
    <3> QED
      BY <2>1, <3>1, <3>2, <3>3
  <2>5. CASE UNCHANGED <<deadline, grid>>
    BY <2>5 DEF PeriodsDoNotDrift
  <2>6. \/ UNCHANGED <<deadline, grid>> \/ DispatchTakes
        \/ \E c \in Callers : Call(c)
    BY DEF Next, vars, CancelStep, CancelLocks, CancelReturns, Tick, TimerCallback, DispatchStep,
       DispatchWakes, DispatchFindsNothing, DispatchLocks, CallbackReturns
  <2> QED
    BY <2>2, <2>3, <2>4, <2>5, <2>6 DEF Call
<1> QED
  BY <1>1, <1>2, SoundInvariant, PTL DEF Spec
=============================================================================
