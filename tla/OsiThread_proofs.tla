--------------------------- MODULE OsiThread_proofs ---------------------------
(***************************************************************************)
(* Proofs about OsiThread, for any number of posters and items and any     *)
(* capacity.                                                               *)
(***************************************************************************)
EXTENDS OsiThread, FiniteSetTheorems, SequenceTheorems, TLAPS

\* Where each thread is determines which of its variables are in use.
ControlInv ==
    /\ \A c \in Callers : post[c] = "idle" <=> parcel[c] = NoItem
    /\ post[Worker] # "idle" => worker = "run"
    /\ worker \in {"born", "loop", "take", "pop"} => item = NoItem
    /\ worker \in {"release", "run"} => item # NoItem
    /\ worker \in {"born", "loop"} => ~draining
    /\ worker \in {"take", "exit"} => draining
    /\ draining => batch = {}

\* Typing, and the bookkeeping of the two semaphores.
Inv == TypeOK /\ ControlInv /\ PlacesConserved /\ SignalsConserved /\ FifoOnce

-------------------------------------------------------------------------------
(* Typing and control.                                                       *)

\* What list_append and list_remove of the front do to the length of the
\* queue's list (fixed_queue.cc:113 to 139).
LEMMA SeqStep ==
    ASSUME NEW S, NEW s \in Seq(S), NEW e \in S
    PROVE  /\ Append(s, e) \in Seq(S)
           /\ Len(Append(s, e)) = Len(s) + 1
           /\ s # <<>> => /\ Head(s) \in S /\ Tail(s) \in Seq(S)
                          /\ Len(Tail(s)) = Len(s) - 1 /\ Len(s) > 0
  OBVIOUS

\* fixed_queue_new and thread_new_sized leave every variable in its type and
\* every actor at its first step.
THEOREM InitInv1 == Init => TypeOK /\ ControlInv
<1> SUFFICES ASSUME Init PROVE TypeOK /\ ControlInv
  OBVIOUS
<1> USE OsiAssumption DEF Init, Callers
<1>1. <<>> \in Seq(Items)
  BY EmptySeq
<1>2. TypeOK
  BY <1>1 DEF TypeOK
<1>3. ControlInv
  BY DEF ControlInv
<1> QED
  BY <1>2, <1>3

\* Every step keeps the types and the control invariant.
THEOREM StepInv1 == TypeOK /\ ControlInv /\ [Next]_vars => TypeOK' /\ ControlInv'
<1> SUFFICES ASSUME TypeOK, ControlInv, [Next]_vars
             PROVE  TypeOK' /\ ControlInv'
  OBVIOUS
<1> USE OsiAssumption DEF Callers
<1>1. ASSUME NEW c \in Callers, PostBegin(c) PROVE TypeOK' /\ ControlInv'
  BY <1>1 DEF PostBegin, MayPost, Fresh, TypeOK, ControlInv, queueVars, workerVars, historyVars
<1>2. ASSUME NEW c \in Callers, PostWait(c) PROVE TypeOK' /\ ControlInv'
  BY <1>2 DEF PostWait, TypeOK, ControlInv, workerVars, historyVars
<1>3. ASSUME NEW c \in Callers, PostAppend(c) PROVE TypeOK' /\ ControlInv'
  <2>1. parcel[c] \in Items
    BY <1>3 DEF PostAppend, TypeOK, ControlInv
  <2>2. list' \in Seq(Items) /\ appended' \in Seq(Items)
    BY <1>3, <2>1, SeqStep DEF PostAppend, TypeOK
  <2>3. QED
    BY <1>3, <2>2 DEF PostAppend, TypeOK, ControlInv, workerVars
<1>4. ASSUME NEW c \in Callers, PostSignal(c) PROVE TypeOK' /\ ControlInv'
  BY <1>4 DEF PostSignal, TypeOK, ControlInv, workerVars, historyVars
<1>5. CASE WorkerStart
  BY <1>5 DEF WorkerStart, TypeOK, ControlInv, queueVars, postVars, historyVars
<1>6. CASE EpollWait
  BY <1>6 DEF EpollWait, Ready, TypeOK, ControlInv, queueVars, postVars, historyVars
<1>7. CASE ReactorStops
  BY <1>7 DEF ReactorStops, TypeOK, ControlInv, queueVars, postVars, historyVars
<1>8. CASE ReactorDequeues
  BY <1>8 DEF ReactorDequeues, TypeOK, ControlInv, postVars, historyVars
<1>9. CASE DrainTries
  BY <1>9 DEF DrainTries, TypeOK, ControlInv, postVars, historyVars
<1>10. CASE DrainFindsNothing
  BY <1>10 DEF DrainFindsNothing, TypeOK, ControlInv, queueVars, postVars, historyVars
<1>11. CASE Pop
  <2>1. item' \in Items /\ list' \in Seq(Items)
    BY <1>11, HeadTailProperties DEF Pop, TypeOK
  <2>2. QED
    BY <1>11, <2>1 DEF Pop, TypeOK, ControlInv, postVars, historyVars
<1>12. CASE Release
  <2>0. item \in Items /\ executed \in Seq(Items)
    BY <1>12 DEF Release, TypeOK, ControlInv
  <2>1. executed' \in Seq(Items)
    <3>1. Append(executed, item) \in Seq(Items)
      BY <2>0, SeqStep
    <3>2. QED
      BY <1>12, <2>0, <3>1 DEF Release
  <2>2. QED
    BY <1>12, <2>1 DEF Release, DrainGivesUp, TypeOK, ControlInv, postVars
<1>13. CASE RunEnd
  BY <1>13 DEF RunEnd, TypeOK, ControlInv, queueVars, postVars, historyVars
<1>14. CASE ThreadNewReturns
  BY <1>14 DEF ThreadNewReturns, TypeOK, ControlInv, queueVars, postVars, workerVars, historyVars
<1>15. CASE ThreadStop
  <2>1. promised' \subseteq Items /\ mark' \in Nat
    BY <1>15 DEF ThreadStop, Returned, Elements, TypeOK
  <2>2. QED
    BY <1>15, <2>1 DEF ThreadStop, TypeOK, ControlInv, queueVars, postVars
<1>16. CASE ThreadJoin
  BY <1>16 DEF ThreadJoin, TypeOK, ControlInv, queueVars, postVars, workerVars, historyVars
<1>17. CASE ThreadFree
  BY <1>17 DEF ThreadFree, TypeOK, ControlInv, queueVars, postVars, workerVars, historyVars
<1>18. CASE UNCHANGED vars
  BY <1>18 DEF vars, TypeOK, ControlInv, queueVars, postVars, workerVars, historyVars
<1> QED
  BY <1>1, <1>2, <1>3, <1>4, <1>5, <1>6, <1>7, <1>8, <1>9, <1>10, <1>11, <1>12,
     <1>13, <1>14, <1>15, <1>16, <1>17, <1>18
  DEF Next, PostStep, WorkerStep, OwnerStep

\* Semaphores, list and program counters stay in their types for any number of
\* posters, items and any capacity.
THEOREM TypeCorrect == Spec => []TypeOK
  BY InitInv1, StepInv1, PTL DEF Spec

-------------------------------------------------------------------------------
(* The two semaphores and the list.                                          *)

\* The callers at one place of thread_post can be counted.
LEMMA AtFinite == \A p : IsFiniteSet(At(p)) /\ Cardinality(At(p)) \in Nat
<1> SUFFICES ASSUME NEW p PROVE IsFiniteSet(At(p)) /\ Cardinality(At(p)) \in Nat
  OBVIOUS
<1>1. IsFiniteSet(Callers)
  BY OsiAssumption, FS_AddElement DEF Callers
<1>2. IsFiniteSet(At(p))
  BY <1>1, FS_Subset DEF At
<1> QED
  BY <1>2, FS_CardinalityType

\* A caller moving from one place of thread_post to the next.
LEMMA CallerMoves ==
    ASSUME TypeOK, NEW c \in Callers, NEW p, NEW q, p # q,
           post[c] = p, post' = [post EXCEPT ![c] = q]
    PROVE  /\ Cardinality(At(p)') = Cardinality(At(p)) - 1
           /\ Cardinality(At(q)') = Cardinality(At(q)) + 1
<1>1. At(p)' = At(p) \ {c} /\ c \in At(p)
  BY DEF At, TypeOK
<1>2. At(q)' = At(q) \cup {c} /\ c \notin At(q)
  BY DEF At, TypeOK
<1>3. Cardinality(At(p)') = Cardinality(At(p)) - 1
  BY <1>1, AtFinite, FS_RemoveElement
<1>4. Cardinality(At(q)') = Cardinality(At(q)) + 1
  BY <1>2, AtFinite, FS_AddElement
<1> QED
  BY <1>3, <1>4

Conserved == PlacesConserved /\ SignalsConserved

\* fixed_queue_new starts with all places free and no signal.
THEOREM InitConserved == Init => Conserved
<1> SUFFICES ASSUME Init PROVE Conserved
  OBVIOUS
<1>1. At("append") = {} /\ At("signal") = {}
  BY DEF Init, At
<1>2. Cardinality(At("append")) = 0 /\ Cardinality(At("signal")) = 0
  BY <1>1, FS_EmptySet
<1> QED
  BY <1>2, EmptySeq, OsiAssumption
  DEF Init, Conserved, PlacesConserved, SignalsConserved, Holding

\* Every step moves a place or a signal, none creates or loses one.
THEOREM StepConserved == TypeOK /\ ControlInv /\ Conserved /\ [Next]_vars => Conserved'
<1> SUFFICES ASSUME TypeOK, ControlInv, Conserved, [Next]_vars PROVE Conserved'
  OBVIOUS
<1> DEFINE A == Cardinality(At("append"))
           G == Cardinality(At("signal"))
<1>n. A \in Nat /\ G \in Nat /\ Len(list) \in Nat /\ enqueueSem \in Nat /\ dequeueSem \in Nat
  BY AtFinite DEF TypeOK
<1>c. /\ enqueueSem + Len(list) + A + Holding("release") = Capacity
      /\ dequeueSem + G + Holding("pop") = Len(list)
  BY DEF Conserved, PlacesConserved, SignalsConserved
<1>h. ASSUME A' = A, G' = G, UNCHANGED queueVars,
             Holding("release")' = Holding("release"), Holding("pop")' = Holding("pop")
      PROVE  Conserved'
  BY <1>h, <1>c DEF Conserved, PlacesConserved, SignalsConserved, queueVars
<1>p. ASSUME UNCHANGED post PROVE A' = A /\ G' = G
  BY <1>p DEF At
<1>1. ASSUME NEW c \in Callers, PostBegin(c) PROVE Conserved'
  <2>1. A' = A /\ G' = G
    <3>1. post[c] = "idle" /\ post' = [post EXCEPT ![c] = "wait"] /\ "idle" # "wait"
      BY <1>1 DEF PostBegin
    <3>2. A' = A
      BY <3>1 DEF At, TypeOK
    <3>3. G' = G
      BY <3>1 DEF At, TypeOK
    <3>4. QED
      BY <3>2, <3>3
  <2>2. UNCHANGED <<queueVars, worker>>
    BY <1>1 DEF PostBegin, workerVars
  <2>3. QED
    BY <2>1, <2>2, <1>h DEF Holding
<1>2. ASSUME NEW c \in Callers, PostWait(c) PROVE Conserved'
  <2>1. A' = A + 1 /\ G' = G
    <3>1. post[c] = "wait" /\ post' = [post EXCEPT ![c] = "append"] /\ "wait" # "append"
      BY <1>2 DEF PostWait
    <3>2. A' = A + 1
      BY <3>1, CallerMoves
    <3>3. G' = G
      BY <3>1 DEF At, TypeOK
    <3>4. QED
      BY <3>2, <3>3
  <2>2. enqueueSem' = enqueueSem - 1 /\ UNCHANGED <<dequeueSem, list, worker>>
    BY <1>2 DEF PostWait, workerVars
  <2>3. QED
    BY <2>1, <2>2, <1>c, <1>n DEF Conserved, PlacesConserved, SignalsConserved, Holding
<1>3. ASSUME NEW c \in Callers, PostAppend(c) PROVE Conserved'
  <2>1. A' = A - 1 /\ G' = G + 1
    BY <1>3, CallerMoves DEF PostAppend
  <2>2. Len(list') = Len(list) + 1 /\ UNCHANGED <<enqueueSem, dequeueSem, worker>>
    BY <1>3, SeqStep DEF PostAppend, workerVars, TypeOK, ControlInv
  <2>3. Holding("release")' = Holding("release") /\ Holding("pop")' = Holding("pop")
    BY <2>2 DEF Holding
  <2>4. Holding("release") \in Nat /\ Holding("pop") \in Nat
    BY DEF Holding
  <2>5. PlacesConserved'
    BY <2>1, <2>2, <2>3, <2>4, <1>c, <1>n DEF PlacesConserved
  <2>6. SignalsConserved'
    BY <2>1, <2>2, <2>3, <2>4, <1>c, <1>n DEF SignalsConserved
  <2>7. QED
    BY <2>5, <2>6 DEF Conserved
<1>4. ASSUME NEW c \in Callers, PostSignal(c) PROVE Conserved'
  <2>1. A' = A /\ G' = G - 1
    <3>1. post[c] = "signal" /\ post' = [post EXCEPT ![c] = "idle"] /\ "signal" # "idle"
      BY <1>4 DEF PostSignal
    <3>2. A' = A
      BY <3>1 DEF At, TypeOK
    <3>3. G' = G - 1
      BY <3>1, CallerMoves
    <3>4. QED
      BY <3>2, <3>3
  <2>2. dequeueSem' = dequeueSem + 1 /\ UNCHANGED <<enqueueSem, list, worker>>
    BY <1>4 DEF PostSignal, workerVars
  <2>3. QED
    BY <2>1, <2>2, <1>c, <1>n DEF Conserved, PlacesConserved, SignalsConserved, Holding
<1>5. ASSUME WorkerStart \/ EpollWait \/ ReactorStops \/ DrainFindsNothing \/ RunEnd
      PROVE  Conserved'
  <2>1. UNCHANGED <<queueVars, post>>
    BY <1>5 DEF WorkerStart, EpollWait, ReactorStops, DrainFindsNothing, RunEnd, postVars
  <2>2. Holding("release")' = Holding("release") /\ Holding("pop")' = Holding("pop")
    BY <1>5 DEF WorkerStart, EpollWait, ReactorStops, DrainFindsNothing, RunEnd, Holding
  <2>3. QED
    BY <2>1, <2>2, <1>h, <1>p
<1>6. ASSUME ReactorDequeues \/ DrainTries PROVE Conserved'
  <2>1. /\ dequeueSem' = dequeueSem - 1 /\ UNCHANGED <<enqueueSem, list, post>>
        /\ worker \in {"loop", "take"} /\ worker' = "pop"
    BY <1>6 DEF ReactorDequeues, DrainTries, postVars
  <2>2. QED
    BY <2>1, <1>p, <1>c, <1>n DEF Conserved, PlacesConserved, SignalsConserved, Holding
<1>7. CASE Pop
  <2>1. /\ Len(list') = Len(list) - 1 /\ UNCHANGED <<enqueueSem, dequeueSem, post>>
        /\ worker = "pop" /\ worker' = "release"
    BY <1>7, HeadTailProperties DEF Pop, postVars, TypeOK
  <2>2. QED
    BY <2>1, <1>p, <1>c, <1>n DEF Conserved, PlacesConserved, SignalsConserved, Holding
<1>8. CASE Release
  <2>1. /\ enqueueSem' = enqueueSem + 1 /\ UNCHANGED <<list, dequeueSem, post>>
        /\ worker = "release" /\ worker' \in {"run", "exit"}
    BY <1>8 DEF Release, postVars
  <2>2. QED
    BY <2>1, <1>p, <1>c, <1>n DEF Conserved, PlacesConserved, SignalsConserved, Holding
<1>9. ASSUME OwnerStep \/ UNCHANGED vars PROVE Conserved'
  <2>1. UNCHANGED <<queueVars, post, worker>>
    BY <1>9 DEF OwnerStep, ThreadNewReturns, ThreadStop, ThreadJoin, ThreadFree, vars,
                postVars, workerVars
  <2>2. QED
    BY <2>1, <1>h, <1>p DEF Holding
<1> QED
  BY <1>1, <1>2, <1>3, <1>4, <1>5, <1>6, <1>7, <1>8, <1>9 DEF Next, PostStep, WorkerStep

\* Places and signals are conserved: the queue never holds more than its
\* capacity, and list_front is never called on an empty list.
THEOREM SemaphoresConserved == Spec => []SemaphoresAgree
<1>1. Init => TypeOK /\ ControlInv /\ Conserved
  BY InitInv1, InitConserved
<1>2. (TypeOK /\ ControlInv /\ Conserved) /\ [Next]_vars => (TypeOK /\ ControlInv /\ Conserved)'
  BY StepInv1, StepConserved
<1>3. TypeOK /\ Conserved => SemaphoresAgree
  BY DEF Conserved, SemaphoresAgree
<1> QED
  BY <1>1, <1>2, <1>3, PTL DEF Spec

-------------------------------------------------------------------------------
(* Order and once-only dispatch.                                             *)

\* list_append as a concatenation, so that histories can be cut anywhere.
LEMMA AppendIsOneMore ==
    ASSUME NEW s \in Seq(Items), NEW x \in Items
    PROVE  Append(s, x) = s \o <<x>> /\ <<x>> \in Seq(Items)
  OBVIOUS

\* Taking the front of the list moves it behind the histories.
LEMMA HeadMoves ==
    ASSUME NEW S, NEW s \in Seq(S), NEW t \in Seq(S), t # <<>>
    PROVE  s \o <<>> \o t = s \o <<Head(t)>> \o Tail(t)
<1>1. Head(t) \in S /\ Tail(t) \in Seq(S) /\ <<Head(t)>> \in Seq(S) /\ <<>> \in Seq(S)
  BY HeadTailProperties, EmptySeq
<1>2. <<Head(t)>> \o Tail(t) = t
  <2>1. <<Head(t)>> \o Tail(t) \in Seq(S)
    BY <1>1, ConcatProperties
  <2>2. Len(<<Head(t)>> \o Tail(t)) = Len(t)
    BY <1>1, ConcatProperties, HeadTailProperties
  <2>3. \A i \in 1 .. Len(t) : (<<Head(t)>> \o Tail(t))[i] = t[i]
    BY <1>1
  <2>4. QED
    BY <2>1, <2>2, <2>3, SeqEqual
<1>3. s \o <<>> = s
  BY ConcatEmptySeq
<1>4. s \o <<Head(t)>> \o Tail(t) = s \o (<<Head(t)>> \o Tail(t))
  BY <1>1, ConcatAssociative
<1> QED
  BY <1>2, <1>3, <1>4

\* The worker holds at most one item between its pop and its dispatch.
LEMMA InHandType == TypeOK /\ ControlInv => InHand \in Seq(Items) /\ Len(InHand) \in {0, 1}
<1> SUFFICES ASSUME TypeOK, ControlInv PROVE InHand \in Seq(Items) /\ Len(InHand) \in {0, 1}
  OBVIOUS
<1>1. CASE worker = "release" \/ (worker = "exit" /\ item # NoItem)
  <2>1. item \in Items
    BY <1>1 DEF TypeOK, ControlInv
  <2>2. <<item>> \in Seq(Items) /\ Len(<<item>>) = 1
    BY <2>1
  <2>3. QED
    BY <1>1, <2>2 DEF InHand
<1>2. CASE ~(worker = "release" \/ (worker = "exit" /\ item # NoItem))
  BY <1>2, EmptySeq DEF InHand
<1> QED
  BY <1>1, <1>2

\* Nothing was appended and nothing dispatched at the start.
THEOREM InitFifo == Init => FifoOnce
  BY ConcatEmptySeq, EmptySeq DEF Init, FifoOnce, InHand

\* Every step that moves an item keeps it at its place in the order.
THEOREM StepFifo == TypeOK /\ ControlInv /\ FifoOnce /\ [Next]_vars => FifoOnce'
<1> SUFFICES ASSUME TypeOK, ControlInv, FifoOnce, [Next]_vars PROVE FifoOnce'
  OBVIOUS
<1>t. /\ list \in Seq(Items) /\ executed \in Seq(Items) /\ InHand \in Seq(Items)
      /\ executed \o InHand \in Seq(Items)
  BY InHandType, ConcatProperties DEF TypeOK
<1>u. ASSUME UNCHANGED <<appended, executed, list, InHand>> PROVE FifoOnce'
  BY <1>u DEF FifoOnce
<1>1. ASSUME NEW c \in Callers, PostBegin(c) \/ PostWait(c) \/ PostSignal(c) PROVE FifoOnce'
  <2>1. UNCHANGED <<appended, executed, list, worker, item>>
    BY <1>1 DEF PostBegin, PostWait, PostSignal, queueVars, workerVars, historyVars
  <2>2. QED
    BY <2>1, <1>u DEF InHand
<1>2. ASSUME NEW c \in Callers, PostAppend(c) PROVE FifoOnce'
  <2>1. parcel[c] \in Items
    BY <1>2 DEF PostAppend, TypeOK, ControlInv
  <2>2. /\ appended' = Append(appended, parcel[c]) /\ list' = Append(list, parcel[c])
        /\ executed' = executed /\ InHand' = InHand
    BY <1>2 DEF PostAppend, workerVars, InHand
  <2>3. list' = list \o <<parcel[c]>> /\ <<parcel[c]>> \in Seq(Items)
    BY <2>1, <2>2, <1>t, AppendIsOneMore
  <2>4. appended' = ((executed \o InHand) \o list) \o <<parcel[c]>>
    BY <2>1, <2>2, AppendIsOneMore DEF TypeOK, FifoOnce
  <2>5. ((executed \o InHand) \o list) \o <<parcel[c]>>
            = (executed \o InHand) \o (list \o <<parcel[c]>>)
    <3> DEFINE before == executed \o InHand
               one == <<parcel[c]>>
    <3>1. before \in Seq(Items) /\ list \in Seq(Items) /\ one \in Seq(Items)
      BY <1>t, <2>3
    <3> HIDE DEF before, one
    <3>2. (before \o list) \o one = before \o (list \o one)
      BY <3>1, ConcatAssociative
    <3> QED
      BY <3>2 DEF before, one
  <2>6. QED
    BY <2>2, <2>3, <2>4, <2>5 DEF FifoOnce
<1>3. ASSUME WorkerStart \/ EpollWait \/ ReactorStops \/ ReactorDequeues \/ DrainTries
             \/ DrainFindsNothing \/ RunEnd
      PROVE  FifoOnce'
  <2>1. UNCHANGED <<appended, executed, list>>
    BY <1>3 DEF WorkerStart, EpollWait, ReactorStops, ReactorDequeues, DrainTries,
                DrainFindsNothing, RunEnd, queueVars, historyVars
  <2>2. InHand = <<>> /\ InHand' = <<>>
    BY <1>3 DEF WorkerStart, EpollWait, ReactorStops, ReactorDequeues, DrainTries,
                DrainFindsNothing, RunEnd, InHand, ControlInv
  <2>3. QED
    BY <2>1, <2>2, <1>u
<1>4. CASE Pop
  <2>1. /\ UNCHANGED <<appended, executed>> /\ list # <<>> /\ list' = Tail(list)
        /\ InHand = <<>> /\ InHand' = <<Head(list)>>
    BY <1>4 DEF Pop, InHand, historyVars, TypeOK
  <2>2. QED
    BY <2>1, <1>t, HeadMoves DEF FifoOnce
<1>5. CASE Release
  <2>1. item \in Items /\ InHand = <<item>> /\ UNCHANGED <<appended, list, item>>
    BY <1>5 DEF Release, InHand, TypeOK, ControlInv
  <2>2. CASE DrainGivesUp
    <3>1. InHand' = <<item>> /\ executed' = executed
      BY <1>5, <2>1, <2>2, OsiAssumption DEF Release, InHand
    <3>2. QED
      BY <2>1, <3>1, <1>u
  <2>3. CASE ~DrainGivesUp
    <3>1. InHand' = <<>> /\ executed' = Append(executed, item)
      BY <1>5, <2>3 DEF Release, InHand
    <3>2. Append(executed, item) = executed \o <<item>> /\ executed \o <<item>> \in Seq(Items)
      BY <1>t, <2>1
    <3>3. (executed \o <<item>>) \o <<>> = executed \o <<item>>
      BY <3>2, ConcatEmptySeq
    <3>4. QED
      BY <2>1, <3>1, <3>2, <3>3 DEF FifoOnce
  <2>4. QED
    BY <2>2, <2>3
<1>6. ASSUME OwnerStep \/ UNCHANGED vars PROVE FifoOnce'
  <2>1. UNCHANGED <<appended, executed, list, worker, item>>
    BY <1>6 DEF OwnerStep, ThreadNewReturns, ThreadStop, ThreadJoin, ThreadFree, vars,
                queueVars, workerVars, historyVars
  <2>2. QED
    BY <2>1, <1>u DEF InHand
<1> QED
  BY <1>1, <1>2, <1>3, <1>4, <1>5, <1>6 DEF Next, PostStep, WorkerStep

\* Items are dispatched once, in the order in which they entered the queue.
THEOREM DispatchIsFifo == Spec => []FifoOnce
<1>1. Init => TypeOK /\ ControlInv /\ FifoOnce
  BY InitInv1, InitFifo
<1>2. (TypeOK /\ ControlInv /\ FifoOnce) /\ [Next]_vars => (TypeOK /\ ControlInv /\ FifoOnce)'
  BY StepInv1, StepFifo
<1> QED
  BY <1>1, <1>2, PTL DEF Spec

-------------------------------------------------------------------------------
(* A work item that posts to its own full queue.                             *)

\* Nothing but the worker frees a place, and the worker waits for one: a work
\* item that posts to its own full queue (thread.cc:160) blocks for good.
THEOREM SelfBlockStable == Spec => SelfBlockIsForever
<1>1. TypeOK /\ ControlInv /\ [Next]_vars => (SelfBlocked => SelfBlocked')
  <2> SUFFICES ASSUME TypeOK, ControlInv, [Next]_vars, SelfBlocked PROVE SelfBlocked'
    OBVIOUS
  <2>0. worker = "run" /\ post[Worker] = "wait" /\ enqueueSem = 0
    BY DEF SelfBlocked, ControlInv
  <2>1. ASSUME NEW c \in Callers, PostBegin(c) \/ PostStep(c) PROVE SelfBlocked'
    BY <2>0, <2>1 DEF PostBegin, PostStep, PostWait, PostAppend, PostSignal, SelfBlocked,
                      queueVars, TypeOK, Callers
  <2>2. CASE WorkerStep
    BY <2>0, <2>2 DEF WorkerStep, WorkerStart, EpollWait, ReactorStops, ReactorDequeues,
                      DrainTries, DrainFindsNothing, Pop, Release, RunEnd
  <2>3. CASE OwnerStep \/ UNCHANGED vars
    BY <2>0, <2>3 DEF OwnerStep, ThreadNewReturns, ThreadStop, ThreadJoin, ThreadFree, vars,
                      queueVars, postVars, SelfBlocked
  <2>4. QED
    BY <2>1, <2>2, <2>3 DEF Next
<1>2. TypeOK /\ ControlInv /\ [Next]_vars => [SelfBlocked => SelfBlocked']_vars
  BY <1>1
<1> QED
  BY <1>2, InitInv1, StepInv1, PTL DEF Spec, SelfBlockIsForever

-------------------------------------------------------------------------------
(* Tear-down.  mark items had entered the list when the owner called         *)
(* thread_stop.  On a quiet stop all of them are signalled, and from then on *)
(* each is dispatched, in the worker's hand, or behind a signal (Signalled). *)
(* At most Capacity of them are left when the drain begins, so the drain     *)
(* does not give up on one of them (WithinDrain).                            *)

NotStopped ==
    owner \in {"creating", "up"} => ~stopEvent /\ "stop" \notin batch /\ ~draining /\ mark = 0

Signalled ==
    QuietStop => mark <= Len(executed) + Len(InHand) + dequeueSem + Holding("pop")

WithinDrain ==
    IF draining THEN mark + count + Holding("run") <= Len(executed) + Capacity
                ELSE count = 0

Dispatched == worker = "exit" /\ QuietStop => mark <= Len(executed)

TeardownInv ==
    /\ NotStopped /\ Signalled /\ WithinDrain /\ Dispatched
    /\ mark <= Len(appended)
    /\ \A c \in Callers : post[c] = "signal" => parcel[c] \in Elements(appended)

\* What the list receives after thread_stop does not change which items had
\* entered it before.
LEMMA QuietKept ==
    ASSUME TypeOK, mark <= Len(appended), UNCHANGED <<promised, mark>>,
           \/ appended' = appended
           \/ \E x \in Items : appended' = Append(appended, x)
    PROVE  QuietStop' = QuietStop
<1>1. \A k \in 1..mark : appended'[k] = appended[k]
  <2>1. mark \in Nat /\ appended \in Seq(Items) /\ Len(appended) \in Nat
    BY DEF TypeOK
  <2>2. ASSUME NEW x \in Items, NEW k \in 1..mark PROVE Append(appended, x)[k] = appended[k]
    BY <2>1
  <2>3. QED
    BY <2>2
<1>2. {appended'[k] : k \in 1..mark} = {appended[k] : k \in 1..mark}
  BY <1>1
<1> QED
  BY <1>2 DEF QuietStop

\* The list and the history sequences have lengths, and these add up.
LEMMA Lengths ==
    ASSUME Inv
    PROVE  /\ Len(list) \in Nat /\ Len(executed) \in Nat /\ Len(appended) \in Nat
           /\ Len(InHand) \in Nat
           /\ Len(appended) = Len(executed) + Len(InHand) + Len(list)
           /\ Len(list) <= Capacity
<1>1. /\ list \in Seq(Items) /\ executed \in Seq(Items) /\ appended \in Seq(Items)
      /\ InHand \in Seq(Items) /\ enqueueSem \in Nat
  BY InHandType DEF Inv, TypeOK
<1>2. Len(executed \o InHand) = Len(executed) + Len(InHand) /\ executed \o InHand \in Seq(Items)
  BY <1>1, ConcatProperties
<1>3. Len((executed \o InHand) \o list) = Len(executed \o InHand) + Len(list)
  BY <1>1, <1>2, ConcatProperties
<1>4. Len(list) \in Nat /\ Len(executed) \in Nat /\ Len(appended) \in Nat /\ Len(InHand) \in Nat
  BY <1>1, LenProperties
<1>5. Len(list) <= Capacity
  <2>1. Cardinality(At("append")) \in Nat /\ Holding("release") \in Nat /\ Capacity \in Nat
    BY AtFinite, OsiAssumption DEF Holding
  <2>2. QED
    BY <1>1, <1>4, <2>1 DEF Inv, PlacesConserved
<1> QED
  BY <1>2, <1>3, <1>4, <1>5 DEF Inv, FifoOnce

\* thread_stop has not been called at the start.
THEOREM InitTeardown == Init => TeardownInv
<1> SUFFICES ASSUME Init PROVE TeardownInv
  OBVIOUS
<1>1. Len(<<>>) = 0
  BY EmptySeq
<1>2. NotStopped /\ Dispatched /\ WithinDrain
  BY DEF Init, NotStopped, Dispatched, WithinDrain
<1>3. Signalled
  BY <1>1 DEF Init, Signalled, InHand, Holding
<1>4. \A c \in Callers : post[c] # "signal"
  BY DEF Init
<1> QED
  BY <1>1, <1>2, <1>3, <1>4 DEF Init, TeardownInv

\* Every step keeps what a quiet thread_stop promises: the drain loop of
\* run_thread (thread.cc:247) ends only after every promised item.
THEOREM StepTeardown == Inv /\ TeardownInv /\ [Next]_vars => TeardownInv'
<1> SUFFICES ASSUME Inv, TeardownInv, [Next]_vars PROVE TeardownInv'
  OBVIOUS
<1>0. TypeOK /\ ControlInv
  BY DEF Inv
<1>e. Len(<<>>) = 0
  BY EmptySeq
<1>1. /\ Len(list) \in Nat /\ Len(executed) \in Nat /\ Len(appended) \in Nat /\ Len(InHand) \in Nat
      /\ Len(appended) = Len(executed) + Len(InHand) + Len(list)
      /\ Len(list) <= Capacity
      /\ mark \in Nat /\ count \in Nat /\ dequeueSem \in Nat /\ Capacity \in Nat
      /\ mark <= Len(appended)
  BY Lengths, OsiAssumption DEF Inv, TypeOK, TeardownInv
<1>2. QuietStop => mark <= Len(executed) + Len(InHand) + dequeueSem + Holding("pop")
  BY DEF TeardownInv, Signalled
<1>3. \A c \in Callers : post[c] = "signal" => parcel[c] \in Elements(appended)
  BY DEF TeardownInv
<1>4. ASSUME UNCHANGED <<stopEvent, batch, worker, draining, item, count, owner, executed,
                         promised, mark>>,
             dequeueSem' \in {dequeueSem, dequeueSem + 1},
             \/ appended' = appended
             \/ \E x \in Items : appended' = Append(appended, x),
             \A c \in Callers : post'[c] = "signal" => parcel'[c] \in Elements(appended')
      PROVE  TeardownInv'
  <2>1. QuietStop' = QuietStop
    BY <1>0, <1>1, <1>4, QuietKept
  <2>2. Len(appended') >= Len(appended)
    BY <1>0, <1>1, <1>4, SeqStep DEF TypeOK
  <2>3. InHand' = InHand /\ Holding("pop")' = Holding("pop") /\ Holding("run")' = Holding("run")
    BY <1>4 DEF InHand, Holding
  <2>4. Signalled'
    BY <1>1, <1>2, <1>4, <2>1, <2>3 DEF Signalled, Holding
  <2>5. NotStopped' /\ WithinDrain' /\ Dispatched'
    BY <1>4, <2>1, <2>3 DEF TeardownInv, NotStopped, WithinDrain, Dispatched
  <2>6. mark' <= Len(appended')
    BY <1>1, <1>4, <2>2, SeqStep DEF TypeOK
  <2>7. QED
    BY <1>4, <2>4, <2>5, <2>6 DEF TeardownInv
<1>5. ASSUME UNCHANGED <<post, parcel, appended, promised, mark, owner>>
      PROVE  /\ QuietStop' = QuietStop /\ mark' <= Len(appended')
             /\ \A c \in Callers : post'[c] = "signal" => parcel'[c] \in Elements(appended')
  BY <1>0, <1>1, <1>3, <1>5, QuietKept
<1>6. ASSUME NEW c \in Callers, PostBegin(c) \/ PostStep(c) PROVE TeardownInv'
  <2>1. CASE PostBegin(c) \/ PostWait(c) \/ PostSignal(c)
    <3>1. \A d \in Callers : post'[d] = "signal" => parcel'[d] \in Elements(appended')
      BY <1>0, <1>3, <2>1 DEF PostBegin, PostWait, PostSignal, historyVars, TypeOK
    <3>2. dequeueSem' \in {dequeueSem, dequeueSem + 1} /\ appended' = appended
      BY <2>1 DEF PostBegin, PostWait, PostSignal, queueVars, historyVars
    <3>3. QED
      BY <1>4, <2>1, <3>1, <3>2 DEF PostBegin, PostWait, PostSignal, workerVars, historyVars
  <2>2. CASE PostAppend(c)
    <3>1. parcel[c] \in Items /\ appended' = Append(appended, parcel[c]) /\ appended \in Seq(Items)
      BY <1>0, <2>2 DEF PostAppend, TypeOK, ControlInv
    <3>2. Elements(appended') = Elements(appended) \cup {parcel[c]}
      BY <3>1 DEF Elements
    <3>3. \A d \in Callers : post'[d] = "signal" => parcel'[d] \in Elements(appended')
      BY <1>0, <1>3, <2>2, <3>2 DEF PostAppend, TypeOK
    <3>4. QED
      BY <1>4, <2>2, <3>1, <3>3 DEF PostAppend, workerVars
  <2>3. QED
    BY <1>6, <2>1, <2>2 DEF PostStep
<1>7. CASE WorkerStart \/ EpollWait
  <2>1. /\ UNCHANGED <<post, parcel, appended, executed, promised, mark, owner, dequeueSem,
                       stopEvent, draining, count, item>>
        /\ worker \in {"born", "loop"} /\ worker' = "loop"
        /\ "stop" \in batch' => stopEvent \/ "stop" \in batch
    BY <1>7 DEF WorkerStart, EpollWait, Ready, queueVars, postVars, historyVars
  <2>2. InHand' = <<>> /\ InHand = <<>> /\ Holding("pop")' = Holding("pop") /\ Holding("run")' = Holding("run")
    BY <2>1 DEF InHand, Holding
  <2>3. NotStopped' /\ Signalled' /\ WithinDrain' /\ Dispatched'
    BY <1>5, <2>1, <2>2 DEF TeardownInv, NotStopped, Signalled, WithinDrain, Dispatched
  <2>4. QED
    BY <1>5, <2>1, <2>3 DEF TeardownInv
<1>8. CASE ReactorStops
  <2>1. /\ UNCHANGED <<post, parcel, appended, executed, promised, mark, owner, dequeueSem, count, item>>
        /\ worker = "loop" /\ worker' = "take" /\ "stop" \in batch /\ batch' = {}
        /\ stopEvent' = FALSE /\ draining' = TRUE
    BY <1>8 DEF ReactorStops, queueVars, postVars, historyVars
  <2>2. owner \notin {"creating", "up"}
    BY <2>1 DEF TeardownInv, NotStopped
  <2>3. InHand = <<>> /\ InHand' = <<>> /\ Holding("pop")' = Holding("pop") /\ Holding("run")' = 0
    BY <2>1 DEF InHand, Holding
  <2>4. count = 0
    BY <1>0, <2>1 DEF TeardownInv, WithinDrain, ControlInv
  <2>5. WithinDrain'
    BY <1>1, <2>1, <2>3, <2>4, <1>e DEF WithinDrain
  <2>6. NotStopped' /\ Signalled' /\ Dispatched'
    BY <1>2, <1>5, <2>1, <2>2, <2>3 DEF NotStopped, Signalled, Dispatched
  <2>7. QED
    BY <1>5, <2>1, <2>5, <2>6 DEF TeardownInv
<1>9. CASE ReactorDequeues \/ DrainTries
  <2>1. /\ UNCHANGED <<post, parcel, appended, executed, promised, mark, owner, stopEvent,
                       draining, count, item>>
        /\ worker \in {"loop", "take"} /\ worker' = "pop" /\ dequeueSem' = dequeueSem - 1
        /\ dequeueSem > 0 /\ batch' \subseteq batch
    BY <1>9 DEF ReactorDequeues, DrainTries, postVars, historyVars
  <2>2. /\ InHand = <<>> /\ InHand' = <<>> /\ Holding("pop") = 0 /\ Holding("pop")' = 1
        /\ Holding("run")' = Holding("run")
    BY <2>1 DEF InHand, Holding
  <2>3. Signalled'
    <3>1. Len(InHand) = 0 /\ Len(InHand') = 0 /\ Len(executed') = Len(executed)
      BY <1>e, <2>1, <2>2
    <3>2. QuietStop => mark <= Len(executed) + dequeueSem
      BY <1>1, <1>2, <2>2, <3>1
    <3>3. Len(executed') + Len(InHand') + dequeueSem' + Holding("pop")' = Len(executed) + dequeueSem
      BY <1>1, <2>1, <2>2, <3>1
    <3>4. QED
      BY <1>5, <2>1, <3>2, <3>3 DEF Signalled
  <2>4. NotStopped' /\ WithinDrain' /\ Dispatched'
    BY <1>5, <2>1, <2>2 DEF TeardownInv, NotStopped, WithinDrain, Dispatched
  <2>5. QED
    BY <1>5, <2>1, <2>3, <2>4 DEF TeardownInv
<1>10. CASE Pop
  <2>1. /\ UNCHANGED <<post, parcel, appended, executed, promised, mark, owner, dequeueSem,
                       stopEvent, batch, draining, count>>
        /\ worker = "pop" /\ worker' = "release"
    BY <1>10 DEF Pop, postVars, historyVars
  <2>2. /\ InHand = <<>> /\ InHand' = <<item'>> /\ Len(<<item'>>) = 1 /\ Holding("pop") = 1
        /\ Holding("pop")' = 0 /\ Holding("run")' = Holding("run")
    BY <2>1 DEF InHand, Holding
  <2>3. Signalled'
    <3>1. Len(InHand) = 0 /\ Len(InHand') = 1 /\ Len(executed') = Len(executed)
      BY <1>e, <2>1, <2>2
    <3>2. QuietStop => mark <= Len(executed) + dequeueSem + 1
      BY <1>1, <1>2, <2>2, <3>1
    <3>3. Len(executed') + Len(InHand') + dequeueSem' + Holding("pop")'
              = Len(executed) + dequeueSem + 1
      BY <1>1, <2>1, <2>2, <3>1
    <3>4. QED
      BY <1>5, <2>1, <3>2, <3>3 DEF Signalled
  <2>4. NotStopped' /\ WithinDrain' /\ Dispatched'
    BY <1>5, <2>1, <2>2 DEF TeardownInv, NotStopped, WithinDrain, Dispatched
  <2>5. QED
    BY <1>5, <2>1, <2>3, <2>4 DEF TeardownInv
<1>11. CASE Release
  <2>1. /\ UNCHANGED <<post, parcel, appended, promised, mark, owner, dequeueSem, stopEvent, batch,
                       draining, count, item>>
        /\ worker = "release" /\ worker' \in {"run", "exit"} /\ item \in Items
        /\ InHand = <<item>> /\ Len(<<item>>) = 1 /\ Holding("pop") = 0 /\ Holding("pop")' = 0
        /\ Holding("run") = 0
    BY <1>0, <1>11 DEF Release, postVars, InHand, Holding, TypeOK, ControlInv
  <2>2. NotStopped'
    BY <2>1 DEF TeardownInv, NotStopped
  <2>3. CASE DrainGivesUp
    <3>1. worker' = "exit" /\ executed' = executed /\ InHand' = InHand /\ Holding("run")' = 0
      BY <1>11, <2>1, <2>3, OsiAssumption DEF Release, InHand, Holding
    <3>2. Signalled' /\ WithinDrain'
      BY <1>5, <2>1, <3>1 DEF TeardownInv, Signalled, WithinDrain
    <3>3. mark <= Len(executed)
      BY <1>1, <2>1, <2>3 DEF DrainGivesUp, TeardownInv, WithinDrain
    <3>4. QED
      BY <1>5, <2>1, <2>2, <3>1, <3>2, <3>3 DEF TeardownInv, Dispatched
  <2>4. CASE ~DrainGivesUp
    <3>1. /\ worker' = "run" /\ executed' = Append(executed, item) /\ InHand' = <<>>
          /\ Holding("run")' = 1
      BY <1>11, <2>1, <2>4 DEF Release, InHand, Holding
    <3>2. Len(executed') = Len(executed) + 1
      BY <1>0, <2>1, <3>1, SeqStep DEF TypeOK
    <3>3. Signalled'
      <4>1. Len(InHand) = 1 /\ Len(InHand') = 0
        BY <1>e, <2>1, <3>1
      <4>2. QuietStop => mark <= Len(executed) + dequeueSem + 1
        BY <1>1, <1>2, <2>1, <4>1
      <4>3. Len(executed') + Len(InHand') + dequeueSem' + Holding("pop")'
                = Len(executed) + dequeueSem + 1
        BY <1>1, <2>1, <3>2, <4>1
      <4>4. QED
        BY <1>5, <2>1, <4>2, <4>3 DEF Signalled
    <3>4. WithinDrain'
      BY <1>1, <2>1, <3>1, <3>2 DEF TeardownInv, WithinDrain
    <3>5. QED
      BY <1>5, <2>1, <2>2, <3>1, <3>3, <3>4 DEF TeardownInv, Dispatched
  <2>5. QED
    BY <2>3, <2>4
<1>12. CASE DrainFindsNothing \/ RunEnd
  <2>1. /\ UNCHANGED <<post, parcel, appended, executed, promised, mark, owner, dequeueSem,
                       stopEvent, batch, draining>>
        /\ InHand = <<>> /\ InHand' = <<>> /\ Holding("pop") = 0 /\ Holding("pop")' = 0
    BY <1>0, <1>12 DEF DrainFindsNothing, RunEnd, queueVars, postVars, historyVars, InHand,
                       Holding, ControlInv
  <2>2. NotStopped' /\ Signalled'
    BY <1>2, <1>5, <2>1 DEF TeardownInv, NotStopped, Signalled
  <2>3. WithinDrain'
    BY <1>1, <1>12, <2>1 DEF DrainFindsNothing, RunEnd, TeardownInv, WithinDrain, Holding
  <2>4. Dispatched'
    <3>1. worker' = "exit" => dequeueSem = 0
      BY <1>12 DEF DrainFindsNothing, RunEnd
    <3>2. Len(InHand) = 0
      BY <1>e, <2>1
    <3>3. worker' = "exit" /\ QuietStop => mark <= Len(executed)
      BY <1>1, <1>2, <2>1, <3>1, <3>2
    <3>4. QED
      BY <1>5, <2>1, <3>3 DEF Dispatched
  <2>5. QED
    BY <1>5, <2>1, <2>2, <2>3, <2>4 DEF TeardownInv
<1>13. CASE ThreadStop
  <2>1. /\ UNCHANGED <<post, parcel, appended, executed, dequeueSem, list, batch, draining, count,
                       worker, item>>
        /\ owner = "up" /\ owner' = "stopped" /\ mark' = Len(appended) /\ promised' = Returned
    BY <1>13 DEF ThreadStop, queueVars, postVars
  <2>2. ~draining /\ worker # "exit" /\ count = 0
    BY <1>0, <2>1 DEF TeardownInv, NotStopped, WithinDrain, ControlInv
  <2>3. QuietStop' => At("signal") = {}
    <3>1. Elements(appended) = {appended[k] : k \in 1..Len(appended)}
      BY <1>0 DEF Elements, TypeOK
    <3>2. QuietStop' => Returned = Elements(appended)
      BY <2>1, <3>1 DEF QuietStop
    <3>3. QED
      BY <1>3, <3>2 DEF Returned, At
  <2>4. Signalled'
    <3>1. ASSUME QuietStop' PROVE dequeueSem + Holding("pop") = Len(list)
      <4>1. Cardinality(At("signal")) = 0
        BY <2>3, <3>1, FS_EmptySet
      <4>2. QED
        BY <1>1, <4>1 DEF Inv, SignalsConserved, Holding
    <3>2. InHand' = InHand /\ Holding("pop")' = Holding("pop")
      BY <2>1 DEF InHand, Holding
    <3>3. Holding("pop") \in Nat
      BY DEF Holding
    <3>4. QED
      BY <1>1, <2>1, <3>1, <3>2, <3>3 DEF Signalled
  <2>5. NotStopped' /\ WithinDrain' /\ Dispatched'
    BY <2>1, <2>2 DEF NotStopped, WithinDrain, Dispatched
  <2>6. QED
    BY <1>1, <1>3, <2>1, <2>4, <2>5 DEF TeardownInv
<1>14. CASE ThreadNewReturns \/ ThreadJoin \/ ThreadFree
  <2>1. /\ UNCHANGED <<post, parcel, appended, executed, promised, mark, dequeueSem, stopEvent,
                       batch, worker, draining, item, count>>
        /\ owner' \in {"creating", "up"} => owner \in {"creating", "up"}
    BY <1>14 DEF ThreadNewReturns, ThreadJoin, ThreadFree, queueVars, postVars, workerVars, historyVars
  <2>2. QuietStop' = QuietStop /\ InHand' = InHand /\ Holding("pop")' = Holding("pop")
        /\ Holding("run")' = Holding("run")
    BY <2>1 DEF QuietStop, InHand, Holding
  <2>3. QED
    BY <2>1, <2>2 DEF TeardownInv, NotStopped, Signalled, WithinDrain, Dispatched
<1>15. CASE UNCHANGED vars
  BY <1>3, <1>4, <1>15 DEF vars, queueVars, postVars, workerVars, historyVars
<1> QED
  BY <1>6, <1>7, <1>8, <1>9, <1>10, <1>11, <1>12, <1>13, <1>14, <1>15
  DEF Next, WorkerStep, OwnerStep

\* Types, semaphores, order and tear-down together are inductive, and hold in
\* every reachable state of the thread.
THEOREM Inductive == Spec => [](Inv /\ TeardownInv)
<1>1. Init => Inv /\ TeardownInv
  BY InitInv1, InitConserved, InitFifo, InitTeardown DEF Inv, Conserved
<1>2. (Inv /\ TeardownInv) /\ [Next]_vars => (Inv /\ TeardownInv)'
  <2>1. Inv /\ [Next]_vars => Inv'
    BY StepInv1, StepConserved, StepFifo DEF Inv, Conserved
  <2>2. QED
    BY <2>1, StepTeardown
<1> QED
  BY <1>1, <1>2, PTL DEF Spec

\* The comment in run_thread holds for every owner that stops the thread while
\* no other thread_post is between its append and its signal.
THEOREM TeardownGuarantee == Spec => []TeardownDispatched
<1>1. Inv /\ TeardownInv => TeardownDispatched
  <2> SUFFICES ASSUME Inv, TeardownInv, worker = "exit", QuietStop, NEW i \in promised
               PROVE  i \in Elements(executed)
    BY DEF TeardownDispatched
  <2>1. mark <= Len(executed) /\ mark \in Nat /\ executed \in Seq(Items) /\ list \in Seq(Items)
        /\ Len(executed) \in Nat
    BY Lengths DEF TeardownInv, Dispatched, Inv, TypeOK
  <2>2. PICK k \in 1..mark : i = appended[k]
    BY DEF QuietStop
  <2>3. k \in 1..Len(executed) /\ k \in DOMAIN executed
    BY <2>1, <2>2
  <2>4. appended[k] = executed[k]
    <3>1. InHand \in Seq(Items)
      BY InHandType DEF Inv
    <3>2. (executed \o InHand)[k] = executed[k] /\ executed \o InHand \in Seq(Items)
          /\ k \in 1..Len(executed \o InHand)
      BY <2>1, <2>3, <3>1, ConcatProperties, LenProperties
    <3>3. ((executed \o InHand) \o list)[k] = (executed \o InHand)[k]
      BY <2>1, <3>2, ConcatProperties, LenProperties
    <3>4. QED
      BY <3>2, <3>3 DEF Inv, FifoOnce
  <2>5. QED
    BY <2>2, <2>3, <2>4 DEF Elements
<1> QED
  BY <1>1, Inductive, PTL

-------------------------------------------------------------------------------
(* The thread implements the abstract work queue: an item is accepted when   *)
(* it enters the list, taken when the worker pops it, dispatched when its    *)
(* function is called; every other step is invisible.                        *)

\* The thread starts as the empty abstract queue.
THEOREM InitRefines == Init => WQ!WInit
  BY DEF Init, WQ!WInit, InHand

\* Every step of thread_post, the worker and the owner is a step of the
\* abstract queue or invisible to it.
THEOREM StepRefines == TypeOK /\ ControlInv /\ [Next]_vars => [WQ!WNext]_(WQ!wvars)
<1> SUFFICES ASSUME TypeOK, ControlInv, [Next]_vars PROVE [WQ!WNext]_(WQ!wvars)
  OBVIOUS
<1>1. ASSUME UNCHANGED <<list, executed, worker, item>> PROVE UNCHANGED WQ!wvars
  BY <1>1 DEF WQ!wvars, InHand
<1>2. ASSUME NEW c \in Callers, PostBegin(c) \/ PostWait(c) \/ PostSignal(c)
      PROVE  UNCHANGED WQ!wvars
  BY <1>1, <1>2 DEF PostBegin, PostWait, PostSignal, queueVars, workerVars, historyVars
<1>3. ASSUME NEW c \in Callers, PostAppend(c) PROVE WQ!WNext
  <2>1. parcel[c] \in Items
    BY <1>3 DEF PostAppend, TypeOK, ControlInv
  <2>2. WQ!Accept(parcel[c])
    BY <1>3 DEF PostAppend, workerVars, WQ!Accept, InHand
  <2>3. QED
    BY <2>1, <2>2 DEF WQ!WNext
<1>4. ASSUME WorkerStart \/ EpollWait \/ ReactorStops \/ ReactorDequeues \/ DrainTries \/ RunEnd
      PROVE  UNCHANGED WQ!wvars
  <2>1. UNCHANGED <<list, executed>> /\ worker # "exit" /\ worker' # "exit"
    BY <1>4 DEF WorkerStart, EpollWait, ReactorStops, ReactorDequeues, DrainTries, RunEnd,
                queueVars, historyVars
  <2>2. worker # "release" /\ worker' # "release"
    BY <1>4 DEF WorkerStart, EpollWait, ReactorStops, ReactorDequeues, DrainTries, RunEnd
  <2>3. QED
    BY <2>1, <2>2 DEF WQ!wvars, InHand
<1>5. CASE DrainFindsNothing
  <2>1. item = NoItem /\ item' = item /\ worker = "take" /\ worker' = "exit"
        /\ UNCHANGED <<list, executed>>
    BY <1>5 DEF DrainFindsNothing, ControlInv, queueVars, historyVars
  <2>2. WQ!End
    BY <2>1 DEF WQ!End, InHand
  <2>3. QED
    BY <2>2 DEF WQ!WNext
<1>6. CASE Pop
  <2>1. WQ!Take
    BY <1>6 DEF Pop, WQ!Take, InHand, historyVars
  <2>2. QED
    BY <2>1 DEF WQ!WNext
<1>7. CASE Release
  <2>1. item \in Items /\ item # NoItem /\ executed \in Seq(Items)
    BY <1>7, OsiAssumption DEF Release, TypeOK, ControlInv
  <2>2. CASE DrainGivesUp
    <3>1. WQ!End
      BY <1>7, <2>1, <2>2 DEF Release, WQ!End, InHand
    <3>2. QED
      BY <3>1 DEF WQ!WNext
  <2>3. CASE ~DrainGivesUp
    <3>1. Append(executed, item) = executed \o <<item>>
      BY <2>1, AppendIsOneMore
    <3>2. WQ!Dispatch
      BY <1>7, <2>1, <2>3, <3>1 DEF Release, WQ!Dispatch, InHand
    <3>3. QED
      BY <3>2 DEF WQ!WNext
  <2>4. QED
    BY <2>2, <2>3
<1>8. ASSUME OwnerStep \/ UNCHANGED vars PROVE UNCHANGED WQ!wvars
  BY <1>1, <1>8 DEF OwnerStep, ThreadNewReturns, ThreadStop, ThreadJoin, ThreadFree, vars,
                    queueVars, workerVars, historyVars
<1> QED
  BY <1>2, <1>3, <1>4, <1>5, <1>6, <1>7, <1>8 DEF Next, PostStep, WorkerStep

\* OsiThread is a refinement of WorkQueue: thread_post and run_thread promise a
\* FIFO queue of work items, each dispatched at most once.
THEOREM Refinement == Spec => ImplementsWorkQueue
  BY InitRefines, StepRefines, InitInv1, StepInv1, PTL
  DEF Spec, ImplementsWorkQueue, WQ!WSpec

===============================================================================
