------------------------------ MODULE OsiThread ------------------------------
(***************************************************************************)
(* One worker thread of bt-app: the work queue, the two semaphores and the *)
(* event loop behind thread_new, thread_post, thread_stop, thread_join and *)
(* thread_free (osi/src/thread.cc, fixed_queue.cc, semaphore.cc and the    *)
(* loop of reactor.cc).                                                    *)
(*                                                                         *)
(* Every action is one step the other threads can observe: an operation on *)
(* an eventfd, or the list update made while the queue's mutex is held.    *)
(***************************************************************************)
EXTENDS Naturals, Sequences, FiniteSets

CONSTANTS Posters,    \* the threads that post work to this one
          Worker,     \* the thread itself: a work item may post to its own thread
          Items,      \* work_item_t objects, one per call of thread_post
          NoItem,
          Capacity,   \* fixed_queue_capacity
          SelfPost    \* whether work items post to their own thread

ASSUME OsiAssumption ==
    /\ IsFiniteSet(Posters) /\ Worker \notin Posters
    /\ NoItem \notin Items
    /\ Capacity \in Nat \ {0}
    /\ SelfPost \in BOOLEAN

VARIABLES
    enqueueSem,  \* free places of the queue
    dequeueSem,  \* signalled items of the queue; its descriptor is polled
    list,        \* the queue's list, guarded by its mutex
    post,        \* where each caller is inside thread_post
    parcel,      \* the item each caller is posting
    stopEvent,   \* the reactor's event_fd is non-zero
    batch,       \* events returned by epoll_wait and not handled yet
    worker,      \* where the worker is
    draining,    \* the worker has left the reactor loop
    item,        \* the worker's current item
    count,       \* items dispatched by the drain loop
    owner,       \* where the thread's owner is: thread_new ... thread_free
    appended,    \* history: every item in the order it entered the list
    executed,    \* history: every item in the order its function was called
    promised,    \* history: items whose thread_post returned before thread_stop
    mark         \* history: how many items had entered the list at thread_stop

queueVars   == <<enqueueSem, dequeueSem, list>>
postVars    == <<post, parcel>>
workerVars  == <<stopEvent, batch, worker, draining, item, count>>
historyVars == <<appended, executed, promised, mark>>
vars == <<queueVars, postVars, workerVars, owner, historyVars>>

Callers == Posters \cup {Worker}

Elements(s) == {s[k] : k \in DOMAIN s}

Init ==
    /\ enqueueSem = Capacity /\ dequeueSem = 0 /\ list = <<>>
    /\ post = [c \in Callers |-> "idle"]
    /\ parcel = [c \in Callers |-> NoItem]
    /\ stopEvent = FALSE /\ batch = {}
    /\ worker = "born" /\ draining = FALSE /\ item = NoItem /\ count = 0
    /\ owner = "creating"
    /\ appended = <<>> /\ executed = <<>> /\ promised = {} /\ mark = 0

------------------------------------------------------------------------------
(* thread_post, called by a poster or by the item the worker is running.    *)

\* The items no call of thread_post has allocated yet.
Fresh == Items \ (Elements(appended) \cup Elements(parcel))

MayPost(c) ==
    IF c = Worker THEN SelfPost /\ worker = "run"
                  ELSE owner \notin {"creating", "freed"}

PostBegin(c) ==
    /\ post[c] = "idle" /\ MayPost(c)
    /\ \E i \in Fresh : parcel' = [parcel EXCEPT ![c] = i]
    /\ post' = [post EXCEPT ![c] = "wait"]
    /\ UNCHANGED <<queueVars, workerVars, owner, historyVars>>

PostWait(c) ==
    /\ post[c] = "wait" /\ owner # "freed"
    /\ enqueueSem > 0
    /\ enqueueSem' = enqueueSem - 1
    /\ post' = [post EXCEPT ![c] = "append"]
    /\ UNCHANGED <<dequeueSem, list, parcel, workerVars, owner, historyVars>>

PostAppend(c) ==
    /\ post[c] = "append" /\ owner # "freed"
    /\ list' = Append(list, parcel[c])
    /\ appended' = Append(appended, parcel[c])
    /\ post' = [post EXCEPT ![c] = "signal"]
    /\ UNCHANGED <<enqueueSem, dequeueSem, parcel, workerVars, owner,
                   executed, promised, mark>>

\* Mutant: the item is queued and nobody is woken.
PostForgetsSignal(c) ==
    /\ post[c] = "signal" /\ owner # "freed"
    /\ post' = [post EXCEPT ![c] = "idle"]
    /\ parcel' = [parcel EXCEPT ![c] = NoItem]
    /\ UNCHANGED <<queueVars, workerVars, owner, historyVars>>

PostSignal(c) ==
    /\ post[c] = "signal" /\ owner # "freed"
    /\ dequeueSem' = dequeueSem + 1
    /\ post' = [post EXCEPT ![c] = "idle"]
    /\ parcel' = [parcel EXCEPT ![c] = NoItem]
    /\ UNCHANGED <<enqueueSem, list, workerVars, owner, historyVars>>

------------------------------------------------------------------------------
(* run_thread: the handshake with thread_new, the reactor loop, the drain.  *)

WorkerStart ==
    /\ worker = "born"
    /\ worker' = "loop"
    /\ UNCHANGED <<queueVars, postVars, stopEvent, batch, draining, item, count,
                   owner, historyVars>>

Ready == (IF stopEvent THEN {"stop"} ELSE {})
            \cup (IF dequeueSem > 0 THEN {"work"} ELSE {})

\* epoll_wait returns the ready descriptors, in an order of the kernel's choice:
\* the loop may meet either event of a batch first.
EpollWait ==
    /\ worker = "loop" /\ batch = {}
    /\ Ready # {}
    /\ batch' = Ready
    /\ UNCHANGED <<queueVars, postVars, stopEvent, worker, draining, item, count,
                   owner, historyVars>>

\* Mutant: the thread ends with its reactor, without the drain loop.
StopsWithoutDrain ==
    /\ worker = "loop" /\ "stop" \in batch
    /\ stopEvent' = FALSE /\ batch' = {}
    /\ draining' = TRUE /\ worker' = "exit"
    /\ UNCHANGED <<queueVars, postVars, item, count, owner, historyVars>>

\* The stop event ends the loop at once; events behind it are not looked at.
ReactorStops ==
    /\ worker = "loop" /\ "stop" \in batch
    /\ stopEvent' = FALSE /\ batch' = {}
    /\ draining' = TRUE /\ worker' = "take"
    /\ UNCHANGED <<queueVars, postVars, item, count, owner, historyVars>>

\* Mutant: the callback takes an item without waiting on the semaphore.
DequeuesWithoutWait ==
    /\ worker = "loop" /\ "work" \in batch
    /\ batch' = batch \ {"work"}
    /\ worker' = "pop"
    /\ UNCHANGED <<queueVars, postVars, stopEvent, draining, item, count,
                   owner, historyVars>>

\* work_queue_read_cb calls fixed_queue_dequeue, which would block at zero.
ReactorDequeues ==
    /\ worker = "loop" /\ "work" \in batch
    /\ dequeueSem > 0
    /\ dequeueSem' = dequeueSem - 1
    /\ batch' = batch \ {"work"}
    /\ worker' = "pop"
    /\ UNCHANGED <<enqueueSem, list, postVars, stopEvent, draining, item, count,
                   owner, historyVars>>

DrainTries ==
    /\ worker = "take" /\ dequeueSem > 0
    /\ dequeueSem' = dequeueSem - 1
    /\ worker' = "pop"
    /\ UNCHANGED <<enqueueSem, list, postVars, stopEvent, batch, draining, item,
                   count, owner, historyVars>>

DrainFindsNothing ==
    /\ worker = "take" /\ dequeueSem = 0
    /\ worker' = "exit"
    /\ UNCHANGED <<queueVars, postVars, stopEvent, batch, draining, item, count,
                   owner, historyVars>>

\* Mutant: the newest item is taken.
PopNewest ==
    /\ worker = "pop" /\ list # <<>>
    /\ item' = list[Len(list)] /\ list' = SubSeq(list, 1, Len(list) - 1)
    /\ worker' = "release"
    /\ UNCHANGED <<enqueueSem, dequeueSem, postVars, stopEvent, batch, draining,
                   count, owner, historyVars>>

\* Mutant: list_front without list_remove.
PopKeeps ==
    /\ worker = "pop" /\ list # <<>>
    /\ item' = Head(list)
    /\ worker' = "release"
    /\ UNCHANGED <<queueVars, postVars, stopEvent, batch, draining, count, owner,
                   historyVars>>

Pop ==
    /\ worker = "pop" /\ list # <<>>
    /\ item' = Head(list) /\ list' = Tail(list)
    /\ worker' = "release"
    /\ UNCHANGED <<enqueueSem, dequeueSem, postVars, stopEvent, batch, draining,
                   count, owner, historyVars>>

\* The loop condition of the drain: the item just dequeued is dropped when
\* more than capacity items have been dispatched already.
DrainGivesUp == draining /\ count > Capacity

\* Mutant: the place of the dequeued item is not given back.
ReleaseLeaks ==
    /\ worker = "release"
    /\ IF DrainGivesUp
       THEN worker' = "exit" /\ UNCHANGED executed
       ELSE worker' = "run" /\ executed' = Append(executed, item)
    /\ UNCHANGED <<queueVars, postVars, stopEvent, batch, draining, item, count,
                   owner, appended, promised, mark>>

Release ==
    /\ worker = "release"
    /\ enqueueSem' = enqueueSem + 1
    /\ IF DrainGivesUp
       THEN worker' = "exit" /\ UNCHANGED executed
       ELSE worker' = "run" /\ executed' = Append(executed, item)
    /\ UNCHANGED <<dequeueSem, list, postVars, stopEvent, batch, draining, item,
                   count, owner, appended, promised, mark>>

RunEnd ==
    /\ worker = "run" /\ post[Worker] = "idle"
    /\ item' = NoItem
    /\ IF draining THEN worker' = "take" /\ count' = count + 1
                   ELSE worker' = "loop" /\ UNCHANGED count
    /\ UNCHANGED <<queueVars, postVars, stopEvent, batch, draining, owner,
                   historyVars>>

------------------------------------------------------------------------------
(* The owner: thread_new, later thread_free = stop, join, release.          *)

ThreadNewReturns ==
    /\ owner = "creating" /\ worker # "born"
    /\ owner' = "up"
    /\ UNCHANGED <<queueVars, postVars, workerVars, historyVars>>

\* The items whose thread_post has returned, or needs only to return.
Returned == Elements(appended) \ {parcel[c] : c \in {d \in Callers : post[d] = "signal"}}

\* Mutant: thread_stop does not write the reactor's event descriptor.
StopForgetsEvent ==
    /\ owner = "up"
    /\ owner' = "stopped"
    /\ promised' = Returned
    /\ mark' = Len(appended)
    /\ UNCHANGED <<queueVars, postVars, workerVars, appended, executed>>

\* Mutant: thread_stop wakes up a blocked poster with a place the queue does
\* not have.
StopFreesPlace ==
    /\ owner = "up"
    /\ stopEvent' = TRUE /\ enqueueSem' = enqueueSem + 1
    /\ owner' = "stopped"
    /\ promised' = Returned
    /\ mark' = Len(appended)
    /\ UNCHANGED <<dequeueSem, list, postVars, batch, worker, draining, item, count,
                   appended, executed>>

ThreadStop ==
    /\ owner = "up"
    /\ stopEvent' = TRUE
    /\ owner' = "stopped"
    /\ promised' = Returned
    /\ mark' = Len(appended)
    /\ UNCHANGED <<queueVars, postVars, batch, worker, draining, item, count,
                   appended, executed>>

ThreadJoin ==
    /\ owner = "stopped" /\ worker = "exit"
    /\ owner' = "joined"
    /\ UNCHANGED <<queueVars, postVars, workerVars, historyVars>>

ThreadFree ==
    /\ owner = "joined"
    /\ owner' = "freed"
    /\ UNCHANGED <<queueVars, postVars, workerVars, historyVars>>

------------------------------------------------------------------------------
PostStep(c) == PostWait(c) \/ PostAppend(c) \/ PostSignal(c)

WorkerStep ==
    \/ WorkerStart \/ EpollWait \/ ReactorStops \/ ReactorDequeues
    \/ DrainTries \/ DrainFindsNothing \/ Pop \/ Release \/ RunEnd

OwnerStep == ThreadNewReturns \/ ThreadStop \/ ThreadJoin \/ ThreadFree

Next == (\E c \in Callers : PostBegin(c) \/ PostStep(c)) \/ WorkerStep \/ OwnerStep

Spec == Init /\ [][Next]_vars

\* The scheduler runs every runnable thread: the worker and a caller already
\* inside thread_post go on.  Nobody has to post, and nobody has to stop.
Fairness ==
    /\ WF_vars(WorkerStep)
    /\ \A c \in Callers : WF_vars(PostStep(c))
    /\ WF_vars(ThreadNewReturns \/ ThreadJoin \/ ThreadFree)

FairSpec == Spec /\ Fairness

------------------------------------------------------------------------------
(* Properties.                                                              *)

\* The variables stay in their sets.
TypeOK ==
    /\ enqueueSem \in Nat /\ dequeueSem \in Nat
    /\ list \in Seq(Items)
    /\ post \in [Callers -> {"idle", "wait", "append", "signal"}]
    /\ parcel \in [Callers -> Items \cup {NoItem}]
    /\ stopEvent \in BOOLEAN
    /\ batch \subseteq {"stop", "work"}
    /\ worker \in {"born", "loop", "take", "pop", "release", "run", "exit"}
    /\ draining \in BOOLEAN
    /\ item \in Items \cup {NoItem}
    /\ count \in Nat
    /\ owner \in {"creating", "up", "stopped", "joined", "freed"}
    /\ appended \in Seq(Items) /\ executed \in Seq(Items)
    /\ promised \subseteq Items /\ mark \in Nat

At(p) == {c \in Callers : post[c] = p}

\* 1 while the worker has taken a place or a signal it has not given back.
Holding(pc) == IF worker = pc THEN 1 ELSE 0

\* The places of the queue are accounted for: each is free, holds an item, or
\* is on its way between a semaphore and the list (fixed_queue_enqueue and
\* fixed_queue_dequeue do not update the two under one lock).
PlacesConserved ==
    enqueueSem + Len(list) + Cardinality(At("append")) + Holding("release") = Capacity

\* The dequeue semaphore never promises an item the list does not hold, so
\* list_front is never called on an empty list.
SignalsConserved ==
    dequeueSem + Cardinality(At("signal")) + Holding("pop") = Len(list)

\* The two semaphores and the list agree in every interleaving of posters
\* and worker: the queue neither overflows nor runs dry, and the variables stay
\* in their sets.
SemaphoresAgree == TypeOK /\ PlacesConserved /\ SignalsConserved

\* The item on its way between the list and its function.
InHand == IF worker = "release" \/ (worker = "exit" /\ item # NoItem)
          THEN <<item>> ELSE <<>>

\* Work is neither lost, duplicated nor reordered: what entered the list is
\* what was executed, then what the worker holds, then what is still queued.
FifoOnce == appended = executed \o InHand \o list

\* No post was between its append and its signal when the owner called
\* thread_stop.
QuietStop == promised = {appended[k] : k \in 1..mark}

\* The tear-down guarantee of run_thread, for an owner that stops the thread
\* while no other post is half done: every item whose thread_post returned
\* before thread_stop has been dispatched when the thread ends.
TeardownDispatched ==
    worker = "exit" /\ QuietStop => promised \subseteq Elements(executed)

\* The same guarantee as the comment in run_thread states it, whatever other
\* threads are doing: "Make sure we dispatch all queued work items before
\* exiting the thread."
StopDispatchesPosted ==
    worker = "exit" => promised \subseteq Elements(executed)

\* A work item is posting to its own thread and the queue is full.
SelfBlocked == post[Worker] = "wait" /\ enqueueSem = 0

\* The TODO in thread_post: once a work item posts to its own full queue
\* nothing can free a place again, neither other threads nor thread_stop.
SelfBlockIsForever == [][SelfBlocked => SelfBlocked']_vars

\* The worker is never stuck anywhere else: an accepted item is executed
\* unless the thread ends first or blocks on its own full queue.
AcceptedIsExecuted ==
    \A i \in Items :
        i \in Elements(list) ~> (i \in Elements(executed) \/ worker = "exit" \/ SelfBlocked)

\* thread_free comes back: after thread_stop the worker ends and is joined,
\* unless it is blocked on its own full queue.
StopIsJoined == (owner = "stopped") ~> (owner = "freed" \/ SelfBlocked)

\* The thread is a work queue: a FIFO that dispatches one item at a time.
WQ == INSTANCE WorkQueue WITH
          pending <- list,
          done    <- executed,
          taken   <- InHand,
          over    <- worker = "exit"
ImplementsWorkQueue == WQ!WSpec
==============================================================================
