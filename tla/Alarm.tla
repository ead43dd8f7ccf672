-------------------------------- MODULE Alarm --------------------------------
(***************************************************************************)
(* The alarms of osi/src/alarm.cc: one sorted list under one mutex (the    *)
(* monitor), one POSIX timer armed for the head of the list, and one       *)
(* thread that runs the callbacks, each under the callback lock of its     *)
(* alarm.  Other threads set and cancel alarms; so do the callbacks.       *)
(*                                                                         *)
(* What is done under the monitor is one step, except where the dispatcher *)
(* waits for a callback lock while it holds the monitor.  An alarm's       *)
(* callback, data and deadline are set and cleared together, so the        *)
(* deadline stands for the three.  Left out: alarm_free, which is          *)
(* alarm_cancel and a release, and alarm_cleanup, which nothing calls.     *)
(***************************************************************************)
EXTENDS Integers, Sequences, FiniteSets

CONSTANTS Threads,     \* threads that set and cancel alarms
          Dispatcher,  \* callback_thread
          Alarms,      \* the alarm_t objects
          NoAlarm,
          Periods,     \* the delays and periods asked for, in ms
          MaxTime,     \* bound: the clock stops here
          MaxExpired   \* bound: expiries outstanding when an alarm is set or cancelled

ASSUME AlarmAssumption ==
    /\ Dispatcher \notin Threads /\ NoAlarm \notin Alarms
    /\ Periods \subseteq Nat \ {0}
    /\ MaxTime \in Nat /\ MaxExpired \in Nat

VARIABLES
    time,          \* now()
    alarms,        \* the list, earliest deadline first
    deadline,      \* of each alarm, 0 when it is not set
    grid,          \* of a periodic alarm: its period, and created modulo the period
    timer,         \* the time the POSIX timer is armed for, 0 when disarmed
    fired,         \* expiries whose timer_callback has not run yet
    alarm_expired, \* the semaphore
    dispatcher,    \* where callback_dispatch is
    firing,        \* the alarm it took from the list
    canceller,     \* where each caller is inside alarm_cancel
    target,        \* the alarm each caller is cancelling
    clean,         \* history: nobody has set that alarm since the cancel began
    quiet          \* history: alarms cancelled for good, as far as callers know

scheduleVars == <<alarms, deadline, grid>>
timerVars    == <<timer, fired, alarm_expired>>
cancelVars   == <<canceller, target, clean, quiet>>
vars == <<time, scheduleVars, timerVars, dispatcher, firing, cancelVars>>

Callers == Threads \cup {Dispatcher}

OneShot == [phase |-> 0, period |-> 0]
Periodic(p) == [phase |-> time % p, period |-> p]

Init ==
    /\ time = 0
    /\ alarms = <<>> /\ deadline = [a \in Alarms |-> 0]
    /\ grid = [a \in Alarms |-> OneShot]
    /\ timer = 0 /\ fired = 0 /\ alarm_expired = 0
    /\ dispatcher = "wait" /\ firing = NoAlarm
    /\ canceller = [c \in Callers |-> "out"] /\ target = [c \in Callers |-> NoAlarm]
    /\ clean = [c \in Callers |-> FALSE] /\ quiet = [a \in Alarms |-> FALSE]

------------------------------------------------------------------------------
(* Locks.                                                                   *)

\* The dispatcher holds the monitor across steps only while it waits for a
\* callback lock.
MonitorFree == dispatcher # "lock"

\* Mutant: the callback lock is not recursive.
LockFreeOnce(a, c) ==
    /\ ~(dispatcher = "callback" /\ firing = a)
    /\ \A d \in Callers \ {c} : ~(canceller[d] = "locked" /\ target[d] = a)

\* The callback lock is recursive: the dispatcher may take it again.
LockFree(a, c) ==
    /\ dispatcher = "callback" /\ firing = a => c = Dispatcher
    /\ \A d \in Callers \ {c} : ~(canceller[d] = "locked" /\ target[d] = a)

\* A thread may call when it is not inside alarm_cancel; the dispatcher calls
\* from a callback.
MayCall(c) ==
    /\ canceller[c] = "out" /\ MonitorFree
    /\ c = Dispatcher => dispatcher = "callback"
    /\ fired + alarm_expired < MaxExpired

------------------------------------------------------------------------------
(* The list and the timer, under the monitor.                               *)

\* list_remove, of an alarm that may not be in the list.
Without(list, a) ==
    IF \A k \in 1..Len(list) : list[k] # a THEN list
    ELSE LET at == CHOOSE k \in 1..Len(list) : list[k] = a
         IN  SubSeq(list, 1, at - 1) \o SubSeq(list, at + 1, Len(list))

\* Before the first alarm that is not earlier: both branches of
\* schedule_next_instance.
InsertSorted(list, a, due) ==
    LET at == CHOOSE k \in 1..(Len(list) + 1) :
                 /\ \A j \in 1..(k - 1) : due[list[j]] < due[a]
                 /\ k \in 1..Len(list) => due[list[k]] >= due[a]
    IN  SubSeq(list, 1, at - 1) \o <<a>> \o SubSeq(list, at, Len(list))

\* reschedule_root_alarm, if needed.  A timer set to a time that has passed
\* expires at once; timer_gettime then finds it disarmed, and the semaphore
\* (posts, before this) is posted by hand as well.
Reschedule(needed, list, due, posts) ==
    LET late == list # <<>> /\ due[Head(list)] <= time
    IN  /\ timer' = IF ~needed THEN timer
                    ELSE IF late \/ list = <<>> THEN 0 ELSE due[Head(list)]
        /\ fired' = IF needed /\ late THEN fired + 1 ELSE fired
        /\ alarm_expired' = IF needed /\ late THEN posts + 1 ELSE posts

IsFront(list, a) == list # <<>> /\ Head(list) = a

\* Mutant: the next period starts when the callback is dispatched.
NextInstanceFromNow(g) == time + g.period

\* The next time of a periodic alarm, a multiple of its period after its
\* creation.
NextInstance(g) == time + g.period - ((time - g.phase) % g.period)

------------------------------------------------------------------------------
(* alarm_set, alarm_set_periodic, alarm_cancel.                             *)

\* Mutant: an alarm that is pending is not removed from the list first.
AlarmSetKeepsEntry(c, a, p, periodic) ==
    LET due == [deadline EXCEPT ![a] = time + p]
        list == InsertSorted(alarms, a, due)
    IN  /\ MayCall(c) /\ Len(alarms) <= Cardinality(Alarms)
        /\ deadline' = due /\ alarms' = list
        /\ grid' = [grid EXCEPT ![a] = IF periodic THEN Periodic(p) ELSE OneShot]
        /\ Reschedule(IsFront(alarms, a) \/ IsFront(list, a), list, due, alarm_expired)
        /\ clean' = [d \in Callers |-> clean[d] /\ target[d] # a]
        /\ quiet' = [quiet EXCEPT ![a] = FALSE]
        /\ UNCHANGED <<time, dispatcher, firing, canceller, target>>

AlarmSet(c, a, p, periodic) ==
    LET due == [deadline EXCEPT ![a] = time + p]
        list == InsertSorted(Without(alarms, a), a, due)
    IN  /\ MayCall(c)
        /\ deadline' = due /\ alarms' = list
        /\ grid' = [grid EXCEPT ![a] =
                       IF periodic THEN Periodic(p) ELSE OneShot]
        /\ Reschedule(IsFront(alarms, a) \/ IsFront(list, a), list, due, alarm_expired)
        /\ clean' = [d \in Callers |-> clean[d] /\ target[d] # a]
        /\ quiet' = [quiet EXCEPT ![a] = FALSE]
        /\ UNCHANGED <<time, dispatcher, firing, canceller, target>>

\* Mutant: the timer stays armed for the cancelled alarm.
AlarmCancelKeepsTimer(c, a) ==
    /\ MayCall(c)
    /\ deadline' = [deadline EXCEPT ![a] = 0] /\ alarms' = Without(alarms, a)
    /\ canceller' = [canceller EXCEPT ![c] = "waiting"]
    /\ target' = [target EXCEPT ![c] = a]
    /\ clean' = [clean EXCEPT ![c] = (c = Dispatcher => firing # a)]
    /\ grid' = [grid EXCEPT ![a] = OneShot]
    /\ UNCHANGED <<time, timerVars, dispatcher, firing, quiet>>

\* The period stays in the object but alarm_set overwrites it before its next
\* use.  A callback that cancels its own alarm is promised less: it is in
\* progress.
AlarmCancel(c, a) ==
    LET due == [deadline EXCEPT ![a] = 0]
        list == Without(alarms, a)
    IN  /\ MayCall(c)
        /\ deadline' = due /\ alarms' = list
        /\ Reschedule(IsFront(alarms, a), list, due, alarm_expired)
        /\ canceller' = [canceller EXCEPT ![c] = "waiting"]
        /\ target' = [target EXCEPT ![c] = a]
        /\ clean' = [clean EXCEPT ![c] = (c = Dispatcher => firing # a)]
        /\ grid' = [grid EXCEPT ![a] = OneShot]
        /\ UNCHANGED <<time, dispatcher, firing, quiet>>

\* Mutant: alarm_cancel does not wait for the callback.
CancelDoesNotWait(c) ==
    /\ canceller[c] = "waiting"
    /\ canceller' = [canceller EXCEPT ![c] = "locked"]
    /\ UNCHANGED <<time, scheduleVars, timerVars, dispatcher, firing, target, clean, quiet>>

CancelLocks(c) ==
    /\ canceller[c] = "waiting" /\ LockFree(target[c], c)
    /\ canceller' = [canceller EXCEPT ![c] = "locked"]
    /\ UNCHANGED <<time, scheduleVars, timerVars, dispatcher, firing, target, clean, quiet>>

CancelReturns(c) ==
    /\ canceller[c] = "locked"
    /\ canceller' = [canceller EXCEPT ![c] = "out"]
    /\ target' = [target EXCEPT ![c] = NoAlarm]
    /\ clean' = [clean EXCEPT ![c] = FALSE]
    /\ quiet' = [quiet EXCEPT ![target[c]] = @ \/ clean[c]]
    /\ UNCHANGED <<time, scheduleVars, timerVars, dispatcher, firing>>

------------------------------------------------------------------------------
(* The clock, the timer's notification and the dispatching thread.          *)

Tick ==
    /\ time < MaxTime
    /\ time' = time + 1
    /\ IF timer = time + 1 THEN timer' = 0 /\ fired' = fired + 1
                           ELSE UNCHANGED <<timer, fired>>
    /\ UNCHANGED <<scheduleVars, alarm_expired, dispatcher, firing, cancelVars>>

TimerCallback ==
    /\ fired > 0
    /\ fired' = fired - 1 /\ alarm_expired' = alarm_expired + 1
    /\ UNCHANGED <<time, scheduleVars, timer, dispatcher, firing, cancelVars>>

DispatchWakes ==
    /\ dispatcher = "wait" /\ alarm_expired > 0
    /\ dispatcher' = "woken" /\ alarm_expired' = alarm_expired - 1
    /\ UNCHANGED <<time, scheduleVars, timer, fired, firing, cancelVars>>

NothingDue == alarms # <<>> => deadline[Head(alarms)] > time

DispatchFindsNothing ==
    /\ dispatcher = "woken" /\ NothingDue
    /\ dispatcher' = "wait"
    /\ Reschedule(TRUE, alarms, deadline, alarm_expired)
    /\ UNCHANGED <<time, scheduleVars, firing, cancelVars>>

\* Mutant: the timer is not set for the alarm that is now the earliest.
DispatchTakesKeepsTimer ==
    /\ dispatcher = "woken" /\ ~NothingDue
    /\ deadline' = [deadline EXCEPT ![Head(alarms)] = 0] /\ alarms' = Tail(alarms)
    /\ dispatcher' = "lock" /\ firing' = Head(alarms)
    /\ UNCHANGED <<time, grid, timerVars, cancelVars>>

\* The alarm leaves the list, or is put back for its next period; the monitor
\* stays locked until its callback lock is taken.
DispatchTakes ==
    LET a == Head(alarms)
        periodic == grid[a] # OneShot
        due == [deadline EXCEPT ![a] = IF periodic THEN NextInstance(grid[a]) ELSE 0]
        list == IF periodic THEN InsertSorted(Tail(alarms), a, due) ELSE Tail(alarms)
    IN  /\ dispatcher = "woken" /\ ~NothingDue
        /\ deadline' = due /\ alarms' = list
        /\ Reschedule(TRUE, list, due, alarm_expired)
        /\ dispatcher' = "lock" /\ firing' = a
        /\ UNCHANGED <<time, grid, cancelVars>>

DispatchLocks ==
    /\ dispatcher = "lock" /\ LockFree(firing, Dispatcher)
    /\ dispatcher' = "callback"
    /\ UNCHANGED <<time, scheduleVars, timerVars, firing, cancelVars>>

CallbackReturns ==
    /\ dispatcher = "callback" /\ canceller[Dispatcher] = "out"
    /\ dispatcher' = "wait" /\ firing' = NoAlarm
    /\ UNCHANGED <<time, scheduleVars, timerVars, cancelVars>>

------------------------------------------------------------------------------
Call(c) ==
    \E a \in Alarms :
        \/ \E p \in Periods, periodic \in BOOLEAN : AlarmSet(c, a, p, periodic)
        \/ AlarmCancel(c, a)

CancelStep(c) == CancelLocks(c) \/ CancelReturns(c)

DispatchStep ==
    \/ DispatchWakes \/ DispatchFindsNothing \/ DispatchTakes
    \/ DispatchLocks \/ CallbackReturns

Next ==
    \/ \E c \in Callers : Call(c) \/ CancelStep(c)
    \/ Tick \/ TimerCallback \/ DispatchStep

Spec == Init /\ [][Next]_vars

\* The kernel runs the timer's notification, the dispatcher and whoever is
\* inside alarm_cancel.  Strong fairness says that the program's callbacks and
\* threads do not call alarm_cancel and alarm_set without end: a callback
\* returns, and a lock that others only take for a moment is obtained.  Nobody
\* has to call, and the clock need not go on.
Fairness ==
    /\ WF_vars(TimerCallback) /\ WF_vars(DispatchStep)
    /\ SF_vars(DispatchLocks) /\ SF_vars(CallbackReturns)
    /\ \A c \in Callers : WF_vars(CancelReturns(c)) /\ SF_vars(CancelLocks(c))

FairSpec == Spec /\ Fairness

------------------------------------------------------------------------------
(* Properties.                                                              *)

\* The variables stay in their sets.
TypeOK ==
    /\ time \in 0..MaxTime
    /\ alarms \in Seq(Alarms) /\ deadline \in [Alarms -> Nat]
    /\ grid \in [Alarms -> [phase : Nat, period : Nat]]
    /\ timer \in Nat /\ fired \in Nat /\ alarm_expired \in Nat
    /\ dispatcher \in {"wait", "woken", "lock", "callback"}
    /\ firing \in Alarms \cup {NoAlarm}
    /\ canceller \in [Callers -> {"out", "waiting", "locked"}]
    /\ target \in [Callers -> Alarms \cup {NoAlarm}]
    /\ clean \in [Callers -> BOOLEAN] /\ quiet \in [Alarms -> BOOLEAN]

\* alarm.h on alarm_cancel: "When this call returns, the caller has a
\* guarantee that the callback is not in progress and will not be called".
\* Until somebody sets the alarm again, and except for a callback that
\* cancels itself, whatever the dispatcher was doing.
CancelIsFinal ==
    \A a \in Alarms : quiet[a] => deadline[a] = 0 /\ firing # a

\* The list holds each alarm that is set, once, the earliest first: setting
\* an alarm that is pending moves it.  And the variables stay in their sets.
ListIsSchedule ==
    /\ TypeOK
    /\ \A a \in Alarms :
          Cardinality({k \in DOMAIN alarms : alarms[k] = a}) = IF deadline[a] # 0 THEN 1 ELSE 0
    /\ \A j, k \in DOMAIN alarms : j < k => deadline[alarms[j]] <= deadline[alarms[k]]

\* No expiry is lost: when an alarm is set, the timer is armed for the
\* earliest one, or the dispatcher has been, or is about to be, woken up.
HeadIsCovered ==
    alarms # <<>> =>
        timer = deadline[Head(alarms)] \/ fired + alarm_expired > 0 \/ dispatcher = "woken"

\* A periodic alarm does not drift, however late its callbacks run.
PeriodsDoNotDrift ==
    \A a \in Alarms :
        grid[a] # OneShot /\ deadline[a] # 0 =>
            (deadline[a] - grid[a].phase) % grid[a].period = 0

\* An alarm that is due is called, cancelled or set anew: callbacks of others,
\* and threads that hold callback locks, do not keep it back for ever.
DueIsDispatched ==
    \A a \in Alarms :
        (deadline[a] # 0 /\ deadline[a] <= time) ~> (deadline[a] = 0 \/ deadline[a] > time)

\* alarm_cancel returns: the locks are taken in one order, and a callback that
\* cancels its own alarm does not wait for itself.
CancelReturnsAtLast ==
    \A c \in Callers : (canceller[c] # "out") ~> (canceller[c] = "out")
==============================================================================
