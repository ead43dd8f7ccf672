------------------------------ MODULE WorkQueue ------------------------------
(***************************************************************************)
(* What an OSI thread promises its callers (osi/include/thread.h): work    *)
(* items are accepted in some order, dispatched one at a time in that      *)
(* order, and never dispatched again or after the thread has ended.        *)
(***************************************************************************)
EXTENDS Sequences

CONSTANT Items

VARIABLES pending,   \* accepted items that nobody has taken yet, oldest first
          done,      \* items handed to their function, oldest first
          taken,     \* <<i>> while item i is between the queue and its function
          over       \* the thread has ended

wvars == <<pending, done, taken, over>>

WInit == pending = <<>> /\ done = <<>> /\ taken = <<>> /\ over = FALSE

Accept(i) ==
    /\ pending' = Append(pending, i)
    /\ UNCHANGED <<done, taken, over>>

Take ==
    /\ ~over
    /\ pending # <<>> /\ taken = <<>>
    /\ taken' = <<Head(pending)>>
    /\ pending' = Tail(pending)
    /\ UNCHANGED <<done, over>>

Dispatch ==
    /\ ~over
    /\ taken # <<>>
    /\ done' = done \o taken
    /\ taken' = <<>>
    /\ UNCHANGED <<pending, over>>

End ==
    /\ ~over
    /\ over' = TRUE
    /\ UNCHANGED <<pending, done, taken>>

WNext == (\E i \in Items : Accept(i)) \/ Take \/ Dispatch \/ End

WSpec == WInit /\ [][WNext]_wvars
==============================================================================
