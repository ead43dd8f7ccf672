----------------------------- MODULE FocusStack -----------------------------
(***************************************************************************)
(* The audio manager's stack of profiles that hold the audio output         *)
(* (audio_manager/src/Audio_Manager.cpp): what a request and a release do   *)
(* to audio_control_stack, and whom they tell what.  The array is the       *)
(* sequence of its entries that are in use, bottom first.                   *)
(***************************************************************************)
EXTENDS Naturals, Sequences

CONSTANT MAX_PROFILE_ENTRIES   \* the length of audio_control_stack

ASSUME FocusAssumption == MAX_PROFILE_ENTRIES \in Nat \ {0, 1}

RequestTypes == {"PERMANENT", "TRANSIENT"}
Statuses == {"LOSS", "LOSS_TRANSIENT", "GAIN_TRANSIENT", "GAIN", "REGAINED"}

Entry(p, t) == [profile |-> p, type |-> t]
Tell(p, status) == [profile |-> p, status |-> status]

Granted(e) == Tell(e.profile, IF e.type = "PERMANENT" THEN "GAIN" ELSE "GAIN_TRANSIENT")

(* Nobody is told two things at once, so what is told is a set. *)
Outcome(s, told) == [stack |-> s, told |-> told]

Top(s) == s[Len(s)]

(* AddNewNode does nothing when the array is full. *)
AddNewNode(s, e) == IF Len(s) = MAX_PROFILE_ENTRIES THEN s ELSE Append(s, e)

(* RemoveNode shifts the entries above the index down. *)
RemoveNode(s, i) == [j \in 1..Len(s) - 1 |-> IF j < i THEN s[j] ELSE s[j + 1]]

(* Mutant of Interrupt: the new holder is never told. *)
InterruptWithoutGrant(s, e) ==
    IF Len(s) = MAX_PROFILE_ENTRIES
    THEN Outcome(s, {Tell(e.profile, "LOSS")})
    ELSE Outcome(AddNewNode(s, e), {Tell(Top(s).profile, "LOSS_TRANSIENT")})

(* Another profile asks for a call's focus while music holds the top. *)
Interrupt(s, e) ==
    IF Len(s) = MAX_PROFILE_ENTRIES
    THEN Outcome(s, {Tell(e.profile, "LOSS")})
    ELSE Outcome(AddNewNode(s, e), {Tell(Top(s).profile, "LOSS_TRANSIENT"), Granted(e)})

(* Another profile asks for lasting focus while music holds the top. *)
Replace(s, e) ==
    Outcome(AddNewNode(RemoveNode(s, Len(s)), e),
            {Tell(Top(s).profile, "LOSS"), Granted(e)})

(* Mutant of OnRequest: nobody is denied under a call. *)
RequestNeverDenied(s, e) ==
    CASE s = <<>> -> Outcome(AddNewNode(s, e), {Granted(e)})
      [] s # <<>> /\ Top(s).profile = e.profile -> Outcome(s, {Granted(Top(s))})
      [] s # <<>> /\ Top(s).profile # e.profile -> Interrupt(s, e)

OnRequest(s, e) ==
    CASE s = <<>> -> Outcome(AddNewNode(s, e), {Granted(e)})
      [] s # <<>> /\ Top(s).profile = e.profile -> Outcome(s, {Granted(Top(s))})
      [] s # <<>> /\ Top(s).profile # e.profile /\ Top(s).type = "TRANSIENT" ->
           Outcome(s, {Tell(e.profile, "LOSS_TRANSIENT")})
      [] s # <<>> /\ Top(s).profile # e.profile /\ Top(s).type = "PERMANENT" ->
           IF e.type = "TRANSIENT" THEN Interrupt(s, e) ELSE Replace(s, e)

(* GetIndex looks from the top down; 0 stands for its -1. *)
GetIndex(s, p) ==
    IF \E i \in 1..Len(s) : s[i].profile = p
    THEN CHOOSE i \in 1..Len(s) : /\ s[i].profile = p
                                  /\ \A j \in i + 1..Len(s) : s[j].profile # p
    ELSE 0

(* Mutant of OnRelease: the entry below is not told. *)
ReleaseTellsNobody(s, p) ==
    Outcome(IF GetIndex(s, p) = 0 THEN s ELSE RemoveNode(s, GetIndex(s, p)), {})

OnRelease(s, p) ==
    LET i == GetIndex(s, p)
        regains == i = Len(s) /\ i > 1 /\ s[i].type = "TRANSIENT"
    IN  IF i = 0
        THEN Outcome(s, {})
        ELSE Outcome(RemoveNode(s, i),
                     IF regains THEN {Tell(s[i - 1].profile, "REGAINED")} ELSE {})

Holds(s, p) == \E i \in 1..Len(s) : s[i].profile = p
==============================================================================
