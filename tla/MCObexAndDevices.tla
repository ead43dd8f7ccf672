-------------------------- MODULE MCObexAndDevices --------------------------
(* ObexClient and GapDevices for TLC: two parts that share no state, so a      *)
(* behaviour is one of either part.                                         *)
EXTENDS ObexClient, GapDevices

VARIABLE part

EitherInit == Init /\ DevicesInit /\ part \in {"obex", "devices"}

EitherNext ==
    /\ UNCHANGED part
    /\ \/ part = "obex" /\ Next /\ UNCHANGED deviceVars
       \/ part = "devices" /\ DevicesNext /\ UNCHANGED vars

\* In the part that does not move, nothing that fairness is assumed of is enabled.
EitherSpec ==
    /\ EitherInit /\ [][EitherNext]_<<vars, deviceVars, part>>
    /\ Fairness /\ DevicesFairness
=============================================================================
