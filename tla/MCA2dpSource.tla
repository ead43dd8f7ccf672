---------------------------- MODULE MCA2dpSource ----------------------------
(* A2dpSource and AvrcpVolume for TLC: two parts that share no state that a   *)
(* property tells apart, so a behaviour is one of either part.               *)
EXTENDS A2dpSource, AvrcpVolume

VARIABLE part

OfPlayers == {"PLAY_STATUS_CHANGED", "PLAY_POS_CHANGED", "TRACK_CHANGED"}
OfTheTarget == {"ADDR_PLAYER_CHANGED"}

EitherInit ==
    /\ Init /\ VolumeInit
    /\ part \in {"source", "volume"}
    /\ part = "source" => remoteVolume = 0

EitherNext ==
    /\ UNCHANGED part
    /\ \/ part = "source" /\ Next /\ UNCHANGED volumeVars
       \/ part = "volume" /\ VolumeNext /\ UNCHANGED vars

EitherSpec == EitherInit /\ [][EitherNext]_<<vars, volumeVars, part>> /\ Fairness
=============================================================================
