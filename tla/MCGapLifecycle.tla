--------------------------- MODULE MCGapLifecycle ---------------------------
(* GapLifecycle for TLC: what bt_app.conf may say.                          *)
EXTENDS GapLifecycle, TLC

CONSTANTS sdp, pbap

Conf(profiles, on) == [profiles |-> profiles, enableDefault |-> on]

\* With a sink and the audio manager, and without, when a disable takes another
\* path; and enabled by default.
Speaker == Conf({A2DP_SINK, BT_AM, sdp, pbap}, FALSE)
Phone == Conf({sdp, pbap}, FALSE)
AlwaysOn == Conf({A2DP_SINK, BT_AM, sdp}, TRUE)

AllConfigurations == {Speaker, Phone, AlwaysOn}
OnByDefault == {AlwaysOn}
ByCommand == {Conf({A2DP_SINK, BT_AM, sdp}, FALSE)}
==============================================================================
