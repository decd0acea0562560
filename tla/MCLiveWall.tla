----------------------------- MODULE MCLiveWall -----------------------------
(* LiveWall with two cameras, one of them with audio, for TLC.             *)
EXTENDS LiveWall

CONSTANTS yard, gate

MCCameras == {yard, gate}
MCAudio == {yard}
MCListings == {<<gate>>, <<yard, gate>>}
=============================================================================
