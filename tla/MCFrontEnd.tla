----------------------------- MODULE MCFrontEnd -----------------------------
(* FrontEnd with two cameras and a few rows, rules, lines and settings, for *)
(* TLC.                                                                    *)
EXTENDS FrontEnd, TLC

CONSTANTS yard, gate

MCCameras == {yard, gate}
MCFilters == {{1, 2, 3}, {1, 3}}
MCAll == {1, 2, 3}

R(id, at) == [id |-> id, at |-> at]
MCRules == yard :> <<R(1, "x")>> @@ gate :> <<>>

MCOutline == [line |-> <<"x", "y">>, zone |-> <<"x", "y", "x">>]

MCLines == yard :> <<"x">> @@ gate :> <<>>

S(from, to) == [start |-> from, end |-> to]
MCRecorded == yard :> <<S(0, 6), S(10, 12)>> @@ gate :> <<S(2, 4), S(7, 9)>>

D(label, camera) == [label |-> label, camera |-> camera]
MCDetection ==
  <<D("fire_detected", yard), D("smoke_detected", yard), D("abandoned_object", gate),
    D("fire_detected", gate), D("fire_detected", yard), D("epp_violation", yard)>>

MCRows == 1 :> [shown |-> "x", hidden |-> "s"]
MCConfig == [field |-> "x", telegram |-> "off"]
MCNotes == <<[id |-> 1, at |-> "x"], [id |-> 2, at |-> "x"]>>
MCNames == <<"ana", "unknown">>
=============================================================================
