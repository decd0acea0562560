----------------------------- MODULE ConfigStore -----------------------------
(***************************************************************************)
(* What FrigateConfigService promises of one server's configuration: every *)
(* edit changes the configuration as it is at that moment, a save persists *)
(* it whole, and a revert drops exactly what was not saved.                *)
(***************************************************************************)
CONSTANTS Cameras, Global, Requests, Base

VARIABLES mem, disk

Init ==
    /\ \E present \in SUBSET Cameras : mem = {<<k, Base>> : k \in present \cup {Global}}
    /\ disk = mem

\* Write a setting of its own into one section.
Put(r, k) == mem' = mem \cup {<<k, r>>} /\ UNCHANGED disk

\* Drop a camera with all its settings.
Remove(c) == mem' = {s \in mem : s[1] # c} /\ UNCHANGED disk

Save == disk' = mem /\ UNCHANGED mem

Revert == mem' = disk /\ UNCHANGED disk

Next ==
    \/ \E r \in Requests, k \in Cameras \cup {Global} : Put(r, k)
    \/ \E c \in Cameras : Remove(c)
    \/ Save
    \/ Revert

Spec == Init /\ [][Next]_<<mem, disk>>
=============================================================================
