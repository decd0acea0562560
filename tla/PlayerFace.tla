----------------------------- MODULE PlayerFace -----------------------------
(***************************************************************************)
(* What a go2rtc player shows to the page it is embedded in: the text of   *)
(* its .mode element, which LiveView.tsx reads to tell whether the stream  *)
(* plays.  A connection begins as "loading" and becomes one of the ways of *)
(* playing or an error; an error is shown only in place of "loading".      *)
(***************************************************************************)
CONSTANT Playing    \* the texts of a player that plays

VARIABLE text

Init == text = ""

Load == text' = "loading"

Play == text \in Playing \cup {"loading", "error"} /\ text' \in Playing

Fail == text = "loading" /\ text' = "error"

Next == Load \/ Play \/ Fail

Spec == Init /\ [][Next]_text
=============================================================================
