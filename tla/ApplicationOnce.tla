---------------------------- MODULE ApplicationOnce ----------------------------
(***************************************************************************)
(* What one owned scope promises of its application: it is started at most *)
(* once, whatever number of launch commands Xpra runs, and never again     *)
(* after it ended.                                                         *)
(***************************************************************************)
VARIABLE application

Init == application = "never"

Start == application = "never" /\ application' = "running"

End == application = "running" /\ application' = "ended"

Spec == Init /\ [][Start \/ End]_application

================================================================================
