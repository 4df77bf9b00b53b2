--------------------------- MODULE PersistentService ---------------------------
(***************************************************************************)
(* What `elsewindow --persistent` promises of one session key, seen from   *)
(* outside: Xpra servers of successive launches, never two at a time, and  *)
(* a launch never starts once a later one did.                             *)
(***************************************************************************)
EXTENDS Integers

CONSTANT MaxToken

VARIABLES
  live,     \* the launches whose Xpra runs
  started   \* the launches whose Xpra ever ran

serviceVars == <<live, started>>

Init == live = {} /\ started = {}

Start(t) ==
  /\ live = {}
  /\ \A u \in started : u < t
  /\ live' = {t}
  /\ started' = started \cup {t}

End(t) ==
  /\ t \in live
  /\ live' = live \ {t}
  /\ UNCHANGED started

Next == \E t \in 1 .. MaxToken : Start(t) \/ End(t)

Spec == Init /\ [][Next]_serviceVars

================================================================================
