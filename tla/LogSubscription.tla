---------------------------- MODULE LogSubscription ----------------------------
(***************************************************************************)
(* How observers of one session come and go: every relay_main makes the    *)
(* session's directory if it must, counts the sockets in it, binds its own *)
(* and, when its loop ends, unlinks it and removes the directory if it is  *)
(* empty.  No lock orders them; each step is one system call.  LogStream   *)
(* describes what a relay does between bind and unlink.                    *)
(*                                                                         *)
(* Source: elsewindow/log_transport.py.                                    *)
(***************************************************************************)
EXTENDS Integers, FiniteSets

CONSTANTS
  Observers,       \* relay processes of one session
  MaxSubscribers   \* MAX_SUBSCRIBERS; 16 in the code

VARIABLES
  directory,  \* the session's directory exists
  sockets,    \* the observers whose socket is in it
  observer,   \* per observer: the next system call of its relay, or "bound"
  attempt,    \* per observer: the attempt of relay_main's binding loop
  outcome     \* per observer: why its last subscription ended, if it failed

subscriptionVars == <<directory, sockets, observer, attempt, outcome>>

SubscriptionInit ==
  /\ directory = FALSE
  /\ sockets = {}
  /\ observer = [o \in Observers |-> "away"]
  /\ attempt = [o \in Observers |-> 0]
  /\ outcome = [o \in Observers |-> "none"]

Calls(o, here, there) == observer[o] = here /\ observer' = [observer EXCEPT ![o] = there]

Ended(o, how) == outcome' = [outcome EXCEPT ![o] = how]

---------------------------------------------------------------------------
Arrives(o) ==
  /\ Calls(o, "away", "mkdir")
  /\ attempt' = [attempt EXCEPT ![o] = 0]
  /\ Ended(o, "none")
  /\ UNCHANGED <<directory, sockets>>

\* _directory(create=True): mkdir, existing or not.
Mkdir(o) ==
  /\ Calls(o, "mkdir", "lstat")
  /\ directory' = TRUE
  /\ UNCHANGED <<sockets, attempt, outcome>>

Lstat(o) ==
  /\ Calls(o, "lstat", "count")
  /\ directory
  /\ UNCHANGED <<directory, sockets, attempt, outcome>>

\* Another relay removed the directory in between.  `directory` is still unset
\* on the first attempt.
LstatFails(o) ==
  /\ Calls(o, "lstat", IF attempt[o] = 0 THEN "away" ELSE "rmdir")
  /\ ~directory
  /\ Ended(o, "failed")
  /\ UNCHANGED <<directory, sockets, attempt>>

Count(o) ==
  /\ Calls(o, "count", "bind")
  /\ directory
  /\ Cardinality(sockets) < MaxSubscribers
  /\ UNCHANGED <<directory, sockets, attempt, outcome>>

\* "too many remote log subscribers"
CountRefuses(o) ==
  /\ Calls(o, "count", "rmdir")
  /\ directory
  /\ Cardinality(sockets) >= MaxSubscribers
  /\ Ended(o, "refused")
  /\ UNCHANGED <<directory, sockets, attempt>>

CountFails(o) ==
  /\ Calls(o, "count", "rmdir")
  /\ ~directory
  /\ Ended(o, "failed")
  /\ UNCHANGED <<directory, sockets, attempt>>

Bind(o) ==
  /\ Calls(o, "bind", "bound")
  /\ directory
  /\ sockets' = sockets \cup {o}
  /\ UNCHANGED <<directory, attempt, outcome>>

\* Mutant of BindRetries: the loop has no end.
BindRetriesAlways(o) ==
  /\ Calls(o, "bind", "mkdir")
  /\ ~directory
  /\ UNCHANGED <<directory, sockets, attempt, outcome>>

\* FileNotFoundError: once more from mkdir.
BindRetries(o) ==
  /\ Calls(o, "bind", "mkdir")
  /\ ~directory
  /\ attempt[o] = 0
  /\ attempt' = [attempt EXCEPT ![o] = 1]
  /\ UNCHANGED <<directory, sockets, outcome>>

BindFails(o) ==
  /\ Calls(o, "bind", "rmdir")
  /\ ~directory
  /\ attempt[o] = 1
  /\ Ended(o, "failed")
  /\ UNCHANGED <<directory, sockets, attempt>>

\* Mutant of Unlink: the directory goes first.
UnlinkLast(o) ==
  /\ Calls(o, "bound", "away")
  /\ directory' = (directory /\ sockets # {})
  /\ sockets' = sockets \ {o}
  /\ UNCHANGED <<attempt, outcome>>

\* The loop ended.
Unlink(o) ==
  /\ Calls(o, "bound", "rmdir")
  /\ sockets' = sockets \ {o}
  /\ UNCHANGED <<directory, attempt, outcome>>

\* Mutant of Rmdir: the directory is removed with what is in it.
Rmtree(o) ==
  /\ Calls(o, "rmdir", "away")
  /\ directory' = FALSE
  /\ sockets' = {}
  /\ UNCHANGED <<attempt, outcome>>

\* Removed when empty; otherwise, or when another was faster, nothing happens.
Rmdir(o) ==
  /\ Calls(o, "rmdir", "away")
  /\ directory' = (directory /\ sockets # {})
  /\ UNCHANGED <<sockets, attempt, outcome>>

\* SIGKILL leaves the socket behind.
Killed(o) ==
  /\ observer[o] \notin {"away", "dead"}
  /\ observer' = [observer EXCEPT ![o] = "dead"]
  /\ UNCHANGED <<directory, sockets, attempt, outcome>>

---------------------------------------------------------------------------
Subscribes(o) ==
  Mkdir(o) \/ Lstat(o) \/ LstatFails(o) \/ Count(o) \/ CountRefuses(o) \/ CountFails(o)
    \/ Bind(o) \/ BindRetries(o) \/ BindFails(o)

Unsubscribes(o) == Unlink(o) \/ Rmdir(o)

SubscriptionNext == \E o \in Observers : Arrives(o) \/ Subscribes(o) \/ Unsubscribes(o) \/ Killed(o)

SubscriptionSpec == SubscriptionInit /\ [][SubscriptionNext]_subscriptionVars

\* A relay does not stop between system calls, whatever others do; how long it
\* stays subscribed is open.
FairSubscriptionSpec == SubscriptionSpec /\ \A o \in Observers : WF_subscriptionVars(Subscribes(o) \/ Rmdir(o))

---------------------------------------------------------------------------
(* Properties *)

\* Types of the directory and of the relays' states.
SubscriptionTypeOK ==
  /\ directory \in BOOLEAN
  /\ sockets \subseteq Observers
  /\ observer \in [Observers -> {"away", "mkdir", "lstat", "count", "bind", "bound", "rmdir", "dead"}]
  /\ attempt \in [Observers -> {0, 1}]
  /\ outcome \in [Observers -> {"none", "refused", "failed"}]

\* "Concurrent subscribers have separate sockets; closing one does not remove
\* another" (doc/security.md): whoever is subscribed can be reached.
SubscribedIsReachable == \A o \in Observers : observer[o] = "bound" => directory /\ o \in sockets

\* When every observer left in its own time neither a socket nor the session's directory
\* remains (the directory of the user above it stays), however their system calls
\* interleaved.
NothingRemains ==
  (\A o \in Observers : observer[o] = "away") => ~directory /\ sockets = {}

\* A subscription is decided, however often others remove the directory.
SubscriptionEnds ==
  \A o \in Observers : observer[o] = "mkdir" ~> observer[o] \in {"bound", "away", "dead"}

================================================================================
