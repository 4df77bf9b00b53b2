--------------------------- MODULE PersistentClient ---------------------------
(***************************************************************************)
(* `elsewindow --persistent` from the terminal: PersistentSession of       *)
(* elsewindow/persistent.py and the part of XpraSession.run that uses it,  *)
(* composed with the helpers, workers and the manager of PersistentAgent.  *)
(* A client runs one helper at a time over SSH, waits for its reply, and   *)
(* may be interrupted, time out or lose the connection at any moment; its  *)
(* helper then goes on unobserved.                                         *)
(*                                                                         *)
(* The other agents are other people's helpers: they do whatever helpers   *)
(* can do.                                                                 *)
(***************************************************************************)
EXTENDS PersistentAgent

CONSTANT Clients   \* those of the agents that are a client's helper
ASSUME ClientsAssumption == Clients \subseteq Agents

VARIABLES
  machine,   \* per client: what a probe finds as long as the client prepares, "unknown"
             \* when that has changed since the last probe
  phase,     \* per client: where PersistentSession is
  settings,  \* per client: what it wants to run
  watched    \* per client: the launch it recorded (PersistentSession.record)

runVars == <<phase, settings, watched>>
compositeVars == <<vars, machine, runVars>>

Machines == {"ready", "managerless", "lingerless"}
Preparing == {"probe", "consent", "enable", "reprobe", "identify", "start"}
Watching == {"starting", "attached"}
Waiting == {"fallback", "ensure"} \cup Watching
Phases == {"out", "ordinary", "done"} \cup Preparing \cup Waiting

ClientInit ==
  /\ Init
  /\ machine = [c \in Clients |-> "unknown"]
  /\ phase = [c \in Clients |-> "out"]
  /\ settings = [c \in Clients |-> NoRequest]
  /\ watched = [c \in Clients |-> NoToken]

---------------------------------------------------------------------------
(* Preparation: probe, consent, enable-linger, probe.  These helpers take no *)
(* lock and write nothing the others read.                                   *)

Becomes(c, p) == phase' = [phase EXCEPT ![c] = p]
Prepares(c, here, there) ==
  /\ phase[c] = here
  /\ Becomes(c, there)
  /\ UNCHANGED <<vars, settings, watched>>

\* The machine matters to a client that prepares, and to no other.
Sees(c, state) ==
  machine' = [machine EXCEPT ![c] = IF phase'[c] \in Preparing THEN state ELSE "unknown"]

Found(c) == IF machine[c] = "unknown" THEN Machines ELSE {machine[c]}

ClientRuns(c, request) ==
  /\ phase[c] \in {"out", "done"} /\ pc[c] = "idle"
  /\ Becomes(c, "probe")
  /\ settings' = [settings EXCEPT ![c] = request]
  /\ watched' = [watched EXCEPT ![c] = NoToken]
  /\ \E state \in Machines : Sees(c, state)
  /\ UNCHANGED vars

\* _probe_prerequisites: the machine as it is now.  Every reply may also be that
\* something is missing or does not answer.
Probed(c, here, unlingered) ==
  \E state \in Found(c) :
    /\ \/ state = "ready" /\ Prepares(c, here, "identify")
       \/ state = "lingerless" /\ Prepares(c, here, unlingered)
       \/ Prepares(c, here, "fallback")
    /\ Sees(c, state)

\* The first probe: without linger the user is asked.
Probes(c) == Probed(c, "probe", "consent")

\* confirm_linger: a terminal, an answer whenever it comes, and only y or yes.
Consents(c) ==
  /\ Prepares(c, "consent", "enable") \/ Prepares(c, "consent", "fallback")
  /\ Sees(c, machine[c])

\* Mutant of Enables: a linger that was enabled is as good as a probe.
EnablesTrusted(c) ==
  /\ Prepares(c, "enable", "identify") \/ Prepares(c, "enable", "fallback")
  /\ Sees(c, IF machine[c] = "lingerless" THEN "managerless" ELSE machine[c])

\* enable-linger looks first; loginctl or sudo may refuse, and the manager need not
\* run at once.  It may fail after the change, too.
Enables(c) ==
  /\ Prepares(c, "enable", "reprobe") \/ Prepares(c, "enable", "fallback")
  /\ \E state \in {"ready", "managerless"} :
       Sees(c, IF machine[c] = "lingerless" THEN state ELSE machine[c])

\* The second probe: asked once, not again.
Reprobes(c) == Probed(c, "reprobe", "fallback")

\* identify, and the checks of capabilities and of the desktop.
Identifies(c) == Prepares(c, "identify", "start") /\ Sees(c, machine[c])

---------------------------------------------------------------------------
(* Commands that meet the other helpers: ordinary-fallback, ensure, status *)

AsksFallback(c) ==
  /\ phase[c] = "fallback" /\ StartFallback(c)
  /\ UNCHANGED <<machine, runVars>>

AsksEnsure(c) ==
  /\ phase[c] = "start" /\ StartEnsure(c, settings[c])
  /\ Becomes(c, "ensure") /\ Sees(c, machine[c])
  /\ UNCHANGED <<settings, watched>>

AsksStatus(c) ==
  /\ phase[c] \in Watching /\ StartStatus(c, watched[c])
  /\ UNCHANGED <<machine, runVars>>

\* The reply of the helper, if its client still waits for it.
Told(c, p, t) ==
  /\ phase' = [phase EXCEPT ![c] = IF @ \in Waiting THEN p ELSE @]
  /\ watched' = [watched EXCEPT ![c] = IF phase[c] \in Waiting THEN t ELSE @]
  /\ UNCHANGED <<machine, settings>>

\* Mutant of FallbackAnswers: any answer is taken for permission.
FallbackAnswersAnyway(c) ==
  /\ \/ FallbackAllowed(c) \/ FallbackRefused(c)
     \/ phase[c] = "fallback" /\ FallbackWithoutRoot(c)
  /\ Told(c, "ordinary", NoToken)

\* The ordinary session itself is none of this module's business.
FallbackAnswers(c) ==
  \/ FallbackAllowed(c) /\ Told(c, "ordinary", NoToken)
  \/ phase[c] = "fallback" /\ FallbackWithoutRoot(c) /\ Told(c, "ordinary", NoToken)
  \/ FallbackRefused(c) /\ Told(c, "out", NoToken)

EnsureAnswers(c) ==
  \/ EnsureResume(c) /\ Told(c, "starting", rec[c].token)
  \/ EnsureCreated(c) /\ Told(c, "starting", token[c])

\* refresh: a reply about another launch than the recorded one is refused; before
\* the client is attached it waits for the display, and an end is a failed start.
StatusAnswers(c) ==
  \/ /\ StatusRunning(c)
     /\ IF rec[c].token = watched[c]
          THEN \E p \in {phase[c]} \cup IF rec[c].display THEN {"attached"} ELSE {} :
                 Told(c, p, watched[c])
          ELSE Told(c, "out", NoToken)
  \/ /\ StatusGone(c) \/ StatusEnded(c)
     /\ IF phase[c] = "attached" THEN Told(c, "done", watched[c]) ELSE Told(c, "out", NoToken)

HelperError(c) ==
  \/ LockTimeout(c) \/ InspectFails(c) \/ EnsureMismatch(c) \/ EnsureRefused(c)
  \/ EnsureBusy(c) \/ EnsureWriteFails(c) \/ EnsureStartFails(c) \/ EnsureStartTimeout(c)
  \/ StatusMismatch(c) \/ AgentKilled(c)

\* Mutant of HelperFails: a status that fails ends the session it watches.
HelperFailsAsEnd(c) ==
  /\ HelperError(c)
  /\ IF phase[c] = "attached" THEN Told(c, "done", watched[c]) ELSE Told(c, "out", NoToken)

\* Every error, an unreadable reply, and the death of the helper.
HelperFails(c) == HelperError(c) /\ Told(c, "out", NoToken)

\* The steps of a helper that nobody sees.
HelperSteps(c) ==
  /\ \/ Acquire(c) \/ EnsureRead(c) \/ StatusRead(c) \/ Inspect(c) \/ EnsureAbsent(c)
     \/ EnsureWrite(c) \/ EnsureSubmit(c)
  /\ UNCHANGED <<machine, runVars>>

\* The call runs into its deadline, SSH is lost, the user interrupts, the local Xpra
\* ends: the client leaves, and its helper and the service go on.
ClientGoes(c) ==
  /\ phase[c] \notin {"out", "done"}
  /\ Becomes(c, "out")
  /\ watched' = [watched EXCEPT ![c] = NoToken]
  /\ Sees(c, machine[c])
  /\ UNCHANGED <<vars, settings>>

---------------------------------------------------------------------------
\* External: logind, the administrator, somebody else's enable-linger.
MachineChanges(c) ==
  /\ machine[c] \in Machines
  /\ machine' = [machine EXCEPT ![c] = "unknown"]
  /\ UNCHANGED <<vars, runVars>>

PrepareStep(c) == Probes(c) \/ Enables(c) \/ Reprobes(c) \/ Identifies(c)
AskStep(c) == AsksFallback(c) \/ AsksEnsure(c) \/ AsksStatus(c)
AnswerStep(c) ==
  FallbackAnswers(c) \/ EnsureAnswers(c) \/ StatusAnswers(c) \/ HelperFails(c) \/ HelperSteps(c)

ClientStep(c) ==
  \/ \E r \in Requests : ClientRuns(c, r)
  \/ PrepareStep(c) \/ Consents(c) \/ AskStep(c) \/ AnswerStep(c) \/ ClientGoes(c)

ClientNext ==
  \/ \E c \in Clients : ClientStep(c) \/ MachineChanges(c)
  \/ /\ \/ \E a \in Agents \ Clients : AgentNext(a)
        \/ \E t \in Tokens : WorkerNext(t) \/ SessionNext(t) \/ ManagerNext(t)
     /\ UNCHANGED <<machine, runVars>>

\* What the client does by itself, it does in the end; the user need not.
ClientFairness ==
  \A c \in Clients : /\ WF_compositeVars(PrepareStep(c))
                     /\ WF_compositeVars(AskStep(c) \/ FallbackAnswers(c))

ClientSpec == ClientInit /\ [][ClientNext]_compositeVars /\ Fairness /\ ClientFairness

---------------------------------------------------------------------------
(* Properties                                                               *)

\* The client's variables stay within their types.
ClientTypeOK ==
  /\ machine \in [Clients -> Machines \cup {"unknown"}]
  /\ phase \in [Clients -> Phases]
  /\ settings \in [Clients -> Requests \cup {NoRequest}]
  /\ watched \in [Clients -> Tokens \cup {NoToken}]

\* As long as a client watches a launch, that launch was made from what the client
\* wants to run: no late, lost or foreign answer ties it to another one (_record).
WatchesItsOwn ==
  \A c \in Clients : phase[c] \in Watching =>
    /\ watched[c] \in known
    /\ record.token = watched[c] => record.request = settings[c]

\* A client that returned 0 because its session was over (wait) is right: while its
\* launch may still start an Xpra or run one, the manager is stopping it for good.
SeenToTheEnd ==
  \A c \in Clients :
    phase[c] = "done" /\ Owner(watched[c]) =>
      unit.token = watched[c] /\ unit.state = "deactivating"

\* prepare turns to an ordinary session only where no launch of the persistent one
\* owns the application, whatever failed before and whoever else is at work.
OrdinaryIsAlone ==
  [][\A c \in Clients : phase'[c] = "ordinary" /\ phase[c] # "ordinary" =>
        \A t \in Tokens : ~Owner(t)]_compositeVars

\* A service is asked for only on a machine that a probe found ready, unless the
\* machine changed after the probe: the answer of an enable-linger is no probe.
StartsPrepared ==
  [][\A c \in Clients : AsksEnsure(c) => machine[c] \in {"ready", "unknown"}]_compositeVars

\* When the Xpra of its launch is gone, the client stops watching it, attached or
\* not, without help from the user.
NoticesTheEnd ==
  \A c \in Clients, t \in Tokens :
    phase[c] \in Watching /\ watched[c] = t /\ xpra[t] = "exited"
      ~> ~(phase[c] \in Watching /\ watched[c] = t)

---------------------------------------------------------------------------
(* The inductive invariant                                                  *)

\* Between its claim and its end a worker's copy of the record is about the request
\* of the file.
CopyInv ==
  \A t \in Tokens :
    worker[t] \in {"spawn", "record", "watch", "publishWait", "publish"}
      => mem[t].request = record.request

\* Where a client is and what its helper does for it.
PhaseInv(c) ==
  /\ phase[c] \in Preparing => pc[c] = "idle" /\ settings[c] \in Requests
  /\ phase[c] \in {"identify", "start"} => machine[c] \in {"ready", "unknown"}
  /\ phase[c] = "fallback" => pc[c] = "idle" \/ op[c] = "fallback"
  /\ phase[c] = "ensure" => pc[c] # "idle" /\ op[c] = "ensure" /\ asked[c] = settings[c]
  /\ phase[c] \in Watching => pc[c] = "idle" \/ (op[c] = "status" /\ token[c] = watched[c])
  /\ phase[c] = "done" => watched[c] \in ended

ClientIInv ==
  /\ IInv
  /\ CopyInv
  /\ ClientTypeOK
  /\ WatchesItsOwn
  /\ \A c \in Clients : PhaseInv(c)

===============================================================================
