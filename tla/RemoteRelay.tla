----------------------------- MODULE RemoteRelay -----------------------------
(***************************************************************************)
(* The ordinary remote relay: remote_main of elsewindow/journal.py runs    *)
(* one command (Xpra, or a capability probe) on the remote host, with a    *)
(* private session bus if asked to (elsewindow/session_bus.py), reads its  *)
(* two output pipes, passes the lines to the journal and forwards the raw  *)
(* bytes over SSH without ever waiting for a reader.                       *)
(*                                                                         *)
(* Everything around it moves on its own: the command and what it leaves   *)
(* behind write, close their pipes and exit or do not; the client reads,   *)
(* is late or goes; the owner of the process group signals.  The relay's   *)
(* own steps and its clock are fair, nothing else is.                      *)
(*                                                                         *)
(* A unit of output is a number, counted per stream from 1.  A deadline is *)
(* a state that time reaches once the deadline runs.                       *)
(***************************************************************************)
EXTENDS Naturals, Sequences

CONSTANTS
    Streams,        \* stdout and stderr
    Error,          \* stderr
    WithBus,        \* with_session_bus: the command is Xpra, not a probe
    MaxOutput,      \* bound: units the command writes to stderr
    MaxOther,       \* bound: units it writes to another stream
    MaxQueue,       \* MAX_QUEUE: units waiting for the reader of one stream
    MaxLine,        \* MAX_LINE: units of an unfinished line
    PipeCapacity,   \* of each output pipe of the command
    Capacity        \* of the SSH channel of each stream

ASSUME StreamsAssumption == Error \in Streams /\ WithBus \in BOOLEAN
ASSUME LimitsAssumption ==
    /\ MaxOutput \in Nat /\ MaxOther \in 0 .. MaxOutput
    /\ MaxQueue \in Nat \ {0} /\ MaxLine \in Nat \ {0}
    /\ PipeCapacity \in Nat \ {0} /\ Capacity \in Nat \ {0}

VARIABLES
    pc,         \* where remote_main is
    outcome,    \* how it will end
    stopping,   \* stopping_at is set
    noticed,    \* exited_at is set
    over,       \* the deadlines that have passed
    child,      \* the command
    bus,        \* the private bus: [daemon, directory]
    writers,    \* per stream: somebody holds the writing end of the pipe
    sent,       \* per stream: units written to the pipe
    read,       \* per stream: units the relay has read
    held,       \* per stream: units of an unfinished line (XpraLogStream.pending)
    emitted,    \* per stream: units passed to the journal
    watched,    \* the streams registered with the selector
    forwarding, \* per stream: what ForwardedOutput keeps, and the SSH channel
    reported,   \* the loss was reported to the journal
    closed,     \* the streams whose reader has gone
    taken       \* per stream: the units the client took

outputVars == <<sent, read, held, emitted>>
forwardVars == <<forwarding, reported>>
clientVars == <<closed, taken>>
vars == <<pc, outcome, stopping, noticed, over, child, bus, writers, watched,
          outputVars, forwardVars, clientVars>>

-----------------------------------------------------------------------------
Least(m, n) == IF m < n THEN m ELSE n

\* The relay's own last unit on stderr: "elsewindow: ..."
Message == MaxOutput + 1
Units == 1 .. Message

Start == {"mkdir", "daemon", "ready", "undoDaemon", "undoDirectory", "fallback", "spawn"}
Loop  == {"loop", "select", "check", "wait"}
Final == {"reap", "stopDaemon", "removeDirectory", "finish", "drain", "await", "report"}
Steps == Start \cup Loop \cup {"failed"} \cup Final \cup {"done"}

\* pending and the part of dropped for one destination, whether it is still written to,
\* and the units under way to the client
Queues == [pending : Seq(Units), usable : BOOLEAN, dropped : Nat, channel : Seq(Units)]

\* "exit": 1 s after the exit; "stop": 5 s after the signal; "drain": drain_timeout
Deadlines == {"exit", "stop", "drain"}
Runs(deadline) ==
    CASE deadline = "exit"  -> noticed /\ pc \in Loop
      [] deadline = "stop"  -> stopping /\ pc \in Start \cup Loop
      [] deadline = "drain" -> pc \in {"drain", "await"}

Init ==
    /\ bus = [daemon |-> "none", directory |-> "none"]
    /\ pc = IF WithBus THEN "mkdir" ELSE "spawn"
    /\ outcome = "none"
    /\ stopping = FALSE /\ noticed = FALSE /\ over = {}
    /\ child = "none"
    /\ writers = [s \in Streams |-> FALSE]
    /\ sent = [s \in Streams |-> 0] /\ read = [s \in Streams |-> 0]
    /\ held = [s \in Streams |-> 0] /\ emitted = [s \in Streams |-> 0]
    /\ watched = {}
    /\ forwarding = [s \in Streams |->
                        [pending |-> <<>>, usable |-> TRUE, dropped |-> 0, channel |-> <<>>]]
    /\ reported = FALSE
    /\ closed = {}
    /\ taken = [s \in Streams |-> <<>>]

-----------------------------------------------------------------------------
(* The private session bus *)

Goto(here, there) == pc = here /\ pc' = there
Rest == UNCHANGED <<stopping, noticed, over, writers, watched, outputVars, forwardVars, clientVars>>
Fails(here) ==
    Goto(here, "failed") /\ outcome' = "failed" /\ UNCHANGED <<child, bus>> /\ Rest

MakesDirectory ==
    \/ /\ Goto("mkdir", "daemon")
       /\ bus' = [bus EXCEPT !.directory = "bus"]
       /\ UNCHANGED <<outcome, child>> /\ Rest
    \/ Fails("mkdir")

LaunchesDaemon ==
    /\ \/ Goto("daemon", "ready") /\ bus' = [bus EXCEPT !.daemon = "running"]
       \/ Goto("daemon", "undoDirectory") /\ UNCHANGED bus
    /\ UNCHANGED <<outcome, child>> /\ Rest

\* It publishes its address within START_TIMEOUT, or it is stopped.
AwaitsDaemon ==
    /\ \/ Goto("ready", "spawn")
       \/ Goto("ready", "undoDaemon")
    /\ UNCHANGED <<outcome, child, bus>> /\ Rest

\* terminate, wait, kill, wait.
StopsDaemon ==
    /\ Goto("undoDaemon", "undoDirectory") \/ Goto("stopDaemon", "removeDirectory")
    /\ bus' = [bus EXCEPT !.daemon = "none"]
    /\ UNCHANGED <<outcome, child>> /\ Rest

RemovesDirectory ==
    /\ \/ Goto("undoDirectory", "fallback") \/ Goto("removeDirectory", "finish")
    /\ bus' = [bus EXCEPT !.directory = "none"]
    /\ UNCHANGED <<outcome, child>> /\ Rest

\* An error of the removal goes through start and start_optional, and out of the
\* final close past everything that should follow.
RemovalFails ==
    \/ Fails("undoDirectory")
    \/ /\ Goto("removeDirectory", "done")
       /\ outcome' = "raised"
       /\ bus.directory # "none"
       /\ UNCHANGED <<child, bus>> /\ Rest

\* The directory of the application's lock is needed without a bus, too.
FallsBack ==
    \/ /\ Goto("fallback", "spawn")
       /\ bus' = [bus EXCEPT !.directory = "application"]
       /\ UNCHANGED <<outcome, child>> /\ Rest
    \/ Fails("fallback")

Spawns ==
    \/ /\ Goto("spawn", "loop")
       /\ child' = "running"
       /\ writers' = [s \in Streams |-> TRUE]
       /\ watched' = Streams
       /\ UNCHANGED <<outcome, bus, stopping, noticed, over, outputVars, forwardVars, clientVars>>
    \/ Fails("spawn")

-----------------------------------------------------------------------------
(* Forwarding: ForwardedOutput *)

Outside == UNCHANGED <<stopping, noticed, child, bus, writers, outputVars, clientVars>>

\* How much a write that does not block may write: nothing, a part or everything.
Room(q) == 0 .. Least(Len(q.pending), Capacity - Len(q.channel))

\* Mutants of Flushed: what was written stays queued; what cannot be written any more
\* is not counted.
FlushedAgain(q, gone, n) ==
    IF gone /\ q.pending # <<>>
    THEN [q EXCEPT !.pending = <<>>, !.usable = FALSE, !.dropped = @ + Len(q.pending)]
    ELSE [q EXCEPT !.channel = @ \o SubSeq(q.pending, 1, n)]

FlushedUncounted(q, gone, n) ==
    IF gone /\ q.pending # <<>>
    THEN [q EXCEPT !.pending = <<>>, !.usable = FALSE]
    ELSE [q EXCEPT !.pending = SubSeq(@, n + 1, Len(@)),
                   !.channel = @ \o SubSeq(q.pending, 1, n)]

\* flush, for one destination: one that fails is given up, and what waits for it is lost.
Flushed(q, gone, n) ==
    IF gone /\ q.pending # <<>>
    THEN [q EXCEPT !.pending = <<>>, !.usable = FALSE, !.dropped = @ + Len(q.pending)]
    ELSE [q EXCEPT !.pending = SubSeq(@, n + 1, Len(@)),
                   !.channel = @ \o SubSeq(q.pending, 1, n)]

\* What fits is queued and the rest counted.
Queued(q, units) ==
    LET fits == IF q.usable THEN Least(Len(units), MaxQueue - Len(q.pending)) ELSE 0
    IN  [q EXCEPT !.pending = @ \o SubSeq(units, 1, fits),
                  !.dropped = @ + Len(units) - fits]

Flushes ==
    \E n \in [Streams -> 0 .. MaxQueue] :
        /\ \A s \in Streams : n[s] \in Room(forwarding[s])
        /\ forwarding' = [s \in Streams |-> Flushed(forwarding[s], s \in closed, n[s])]

\* feed: all destinations are flushed before and after.
Feeds(s, units) ==
    \E m, n \in [Streams -> 0 .. MaxQueue] :
        LET before(t) == Flushed(forwarding[t], t \in closed, m[t])
            queued(t) == IF t = s THEN Queued(before(t), units) ELSE before(t)
        IN  /\ \A t \in Streams : m[t] \in Room(forwarding[t]) /\ n[t] \in Room(queued(t))
            /\ forwarding' = [t \in Streams |-> Flushed(queued(t), t \in closed, n[t])]

\* What still waits is given up.
GivesUp == forwarding' = [s \in Streams |-> [forwarding[s] EXCEPT
                !.pending = <<>>, !.dropped = @ + Len(forwarding[s].pending)]]

-----------------------------------------------------------------------------
(* The loop of remote_main *)

FlushesFirst ==
    /\ Goto("loop", "select")
    /\ Flushes
    /\ UNCHANGED <<outcome, over, watched, reported>> /\ Outside

\* os.read returns some of what is there: the complete lines go to the journal, and
\* everything to the client.
Reads(s) ==
    /\ Goto("select", "check")
    /\ s \in watched
    /\ \E n \in 1 .. sent[s] - read[s], rest \in 0 .. MaxLine - 1 :
         /\ rest <= held[s] + n
         /\ read' = [read EXCEPT ![s] = @ + n]
         /\ held' = [held EXCEPT ![s] = rest]
         /\ emitted' = [emitted EXCEPT ![s] = @ + held[s] + n - rest]
         /\ Feeds(s, [k \in 1 .. n |-> read[s] + k])
    /\ UNCHANGED <<outcome, stopping, noticed, over, child, bus, writers, watched, sent,
                   reported, clientVars>>

\* The end of a pipe: the unfinished line goes to the journal.
Finishes(ended) ==
    /\ emitted' = [s \in Streams |-> emitted[s] + IF s \in ended THEN held[s] ELSE 0]
    /\ held' = [s \in Streams |-> IF s \in ended THEN 0 ELSE held[s]]
    /\ UNCHANGED <<sent, read>>

ReadsEnd(s) ==
    /\ Goto("select", "check")
    /\ s \in watched /\ ~writers[s] /\ sent[s] = read[s]
    /\ Finishes({s})
    /\ watched' = watched \ {s}
    /\ UNCHANGED <<outcome, stopping, noticed, over, child, bus, writers, forwardVars, clientVars>>

\* The selector's timeout of 0.2 s.
Idles ==
    /\ Goto("select", "check")
    /\ \A s \in watched : writers[s] /\ sent[s] = read[s]
    /\ UNCHANGED <<outcome, child, bus>> /\ Rest

\* Mutant of Checks: only the end of both pipes ends the loop after a signal.
ChecksPipes ==
    /\ noticed' = (noticed \/ child = "exited")
    /\ Goto("check", IF watched = {} \/ (noticed' /\ "exit" \in over) THEN "wait" ELSE "loop")
    /\ UNCHANGED <<outcome, stopping, over, child, bus, writers, watched, outputVars,
                   forwardVars, clientVars>>

\* The loop ends with both pipes, 1 s after the exit and 5 s after a signal.
Checks ==
    /\ noticed' = (noticed \/ child = "exited")
    /\ Goto("check", IF \/ watched = {}
                        \/ noticed' /\ "exit" \in over
                        \/ "stop" \in over
                     THEN "wait" ELSE "loop")
    /\ UNCHANGED <<outcome, stopping, over, child, bus, writers, watched, outputVars,
                   forwardVars, clientVars>>

\* child.wait(timeout=5)
Waits ==
    \/ /\ child = "exited"
       /\ Goto("wait", "reap")
       /\ outcome' = "status"
       /\ UNCHANGED <<child, bus>> /\ Rest
    \/ child = "running" /\ Fails("wait")

\* The failure is the last thing forwarded on stderr.
Tells ==
    /\ Goto("failed", "reap")
    /\ Feeds(Error, <<Message>>)
    /\ UNCHANGED <<outcome, over, watched, reported>> /\ Outside

-----------------------------------------------------------------------------
(* The finally block *)

\* Mutant of Reaps: a command that does not react to SIGTERM is left alone.
ReapsPolitely ==
    /\ Goto("reap", "stopDaemon")
    /\ watched' = {}
    /\ UNCHANGED <<outcome, bus, child, stopping, noticed, over, writers, outputVars, forwardVars,
                   clientVars>>

\* terminate, 5 s, kill; the pipes are closed.
Reaps ==
    /\ Goto("reap", "stopDaemon")
    /\ child' = IF child = "none" THEN "none" ELSE "exited"
    /\ watched' = {}
    /\ UNCHANGED <<outcome, bus, stopping, noticed, over, writers, outputVars, forwardVars,
                   clientVars>>

\* Mutant of FinishesAll: unfinished lines are forgotten.
FinishesNone ==
    /\ Goto("finish", "drain")
    /\ Finishes({})
    /\ over' = IF stopping THEN over \cup {"drain"} ELSE over
    /\ UNCHANGED <<outcome, stopping, noticed, child, bus, writers, watched, forwardVars, clientVars>>

\* After a signal the drain has no time at all.
FinishesAll ==
    /\ Goto("finish", "drain")
    /\ Finishes(Streams)
    /\ over' = IF stopping THEN over \cup {"drain"} ELSE over
    /\ UNCHANGED <<outcome, stopping, noticed, child, bus, writers, watched, forwardVars, clientVars>>

FlushesLast ==
    /\ Goto("drain", "await")
    /\ Flushes
    /\ UNCHANGED <<outcome, over, watched, reported>> /\ Outside

\* select on the destinations that have something waiting, as long as there is time.
Awaits ==
    LET waiting == {s \in Streams : forwarding[s].pending # <<>>}
    IN  \/ /\ waiting = {} \/ "drain" \in over
           /\ Goto("await", "report")
           /\ GivesUp
           /\ UNCHANGED <<outcome, over, watched, reported>> /\ Outside
        \/ /\ \E s \in waiting : s \in closed \/ Len(forwarding[s].channel) < Capacity
           /\ "drain" \notin over
           /\ Goto("await", "drain")
           /\ UNCHANGED <<outcome, over, watched, forwardVars>> /\ Outside

ReportsLoss ==
    /\ Goto("report", "done")
    /\ reported' = \E s \in Streams : forwarding[s].dropped > 0
    /\ UNCHANGED <<outcome, over, watched, forwarding>> /\ Outside

-----------------------------------------------------------------------------
(* Everything around the relay *)

Quiet == UNCHANGED <<pc, outcome, noticed>>

\* The signal handler only notes the time.
Signalled ==
    /\ pc # "done" /\ ~stopping
    /\ stopping' = TRUE
    /\ UNCHANGED <<over, child, bus, writers, watched, outputVars, forwardVars, clientVars>> /\ Quiet

Elapses(deadline) ==
    /\ Runs(deadline) /\ deadline \notin over
    /\ over' = over \cup {deadline}
    /\ UNCHANGED <<stopping, child, bus, writers, watched, outputVars, forwardVars, clientVars>>
    /\ Quiet

ChildWrites(s) ==
    /\ writers[s] /\ s \in watched
    /\ sent[s] < IF s = Error THEN MaxOutput ELSE MaxOther
    /\ sent[s] - read[s] < PipeCapacity
    /\ sent' = [sent EXCEPT ![s] = @ + 1]
    /\ UNCHANGED <<stopping, over, child, bus, writers, watched, read, held, emitted,
                   forwardVars, clientVars>>
    /\ Quiet

\* The last process that holds the pipe closes it: perhaps never, perhaps early.
ChildCloses(s) ==
    /\ writers[s] /\ s \in watched
    /\ writers' = [writers EXCEPT ![s] = FALSE]
    /\ UNCHANGED <<stopping, over, child, bus, watched, outputVars, forwardVars, clientVars>>
    /\ Quiet

ChildExits ==
    /\ child = "running"
    /\ child' = "exited"
    /\ UNCHANGED <<stopping, over, bus, writers, watched, outputVars, forwardVars, clientVars>>
    /\ Quiet

ClientTakes(s) ==
    /\ s \notin closed /\ forwarding[s].channel # <<>>
    /\ forwarding' = [forwarding EXCEPT ![s].channel = Tail(@)]
    /\ taken' = [taken EXCEPT ![s] = Append(@, Head(forwarding[s].channel))]
    /\ UNCHANGED <<stopping, over, child, bus, writers, watched, outputVars, reported, closed>>
    /\ Quiet

ClientGoes(s) ==
    /\ s \notin closed
    /\ closed' = closed \cup {s}
    /\ UNCHANGED <<stopping, over, child, bus, writers, watched, outputVars, forwardVars, taken>>
    /\ Quiet

-----------------------------------------------------------------------------
BusStep ==
    \/ MakesDirectory \/ LaunchesDaemon \/ AwaitsDaemon \/ FallsBack
    \/ StopsDaemon \/ RemovesDirectory \/ RemovalFails

LoopStep ==
    \/ Spawns \/ FlushesFirst \/ Idles \/ Checks \/ Waits \/ Tells
    \/ \E s \in Streams : Reads(s) \/ ReadsEnd(s)

FinalStep == Reaps \/ FinishesAll \/ FlushesLast \/ Awaits \/ ReportsLoss

Relay == BusStep \/ LoopStep \/ FinalStep

Around ==
    \/ Signalled \/ ChildExits
    \/ \E s \in Streams : \/ ChildWrites(s) \/ ChildCloses(s)
                          \/ ClientTakes(s) \/ ClientGoes(s)

Next == Relay \/ Around \/ \E d \in Deadlines : Elapses(d)

\* The relay is a process that runs, and time passes.
Spec == /\ Init /\ [][Next]_vars
        /\ WF_vars(Relay)
        /\ \A d \in Deadlines : WF_vars(Elapses(d))

-----------------------------------------------------------------------------
(* Properties *)

\* What was queued or dropped: what was read, and the relay's own message.
Fed(s) == read[s] + IF outcome = "failed" /\ pc # "failed" /\ s = Error THEN 1 ELSE 0

TypeOK ==
    /\ pc \in Steps
    /\ outcome \in {"none", "status", "failed", "raised"}
    /\ stopping \in BOOLEAN /\ noticed \in BOOLEAN /\ over \in SUBSET Deadlines
    /\ child \in {"none", "running", "exited"}
    /\ bus \in [daemon : {"none", "running"}, directory : {"none", "bus", "application"}]
    /\ writers \in [Streams -> BOOLEAN]
    /\ sent \in [Streams -> Nat] /\ read \in [Streams -> Nat]
    /\ held \in [Streams -> Nat] /\ emitted \in [Streams -> Nat]
    /\ watched \in SUBSET Streams
    /\ forwarding \in [Streams -> Queues]
    /\ reported \in BOOLEAN
    /\ closed \in SUBSET Streams
    /\ taken \in [Streams -> Seq(Units)]

\* However late the readers are, the relay holds no more for them than MAX_QUEUE per
\* stream and one unfinished line.
QueuesAreBounded ==
    \A s \in Streams : Len(forwarding[s].pending) <= MaxQueue /\ held[s] < MaxLine

\* The client gets the units of a stream in order and none twice, whatever was dropped
\* in between (partial writes, feed and close all write from the same queue).
InOrderOnce ==
    \A s \in Streams :
        LET ahead == taken[s] \o forwarding[s].channel \o forwarding[s].pending
        IN  \A k \in 1 .. Len(ahead) - 1 : ahead[k] < ahead[k + 1]

\* At the end every byte that was read has been written to SSH or is in the number
\* the relay reports, and none in both.
LossIsCounted ==
    pc = "done" /\ outcome # "raised" =>
        \A s \in Streams :
            /\ forwarding[s].dropped + Len(forwarding[s].channel) + Len(taken[s]) = Fed(s)
            /\ forwarding[s].dropped > 0 => reported

\* At the end the journal has got every unit that was read, unfinished lines included.
JournalGetsAll ==
    pc = "done" /\ outcome # "raised" => emitted = read

\* Output that was read is given up only when its reader has gone, its queue is full,
\* or its time is over: a short answer outlives a reader that is a little late.
LossHasCause ==
    [][\A s \in Streams :
        forwarding'[s].dropped > forwarding[s].dropped =>
            \/ ~forwarding'[s].usable
            \/ Len(forwarding[s].pending) + Fed(s)' - Fed(s) > MaxQueue
            \/ "drain" \in over]_vars

\* When the relay has ended, so have the command and the daemon of its bus, and the
\* private directory is gone.
NothingOwnedLeft ==
    pc = "done" =>
        /\ child # "running" /\ bus.daemon = "none"
        /\ outcome # "raised" => bus.directory = "none"

\* The directory of the application's lock exists as long as the command runs, with a
\* bus or without: it is removed after the command has been reaped.
ScopeOutlivesChild ==
    child = "running" /\ WithBus => bus.directory # "none"

\* No reader, no pipe that somebody inherited and no command that ignores its signal
\* holds up the end of the relay after a signal, or after the command's exit.
EndCompletes == stopping \/ child = "exited" ~> pc = "done"

=============================================================================
