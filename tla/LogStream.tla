------------------------------- MODULE LogStream -------------------------------
(***************************************************************************)
(* The live log stream of one observer: the publishers inside the remote   *)
(* processes send each record to the observer's datagram socket without    *)
(* ever waiting, relay_main copies the datagrams to the SSH channel, and   *)
(* RemoteLogChannel reads them here.  Records that do not fit are dropped  *)
(* and counted, by the publisher and by the relay, and a gap frame carries *)
(* the count.  LogSubscription describes how observers come and go.        *)
(*                                                                         *)
(* Source: elsewindow/log_transport.py.  Every frame takes one unit of     *)
(* space, MAX_FRAME; the contents of a record are not distinguished.       *)
(***************************************************************************)
EXTENDS Integers, Sequences, FiniteSets

CONSTANTS
  Publishers,   \* the Publisher objects of the session's processes
  MaxQueue,     \* MAX_QUEUE in frames of MAX_FRAME bytes; 8 in the code
  MaxGap,       \* where a count of dropped records saturates; 2^32 in the code
  SocketSize,   \* datagrams that the relay's socket holds
  PipeSize,     \* frames that the SSH channel holds
  MaxRecords    \* bound: how many records are published

ASSUME PublishersAssumption == IsFiniteSet(Publishers)
ASSUME QueueAssumption == MaxQueue \in Nat /\ MaxQueue > 1
ASSUME GapAssumption == MaxGap \in Nat \ {0}
ASSUME SpaceAssumption == SocketSize \in Nat /\ PipeSize \in Nat
ASSUME RecordsAssumption == MaxRecords \in Nat

\* A frame is a gap with its count, a record or the relay's greeting.
Record == 0
Greeting == -1
Frames == -1 .. MaxGap

VARIABLES
  publisher,  \* per publisher: "idle", "gap" or "frame" to send next, or "ended"
  missing,    \* per publisher: its `dropped` count for this observer
  socket,     \* the datagrams in the relay's socket
  relay,      \* where relay_main's loop is, or "gone"
  pending,    \* the frames of `pending`
  dropped,    \* the relay's own count
  stopping,   \* "no", then since when: "just", "grace" (0.2 s), "late" (2 s)
  owner,      \* the channel's stdin: "open", "closed" or "removed" by the relay
  pipe,       \* the frames in the channel's stdout
  reader,     \* the local reader: "reading", or "lost" with its SSH master
  published,  \* records published while the observer was subscribed
  delivered,  \* records that reached the local journal
  reported,   \* the sum of the gaps that reached the local journal
  result      \* how relay_main ended

publisherVars == <<publisher, missing, published>>
relayVars == <<relay, pending, dropped, result>>
observerVars == <<owner, reader, delivered, reported>>

vars == <<publisherVars, relayVars, observerVars, socket, stopping, pipe>>

Init ==
  /\ publisher = [p \in Publishers |-> "idle"]
  /\ missing = [p \in Publishers |-> 0]
  /\ socket = <<>>
  /\ relay = "check"
  /\ pending = <<Greeting>>
  /\ dropped = 0
  /\ stopping = "no"
  /\ owner = "open"
  /\ pipe = <<>>
  /\ reader = "reading"
  /\ published = 0
  /\ delivered = 0
  /\ reported = 0
  /\ result = "none"

\* min(n + 1, 2^32)
Counted(n) == IF n < MaxGap THEN n + 1 ELSE n

Subscribed == relay # "gone"
Room == Len(socket) < SocketSize

---------------------------------------------------------------------------
(* Publisher.emit                                                           *)

\* The scan finds the socket.  A count is sent before the record.
EmitBegins(p) ==
  /\ publisher[p] = "idle"
  /\ Subscribed
  /\ published < MaxRecords
  /\ published' = published + 1
  /\ publisher' = [publisher EXCEPT ![p] = IF missing[p] > 0 THEN "gap" ELSE "frame"]
  /\ UNCHANGED <<missing, relayVars, observerVars, socket, stopping, pipe>>

EmitGap(p) ==
  /\ publisher[p] = "gap"
  /\ Subscribed
  /\ Room
  /\ socket' = Append(socket, missing[p])
  /\ missing' = [missing EXCEPT ![p] = 0]
  /\ publisher' = [publisher EXCEPT ![p] = "frame"]
  /\ UNCHANGED <<published, relayVars, observerVars, stopping, pipe>>

EmitRecord(p) ==
  /\ publisher[p] = "frame"
  /\ Subscribed
  /\ Room
  /\ socket' = Append(socket, Record)
  /\ publisher' = [publisher EXCEPT ![p] = "idle"]
  /\ UNCHANGED <<published, missing, relayVars, observerVars, stopping, pipe>>

\* BlockingIOError from either send: the record is dropped and counted.
EmitBlocked(p) ==
  /\ publisher[p] \in {"gap", "frame"}
  /\ Subscribed
  /\ ~Room
  /\ missing' = [missing EXCEPT ![p] = Counted(@)]
  /\ publisher' = [publisher EXCEPT ![p] = "idle"]
  /\ UNCHANGED <<published, relayVars, observerVars, socket, stopping, pipe>>

\* Another OSError, the observer is gone: its count is forgotten.
EmitRefused(p) ==
  /\ publisher[p] \in {"gap", "frame"}
  /\ ~Subscribed
  /\ missing' = [missing EXCEPT ![p] = 0]
  /\ publisher' = [publisher EXCEPT ![p] = "idle"]
  /\ UNCHANGED <<published, relayVars, observerVars, socket, stopping, pipe>>

\* A later emit no longer finds the socket and prunes its count.
EmitPrunes(p) ==
  /\ publisher[p] = "idle"
  /\ ~Subscribed
  /\ missing[p] > 0
  /\ missing' = [missing EXCEPT ![p] = 0]
  /\ UNCHANGED <<publisher, published, relayVars, observerVars, socket, stopping, pipe>>

\* The publishing process ends, with whatever it had not reported.
PublisherEnds(p) ==
  /\ publisher[p] # "ended"
  /\ publisher' = [publisher EXCEPT ![p] = "ended"]
  /\ UNCHANGED <<missing, published, relayVars, observerVars, socket, stopping, pipe>>

---------------------------------------------------------------------------
(* relay_main: one iteration is check, write, gap, select                   *)

At(here, there) == relay = here /\ relay' = there

Leaves(how) ==
  /\ relay' = "gone"
  /\ result' = how

\* Mutant of RelayDrained: 0.2 s are enough whatever is pending.
RelayLeavesEarly ==
  /\ relay = "check"
  /\ stopping \in {"grace", "late"}
  /\ Leaves("drained")
  /\ UNCHANGED <<pending, dropped, publisherVars, observerVars, socket, stopping, pipe>>

\* The loop's condition: stopped for 0.2 s and nothing pending.
RelayDrained ==
  /\ relay = "check"
  /\ stopping \in {"grace", "late"}
  /\ pending = <<>>
  /\ Leaves("drained")
  /\ UNCHANGED <<pending, dropped, publisherVars, observerVars, socket, stopping, pipe>>

\* Mutant of RelayLate: the relay stays until its output is taken.
RelayNeverLate ==
  /\ relay = "check"
  /\ stopping = "late"
  /\ pending = <<>>
  /\ Leaves("late")
  /\ UNCHANGED <<pending, dropped, publisherVars, observerVars, socket, stopping, pipe>>

RelayLate ==
  /\ relay = "check"
  /\ stopping = "late"
  /\ pending # <<>>
  /\ Leaves("late")
  /\ UNCHANGED <<pending, dropped, publisherVars, observerVars, socket, stopping, pipe>>

RelayContinues ==
  /\ At("check", "write")
  /\ stopping # "late"
  /\ stopping = "grace" => pending # <<>>
  /\ UNCHANGED <<pending, dropped, result, publisherVars, observerVars, socket, stopping, pipe>>

\* The pipe takes what fits, possibly nothing (BlockingIOError).
RelayWrites ==
  /\ At("write", "gap")
  /\ \E n \in 0 .. Len(pending) :
       /\ Len(pipe) + n <= PipeSize
       /\ n = Len(pending) \/ Len(pipe) + n = PipeSize
       /\ pipe' = pipe \o SubSeq(pending, 1, n)
       /\ pending' = SubSeq(pending, n + 1, Len(pending))
  /\ UNCHANGED <<dropped, result, publisherVars, observerVars, socket, stopping>>

\* Nobody reads the channel any more and the other side noticed: BrokenPipeError.
RelayWriteFails ==
  /\ relay = "write"
  /\ reader = "lost"
  /\ pending # <<>>
  /\ Leaves("failed")
  /\ UNCHANGED <<pending, dropped, publisherVars, observerVars, socket, stopping, pipe>>

\* The count is queued when a whole frame more would still fit.
RelayReports ==
  /\ At("gap", "select")
  /\ IF dropped > 0 /\ Len(pending) < MaxQueue - 1
     THEN /\ pending' = Append(pending, dropped)
          /\ dropped' = 0
     ELSE UNCHANGED <<pending, dropped>>
  /\ UNCHANGED <<result, publisherVars, observerVars, socket, stopping, pipe>>

\* Mutant of RelayReceives: a frame that does not fit is forgotten.
RelayForgets ==
  /\ At("select", "check")
  /\ owner # "closed"
  /\ socket # <<>>
  /\ socket' = Tail(socket)
  /\ pending' = IF Len(pending) < MaxQueue THEN Append(pending, Head(socket)) ELSE pending
  /\ UNCHANGED <<dropped, result, publisherVars, observerVars, stopping, pipe>>

\* One datagram: queued, or counted as one record whatever it was.
RelayReceives ==
  /\ At("select", "check")
  /\ owner # "closed"
  /\ socket # <<>>
  /\ socket' = Tail(socket)
  /\ IF Len(pending) < MaxQueue
     THEN pending' = Append(pending, Head(socket)) /\ UNCHANGED dropped
     ELSE dropped' = Counted(dropped) /\ UNCHANGED pending
  /\ UNCHANGED <<result, publisherVars, observerVars, stopping, pipe>>

RelayIdles ==
  /\ At("select", "check")
  /\ owner # "closed"
  /\ socket = <<>>
  /\ UNCHANGED <<pending, dropped, result, publisherVars, observerVars, socket, stopping, pipe>>

\* End of file on stdin: unregister it and stop.  A datagram may follow in the
\* same iteration; an end that comes after select returned is met in the next.
RelayOrphaned ==
  /\ relay = "select"
  /\ owner = "closed"
  /\ owner' = "removed"
  /\ stopping' = IF stopping = "no" THEN "just" ELSE stopping
  /\ UNCHANGED <<relayVars, reader, delivered, reported, publisherVars, socket, pipe>>

---------------------------------------------------------------------------
(* Signals, time, and the observer's side of the channel                    *)

\* SIGHUP, SIGTERM or SIGINT.
RelaySignalled ==
  /\ Subscribed
  /\ stopping = "no"
  /\ stopping' = "just"
  /\ UNCHANGED <<publisherVars, relayVars, observerVars, socket, pipe>>

TimePasses ==
  /\ stopping \in {"just", "grace"}
  /\ stopping' = IF stopping = "just" THEN "grace" ELSE "late"
  /\ UNCHANGED <<publisherVars, relayVars, observerVars, socket, pipe>>

RelayKilled ==
  /\ Subscribed
  /\ Leaves("killed")
  /\ UNCHANGED <<pending, dropped, publisherVars, observerVars, socket, stopping, pipe>>

\* RemoteLogChannel._read hands one frame to the journal.
Reads ==
  /\ reader = "reading"
  /\ pipe # <<>>
  /\ pipe' = Tail(pipe)
  /\ delivered' = IF Head(pipe) = Record THEN delivered + 1 ELSE delivered
  /\ reported' = IF Head(pipe) > 0 THEN reported + Head(pipe) ELSE reported
  /\ UNCHANGED <<owner, reader, publisherVars, relayVars, socket, stopping>>

\* RemoteLogChannel.close closes stdin and goes on reading to the end.
ChannelCloses ==
  /\ owner = "open"
  /\ owner' = "closed"
  /\ UNCHANGED <<reader, delivered, reported, publisherVars, relayVars, socket, stopping, pipe>>

\* The SSH master is lost: both directions of the channel end.
MasterLost ==
  /\ reader = "reading"
  /\ reader' = "lost"
  /\ owner' = IF owner = "open" THEN "closed" ELSE owner
  /\ UNCHANGED <<delivered, reported, publisherVars, relayVars, socket, stopping, pipe>>

---------------------------------------------------------------------------
PublisherNext(p) ==
  EmitBegins(p) \/ EmitGap(p) \/ EmitRecord(p) \/ EmitBlocked(p) \/ EmitRefused(p)
    \/ EmitPrunes(p) \/ PublisherEnds(p)

RelayNext ==
  RelayDrained \/ RelayLate \/ RelayContinues \/ RelayWrites \/ RelayWriteFails
    \/ RelayReports \/ RelayReceives \/ RelayIdles \/ RelayOrphaned

ChannelNext ==
  RelaySignalled \/ TimePasses \/ RelayKilled \/ Reads \/ ChannelCloses \/ MasterLost

Next == (\E p \in Publishers : PublisherNext(p)) \/ RelayNext \/ ChannelNext

Spec == Init /\ [][Next]_vars

\* The relay's loop never waits longer than its 20 ms select, and time passes.
\* The reader, the publishers and the pipe owe nothing.
FairSpec == Spec /\ WF_vars(RelayNext) /\ WF_vars(TimePasses)

---------------------------------------------------------------------------
(* Properties *)

\* Types of the publishers', the relay's and the observer's variables.
TypeOK ==
  /\ publisher \in [Publishers -> {"idle", "gap", "frame", "ended"}]
  /\ missing \in [Publishers -> 0 .. MaxGap]
  /\ socket \in Seq(Frames)
  /\ relay \in {"check", "write", "gap", "select", "gone"}
  /\ pending \in Seq(Frames)
  /\ dropped \in 0 .. MaxGap
  /\ stopping \in {"no", "just", "grace", "late"}
  /\ owner \in {"open", "closed", "removed"}
  /\ pipe \in Seq(Frames)
  /\ reader \in {"reading", "lost"}
  /\ published \in 0 .. MaxRecords
  /\ delivered \in Nat
  /\ reported \in Nat
  /\ result \in {"none", "drained", "late", "failed", "killed"}

\* "Queues and frames are bounded" (doc/architecture.md): gaps and records
\* together never exceed MAX_QUEUE.
QueueBounded == Len(pending) <= MaxQueue

\* A relay that left in its own time, after the owner closed the channel, had
\* written everything it received and reported everything it dropped.
DrainedIsComplete == result = "drained" => pending = <<>> /\ dropped = 0

\* The sum of the values of f, none above MaxGap: the number of units under its graph.
Total(f) == Cardinality({u \in (DOMAIN f) \X (1 .. MaxGap) : u[2] <= f[u[1]]})

\* The frames between the publishers and the reader, the next to be read first.
OnTheWay == pipe \o pending \o socket

Records(frames) == [i \in DOMAIN frames |-> IF frames[i] = Record THEN 1 ELSE 0]
Gaps(frames) == [i \in DOMAIN frames |-> IF frames[i] > 0 THEN frames[i] ELSE 0]
Emitting == [p \in Publishers |-> IF publisher[p] \in {"gap", "frame"} THEN 1 ELSE 0]

\* Records that neither arrived nor will: they are not on their way either.
Lost == published - delivered - Total(Records(OnTheWay)) - Total(Emitting)

\* What the counts and the gap frames say was dropped.
Accounted == reported + dropped + Total(Gaps(OnTheWay)) + Total(missing)

\* The counts and the gap frames never claim more than was lost, whichever side dropped
\* what; and while the relay and the publishers live, a loss is counted somewhere from
\* where it can still be reported, or has been reported (Publisher.emit, relay_main).
LossIsCounted ==
  /\ Accounted <= Lost
  /\ Subscribed /\ (\A p \in Publishers : publisher[p] # "ended") /\ Lost > 0
       => Accounted > 0

\* "remote log transport dropped N records" (RemoteLogChannel._read): that the counts say
\* how many records were lost does not hold, since a gap that meets a full queue counts
\* as one record.  One publisher, MaxGap = 8 and MaxRecords = 9 show it.
CountIsExact ==
  Subscribed /\ (\A p \in Publishers : publisher[p] # "ended") /\ Lost < MaxGap
    => Accounted = Lost

\* Once its owner has closed the channel the relay ends, even when nobody takes
\* its output and publishers keep sending.
RelayEnds == owner = "closed" ~> relay = "gone"

================================================================================
