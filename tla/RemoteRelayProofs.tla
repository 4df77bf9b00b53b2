-------------------------- MODULE RemoteRelayProofs --------------------------
(***************************************************************************)
(* Proofs about RemoteRelay for any streams, capacities and amounts of     *)
(* output.                                                                 *)
(***************************************************************************)
EXTENDS RemoteRelay, SequenceTheorems, TLAPS

\* One destination: what was fed is dropped, waits, is under way or was taken.
Sum(s) == forwarding[s].dropped + Len(forwarding[s].pending) + Len(forwarding[s].channel)
            + Len(taken[s])
Bounded(q) == Len(q.pending) <= MaxQueue /\ (~q.usable => q.pending = <<>>)

OutputInv ==
    \A s \in Streams : /\ sent[s] <= MaxOutput /\ read[s] <= sent[s]
                       /\ held[s] < MaxLine
                       /\ emitted[s] + held[s] = read[s]
                       /\ pc \in {"drain", "await", "report", "done"} /\ outcome # "raised" =>
                            held[s] = 0

ForwardInv ==
    \A s \in Streams : /\ Bounded(forwarding[s])
                       /\ outcome # "raised" => Sum(s) = Fed(s)
                       /\ pc \in {"report", "done"} /\ outcome # "raised" =>
                            forwarding[s].pending = <<>>
                       /\ pc = "done" /\ outcome # "raised" /\ forwarding[s].dropped > 0 =>
                            reported

\* The command starts after the bus and is reaped before it; the directory outlives it.
ScopeInv ==
    /\ pc \in Start => child = "none" /\ outcome = "none"
    /\ pc \in {"stopDaemon", "removeDirectory", "finish", "drain", "await", "report", "done"} =>
            child # "running"
    /\ pc \in {"mkdir", "daemon", "undoDirectory", "fallback", "removeDirectory", "finish",
               "drain", "await", "report", "done"} => bus.daemon = "none"
    /\ pc \in {"finish", "drain", "await", "report", "done"} /\ outcome # "raised" =>
            bus.directory = "none"
    /\ WithBus /\ pc \in {"daemon", "ready", "undoDaemon", "undoDirectory", "spawn"} =>
            bus.directory # "none"
    /\ child = "running" /\ WithBus => bus.directory # "none"
    /\ outcome = "raised" => pc = "done"
    /\ pc \in Loop => outcome = "none"
    /\ pc = "failed" => outcome = "failed"

IInv == TypeOK /\ OutputInv /\ ForwardInv /\ ScopeInv

\* The types of the fields of a queue.
LEMMA QueueFields ==
  ASSUME NEW q \in Queues
  PROVE  /\ q.dropped \in Nat /\ q.pending \in Seq(Units) /\ q.channel \in Seq(Units)
         /\ Len(q.pending) \in Nat /\ Len(q.channel) \in Nat /\ q.usable \in BOOLEAN
BY DEF Queues

\* A flush takes from the front of the queue what it adds to the channel.
LEMMA FlushedQueue ==
  ASSUME NEW q \in Queues, NEW gone, NEW n \in Room(q), Bounded(q)
  PROVE  LET f == Flushed(q, gone, n)
         IN  /\ f \in Queues /\ Bounded(f)
             /\ f.dropped + Len(f.pending) + Len(f.channel)
                  = q.dropped + Len(q.pending) + Len(q.channel)
             /\ f.dropped > q.dropped => ~f.usable
             /\ f.usable => q.usable
             /\ Len(f.pending) <= Len(q.pending)
<1> USE LimitsAssumption
<1>1. n \in 0 .. Len(q.pending)
  BY DEF Room, Least, Queues
<1>2. CASE gone /\ q.pending # <<>>
  <2> DEFINE f == Flushed(q, gone, n)
  <2>1. f = [q EXCEPT !.pending = <<>>, !.usable = FALSE,
                      !.dropped = q.dropped + Len(q.pending)]
    BY <1>2 DEF Flushed, Queues
  <2>2. /\ f.pending = <<>> /\ f.usable = FALSE
        /\ f.dropped = q.dropped + Len(q.pending) /\ f.channel = q.channel
    BY <2>1 DEF Queues
  <2>3. /\ Len(q.pending) \in Nat /\ <<>> \in Seq(Units) /\ Len(<<>>) = 0
        /\ q.channel \in Seq(Units) /\ q.dropped \in Nat /\ q.dropped + Len(q.pending) \in Nat
    BY DEF Queues
  <2>4. f = [pending |-> f.pending, usable |-> f.usable, dropped |-> f.dropped,
             channel |-> f.channel]
    BY <2>1 DEF Queues
  <2> HIDE DEF f
  <2>5. f \in Queues
    BY <2>2, <2>3, <2>4 DEF Queues
  <2>6. Bounded(f) /\ ~f.usable /\ Len(f.pending) <= Len(q.pending)
    BY <2>2, <2>3 DEF Bounded
  <2> QED BY <2>2, <2>3, <2>5, <2>6 DEF f
<1>3. CASE ~(gone /\ q.pending # <<>>)
  <2> DEFINE rest == SubSeq(q.pending, n + 1, Len(q.pending))
             first == SubSeq(q.pending, 1, n)
  <2>1. /\ rest \in Seq(Units) /\ first \in Seq(Units)
        /\ Len(rest) = Len(q.pending) - n /\ Len(first) = n
    BY <1>1 DEF Queues
  <2>2. q.channel \o first \in Seq(Units) /\ Len(q.channel \o first) = Len(q.channel) + n
    BY <2>1 DEF Queues
  <2>3. q.pending = <<>> => rest = <<>>
    BY <1>1, <2>1 DEF Queues
  <2>4. Flushed(q, gone, n) = [q EXCEPT !.pending = rest, !.channel = q.channel \o first]
    BY <1>3 DEF Flushed, Queues
  <2> HIDE DEF rest, first
  <2>5. Flushed(q, gone, n).pending = rest /\ Flushed(q, gone, n).channel = q.channel \o first
        /\ Flushed(q, gone, n).dropped = q.dropped /\ Flushed(q, gone, n).usable = q.usable
    BY <2>4 DEF Queues
  <2> DEFINE f == Flushed(q, gone, n)
  <2>6. f = [pending |-> f.pending, usable |-> f.usable, dropped |-> f.dropped,
             channel |-> f.channel]
    BY <2>4 DEF Queues
  <2>7. f.pending = rest /\ f.channel = q.channel \o first
        /\ f.dropped = q.dropped /\ f.usable = q.usable
    BY <2>5
  <2>11. q.dropped \in Nat /\ Len(q.pending) \in Nat /\ Len(q.channel) \in Nat /\ n \in Nat
    BY <1>1 DEF Queues
  <2> HIDE DEF f
  <2>8. f \in Queues
    BY <2>1, <2>2, <2>6, <2>7 DEF Queues
  <2>9. Bounded(f)
    BY <1>1, <2>1, <2>3, <2>7 DEF Queues, Bounded
  <2>10. f.dropped + Len(f.pending) + Len(f.channel)
           = q.dropped + Len(q.pending) + Len(q.channel)
    <3>1. Len(f.pending) = Len(q.pending) - n /\ Len(f.channel) = Len(q.channel) + n
      BY <2>1, <2>2, <2>7
    <3> QED BY <3>1, <2>7, <2>11
  <2>12. f.dropped <= q.dropped /\ (f.usable => q.usable) /\ Len(f.pending) <= Len(q.pending)
    BY <2>1, <2>7, <2>11
  <2>13. ~(f.dropped > q.dropped)
    BY <2>7, <2>11
  <2> QED BY <2>8, <2>9, <2>10, <2>12, <2>13 DEF f
<1> QED BY <1>2, <1>3

\* feed queues what fits and counts the rest.
LEMMA QueuedQueue ==
  ASSUME NEW q \in Queues, NEW units \in Seq(Units), Bounded(q)
  PROVE  LET f == Queued(q, units)
         IN  /\ f \in Queues /\ Bounded(f)
             /\ f.dropped + Len(f.pending) + Len(f.channel)
                  = q.dropped + Len(q.pending) + Len(q.channel) + Len(units)
             /\ f.dropped > q.dropped => ~q.usable \/ Len(q.pending) + Len(units) > MaxQueue
             /\ f.usable => q.usable
<1> USE LimitsAssumption
<1> DEFINE fits == IF q.usable THEN Least(Len(units), MaxQueue - Len(q.pending)) ELSE 0
           first == SubSeq(units, 1, fits)
<1>1. fits \in 0 .. Len(units) /\ Len(q.pending) + fits <= MaxQueue /\ (~q.usable => fits = 0)
  BY DEF Least, Queues, Bounded
<1>2. first \in Seq(Units) /\ Len(first) = fits
  BY <1>1
<1>3. q.pending \o first \in Seq(Units) /\ Len(q.pending \o first) = Len(q.pending) + fits
  BY <1>2, <1>1 DEF Queues
<1>4. ~q.usable => q.pending \o first = <<>>
  BY <1>1, <1>3 DEF Bounded, Queues
<1>5. Queued(q, units) = [q EXCEPT !.pending = q.pending \o first,
                                   !.dropped = q.dropped + Len(units) - fits]
  BY DEF Queued, Queues
<1>6. q.dropped + Len(units) - fits \in Nat
  BY <1>1 DEF Queues
<1> DEFINE f == Queued(q, units)
<1>7. f = [pending |-> f.pending, usable |-> f.usable, dropped |-> f.dropped,
           channel |-> f.channel]
  BY <1>5 DEF Queues
<1> HIDE DEF first
<1>8. f.pending = q.pending \o first /\ f.dropped = q.dropped + Len(units) - fits
      /\ f.channel = q.channel /\ f.usable = q.usable
  BY <1>5 DEF Queues
<1> HIDE DEF fits, f
<1>9. f \in Queues
  BY <1>3, <1>6, <1>7, <1>8 DEF Queues
<1>10. Bounded(f)
  BY <1>1, <1>3, <1>4, <1>8 DEF Bounded, Queues
<1>11. f.dropped + Len(f.pending) + Len(f.channel)
         = q.dropped + Len(q.pending) + Len(q.channel) + Len(units)
  BY <1>1, <1>3, <1>8 DEF Queues
<1>12. f.dropped > q.dropped => ~q.usable \/ Len(q.pending) + Len(units) > MaxQueue
  <2>1. q.usable /\ Len(q.pending) + Len(units) <= MaxQueue => fits = Len(units)
    BY DEF fits, Least, Bounded
  <2> QED BY <1>1, <1>8, <2>1 DEF Queues
<1> QED BY <1>8, <1>9, <1>10, <1>11, <1>12 DEF f

\* What one destination has after a flush of all, or after a feed.
Amount(q) == q.dropped + Len(q.pending) + Len(q.channel)

\* A flush keeps the amount of every queue; units are dropped only with an output that failed.
LEMMA FlushesKeep ==
  ASSUME IInv, Flushes
  PROVE  \A s \in Streams : /\ forwarding'[s] \in Queues /\ Bounded(forwarding'[s])
                            /\ Amount(forwarding'[s]) = Amount(forwarding[s])
                            /\ forwarding'[s].dropped > forwarding[s].dropped =>
                                    ~forwarding'[s].usable
<1>1. PICK n \in [Streams -> 0 .. MaxQueue] :
        /\ \A s \in Streams : n[s] \in Room(forwarding[s])
        /\ forwarding' = [s \in Streams |-> Flushed(forwarding[s], s \in closed, n[s])]
  BY DEF Flushes
<1> SUFFICES ASSUME NEW s \in Streams
             PROVE  /\ forwarding'[s] \in Queues /\ Bounded(forwarding'[s])
                    /\ Amount(forwarding'[s]) = Amount(forwarding[s])
                    /\ forwarding'[s].dropped > forwarding[s].dropped => ~forwarding'[s].usable
  OBVIOUS
<1>2. forwarding[s] \in Queues /\ Bounded(forwarding[s]) /\ (s \in closed) \in BOOLEAN
  BY DEF IInv, TypeOK, ForwardInv
<1>3. forwarding'[s] = Flushed(forwarding[s], s \in closed, n[s]) /\ n[s] \in Room(forwarding[s])
  BY <1>1
<1> QED BY <1>2, <1>3, FlushedQueue DEF Amount

\* A feed adds its units to one queue, waiting or dropped.
LEMMA FeedsKeep ==
  ASSUME IInv, NEW s \in Streams, NEW units \in Seq(Units), Feeds(s, units)
  PROVE  \A t \in Streams : /\ forwarding'[t] \in Queues /\ Bounded(forwarding'[t])
                            /\ Amount(forwarding'[t]) = Amount(forwarding[t])
                                                        + IF t = s THEN Len(units) ELSE 0
                            /\ forwarding'[t].dropped > forwarding[t].dropped =>
                                 \/ ~forwarding'[t].usable
                                 \/ t = s /\ Len(forwarding[t].pending) + Len(units) > MaxQueue
<1> DEFINE before(m, t) == Flushed(forwarding[t], t \in closed, m[t])
           queued(m, t) == IF t = s THEN Queued(before(m, t), units) ELSE before(m, t)
<1>1. PICK m \in [Streams -> 0 .. MaxQueue], n \in [Streams -> 0 .. MaxQueue] :
        /\ \A t \in Streams : m[t] \in Room(forwarding[t]) /\ n[t] \in Room(queued(m, t))
        /\ forwarding' = [t \in Streams |-> Flushed(queued(m, t), t \in closed, n[t])]
  BY DEF Feeds
<1> SUFFICES ASSUME NEW t \in Streams
             PROVE  /\ forwarding'[t] \in Queues /\ Bounded(forwarding'[t])
                    /\ Amount(forwarding'[t]) = Amount(forwarding[t])
                                                + IF t = s THEN Len(units) ELSE 0
                    /\ forwarding'[t].dropped > forwarding[t].dropped =>
                         \/ ~forwarding'[t].usable
                         \/ t = s /\ Len(forwarding[t].pending) + Len(units) > MaxQueue
  OBVIOUS
<1>2. forwarding[t] \in Queues /\ Bounded(forwarding[t]) /\ (t \in closed) \in BOOLEAN
  BY DEF IInv, TypeOK, ForwardInv
<1> DEFINE b == before(m, t)
           q == queued(m, t)
<1>3. /\ b \in Queues /\ Bounded(b) /\ Amount(b) = Amount(forwarding[t])
      /\ b.dropped > forwarding[t].dropped => ~b.usable
      /\ Len(b.pending) <= Len(forwarding[t].pending)
  BY <1>1, <1>2, FlushedQueue DEF Amount
<1>4. q = IF t = s THEN Queued(b, units) ELSE b
  OBVIOUS
<1>5. n[t] \in Room(q) /\ forwarding'[t] = Flushed(q, t \in closed, n[t])
  BY <1>1
<1> HIDE DEF b, q
<1>6. /\ q \in Queues /\ Bounded(q)
      /\ Amount(q) = Amount(b) + IF t = s THEN Len(units) ELSE 0
      /\ q.dropped > b.dropped =>
            ~b.usable \/ (t = s /\ Len(b.pending) + Len(units) > MaxQueue)
      /\ q.usable => b.usable
  <2>1. CASE t = s
    <3>1. q = Queued(b, units)
      BY <1>4, <2>1
    <3>2. /\ q \in Queues /\ Bounded(q)
          /\ q.dropped + Len(q.pending) + Len(q.channel)
               = b.dropped + Len(b.pending) + Len(b.channel) + Len(units)
          /\ q.dropped > b.dropped => ~b.usable \/ Len(b.pending) + Len(units) > MaxQueue
          /\ q.usable => b.usable
      BY <1>3, <3>1, QueuedQueue
    <3>3. (IF t = s THEN Len(units) ELSE 0) = Len(units)
      BY <2>1
    <3>4. Amount(q) = Amount(b) + Len(units)
      BY <3>2 DEF Amount
    <3>5. Amount(q) = Amount(b) + IF t = s THEN Len(units) ELSE 0
      BY <3>3, <3>4
    <3>6. q.dropped > b.dropped => ~b.usable \/ (t = s /\ Len(b.pending) + Len(units) > MaxQueue)
      <4>1. q.dropped > b.dropped => ~b.usable \/ Len(b.pending) + Len(units) > MaxQueue
        BY <3>2
      <4> QED BY ONLY <2>1, <4>1
    <3> QED BY <3>2, <3>5, <3>6
  <2>2. CASE t # s
    BY <1>3, <1>4, <2>2 DEF Amount, Queues
  <2> QED BY <2>1, <2>2
<1>7. /\ forwarding'[t] \in Queues /\ Bounded(forwarding'[t])
      /\ Amount(forwarding'[t]) = Amount(q)
      /\ forwarding'[t].dropped > q.dropped => ~forwarding'[t].usable
      /\ forwarding'[t].usable => q.usable
  BY <1>2, <1>5, <1>6, FlushedQueue DEF Amount
<1>8. /\ b.dropped \in Nat /\ q.dropped \in Nat /\ forwarding[t].dropped \in Nat
      /\ forwarding'[t].dropped \in Nat /\ Len(b.pending) \in Nat
      /\ Len(forwarding[t].pending) \in Nat /\ Len(units) \in Nat
  BY <1>2, <1>3, <1>6, <1>7, QueueFields
<1>9. Amount(forwarding'[t]) = Amount(forwarding[t]) + IF t = s THEN Len(units) ELSE 0
  BY <1>3, <1>6, <1>7
<1>10. ASSUME forwarding'[t].dropped > forwarding[t].dropped, forwarding'[t].usable
       PROVE  t = s /\ Len(forwarding[t].pending) + Len(units) > MaxQueue
  <2>1. q.usable /\ b.usable
    BY <1>6, <1>7, <1>10
  <2>2. ~(b.dropped > forwarding[t].dropped) /\ ~(forwarding'[t].dropped > q.dropped)
    BY <1>3, <1>7, <1>10, <2>1
  <2>3. q.dropped > b.dropped
    BY <2>2, <1>8, <1>10
  <2>4. t = s /\ Len(b.pending) + Len(units) > MaxQueue
    BY <2>1, <2>3, <1>6
  <2> QED BY <2>4, <1>3, <1>8, LimitsAssumption
<1> QED BY <1>7, <1>9, <1>10

\* What still waits is counted when it is given up.
LEMMA GivesUpKeeps ==
  ASSUME IInv, GivesUp
  PROVE  /\ forwarding' \in [Streams -> Queues]
         /\ \A s \in Streams : /\ forwarding'[s].pending = <<>> /\ Bounded(forwarding'[s])
                               /\ Amount(forwarding'[s]) = Amount(forwarding[s])
                               /\ forwarding[s].pending = <<>> =>
                                    forwarding'[s].dropped = forwarding[s].dropped
<1>1. ASSUME NEW s \in Streams
      PROVE  /\ forwarding'[s] \in Queues
             /\ forwarding'[s].pending = <<>> /\ Bounded(forwarding'[s])
             /\ Amount(forwarding'[s]) = Amount(forwarding[s])
             /\ forwarding[s].pending = <<>> => forwarding'[s].dropped = forwarding[s].dropped
  <2> DEFINE q == forwarding[s]
             f == forwarding'[s]
  <2>1. q \in Queues
    BY DEF IInv, TypeOK
  <2>2. f = [q EXCEPT !.pending = <<>>, !.dropped = q.dropped + Len(q.pending)]
    BY <2>1 DEF GivesUp, Queues
  <2>3. /\ f.pending = <<>> /\ f.dropped = q.dropped + Len(q.pending) /\ f.channel = q.channel
        /\ f.usable = q.usable
        /\ f = [pending |-> f.pending, usable |-> f.usable, dropped |-> f.dropped,
                channel |-> f.channel]
    BY <2>1, <2>2 DEF Queues
  <2>4. <<>> \in Seq(Units) /\ Len(<<>>) = 0
    OBVIOUS
  <2> HIDE DEF f, q
  <2>8. q.dropped + Len(q.pending) \in Nat /\ q.usable \in BOOLEAN /\ q.channel \in Seq(Units)
    BY <2>1, QueueFields
  <2>5. f \in Queues
    BY <2>3, <2>4, <2>8 DEF Queues
  <2>6. Bounded(f) /\ Amount(f) = Amount(q)
    BY <2>1, <2>3, <2>4, QueueFields, LimitsAssumption DEF Bounded, Amount
  <2>7. q.pending = <<>> => f.dropped = q.dropped
    BY <2>1, <2>3, <2>4, QueueFields
  <2> QED BY <2>3, <2>5, <2>6, <2>7 DEF f, q
<1>2. forwarding' \in [Streams -> Queues]
  <2>1. \A s \in Streams : forwarding'[s] \in Queues
    BY <1>1
  <2> QED BY <2>1 DEF GivesUp
<1> QED BY <1>1, <1>2

\* The client takes the first unit under way.
LEMMA TakesKeeps ==
  ASSUME IInv, NEW s \in Streams, ClientTakes(s)
  PROVE  /\ forwarding' \in [Streams -> Queues] /\ taken' \in [Streams -> Seq(Units)]
         /\ \A t \in Streams : /\ forwarding'[t].pending = forwarding[t].pending
                               /\ forwarding'[t].usable = forwarding[t].usable
                               /\ forwarding'[t].dropped = forwarding[t].dropped
                               /\ Len(forwarding'[t].channel) + Len(taken'[t])
                                    = Len(forwarding[t].channel) + Len(taken[t])
<1> DEFINE c == forwarding[s].channel
<1>1. /\ forwarding \in [Streams -> Queues] /\ taken \in [Streams -> Seq(Units)]
      /\ c # <<>>
      /\ forwarding' = [forwarding EXCEPT ![s] = [@ EXCEPT !.channel = Tail(c)]]
      /\ taken' = [taken EXCEPT ![s] = Append(taken[s], Head(c))]
  BY DEF IInv, TypeOK, ClientTakes
<1>2. c \in Seq(Units)
  BY <1>1, QueueFields
<1>3. /\ Tail(c) \in Seq(Units) /\ Len(Tail(c)) = Len(c) - 1 /\ Len(c) \in Nat
      /\ Append(taken[s], Head(c)) \in Seq(Units)
      /\ Len(Append(taken[s], Head(c))) = Len(taken[s]) + 1 /\ Len(taken[s]) \in Nat
  BY <1>1, <1>2
<1>4. [forwarding[s] EXCEPT !.channel = Tail(c)] \in Queues
  BY <1>1, <1>3 DEF Queues
<1>5. forwarding' \in [Streams -> Queues] /\ taken' \in [Streams -> Seq(Units)]
  BY <1>1, <1>3, <1>4
<1>6. ASSUME NEW t \in Streams
      PROVE  /\ forwarding'[t].pending = forwarding[t].pending
             /\ forwarding'[t].usable = forwarding[t].usable
             /\ forwarding'[t].dropped = forwarding[t].dropped
             /\ Len(forwarding'[t].channel) + Len(taken'[t])
                  = Len(forwarding[t].channel) + Len(taken[t])
  <2>1. CASE t # s
    BY <1>1, <2>1
  <2>2. CASE t = s
    <3>1. forwarding'[s] = [forwarding[s] EXCEPT !.channel = Tail(c)]
      BY <1>1
    <3>2. /\ forwarding'[s].channel = Tail(c) /\ forwarding'[s].pending = forwarding[s].pending
          /\ forwarding'[s].usable = forwarding[s].usable
          /\ forwarding'[s].dropped = forwarding[s].dropped
      BY <1>1, <3>1 DEF Queues
    <3>3. Len(taken'[s]) = Len(taken[s]) + 1
      BY <1>1, <1>3
    <3>4. Len(forwarding'[s].channel) = Len(c) - 1
      BY <3>2, <1>3
    <3>5. Len(forwarding'[s].channel) + Len(taken'[s]) = Len(c) + Len(taken[s])
      <4>1. Len(c) \in Nat /\ Len(taken[s]) \in Nat
        BY <1>3
      <4> DEFINE a == Len(forwarding'[s].channel)
                 b == Len(taken'[s])
                 d == Len(c)
                 e == Len(taken[s])
      <4>2. a = d - 1 /\ b = e + 1 /\ d \in Nat /\ e \in Nat
        BY <3>3, <3>4, <4>1
      <4> HIDE DEF a, b, d, e
      <4>3. a + b = d + e
        BY <4>2
      <4> QED BY <4>3 DEF a, b, d, e
    <3> QED BY <2>2, <3>2, <3>5
  <2> QED BY <2>1, <2>2
<1> QED BY <1>5, <1>6

-----------------------------------------------------------------------------
\* Nothing was read and nothing is owned.
LEMMA InitIInv == Init => IInv
<1> SUFFICES ASSUME Init PROVE IInv
  OBVIOUS
<1> USE LimitsAssumption, StreamsAssumption
<1>1. \A s \in Streams : /\ forwarding[s] = [pending |-> <<>>, usable |-> TRUE, dropped |-> 0,
                                             channel |-> <<>>]
                         /\ taken[s] = <<>> /\ read[s] = 0
  BY DEF Init
<1>2. \A s \in Streams : forwarding[s] \in Queues /\ Bounded(forwarding[s]) /\ Sum(s) = 0
  <2> SUFFICES ASSUME NEW s \in Streams
               PROVE forwarding[s] \in Queues /\ Bounded(forwarding[s]) /\ Sum(s) = 0
    OBVIOUS
  <2>1. <<>> \in Seq(Units) /\ Len(<<>>) = 0
    OBVIOUS
  <2> DEFINE q == forwarding[s]
  <2>2. /\ q.pending = <<>> /\ q.channel = <<>> /\ q.dropped = 0 /\ q.usable = TRUE
        /\ q = [pending |-> <<>>, usable |-> TRUE, dropped |-> 0, channel |-> <<>>]
    BY <1>1
  <2>3. q \in Queues
    BY <2>1, <2>2 DEF Queues
  <2>4. Bounded(q)
    BY <2>1, <2>2 DEF Bounded
  <2>5. Sum(s) = 0
    BY <2>1, <2>2, <1>1 DEF Sum
  <2> QED BY <2>3, <2>4, <2>5
<1>3. TypeOK
  <2>1. forwarding \in [Streams -> Queues] /\ taken \in [Streams -> Seq(Units)]
    BY <1>2 DEF Init
  <2>2. pc \in Steps
    BY DEF Init, Steps, Start
  <2> QED BY <2>1, <2>2 DEF Init, TypeOK
<1>4. OutputInv
  <2>1. \A s \in Streams : sent[s] = 0 /\ read[s] = 0 /\ held[s] = 0 /\ emitted[s] = 0
    BY DEF Init
  <2>2. 0 <= MaxOutput /\ 0 < MaxLine
    OBVIOUS
  <2> SUFFICES ASSUME NEW s \in Streams
               PROVE  /\ sent[s] <= MaxOutput /\ read[s] <= sent[s] /\ held[s] < MaxLine
                      /\ emitted[s] + held[s] = read[s] /\ held[s] = 0
    BY DEF OutputInv
  <2> QED BY <2>1, <2>2
<1>5. ForwardInv
  <2>1. pc \notin {"report", "done"} /\ outcome = "none"
    BY DEF Init
  <2>2. \A s \in Streams : Fed(s) = 0
    <3> SUFFICES ASSUME NEW s \in Streams PROVE Fed(s) = 0
      OBVIOUS
    <3>1. (IF outcome = "failed" /\ pc # "failed" /\ s = Error THEN 1 ELSE 0) = 0
      BY <2>1
    <3>2. read[s] = 0
      BY <1>1
    <3> QED BY <3>1, <3>2 DEF Fed
  <2> QED BY <1>2, <2>1, <2>2 DEF ForwardInv
<1>6. ScopeInv
  BY DEF Init, ScopeInv, Start, Loop
<1> QED BY <1>3, <1>4, <1>5, <1>6 DEF IInv

-----------------------------------------------------------------------------
\* Units that were written can be read.
LEMMA ReadUnits ==
  ASSUME NEW m \in Nat, NEW l \in Nat, l <= MaxOutput, NEW n \in 1 .. l - m
  PROVE  [k \in 1 .. n |-> m + k] \in Seq(Units)
<1>1. n \in Nat /\ \A k \in 1 .. n : m + k \in Units
  BY LimitsAssumption DEF Units, Message
<1> QED BY <1>1

\* Every step keeps the types.
LEMMA TypeStep == IInv /\ Next => TypeOK'
<1> SUFFICES ASSUME IInv, Next PROVE TypeOK'
  OBVIOUS
<1> USE LimitsAssumption, StreamsAssumption DEF IInv, Goto, Rest, Outside, Quiet, Steps, Start,
        Loop, Final, Deadlines, outputVars, forwardVars, clientVars
<1>1. CASE BusStep
  BY <1>1 DEF TypeOK, BusStep, MakesDirectory, LaunchesDaemon, AwaitsDaemon, FallsBack, StopsDaemon,
              RemovesDirectory, RemovalFails, Fails
<1>2. CASE Spawns \/ Idles \/ Checks \/ Waits
  BY <1>2 DEF TypeOK, Spawns, Idles, Checks, Waits, Fails
<1>3. CASE FlushesFirst \/ FlushesLast
  <2>1. forwarding' \in [Streams -> Queues]
    BY <1>3, FlushesKeep DEF FlushesFirst, FlushesLast, Flushes
  <2> QED BY <1>3, <2>1 DEF TypeOK, FlushesFirst, FlushesLast
<1>4. CASE Tells
  <2>1. <<Message>> \in Seq(Units)
    BY DEF Message, Units
  <2>2. forwarding' \in [Streams -> Queues]
    BY <1>4, <2>1, FeedsKeep DEF Tells, Feeds
  <2> QED BY <1>4, <2>2 DEF TypeOK, Tells
<1>5. ASSUME NEW s \in Streams, Reads(s) PROVE TypeOK'
  <2>1. PICK n \in 1 .. sent[s] - read[s], rest \in 0 .. MaxLine - 1 :
          /\ rest <= held[s] + n
          /\ read' = [read EXCEPT ![s] = @ + n]
          /\ held' = [held EXCEPT ![s] = rest]
          /\ emitted' = [emitted EXCEPT ![s] = @ + held[s] + n - rest]
          /\ Feeds(s, [k \in 1 .. n |-> read[s] + k])
    BY <1>5 DEF Reads
  <2>2. read[s] \in Nat /\ sent[s] \in Nat /\ sent[s] <= MaxOutput /\ n \in Nat
        /\ held[s] \in Nat /\ emitted[s] \in Nat
    <3>1. TypeOK /\ OutputInv
      OBVIOUS
    <3>2. read[s] \in Nat /\ sent[s] \in Nat /\ held[s] \in Nat /\ emitted[s] \in Nat
      BY <3>1 DEF TypeOK
    <3>3. sent[s] <= MaxOutput
      BY <3>1 DEF OutputInv
    <3> QED BY <2>1, <3>2, <3>3
  <2>3. [k \in 1 .. n |-> read[s] + k] \in Seq(Units)
    BY <2>1, <2>2, ReadUnits
  <2>4. forwarding' \in [Streams -> Queues]
    BY <2>1, <2>3, FeedsKeep DEF Feeds
  <2>6. read[s] + n \in Nat /\ rest \in Nat /\ emitted[s] + held[s] + n - rest \in Nat
    BY <2>1, <2>2, SMTT(30)
  <2>5. read' \in [Streams -> Nat] /\ held' \in [Streams -> Nat] /\ emitted' \in [Streams -> Nat]
    BY <2>1, <2>2, <2>6 DEF TypeOK
  <2> QED BY <1>5, <2>4, <2>5 DEF TypeOK, Reads
<1>6. ASSUME NEW s \in Streams, ReadsEnd(s) PROVE TypeOK'
  BY <1>6, SMTT(30) DEF TypeOK, ReadsEnd, Finishes
<1>7. CASE Reaps \/ FinishesAll \/ ReportsLoss
  <2>1. CASE Reaps
    BY <2>1 DEF TypeOK, Reaps
  <2>2. CASE FinishesAll
    BY <2>2 DEF TypeOK, FinishesAll, Finishes
  <2>3. CASE ReportsLoss
    BY <2>3 DEF TypeOK, ReportsLoss
  <2> QED BY <1>7, <2>1, <2>2, <2>3
<1>8. CASE Awaits
  <2>1. forwarding' \in [Streams -> Queues]
    BY <1>8, GivesUpKeeps DEF Awaits, TypeOK
  <2> QED BY <1>8, <2>1 DEF TypeOK, Awaits
<1>9. CASE Signalled \/ ChildExits \/ \E d \in Deadlines : Elapses(d)
  <2>1. CASE Signalled
    BY <2>1 DEF TypeOK, Signalled
  <2>2. CASE ChildExits
    BY <2>2 DEF TypeOK, ChildExits
  <2>3. ASSUME NEW d \in Deadlines, Elapses(d) PROVE TypeOK'
    BY <2>3 DEF TypeOK, Elapses
  <2> QED BY <1>9, <2>1, <2>2, <2>3
<1>10. ASSUME NEW s \in Streams, ChildWrites(s) \/ ChildCloses(s) \/ ClientGoes(s) PROVE TypeOK'
  <2>1. CASE ChildWrites(s)
    BY <2>1, SMTT(30) DEF TypeOK, ChildWrites
  <2>2. CASE ChildCloses(s)
    BY <2>2 DEF TypeOK, ChildCloses
  <2>3. CASE ClientGoes(s)
    BY <2>3 DEF TypeOK, ClientGoes
  <2> QED BY <1>10, <2>1, <2>2, <2>3
<1>11. ASSUME NEW s \in Streams, ClientTakes(s) PROVE TypeOK'
  <2>1. forwarding' \in [Streams -> Queues] /\ taken' \in [Streams -> Seq(Units)]
    BY <1>11, TakesKeeps
  <2>2. UNCHANGED <<pc, outcome, noticed, stopping, over, child, bus, writers, watched,
                    sent, read, held, emitted, reported, closed>>
    BY <1>11 DEF ClientTakes
  <2> QED BY <2>1, <2>2, SMTT(30) DEF TypeOK
<1> QED BY <1>1, <1>2, <1>3, <1>4, <1>5, <1>6, <1>7, <1>8, <1>9, <1>10, <1>11
        DEF Next, Relay, LoopStep, FinalStep, Around

\* The steps that move no output at all, and do not come to the end.
Ended == pc \in {"drain", "await", "report", "done"} /\ outcome # "raised"
Still == /\ UNCHANGED <<sent, read, held, emitted, forwarding, reported, taken>>
         /\ Ended' => Ended /\ pc' = pc /\ outcome' = outcome
         /\ outcome = "raised" => outcome' = "raised"
         /\ outcome' # "raised" => \A s \in Streams : Fed(s)' = Fed(s)

\* Steps of the bus, the command, the deadlines and signals leave the output alone.
LEMMA StillSteps ==
  ASSUME IInv, \/ BusStep \/ Spawns \/ Idles \/ Checks \/ Waits \/ Reaps \/ Signalled \/ ChildExits
               \/ \E d \in Deadlines : Elapses(d)
               \/ \E s \in Streams : ChildCloses(s) \/ ClientGoes(s)
  PROVE  Still
<1> USE DEF Goto, Rest, Outside, Quiet, Start, Loop, outputVars, forwardVars, clientVars,
        IInv, ScopeInv, Still, Ended, Fed
<1>1. CASE BusStep
  BY <1>1 DEF BusStep, MakesDirectory, LaunchesDaemon, AwaitsDaemon, FallsBack, StopsDaemon,
              RemovesDirectory, RemovalFails, Fails
<1>2. CASE Spawns
  BY <1>2 DEF Spawns, Fails
<1>3. CASE Idles \/ Checks
  BY <1>3 DEF Idles, Checks
<1>4. CASE Waits
  BY <1>4 DEF Waits, Fails
<1>5. CASE Reaps
  BY <1>5 DEF Reaps
<1>6. CASE Signalled \/ ChildExits
  BY <1>6 DEF Signalled, ChildExits
<1>7. ASSUME NEW d \in Deadlines, Elapses(d) PROVE Still
  BY <1>7 DEF Elapses
<1>8. ASSUME NEW s \in Streams, ChildCloses(s) \/ ClientGoes(s) PROVE Still
  BY <1>8 DEF ChildCloses, ClientGoes
<1> QED BY <1>1, <1>2, <1>3, <1>4, <1>5, <1>6, <1>7, <1>8

\* The disjuncts of Next once more, those that move nothing together.
LEMMA Cases ==
  ASSUME Next
  PROVE  \/ \/ BusStep \/ Spawns \/ Idles \/ Checks \/ Waits \/ Reaps \/ Signalled \/ ChildExits
            \/ \E d \in Deadlines : Elapses(d)
            \/ \E s \in Streams : ChildCloses(s) \/ ClientGoes(s)
         \/ FlushesFirst \/ FlushesLast \/ Tells \/ FinishesAll \/ Awaits \/ ReportsLoss
         \/ \E s \in Streams : Reads(s) \/ ReadsEnd(s) \/ ChildWrites(s) \/ ClientTakes(s)
BY DEF Next, Relay, LoopStep, FinalStep, Around

\* What was read stays held or emitted.
LEMMA OutputStep == IInv /\ Next => OutputInv'
<1> SUFFICES ASSUME IInv, Next PROVE OutputInv'
  OBVIOUS
<1> USE LimitsAssumption, StreamsAssumption
<1>0. ASSUME NEW s \in Streams
      PROVE  /\ sent[s] \in Nat /\ read[s] \in Nat /\ held[s] \in Nat /\ emitted[s] \in Nat
             /\ sent[s] <= MaxOutput /\ read[s] <= sent[s] /\ held[s] < MaxLine
             /\ emitted[s] + held[s] = read[s]
             /\ Ended => held[s] = 0
  BY DEF IInv, TypeOK, OutputInv, Ended
<1>1. CASE Still
  BY <1>1, <1>0 DEF Still, OutputInv, Ended
<1>2. CASE FlushesFirst \/ FlushesLast \/ Tells \/ Awaits \/ ReportsLoss
  <2>1. UNCHANGED <<sent, read, held, emitted>>
    BY <1>2 DEF FlushesFirst, FlushesLast, Tells, Awaits, ReportsLoss, Outside, outputVars
  <2>2. Ended' => Ended
    BY <1>2 DEF FlushesFirst, FlushesLast, Tells, Awaits, ReportsLoss, Ended, Goto, IInv, ScopeInv
  <2> QED BY <1>0, <2>1, <2>2 DEF OutputInv, Ended
<1>3. CASE FinishesAll
  <2>1. ASSUME NEW s \in Streams
        PROVE  sent'[s] = sent[s] /\ read'[s] = read[s] /\ held'[s] = 0
               /\ emitted'[s] = emitted[s] + held[s]
    BY <1>3 DEF FinishesAll, Finishes
  <2> QED BY <1>0, <2>1 DEF OutputInv
<1>4. ASSUME NEW s \in Streams, Reads(s) PROVE OutputInv'
  <2>1. PICK n \in 1 .. sent[s] - read[s], rest \in 0 .. MaxLine - 1 :
          /\ rest <= held[s] + n
          /\ read' = [read EXCEPT ![s] = @ + n]
          /\ held' = [held EXCEPT ![s] = rest]
          /\ emitted' = [emitted EXCEPT ![s] = @ + held[s] + n - rest]
    BY <1>4 DEF Reads
  <2>2. sent' = sent /\ ~Ended'
    BY <1>4 DEF Reads, Goto, Ended
  <2>3. /\ read'[s] = read[s] + n /\ held'[s] = rest
        /\ emitted'[s] = emitted[s] + held[s] + n - rest
        /\ \A t \in Streams \ {s} : read'[t] = read[t] /\ held'[t] = held[t] /\ emitted'[t] = emitted[t]
    BY <2>1 DEF IInv, TypeOK
  <2> SUFFICES ASSUME NEW t \in Streams
               PROVE  /\ sent'[t] <= MaxOutput /\ read'[t] <= sent'[t] /\ held'[t] < MaxLine
                      /\ emitted'[t] + held'[t] = read'[t]
    BY <2>2 DEF OutputInv, Ended
  <2>4. CASE t = s
    BY <1>0, <2>1, <2>2, <2>3, <2>4
  <2>5. CASE t # s
    BY <1>0, <2>2, <2>3, <2>5
  <2> QED BY <2>4, <2>5
<1>5. ASSUME NEW s \in Streams, ReadsEnd(s) PROVE OutputInv'
  <2>1. ~Ended'
    BY <1>5 DEF ReadsEnd, Goto, Ended
  <2>2. ASSUME NEW t \in Streams
        PROVE  /\ sent'[t] = sent[t] /\ read'[t] = read[t]
               /\ \/ held'[t] = 0 /\ emitted'[t] = emitted[t] + held[t]
                  \/ held'[t] = held[t] /\ emitted'[t] = emitted[t]
    BY <1>0, <1>5 DEF ReadsEnd, Finishes
  <2> QED BY <1>0, <2>1, <2>2 DEF OutputInv, Ended
<1>6. ASSUME NEW s \in Streams, ChildWrites(s) PROVE OutputInv'
  <2>1. UNCHANGED <<read, held, emitted, pc, outcome>>
    BY <1>6 DEF ChildWrites, Quiet
  <2>2. ASSUME NEW t \in Streams PROVE sent'[t] <= MaxOutput /\ read[t] <= sent'[t]
    BY <1>0, <1>6, SMTT(30) DEF ChildWrites, IInv, TypeOK
  <2> QED BY <1>0, <2>1, <2>2 DEF OutputInv, Ended
<1>7. ASSUME NEW s \in Streams, ClientTakes(s) PROVE OutputInv'
  BY <1>0, <1>7 DEF ClientTakes, OutputInv, Ended, Quiet, outputVars
<1> QED BY Cases, StillSteps, <1>1, <1>2, <1>3, <1>4, <1>5, <1>6, <1>7

\* The command lives between the start and the end of the bus.
LEMMA ScopeStep == IInv /\ Next => ScopeInv'
<1> SUFFICES ASSUME IInv, Next PROVE ScopeInv'
  OBVIOUS
<1> USE DEF IInv, ScopeInv, Goto, Rest, Outside, Quiet, Start, Loop
<1>1. CASE BusStep
  <2>1. CASE MakesDirectory \/ LaunchesDaemon \/ AwaitsDaemon
    BY <1>1, <2>1 DEF MakesDirectory, LaunchesDaemon, AwaitsDaemon, Fails, TypeOK
  <2>2. CASE FallsBack \/ StopsDaemon
    BY <1>1, <2>2 DEF FallsBack, StopsDaemon, Fails, TypeOK
  <2>3. CASE RemovesDirectory \/ RemovalFails
    BY <1>1, <2>3 DEF RemovesDirectory, RemovalFails, Fails, TypeOK
  <2> QED BY <1>1, <2>1, <2>2, <2>3 DEF BusStep
<1>2. CASE Spawns
  BY <1>2 DEF Spawns, Fails
<1>3. CASE Idles \/ Checks \/ Waits
  BY <1>3 DEF Idles, Checks, Waits, Fails
<1>4. CASE FlushesFirst \/ FlushesLast \/ Tells
  BY <1>4 DEF FlushesFirst, FlushesLast, Tells
<1>5. CASE Reaps \/ FinishesAll
  BY <1>5 DEF Reaps, FinishesAll
<1>6. CASE Awaits \/ ReportsLoss
  BY <1>6 DEF Awaits, ReportsLoss
<1>7. ASSUME NEW s \in Streams, Reads(s) \/ ReadsEnd(s) PROVE ScopeInv'
  BY <1>7 DEF Reads, ReadsEnd
<1>8. CASE Signalled \/ ChildExits \/ \E d \in Deadlines : Elapses(d)
  BY <1>8 DEF Signalled, ChildExits, Elapses
<1>9. ASSUME NEW s \in Streams,
             ChildWrites(s) \/ ChildCloses(s) \/ ClientGoes(s) \/ ClientTakes(s) PROVE ScopeInv'
  BY <1>9 DEF ChildWrites, ChildCloses, ClientGoes, ClientTakes
<1> QED BY <1>1, <1>2, <1>3, <1>4, <1>5, <1>6, <1>7, <1>8, <1>9
        DEF Next, Relay, LoopStep, FinalStep, Around

\* What became of the units fed to a stream is what its queue says and what was taken.
LEMMA SumIsAmount ==
  ASSUME TypeOK, NEW s \in Streams
  PROVE  Sum(s) = Amount(forwarding[s]) + Len(taken[s])
BY DEF Sum, Amount, TypeOK, Queues

\* The amount of a queue is a number.
LEMMA AmountIsNat ==
  ASSUME NEW q \in Queues
  PROVE  Amount(q) \in Nat
BY QueueFields DEF Amount

\* What a flush, a feed or the end of the drain does to one destination.
Accounted(s, more) == /\ Bounded(forwarding'[s]) /\ taken'[s] = taken[s]
                      /\ Amount(forwarding'[s]) = Amount(forwarding[s]) + more
                      /\ Fed(s)' = Fed(s) + more

\* A destination that accounts for what it was fed keeps its sum.
LEMMA AccountedSums ==
  ASSUME IInv, TypeOK', outcome # "raised", NEW s \in Streams, NEW more \in Nat,
         Accounted(s, more)
  PROVE  Bounded(forwarding[s])' /\ Sum(s)' = Fed(s)'
<1>1. Sum(s) = Fed(s)
  BY DEF IInv, ForwardInv
<1>2. Sum(s) = Amount(forwarding[s]) + Len(taken[s])
  BY SumIsAmount DEF IInv
<1>3. Sum(s)' = Amount(forwarding'[s]) + Len(taken'[s])
  BY DEF Sum, Amount, TypeOK, Queues
<1>4. Amount(forwarding[s]) \in Nat /\ Len(taken[s]) \in Nat
  BY SMTT(30) DEF IInv, TypeOK, Queues, Amount
<1> QED BY <1>1, <1>2, <1>3, <1>4 DEF Accounted, Bounded

\* Every step keeps the balance of what was fed.
LEMMA ForwardStep == IInv /\ Next => ForwardInv'
<1> SUFFICES ASSUME IInv, Next PROVE ForwardInv'
  OBVIOUS
<1> USE LimitsAssumption, StreamsAssumption
<1>0. TypeOK' /\ TypeOK /\ ForwardInv /\ ScopeInv
  BY TypeStep DEF IInv
<1>1. CASE Still
  <2>1. \A s \in Streams : Bounded(forwarding[s])' /\ (outcome' # "raised" => Sum(s)' = Fed(s)')
    <3>1. ASSUME NEW s \in Streams PROVE Sum(s)' = Sum(s)
      BY <1>1 DEF Still, Sum
    <3>2. ASSUME NEW s \in Streams PROVE Bounded(forwarding[s])'
      BY <1>0, <1>1 DEF Still, Bounded, ForwardInv
    <3> QED BY <1>0, <1>1, <3>1, <3>2 DEF Still, ForwardInv
  <2>2. pc' \in {"report", "done"} /\ outcome' # "raised" =>
            pc' = pc /\ outcome' = outcome
    BY <1>1 DEF Still, Ended
  <2> QED BY <1>0, <1>1, <2>1, <2>2 DEF Still, ForwardInv
<1>2. CASE FlushesFirst \/ FlushesLast
  <2>1. /\ outcome # "raised" /\ pc' \notin {"report", "done"} /\ outcome' = outcome
        /\ taken' = taken /\ Flushes /\ read' = read /\ pc # "failed" /\ pc' # "failed"
    BY <1>0, <1>2 DEF FlushesFirst, FlushesLast, Outside, outputVars, clientVars, Goto, ScopeInv
  <2>2. ASSUME NEW s \in Streams PROVE Bounded(forwarding[s])' /\ Sum(s)' = Fed(s)'
    <3>1. Bounded(forwarding'[s]) /\ Amount(forwarding'[s]) = Amount(forwarding[s])
          /\ Amount(forwarding[s]) \in Nat /\ Fed(s) \in Nat
      <4>1. forwarding[s] \in Queues /\ read[s] \in Nat
        BY <1>0 DEF TypeOK
      <4> QED BY <2>1, <4>1, FlushesKeep, AmountIsNat DEF Fed
    <3>2. Fed(s)' = Fed(s)
      BY <2>1 DEF Fed
    <3>3. Accounted(s, 0)
      BY <2>1, <3>1, <3>2 DEF Accounted
    <3> QED BY <1>0, <2>1, <3>3, AccountedSums
  <2> QED BY <2>1, <2>2 DEF ForwardInv
<1>3. CASE Tells
  <2>1. /\ outcome # "raised" /\ pc' = "reap" /\ pc = "failed"
        /\ outcome = "failed" /\ outcome' = outcome
        /\ taken' = taken /\ Feeds(Error, <<Message>>) /\ read' = read
    BY <1>0, <1>3 DEF Tells, Outside, outputVars, clientVars, Goto, ScopeInv
  <2>2. <<Message>> \in Seq(Units) /\ Len(<<Message>>) = 1
    BY DEF Message, Units
  <2>3. ASSUME NEW s \in Streams PROVE Bounded(forwarding[s])' /\ Sum(s)' = Fed(s)'
    <3> DEFINE more == IF s = Error THEN 1 ELSE 0
    <3>1. Bounded(forwarding'[s]) /\ Amount(forwarding'[s]) = Amount(forwarding[s]) + more
      <4>1. (IF s = Error THEN Len(<<Message>>) ELSE 0) = more
        BY <2>2
      <4>2. Amount(forwarding'[s])
              = Amount(forwarding[s]) + IF s = Error THEN Len(<<Message>>) ELSE 0
        BY <2>1, <2>2, FeedsKeep, ZenonT(60)
      <4>3. Bounded(forwarding'[s])
        BY <2>1, <2>2, FeedsKeep
      <4> QED BY <4>1, <4>2, <4>3
    <3>2. Fed(s)' = Fed(s) + more
      BY <1>0, <2>1 DEF Fed, TypeOK
    <3>3. Accounted(s, more) /\ more \in Nat
      BY <2>1, <3>1, <3>2 DEF Accounted
    <3> HIDE DEF more
    <3> QED BY <1>0, <2>1, <3>3, AccountedSums
  <2> QED BY <2>1, <2>3 DEF ForwardInv
<1>4. ASSUME NEW s \in Streams, Reads(s) PROVE ForwardInv'
  <2>1. PICK n \in 1 .. sent[s] - read[s] :
          read' = [read EXCEPT ![s] = @ + n] /\ Feeds(s, [k \in 1 .. n |-> read[s] + k])
    BY <1>4 DEF Reads
  <2> DEFINE units == [k \in 1 .. n |-> read[s] + k]
  <2>2. units \in Seq(Units) /\ Len(units) = n /\ n \in Nat
    <3>1. read[s] \in Nat /\ sent[s] \in Nat /\ sent[s] <= MaxOutput
      BY <1>0 DEF TypeOK, IInv, OutputInv
    <3> QED BY <2>1, <3>1 DEF Units, Message
  <2>3. /\ outcome # "raised" /\ pc' = "check" /\ pc = "select"
        /\ outcome' = outcome /\ taken' = taken
    BY <1>0, <1>4 DEF Reads, clientVars, Goto, ScopeInv
  <2> HIDE DEF units
  <2>4. ASSUME NEW t \in Streams PROVE Bounded(forwarding[t])' /\ Sum(t)' = Fed(t)'
    <3> DEFINE more == IF t = s THEN Len(units) ELSE 0
    <3>1. Bounded(forwarding'[t]) /\ Amount(forwarding'[t]) = Amount(forwarding[t]) + more
      BY <2>1, <2>2, FeedsKeep DEF units
    <3>2. read'[t] = read[t] + more /\ read[t] \in Nat /\ more \in Nat
      <4>1. read \in [Streams -> Nat]
        BY <1>0 DEF TypeOK
      <4>2. CASE t = s
        BY <2>1, <2>2, <4>1, <4>2
      <4>3. CASE t # s
        BY <2>1, <4>1, <4>3
      <4> QED BY <4>2, <4>3
    <3>3. Fed(t)' = Fed(t) + more
      <4> HIDE DEF more
      <4> QED BY <2>3, <3>2 DEF Fed
    <3>4. Accounted(t, more)
      BY <2>3, <3>1, <3>3 DEF Accounted
    <3> HIDE DEF more
    <3> QED BY <1>0, <2>3, <3>2, <3>4, AccountedSums
  <2> QED BY <2>3, <2>4 DEF ForwardInv
<1>5. CASE Awaits
  <2>1. /\ outcome # "raised" /\ pc = "await" /\ pc' # "done" /\ pc' # "failed"
        /\ outcome' = outcome /\ taken' = taken /\ read' = read
    BY <1>0, <1>5 DEF Awaits, Outside, outputVars, clientVars, Goto, ScopeInv
  <2>2. ASSUME NEW s \in Streams PROVE Fed(s)' = Fed(s) /\ Fed(s) \in Nat
    BY <1>0, <2>1 DEF Fed, TypeOK
  <2>3. CASE GivesUp /\ pc' = "report"
    <3>1. ASSUME NEW s \in Streams
          PROVE  Bounded(forwarding[s])' /\ Sum(s)' = Fed(s)' /\ forwarding'[s].pending = <<>>
      <4>1. /\ Bounded(forwarding'[s]) /\ Amount(forwarding'[s]) = Amount(forwarding[s])
            /\ forwarding'[s].pending = <<>> /\ Amount(forwarding[s]) \in Nat
        BY <1>0, <2>3, GivesUpKeeps, AmountIsNat DEF TypeOK
      <4>2. Accounted(s, 0)
        BY <2>1, <2>2, <4>1 DEF Accounted
      <4> QED BY <1>0, <2>1, <4>1, <4>2, AccountedSums
    <3> QED BY <2>1, <3>1 DEF ForwardInv
  <2>4. CASE forwarding' = forwarding /\ pc' = "drain"
    BY <1>0, <2>1, <2>2, <2>4 DEF ForwardInv, Sum, Bounded
  <2> QED BY <1>5, <2>3, <2>4 DEF Awaits, Goto, forwardVars
<1>6. CASE FinishesAll \/ ReportsLoss
  <2>1. /\ outcome # "raised" /\ outcome' = outcome /\ UNCHANGED <<forwarding, taken, read>>
        /\ pc # "failed" /\ pc' # "failed"
        /\ pc' # "report" /\ (pc' = "done" => ReportsLoss)
    BY <1>0, <1>6 DEF FinishesAll, ReportsLoss, Finishes, Outside, outputVars, clientVars,
                      forwardVars, Goto, ScopeInv
  <2>2. ASSUME NEW s \in Streams PROVE Fed(s)' = Fed(s)
    BY <2>1 DEF Fed
  <2>3. ASSUME NEW s \in Streams PROVE Bounded(forwarding[s])' /\ Sum(s)' = Fed(s)'
    BY <1>0, <2>1, <2>2 DEF ForwardInv, Sum, Bounded
  <2>4. ASSUME NEW s \in Streams, pc' = "done"
        PROVE  forwarding'[s].pending = <<>> /\ (forwarding'[s].dropped > 0 => reported')
    BY <1>0, <2>1, <2>4 DEF ForwardInv, ReportsLoss, Goto
  <2> QED BY <2>1, <2>3, <2>4 DEF ForwardInv
<1>7. ASSUME NEW s \in Streams, ReadsEnd(s) \/ ChildWrites(s) PROVE ForwardInv'
  <2>1. /\ UNCHANGED <<forwarding, taken, read, reported, outcome>>
        /\ pc' = pc \/ (pc = "select" /\ pc' = "check")
    BY <1>7 DEF ReadsEnd, ChildWrites, Finishes, forwardVars, clientVars, Quiet, Goto
  <2>2. ASSUME NEW t \in Streams PROVE Fed(t)' = Fed(t)
    BY <2>1 DEF Fed
  <2> QED BY <1>0, <2>1, <2>2 DEF ForwardInv, Sum, Bounded
<1>8. ASSUME NEW s \in Streams, ClientTakes(s) PROVE ForwardInv'
  <2>1. UNCHANGED <<pc, outcome, read, reported>>
    BY <1>8 DEF ClientTakes, Quiet, outputVars
  <2>2. ASSUME NEW t \in Streams
        PROVE  /\ Fed(t)' = Fed(t) /\ Sum(t)' = Sum(t) /\ Bounded(forwarding[t])'
               /\ forwarding'[t].pending = forwarding[t].pending
               /\ forwarding'[t].dropped = forwarding[t].dropped
    <3>1. /\ forwarding'[t].pending = forwarding[t].pending
          /\ forwarding'[t].usable = forwarding[t].usable
          /\ forwarding'[t].dropped = forwarding[t].dropped
          /\ Len(forwarding'[t].channel) + Len(taken'[t])
               = Len(forwarding[t].channel) + Len(taken[t])
      BY <1>8, TakesKeeps
    <3>2. /\ forwarding[t].dropped \in Nat /\ Len(forwarding[t].pending) \in Nat
          /\ Len(forwarding[t].channel) \in Nat /\ Len(taken[t]) \in Nat
          /\ Len(forwarding'[t].channel) \in Nat /\ Len(taken'[t]) \in Nat
      <4>1. /\ forwarding[t] \in Queues /\ forwarding'[t] \in Queues
            /\ taken[t] \in Seq(Units) /\ taken'[t] \in Seq(Units)
        BY <1>0 DEF TypeOK
      <4> QED BY <4>1, QueueFields
    <3>3. Sum(t)' = Sum(t)
      <4>1. Sum(t)' = forwarding'[t].dropped + Len(forwarding'[t].pending)
                        + Len(forwarding'[t].channel) + Len(taken'[t])
        BY DEF Sum
      <4>2. Sum(t)' = forwarding[t].dropped + Len(forwarding[t].pending)
                        + Len(forwarding'[t].channel) + Len(taken'[t])
        BY <3>1, <4>1
      <4>3. Sum(t) = forwarding[t].dropped + Len(forwarding[t].pending)
                        + Len(forwarding[t].channel) + Len(taken[t])
        BY DEF Sum
      <4> DEFINE a == forwarding[t].dropped
                 b == Len(forwarding[t].pending)
                 c == Len(forwarding[t].channel)
                 d == Len(taken[t])
                 e == Len(forwarding'[t].channel)
                 f == Len(taken'[t])
      <4>4. /\ a \in Nat /\ b \in Nat /\ c \in Nat /\ d \in Nat /\ e \in Nat /\ f \in Nat
            /\ e + f = c + d /\ Sum(t)' = a + b + e + f /\ Sum(t) = a + b + c + d
        BY <3>1, <3>2, <4>2, <4>3
      <4> HIDE DEF a, b, c, d, e, f
      <4> QED BY <4>4
    <3>4. Bounded(forwarding[t])'
      BY <1>0, <3>1 DEF Bounded, ForwardInv
    <3>5. Fed(t)' = Fed(t)
      BY <2>1 DEF Fed
    <3> QED BY <3>1, <3>3, <3>4, <3>5
  <2> QED BY <1>0, <2>1, <2>2 DEF ForwardInv
<1> QED BY Cases, StillSteps, <1>1, <1>2, <1>3, <1>4, <1>5, <1>6, <1>7, <1>8

\* Every step keeps the invariant.
LEMMA NextIInv == IInv /\ [Next]_vars => IInv'
<1> SUFFICES ASSUME IInv, [Next]_vars PROVE IInv'
  OBVIOUS
<1>1. CASE Next
  BY <1>1, TypeStep, OutputStep, ForwardStep, ScopeStep DEF IInv
<1>2. CASE UNCHANGED vars
  BY <1>2 DEF vars, outputVars, forwardVars, clientVars, IInv, TypeOK, OutputInv, ForwardInv,
              ScopeInv, Bounded, Sum, Fed
<1> QED BY <1>1, <1>2

\* remote_main keeps its inductive invariant, with every list of streams and every limit.
THEOREM Invariance == Spec => []IInv
<1>1. Init => IInv
  BY InitIInv
<1>2. IInv /\ [Next]_vars => IInv'
  BY NextIInv
<1> QED BY <1>1, <1>2, PTL DEF Spec

\* The state of the relay is what remote_main and ForwardedOutput may hold.
THEOREM TypeCorrect == Spec => []TypeOK
BY Invariance, PTL DEF IInv

\* The queues of ForwardedOutput and the unfinished lines never outgrow their limits.
THEOREM MemoryIsBounded == Spec => []QueuesAreBounded
<1>1. IInv => QueuesAreBounded
  BY DEF IInv, OutputInv, ForwardInv, Bounded, QueuesAreBounded
<1> QED BY <1>1, Invariance, PTL

\* The number close reports is the difference between what was read and what was written.
THEOREM LossIsReported == Spec => []LossIsCounted
<1>1. IInv => LossIsCounted
  <2> SUFFICES ASSUME IInv, pc = "done", outcome # "raised", NEW s \in Streams
               PROVE  /\ forwarding[s].dropped + Len(forwarding[s].channel) + Len(taken[s]) = Fed(s)
                      /\ forwarding[s].dropped > 0 => reported
    BY DEF LossIsCounted
  <2>1. Sum(s) = Fed(s) /\ forwarding[s].pending = <<>>
        /\ (forwarding[s].dropped > 0 => reported)
    BY DEF IInv, ForwardInv
  <2>2. forwarding[s].dropped \in Nat /\ Len(forwarding[s].channel) \in Nat /\ Len(taken[s]) \in Nat
    BY QueueFields DEF IInv, TypeOK
  <2>3. Len(forwarding[s].pending) = 0
    BY <2>1
  <2> QED BY <2>1, <2>2, <2>3 DEF Sum
<1> QED BY <1>1, Invariance, PTL

\* XpraLogStream.finish leaves no line behind.
THEOREM JournalIsComplete == Spec => []JournalGetsAll
<1>1. IInv => JournalGetsAll
  <2> SUFFICES ASSUME IInv, pc = "done", outcome # "raised" PROVE emitted = read
    BY DEF JournalGetsAll
  <2>1. ASSUME NEW s \in Streams PROVE emitted[s] = read[s]
    <3>1. emitted[s] + held[s] = read[s] /\ held[s] = 0
      BY DEF IInv, OutputInv
    <3>2. emitted[s] \in Nat
      BY DEF IInv, TypeOK
    <3> QED BY <3>1, <3>2
  <2>2. emitted \in [Streams -> Nat] /\ read \in [Streams -> Nat]
    BY DEF IInv, TypeOK
  <2> QED BY <2>1, <2>2
<1> QED BY <1>1, Invariance, PTL

\* The finally block of remote_main leaves no process and no directory of its own.
THEOREM EverythingIsReleased == Spec => []NothingOwnedLeft
<1>1. IInv => NothingOwnedLeft
  BY DEF IInv, ScopeInv, NothingOwnedLeft
<1> QED BY <1>1, Invariance, PTL

\* OwnedSessionBus.close comes after the command has been reaped.
THEOREM DirectoryOutlivesCommand == Spec => []ScopeOutlivesChild
<1>1. IInv => ScopeOutlivesChild
  BY DEF IInv, ScopeInv, ScopeOutlivesChild
<1> QED BY <1>1, Invariance, PTL

\* What ForwardedOutput drops has a reason: no reader, no room or no time.
THEOREM NothingIsLostForNothing == Spec => LossHasCause
<1> DEFINE Cause(s) == forwarding'[s].dropped > forwarding[s].dropped =>
              \/ ~forwarding'[s].usable
              \/ Len(forwarding[s].pending) + Fed(s)' - Fed(s) > MaxQueue
              \/ "drain" \in over
<1>1. IInv /\ IInv' /\ [Next]_vars => [\A s \in Streams : Cause(s)]_vars
  <2> SUFFICES ASSUME IInv, IInv', Next, NEW s \in Streams,
                      forwarding'[s].dropped > forwarding[s].dropped, forwarding'[s].usable,
                      "drain" \notin over
               PROVE  Len(forwarding[s].pending) + Fed(s)' - Fed(s) > MaxQueue
    OBVIOUS
  <2>0. forwarding[s].dropped \in Nat /\ Len(forwarding[s].pending) \in Nat /\ read[s] \in Nat
    BY QueueFields DEF IInv, TypeOK
  <2>1. CASE Still \/ FinishesAll \/ ReportsLoss
    <3>1. forwarding' = forwarding
      BY <2>1 DEF Still, FinishesAll, ReportsLoss, forwardVars
    <3> QED BY <2>0, <3>1
  <2>2. CASE FlushesFirst \/ FlushesLast
    BY <2>2, FlushesKeep DEF FlushesFirst, FlushesLast
  <2>3. CASE Tells
    <3>1. pc = "failed" /\ pc' = "reap" /\ outcome = "failed" /\ outcome' = outcome /\ read' = read
          /\ Feeds(Error, <<Message>>)
      BY <2>3 DEF Tells, Goto, Outside, outputVars, IInv, ScopeInv
    <3>2. <<Message>> \in Seq(Units) /\ Len(<<Message>>) = 1
      BY LimitsAssumption DEF Message, Units
    <3>3. s = Error /\ Len(forwarding[s].pending) + 1 > MaxQueue
      BY <3>1, <3>2, FeedsKeep, StreamsAssumption
    <3>4. Fed(s)' - Fed(s) = 1
      BY <2>0, <3>1, <3>3 DEF Fed
    <3> QED BY <2>0, <3>1, <3>3, <3>4 DEF Fed
  <2>4. CASE Awaits
    <3>1. forwarding' = forwarding \/ (GivesUp /\ forwarding[s].pending = <<>>)
      BY <2>4 DEF Awaits, forwardVars
    <3> QED BY <2>0, <3>1, GivesUpKeeps
  <2>5. ASSUME NEW t \in Streams, Reads(t)
        PROVE  Len(forwarding[s].pending) + Fed(s)' - Fed(s) > MaxQueue
    <3>1. PICK n \in 1 .. sent[t] - read[t] :
            read' = [read EXCEPT ![t] = @ + n] /\ Feeds(t, [k \in 1 .. n |-> read[t] + k])
      BY <2>5 DEF Reads
    <3>2. /\ [k \in 1 .. n |-> read[t] + k] \in Seq(Units)
          /\ Len([k \in 1 .. n |-> read[t] + k]) = n /\ n \in Nat
      <4>1. read[t] \in Nat /\ sent[t] \in Nat /\ sent[t] <= MaxOutput
        BY DEF TypeOK, IInv, OutputInv
      <4> QED BY <3>1, <4>1, LimitsAssumption DEF Units, Message
    <3>3. s = t /\ Len(forwarding[s].pending) + n > MaxQueue
      BY <3>1, <3>2, FeedsKeep
    <3>4. read'[s] = read[s] + n /\ outcome' = outcome /\ outcome = "none"
      BY <2>5, <3>1, <3>3 DEF Reads, Goto, IInv, TypeOK, ScopeInv, Loop
    <3>5. Fed(s)' = Fed(s) + n /\ Fed(s) \in Nat
      BY <2>0, <3>2, <3>4 DEF Fed
    <3> QED BY <2>0, <3>2, <3>3, <3>5
  <2>6. ASSUME NEW t \in Streams, ReadsEnd(t) \/ ChildWrites(t)
        PROVE  Len(forwarding[s].pending) + Fed(s)' - Fed(s) > MaxQueue
    <3>1. forwarding' = forwarding
      BY <2>6 DEF ReadsEnd, ChildWrites, forwardVars
    <3> QED BY <2>0, <3>1
  <2>7. ASSUME NEW t \in Streams, ClientTakes(t)
        PROVE  Len(forwarding[s].pending) + Fed(s)' - Fed(s) > MaxQueue
    <3>1. forwarding'[s].dropped = forwarding[s].dropped
      BY <2>7, TakesKeeps
    <3> QED BY <2>0, <3>1
  <2> QED BY Cases, StillSteps, <2>1, <2>2, <2>3, <2>4, <2>5, <2>6, <2>7
<1> QED BY <1>1, Invariance, PTL DEF Spec, LossHasCause

-----------------------------------------------------------------------------
(* The order of what the client gets *)

\* u is in order and ends at b at the latest.
UpTo(u, b) == /\ \A k \in 1 .. Len(u) : u[k] <= b
              /\ \A j, k \in 1 .. Len(u) : j < k => u[j] < u[k]

\* What the client took, what is under way to it and what waits for it.
Ahead(s) == taken[s] \o (forwarding[s].channel \o forwarding[s].pending)
Reading == pc \in Start \cup Loop \cup {"failed"}
OrderInv == \A s \in Streams : UpTo(Ahead(s), IF Reading THEN read[s] ELSE Message)

\* Only the units and their order matter, not how the parts were joined.
LEMMA UpToShifted ==
  ASSUME NEW u \in Seq(Units), NEW v \in Seq(Units), NEW w \in Seq(Units), NEW x \in Seq(Units),
         NEW b, UpTo(u \o ((v \o w) \o x), b)
  PROVE  UpTo((u \o v) \o (w \o x), b)
<1>1. (u \o v) \o (w \o x) = u \o (v \o (w \o x))
  OBVIOUS
<1>2. (v \o w) \o x = v \o (w \o x)
  OBVIOUS
<1> QED BY <1>1, <1>2

\* Moving units from the head of the queue to the channel keeps the order.
LEMMA UpToMoved ==
  ASSUME NEW u \in Seq(Units), NEW v \in Seq(Units), NEW w \in Seq(Units), NEW x \in Seq(Units),
         NEW b, UpTo(u \o (v \o (w \o x)), b)
  PROVE  UpTo(u \o ((v \o w) \o x), b)
<1>1. (v \o w) \o x = v \o (w \o x)
  OBVIOUS
<1> QED BY <1>1

\* Grouping the units in another way keeps the order.
LEMMA UpToRegrouped ==
  ASSUME NEW u \in Seq(Units), NEW v \in Seq(Units), NEW w \in Seq(Units), NEW x \in Seq(Units),
         NEW b, UpTo((u \o (v \o w)) \o x, b)
  PROVE  UpTo(u \o (v \o (w \o x)), b)
<1>1. (u \o (v \o w)) \o x = u \o (v \o (w \o x))
  OBVIOUS
<1> QED BY <1>1

\* A sequence is its beginning and its rest.
LEMMA Split ==
  ASSUME NEW u \in Seq(Units), NEW n \in 0 .. Len(u)
  PROVE  /\ SubSeq(u, 1, n) \in Seq(Units) /\ SubSeq(u, n + 1, Len(u)) \in Seq(Units)
         /\ SubSeq(u, 1, n) \o SubSeq(u, n + 1, Len(u)) = u
<1>1. 1 \in 1 .. Len(u) + 1 /\ n \in 1 - 1 .. Len(u) /\ Len(u) \in n .. Len(u) /\ n \in Int
      /\ n + 1 \in Int /\ Len(u) \in Nat /\ \A k \in 1 .. Len(u) : u[k] \in Units
  BY LenProperties
<1>2. SubSeq(u, 1, n) \o SubSeq(u, n + 1, Len(u)) = SubSeq(u, 1, Len(u))
  BY <1>1, ConcatAdjacentSubSeq, Zenon
<1>3. SubSeq(u, 1, Len(u)) = u
  BY SubSeqFull
<1>4. SubSeq(u, 1, n) \in Seq(Units) /\ SubSeq(u, n + 1, Len(u)) \in Seq(Units)
  BY <1>1
<1> QED BY <1>2, <1>3, <1>4

\* A part from the front is in order too.
LEMMA UpToFront ==
  ASSUME NEW u \in Seq(Units), NEW v \in Seq(Units), NEW b \in Nat, UpTo(u \o v, b)
  PROVE  UpTo(u, b)
<1>1. /\ Len(u \o v) = Len(u) + Len(v) /\ Len(u) \in Nat /\ Len(v) \in Nat
      /\ \A k \in 1 .. Len(u) : (u \o v)[k] = u[k]
  BY ConcatProperties
<1>2. \A k \in 1 .. Len(u) : k \in 1 .. Len(u \o v)
  BY <1>1
<1> QED BY <1>1, <1>2 DEF UpTo

\* What remains of an ordered sequence that is cut is ordered.
LEMMA UpToCut ==
  ASSUME NEW u \in Seq(Units), NEW v \in Seq(Units), NEW w \in Seq(Units), NEW b \in Nat,
         UpTo(u \o (v \o w), b)
  PROVE  UpTo(u \o v, b)
<1>1. u \o (v \o w) = (u \o v) \o w /\ u \o v \in Seq(Units)
  OBVIOUS
<1> QED BY <1>1, UpToFront

\* What is later and in order can follow.
LEMMA UpToJoined ==
  ASSUME NEW u \in Seq(Units), NEW v \in Seq(Units), NEW b \in Nat, NEW c \in Nat, b <= c,
         UpTo(u, b), UpTo(v, c), \A k \in 1 .. Len(v) : b < v[k]
  PROVE  UpTo(u \o v, c)
<1> DEFINE w == u \o v
<1>1. /\ Len(w) = Len(u) + Len(v) /\ Len(u) \in Nat /\ Len(v) \in Nat
      /\ \A k \in 1 .. Len(w) : w[k] = IF k <= Len(u) THEN u[k] ELSE v[k - Len(u)]
  BY ConcatProperties
<1>2. (\A k \in 1 .. Len(u) : u[k] \in Nat) /\ (\A k \in 1 .. Len(v) : v[k] \in Nat)
  BY ElementOfSeq, LimitsAssumption DEF Units, Message
<1> HIDE DEF w
<1>3. ASSUME NEW k \in 1 .. Len(w)
      PROVE  \/ k \in 1 .. Len(u) /\ w[k] = u[k] /\ w[k] <= b
             \/ k - Len(u) \in 1 .. Len(v) /\ w[k] = v[k - Len(u)] /\ b < w[k] /\ w[k] <= c
  BY <1>1 DEF UpTo
<1>4. ASSUME NEW k \in 1 .. Len(w) PROVE w[k] <= c
  BY <1>1, <1>2, <1>3
<1>5. ASSUME NEW j \in 1 .. Len(w), NEW k \in 1 .. Len(w), j < k PROVE w[j] < w[k]
  <2>1. CASE k \in 1 .. Len(u)
    <3>1. j \in 1 .. Len(u)
      BY <1>1, <1>5, <2>1
    <3> QED BY <1>1, <1>5, <2>1, <3>1 DEF UpTo
  <2>2. CASE j \in 1 .. Len(u) /\ k \notin 1 .. Len(u)
    BY <1>2, <1>3, <1>1, <2>2
  <2>3. CASE j \notin 1 .. Len(u) /\ k \notin 1 .. Len(u)
    <3>1. /\ j - Len(u) \in 1 .. Len(v) /\ k - Len(u) \in 1 .. Len(v)
          /\ w[j] = v[j - Len(u)] /\ w[k] = v[k - Len(u)]
      BY <1>3, <2>3
    <3> QED BY <1>1, <1>5, <3>1 DEF UpTo
  <2> QED BY <2>1, <2>2, <2>3
<1> QED BY <1>4, <1>5 DEF UpTo, w

\* A flush keeps the order of what it moves.
LEMMA FlushedOrder ==
  ASSUME NEW q \in Queues, NEW gone, NEW n \in Room(q), Bounded(q),
         NEW u \in Seq(Units), NEW b \in Nat, UpTo(u \o (q.channel \o q.pending), b)
  PROVE  UpTo(u \o (Flushed(q, gone, n).channel \o Flushed(q, gone, n).pending), b)
<1> DEFINE f == Flushed(q, gone, n)
<1>1. n \in 0 .. Len(q.pending)
  BY LimitsAssumption DEF Room, Least, Queues
<1>2. q.channel \in Seq(Units) /\ q.pending \in Seq(Units)
  BY QueueFields
<1>3. CASE gone /\ q.pending # <<>>
  <2>1. f.channel = q.channel /\ f.pending = <<>>
    BY <1>3 DEF Flushed, Queues
  <2>2. u \o (f.channel \o f.pending) = u \o q.channel
    BY <1>2, <2>1, ConcatEmptySeq
  <2>3. UpTo(u \o q.channel, b)
    BY <1>2, UpToCut
  <2> QED BY <2>2, <2>3
<1>4. CASE ~(gone /\ q.pending # <<>>)
  <2> DEFINE first == SubSeq(q.pending, 1, n)
             rest == SubSeq(q.pending, n + 1, Len(q.pending))
  <2>1. f.channel = q.channel \o first /\ f.pending = rest
    BY <1>4 DEF Flushed, Queues
  <2>2. first \o rest = q.pending /\ first \in Seq(Units) /\ rest \in Seq(Units)
    BY <1>1, <1>2, Split
  <2> HIDE DEF first, rest
  <2>3. UpTo(u \o (q.channel \o (first \o rest)), b)
    BY <2>2
  <2>4. UpTo(u \o ((q.channel \o first) \o rest), b)
    BY <1>2, <2>2, <2>3, UpToMoved
  <2> QED BY <2>1, <2>4
<1> QED BY <1>3, <1>4

\* What follows may be cut off at any point.
LEMMA UpToFollowed ==
  ASSUME NEW u \in Seq(Units), NEW way \in Seq(Units), NEW wait \in Seq(Units),
         NEW first \in Seq(Units), NEW rest \in Seq(Units),
         NEW b \in Nat, NEW c \in Nat, b <= c, UpTo(u \o (way \o wait), b),
         UpTo(first \o rest, c), \A k \in 1 .. Len(first \o rest) : b < (first \o rest)[k]
  PROVE  UpTo(u \o (way \o (wait \o first)), c)
<1>1. UpTo(first, c)
  BY UpToFront
<1>2. \A k \in 1 .. Len(first) : b < first[k]
  <2>1. /\ Len(first \o rest) = Len(first) + Len(rest) /\ Len(first) \in Nat /\ Len(rest) \in Nat
        /\ \A k \in 1 .. Len(first) : (first \o rest)[k] = first[k]
    BY ConcatProperties
  <2> QED BY <2>1
<1>3. u \o (way \o wait) \in Seq(Units)
  BY ConcatProperties
<1>4. UpTo((u \o (way \o wait)) \o first, c)
  BY <1>1, <1>2, <1>3, UpToJoined
<1> QED BY <1>4, UpToRegrouped

\* feed queues the beginning of what it is given behind what waits.
LEMMA QueuedOrder ==
  ASSUME NEW q \in Queues, Bounded(q), NEW units \in Seq(Units),
         NEW u \in Seq(Units), NEW b \in Nat, NEW c \in Nat, b <= c,
         UpTo(u \o (q.channel \o q.pending), b), UpTo(units, c),
         \A k \in 1 .. Len(units) : b < units[k]
  PROVE  UpTo(u \o (Queued(q, units).channel \o Queued(q, units).pending), c)
<1> DEFINE f == Queued(q, units)
           fits == IF q.usable THEN Least(Len(units), MaxQueue - Len(q.pending)) ELSE 0
           first == SubSeq(units, 1, fits)
           rest == SubSeq(units, fits + 1, Len(units))
<1>1. fits \in 0 .. Len(units)
  BY LimitsAssumption DEF Least, Queues, Bounded
<1>2. q.channel \in Seq(Units) /\ q.pending \in Seq(Units)
  BY QueueFields
<1>3. f.channel = q.channel /\ f.pending = q.pending \o first
  BY DEF Queued, Queues
<1>4. first \in Seq(Units) /\ rest \in Seq(Units) /\ first \o rest = units
  BY <1>1, Split
<1> HIDE DEF first, rest, fits, f
<1>5. UpTo(first \o rest, c) /\ \A k \in 1 .. Len(first \o rest) : b < (first \o rest)[k]
  BY <1>4
<1>6. UpTo(u \o (q.channel \o (q.pending \o first)), c)
  BY <1>2, <1>4, <1>5, UpToFollowed
<1> QED BY <1>3, <1>6 DEF f
\* A later end is an end.
LEMMA UpToLater ==
  ASSUME NEW u \in Seq(Units), NEW b \in Nat, NEW c \in Nat, b <= c, UpTo(u, b)
  PROVE  UpTo(u, c)
<1>1. \A k \in 1 .. Len(u) : u[k] \in Nat
  BY ElementOfSeq, LimitsAssumption DEF Units, Message
<1> QED BY <1>1 DEF UpTo

\* What the operations on all destinations do to the order of one.
LEMMA FlushesOrder ==
  ASSUME IInv, Flushes, taken' = taken, NEW s \in Streams, NEW b \in Nat, UpTo(Ahead(s), b)
  PROVE  UpTo(Ahead(s)', b)
<1>1. PICK n \in [Streams -> 0 .. MaxQueue] :
        /\ n[s] \in Room(forwarding[s])
        /\ forwarding'[s] = Flushed(forwarding[s], s \in closed, n[s])
  BY DEF Flushes
<1>2. forwarding[s] \in Queues /\ Bounded(forwarding[s]) /\ taken[s] \in Seq(Units)
  BY DEF IInv, TypeOK, ForwardInv
<1>3. UpTo(taken[s] \o (forwarding[s].channel \o forwarding[s].pending), b)
  BY DEF Ahead
<1>4. UpTo(taken[s] \o (forwarding'[s].channel \o forwarding'[s].pending), b)
  BY <1>1, <1>2, <1>3, FlushedOrder
<1> QED BY <1>4 DEF Ahead

\* Newer units are fed behind the older ones.
LEMMA FeedsOrder ==
  ASSUME IInv, taken' = taken, NEW s \in Streams, NEW units \in Seq(Units), Feeds(s, units),
         NEW t \in Streams, NEW b \in Nat, NEW c \in Nat, UpTo(Ahead(t), b),
         UpTo(units, c), t = s => b <= c /\ \A k \in 1 .. Len(units) : b < units[k]
  PROVE  UpTo(Ahead(t)', IF t = s THEN c ELSE b)
<1> DEFINE before(m) == Flushed(forwarding[t], t \in closed, m[t])
           queued(m) == IF t = s THEN Queued(before(m), units) ELSE before(m)
<1>1. PICK m \in [Streams -> 0 .. MaxQueue], n \in [Streams -> 0 .. MaxQueue] :
        /\ m[t] \in Room(forwarding[t]) /\ n[t] \in Room(queued(m))
        /\ forwarding'[t] = Flushed(queued(m), t \in closed, n[t])
  BY DEF Feeds
<1>2. forwarding[t] \in Queues /\ Bounded(forwarding[t]) /\ taken[t] \in Seq(Units)
  BY DEF IInv, TypeOK, ForwardInv
<1> DEFINE p == before(m)
           q == queued(m)
           d == IF t = s THEN c ELSE b
<1>3. UpTo(taken[t] \o (forwarding[t].channel \o forwarding[t].pending), b)
  BY DEF Ahead
<1>4. p \in Queues /\ Bounded(p)
  BY <1>1, <1>2, FlushedQueue
<1>5. UpTo(taken[t] \o (p.channel \o p.pending), b)
  BY <1>1, <1>2, <1>3, FlushedOrder
<1>6. q = IF t = s THEN Queued(p, units) ELSE p
  OBVIOUS
<1>7. n[t] \in Room(q) /\ forwarding'[t] = Flushed(q, t \in closed, n[t]) /\ d \in Nat
  BY <1>1
<1> HIDE DEF p, q
<1>8. q \in Queues /\ Bounded(q) /\ UpTo(taken[t] \o (q.channel \o q.pending), d)
  <2>1. CASE t = s
    <3>1. UpTo(taken[t] \o (Queued(p, units).channel \o Queued(p, units).pending), c)
      BY <1>2, <1>4, <1>5, <2>1, QueuedOrder
    <3>2. Queued(p, units) \in Queues /\ Bounded(Queued(p, units))
      BY <1>4, QueuedQueue
    <3> QED BY <1>6, <2>1, <3>1, <3>2
  <2>2. CASE t # s
    BY <1>4, <1>5, <1>6, <2>2
  <2> QED BY <2>1, <2>2
<1> HIDE DEF d
<1>9. UpTo(taken[t] \o (forwarding'[t].channel \o forwarding'[t].pending), d)
  BY <1>2, <1>7, <1>8, FlushedOrder
<1> QED BY <1>9 DEF Ahead, d

\* What is given up leaves the rest in order.
LEMMA GivesUpOrder ==
  ASSUME IInv, GivesUp, taken' = taken, NEW s \in Streams, NEW b \in Nat, UpTo(Ahead(s), b)
  PROVE  UpTo(Ahead(s)', b)
<1> DEFINE way == forwarding[s].channel
           wait == forwarding[s].pending
<1>1. forwarding[s] \in Queues /\ taken[s] \in Seq(Units)
  BY DEF IInv, TypeOK
<1>2. forwarding'[s].channel = way /\ forwarding'[s].pending = <<>>
  BY <1>1 DEF GivesUp, Queues
<1>3. way \in Seq(Units) /\ wait \in Seq(Units)
  BY <1>1, QueueFields
<1>4. UpTo(taken[s] \o (way \o wait), b)
  BY DEF Ahead
<1> HIDE DEF way, wait
<1>6. UpTo(taken[s] \o way, b)
  BY <1>1, <1>3, <1>4, UpToCut
<1>7. way \o <<>> = way
  BY <1>3, ConcatEmptySeq
<1> QED BY <1>2, <1>6, <1>7 DEF Ahead
\* What the client takes was the next in order.
LEMMA TakesOrder ==
  ASSUME IInv, NEW s \in Streams, ClientTakes(s), NEW t \in Streams, NEW b \in Nat, UpTo(Ahead(t), b)
  PROVE  UpTo(Ahead(t)', b)
<1> DEFINE c == forwarding[s].channel
<1>1. /\ forwarding \in [Streams -> Queues] /\ taken \in [Streams -> Seq(Units)] /\ c # <<>>
      /\ forwarding' = [forwarding EXCEPT ![s] = [@ EXCEPT !.channel = Tail(c)]]
      /\ taken' = [taken EXCEPT ![s] = Append(taken[s], Head(c))]
  BY DEF IInv, TypeOK, ClientTakes
<1>2. CASE t # s
  BY <1>1, <1>2 DEF Ahead
<1>3. CASE t = s
  <2> DEFINE u == taken[s]
             wait == forwarding[s].pending
  <2>1. c \in Seq(Units) /\ wait \in Seq(Units) /\ u \in Seq(Units)
    BY <1>1, QueueFields
  <2>2. taken'[s] = Append(u, Head(c)) /\ forwarding'[s].channel = Tail(c)
        /\ forwarding'[s].pending = wait
    <3>1. taken'[s] = Append(u, Head(c))
      BY <1>1
    <3>2. forwarding'[s].channel = Tail(c) /\ forwarding'[s].pending = wait
      BY <1>1 DEF Queues
    <3> QED BY <3>1, <3>2
  <2>3. UpTo(u \o (c \o wait), b)
    BY <1>3 DEF Ahead
  <2>4. c # <<>>
    BY <1>1
  <2> HIDE DEF c, u, wait
  <2>5. Append(u, Head(c)) = u \o <<Head(c)>> /\ Tail(c) \in Seq(Units) /\ <<Head(c)>> \in Seq(Units)
    BY <2>1, <2>4, HeadTailProperties, AppendIsConcat
  <2>6. c = <<Head(c)>> \o Tail(c)
    BY <2>1, <2>4
  <2>7. UpTo((u \o <<Head(c)>>) \o (Tail(c) \o wait), b)
    <3> DEFINE h == <<Head(c)>>
               r == Tail(c)
    <3>1. h \in Seq(Units) /\ r \in Seq(Units) /\ c = h \o r
      BY <2>5, <2>6
    <3> HIDE DEF h, r
    <3>2. UpTo(u \o ((h \o r) \o wait), b)
      BY <2>3, <3>1
    <3> QED BY <2>1, <3>1, <3>2, UpToShifted DEF h, r
  <2> QED BY <1>3, <2>2, <2>5, <2>7 DEF Ahead
<1> QED BY <1>2, <1>3

\* Nothing is read once the loop was left.
LEMMA ReadingStays ==
  ASSUME IInv, Next
  PROVE  Reading' => Reading
<1> USE DEF Reading, Start, Loop, Goto, Rest, Outside, Quiet, IInv, ScopeInv
<1>1. CASE BusStep
  BY <1>1 DEF BusStep, MakesDirectory, LaunchesDaemon, AwaitsDaemon, FallsBack, StopsDaemon,
              RemovesDirectory, RemovalFails, Fails
<1>2. CASE Spawns \/ Waits
  BY <1>2 DEF Spawns, Waits, Fails
<1>3. CASE Idles \/ Checks \/ FlushesFirst \/ Tells
  BY <1>3 DEF Idles, Checks, FlushesFirst, Tells
<1>4. CASE FinalStep
  BY <1>4 DEF FinalStep, Reaps, FinishesAll, FlushesLast, Awaits, ReportsLoss
<1>5. ASSUME NEW s \in Streams, Reads(s) \/ ReadsEnd(s) PROVE Reading' => Reading
  BY <1>5 DEF Reads, ReadsEnd
<1>6. CASE Around \/ \E d \in Deadlines : Elapses(d)
  BY <1>6 DEF Around, Signalled, ChildExits, ChildWrites, ChildCloses, ClientTakes, ClientGoes, Elapses
<1> QED BY <1>1, <1>2, <1>3, <1>4, <1>5, <1>6 DEF Next, Relay, LoopStep

\* Nothing has been read yet.
LEMMA InitOrder == Init => OrderInv
<1>1. \A b : UpTo(<<>>, b)
  BY DEF UpTo
<1>2. ASSUME Init, NEW s \in Streams PROVE Ahead(s) = <<>>
  BY <1>2 DEF Init, Ahead
<1> QED BY <1>1, <1>2 DEF OrderInv

\* Every step keeps the order.
LEMMA OrderStep == IInv /\ OrderInv /\ Next => OrderInv'
<1> SUFFICES ASSUME IInv, OrderInv, Next, NEW t \in Streams
             PROVE  UpTo(Ahead(t)', IF Reading' THEN read'[t] ELSE Message)
  BY DEF OrderInv
<1> USE LimitsAssumption, StreamsAssumption
<1> DEFINE b == IF Reading THEN read[t] ELSE Message
           c == IF Reading' THEN read'[t] ELSE Message
<1>0. /\ IInv' /\ read[t] \in Nat /\ read'[t] \in Nat /\ read'[t] < Message /\ Message \in Nat
      /\ b \in Nat /\ c \in Nat /\ (Reading' => Reading) /\ taken[t] \in Seq(Units)
      /\ Ahead(t) \in Seq(Units) /\ UpTo(Ahead(t), b)
  <2>1. IInv'
    BY NextIInv
  <2>2. read'[t] < Message /\ read[t] < Message
    <3>1. read[t] <= sent[t] /\ sent[t] <= MaxOutput /\ read'[t] <= sent'[t] /\ sent'[t] <= MaxOutput
      BY <2>1 DEF IInv, OutputInv
    <3>2. read[t] \in Nat /\ sent[t] \in Nat /\ read'[t] \in Nat /\ sent'[t] \in Nat
      BY <2>1 DEF IInv, TypeOK
    <3> QED BY <3>1, <3>2 DEF Message
  <2>3. read[t] \in Nat /\ read'[t] \in Nat /\ Message \in Nat /\ taken[t] \in Seq(Units)
    BY <2>1 DEF IInv, TypeOK, Message
  <2>4. forwarding[t].channel \in Seq(Units) /\ forwarding[t].pending \in Seq(Units)
    BY QueueFields DEF IInv, TypeOK
  <2>5. Ahead(t) \in Seq(Units)
    BY <2>3, <2>4, ConcatProperties DEF Ahead
  <2> QED BY <2>1, <2>2, <2>3, <2>5, ReadingStays DEF OrderInv
<1>1. ASSUME read'[t] = read[t], Ahead(t)' \in Seq(Units), UpTo(Ahead(t)', b) PROVE UpTo(Ahead(t)', c)
  BY <1>0, <1>1, UpToLater
<1>2. Ahead(t)' \in Seq(Units)
  <2>1. taken'[t] \in Seq(Units) /\ forwarding'[t] \in Queues
    BY <1>0 DEF IInv, TypeOK
  <2>2. forwarding'[t].channel \in Seq(Units) /\ forwarding'[t].pending \in Seq(Units)
    BY <2>1, QueueFields
  <2> QED BY <2>1, <2>2, ConcatProperties DEF Ahead
<1> HIDE DEF b
<1>3. CASE Still
  BY <1>0, <1>1, <1>2, <1>3 DEF Still, Ahead
<1>4. CASE FlushesFirst \/ FlushesLast
  <2>1. Flushes /\ taken' = taken /\ read' = read
    BY <1>4 DEF FlushesFirst, FlushesLast, Outside, outputVars, clientVars
  <2> QED BY <1>0, <1>1, <1>2, <2>1, FlushesOrder
<1>5. CASE Awaits
  <2>1. taken' = taken /\ read' = read /\ (GivesUp \/ forwarding' = forwarding)
    BY <1>5 DEF Awaits, Outside, outputVars, clientVars, forwardVars
  <2>2. CASE GivesUp
    BY <1>0, <1>1, <1>2, <2>1, <2>2, GivesUpOrder
  <2>3. CASE forwarding' = forwarding
    BY <1>0, <1>1, <1>2, <2>1, <2>3 DEF Ahead
  <2> QED BY <2>1, <2>2, <2>3
<1>6. CASE FinishesAll \/ ReportsLoss \/ \E s \in Streams : ReadsEnd(s) \/ ChildWrites(s)
  <2>1. UNCHANGED <<taken, read, forwarding>>
    BY <1>6 DEF FinishesAll, ReportsLoss, ReadsEnd, ChildWrites, Finishes, Outside, outputVars,
                clientVars, forwardVars
  <2> QED BY <1>0, <1>1, <1>2, <2>1 DEF Ahead
<1>7. ASSUME NEW s \in Streams, ClientTakes(s) PROVE UpTo(Ahead(t)', c)
  <2>1. read' = read
    BY <1>7 DEF ClientTakes, outputVars
  <2> QED BY <1>0, <1>1, <1>2, <1>7, <2>1, TakesOrder
<1>8. CASE Tells
  <2> DEFINE units == <<Message>>
  <2>1. Feeds(Error, units) /\ taken' = taken /\ read' = read /\ Reading /\ ~Reading'
    BY <1>8 DEF Tells, Outside, outputVars, clientVars, Goto, Reading, Start, Loop
  <2>2. units \in Seq(Units) /\ UpTo(units, Message) /\ \A k \in 1 .. Len(units) : units[k] = Message
    BY DEF Message, Units, UpTo
  <2>3. b = read[t] /\ c = Message /\ b < Message
    BY <1>0, <2>1 DEF b
  <2> HIDE DEF units
  <2>4. UpTo(Ahead(t)', IF t = Error THEN Message ELSE b)
    BY <1>0, <2>1, <2>2, <2>3, FeedsOrder
  <2> QED BY <1>0, <1>2, <2>3, <2>4, UpToLater
<1>9. ASSUME NEW s \in Streams, Reads(s) PROVE UpTo(Ahead(t)', c)
  <2>1. PICK n \in 1 .. sent[s] - read[s] :
          read' = [read EXCEPT ![s] = @ + n] /\ Feeds(s, [k \in 1 .. n |-> read[s] + k])
    BY <1>9 DEF Reads
  <2> DEFINE units == [k \in 1 .. n |-> read[s] + k]
  <2>2. read[s] \in Nat /\ sent[s] \in Nat /\ sent[s] <= MaxOutput /\ n \in Nat
    BY <2>1 DEF IInv, TypeOK, OutputInv
  <2>3. units \in Seq(Units) /\ Len(units) = n
    <3>1. units \in Seq(Units)
      BY <2>1, <2>2, ReadUnits
    <3> QED BY <2>2, <3>1
  <2>4. read[s] + n \in Nat /\ UpTo(units, read[s] + n) /\ \A k \in 1 .. Len(units) : read[s] < units[k]
    BY <2>2, <2>3 DEF UpTo
  <2>5. taken' = taken /\ Feeds(s, units) /\ Reading /\ Reading'
    BY <1>9, <2>1 DEF Reads, clientVars, Goto, Reading, Loop
  <2>6. read'[t] = IF t = s THEN read[s] + n ELSE read[t]
    BY <2>1, <2>2 DEF IInv, TypeOK
  <2> HIDE DEF units
  <2>7. CASE t = s
    BY <1>0, <2>2, <2>3, <2>4, <2>5, <2>6, <2>7, FeedsOrder DEF b
  <2>8. CASE t # s
    BY <1>0, <2>2, <2>3, <2>4, <2>5, <2>6, <2>8, FeedsOrder DEF b
  <2> QED BY <2>7, <2>8
<1> QED BY Cases, StillSteps, <1>3, <1>4, <1>5, <1>6, <1>7, <1>8, <1>9

\* The order survives partial writes, readers that go and what is given up at the end.
THEOREM OrderIsKept == Spec => []InOrderOnce
<1>1. IInv /\ OrderInv => InOrderOnce
  <2> SUFFICES ASSUME IInv, OrderInv, NEW s \in Streams,
                      NEW ahead, ahead = taken[s] \o forwarding[s].channel \o forwarding[s].pending,
                      NEW k \in 1 .. Len(ahead) - 1
               PROVE  ahead[k] < ahead[k + 1]
    BY DEF InOrderOnce
  <2>1. /\ forwarding[s].channel \in Seq(Units) /\ forwarding[s].pending \in Seq(Units)
        /\ taken[s] \in Seq(Units)
    BY QueueFields DEF IInv, TypeOK
  <2>2. ahead = Ahead(s) /\ ahead \in Seq(Units)
    <3> DEFINE u == taken[s]
               v == forwarding[s].channel
               w == forwarding[s].pending
    <3>1. u \in Seq(Units) /\ v \in Seq(Units) /\ w \in Seq(Units) /\ ahead = u \o v \o w
      BY <2>1
    <3> HIDE DEF u, v, w
    <3>2. u \o v \o w = u \o (v \o w) /\ u \o v \o w \in Seq(Units)
      BY <3>1
    <3> QED BY <3>1, <3>2 DEF u, v, w, Ahead
  <2>3. k \in 1 .. Len(ahead) /\ k + 1 \in 1 .. Len(ahead) /\ k < k + 1
    BY <2>2
  <2> QED BY <2>2, <2>3 DEF OrderInv, UpTo
<1>2. IInv /\ OrderInv /\ [Next]_vars => OrderInv'
  <2>1. ASSUME OrderInv, UNCHANGED vars PROVE OrderInv'
    BY <2>1 DEF OrderInv, Ahead, Reading, vars, outputVars, forwardVars, clientVars
  <2> QED BY <2>1, OrderStep
<1> QED BY <1>1, <1>2, InitOrder, Invariance, PTL DEF Spec

=============================================================================
