--------------------------- MODULE LogTransportProofs ---------------------------
(***************************************************************************)
(* Proofs about the live log transport: the bounds, the counts and the end *)
(* of one observer's stream (LogStream), for every size of its queues and  *)
(* any number of publishers and records; and how observers come and go     *)
(* (LogSubscription), for any set of them and any limit.                   *)
(***************************************************************************)
EXTENDS LogStream, LogSubscription, FiniteSetTheorems, FunctionTheorems, SequenceTheorems,
        TLAPS

---------------------------------------------------------------------------
(* Sums                                                                     *)

\* What Total counts.
Units(f) == {u \in (DOMAIN f) \X (1 .. MaxGap) : u[2] <= f[u[1]]}

Amounts == 0 .. MaxGap

\* A finite sum of bounded values is a number.
LEMMA TotalType ==
  ASSUME NEW D, IsFiniteSet(D), NEW f \in [D -> Amounts]
  PROVE  IsFiniteSet(Units(f)) /\ Total(f) = Cardinality(Units(f)) /\ Total(f) \in Nat
<1>1. IsFiniteSet(1 .. MaxGap)
  BY FS_Interval, GapAssumption
<1>2. IsFiniteSet(D \X (1 .. MaxGap))
  BY <1>1, FS_Product
<1>3. Units(f) \in SUBSET (D \X (1 .. MaxGap))
  BY DEF Units
<1>4. IsFiniteSet(Units(f))
  BY <1>2, <1>3, FS_Subset
<1>5. Total(f) = Cardinality(Units(f))
  BY DEF Total, Units
<1> QED BY <1>4, <1>5, FS_CardinalityType

\* A sum of zeros is zero.
LEMMA TotalZero ==
  ASSUME NEW D, NEW f \in [D -> Amounts], \A d \in D : f[d] = 0
  PROVE  Total(f) = 0
<1>1. {u \in (DOMAIN f) \X (1 .. MaxGap) : u[2] <= f[u[1]]} = {}
  OBVIOUS
<1> QED BY <1>1, FS_EmptySet DEF Total

\* One addend can be split off.
LEMMA TotalSplit ==
  ASSUME NEW D, IsFiniteSet(D), NEW f \in [D -> Amounts], NEW d \in D
  PROVE  /\ Total([e \in D \ {d} |-> f[e]]) \in Nat
         /\ Total(f) = Total([e \in D \ {d} |-> f[e]]) + f[d]
<1> DEFINE g == [e \in D \ {d} |-> f[e]]
           column == {d} \X (1 .. f[d])
<1>1. IsFiniteSet(D \ {d}) /\ g \in [D \ {d} -> Amounts]
  BY FS_RemoveElement
<1>2. IsFiniteSet(Units(f)) /\ Total(f) = Cardinality(Units(f))
  BY TotalType
<1>3. IsFiniteSet(Units(g)) /\ Total(g) = Cardinality(Units(g)) /\ Total(g) \in Nat
  BY <1>1, TotalType
<1>4. f[d] \in Nat /\ f[d] <= MaxGap
  BY GapAssumption DEF Amounts
<1>5. IsFiniteSet(column) /\ Cardinality(column) = f[d]
  <2>1. IsFiniteSet(1 .. f[d]) /\ Cardinality(1 .. f[d]) = f[d]
    BY <1>4, FS_Interval
  <2>2. IsFiniteSet({d}) /\ Cardinality({d}) = 1
    BY FS_Singleton
  <2>3. IsFiniteSet(column) /\ Cardinality(column) = 1 * f[d]
    BY <2>1, <2>2, FS_Product
  <2> QED BY <2>3, <1>4
<1>6. Units(f) = Units(g) \cup column
  <2>1. \A u \in Units(f) : u \in Units(g) \/ u \in column
    BY <1>4, GapAssumption DEF Units
  <2>2. \A u \in Units(g) : u \in Units(f)
    BY DEF Units
  <2>3. \A u \in column : u \in Units(f)
    BY <1>4, GapAssumption DEF Units
  <2> QED BY <2>1, <2>2, <2>3
<1>7. Units(g) \cap column = {}
  BY DEF Units
<1>8. Cardinality(Units(f)) = Cardinality(Units(g)) + Cardinality(column) - 0
  <2> HIDE DEF g, column
  <2>1. Cardinality(Units(g) \cup column)
          = Cardinality(Units(g)) + Cardinality(column) - Cardinality(Units(g) \cap column)
    BY <1>3, <1>5, FS_Union
  <2> QED BY <1>6, <1>7, <2>1, FS_EmptySet
<1> HIDE DEF g, column
<1>9. Total(f) = Total(g) + f[d]
  BY <1>2, <1>3, <1>4, <1>5, <1>8
<1> QED BY <1>3, <1>9 DEF g

\* No addend exceeds the sum.
LEMMA TotalBounds ==
  ASSUME NEW D, IsFiniteSet(D), NEW f \in [D -> Amounts], NEW d \in D
  PROVE  f[d] <= Total(f)
<1>1. PICK n \in Nat : Total(f) = n + f[d]
  BY TotalSplit
<1> QED BY <1>1, GapAssumption DEF Amounts

\* One value changes: the sum changes by as much.
LEMMA TotalUpdate ==
  ASSUME NEW D, IsFiniteSet(D), NEW f \in [D -> Amounts], NEW h \in [D -> Amounts],
         NEW d \in D, \A e \in D \ {d} : h[e] = f[e]
  PROVE  Total(h) = Total(f) - f[d] + h[d]
<1> DEFINE rest(k) == [e \in D \ {d} |-> k[e]]
<1>1. rest(h) = rest(f)
  OBVIOUS
<1>2. Total(f) = Total(rest(f)) + f[d] /\ Total(rest(f)) \in Nat
  BY TotalSplit
<1>3. Total(h) = Total(rest(h)) + h[d]
  BY TotalSplit
<1>4. f[d] \in Nat /\ h[d] \in Nat
  BY GapAssumption DEF Amounts
<1> HIDE DEF rest
<1> QED BY <1>1, <1>2, <1>3, <1>4

\* The same for an assignment to one place.
LEMMA TotalExcept ==
  ASSUME NEW D, IsFiniteSet(D), NEW f \in [D -> Amounts], NEW d \in D, NEW n \in Amounts
  PROVE  /\ Total([f EXCEPT ![d] = n]) = Total(f) - f[d] + n
         /\ n <= Total([f EXCEPT ![d] = n])
<1> DEFINE h == [f EXCEPT ![d] = n]
<1>1. h \in [D -> Amounts] /\ h[d] = n /\ \A e \in D \ {d} : h[e] = f[e]
  OBVIOUS
<1> HIDE DEF h
<1>2. Total(h) = Total(f) - f[d] + h[d]
  BY <1>1, TotalUpdate
<1>3. h[d] <= Total(h)
  BY <1>1, TotalBounds
<1> QED BY <1>1, <1>2, <1>3 DEF h

\* The order of the addends does not matter.
LEMMA TotalReindex ==
  ASSUME NEW D, NEW E, IsFiniteSet(D), NEW f \in [D -> Amounts], NEW g \in [E -> Amounts],
         NEW b \in Bijection(D, E), \A d \in D : g[b[d]] = f[d]
  PROVE  Total(f) = Total(g)
<1> DEFINE c == [u \in Units(f) |-> <<b[u[1]], u[2]>>]
<1>1. /\ b \in [D -> E]
      /\ \A x, y \in D : b[x] = b[y] => x = y
      /\ \A e \in E : \E d \in D : b[d] = e
  BY DEF Bijection, Injection, Surjection, IsInjective
<1>2. c \in [Units(f) -> Units(g)]
  <2> SUFFICES ASSUME NEW u \in Units(f) PROVE <<b[u[1]], u[2]>> \in Units(g)
    OBVIOUS
  <2> QED BY <1>1 DEF Units
<1>3. \A u, v \in Units(f) : c[u] = c[v] => u = v
  <2> SUFFICES ASSUME NEW u \in Units(f), NEW v \in Units(f),
                      <<b[u[1]], u[2]>> = <<b[v[1]], v[2]>>
               PROVE  u = v
    OBVIOUS
  <2>1. u \in D \X (1 .. MaxGap) /\ v \in D \X (1 .. MaxGap)
    BY DEF Units
  <2> QED BY <1>1, <2>1
<1>4. \A w \in Units(g) : \E u \in Units(f) : c[u] = w
  <2> SUFFICES ASSUME NEW w \in Units(g)
               PROVE  \E u \in Units(f) : c[u] = w
    OBVIOUS
  <2>1. w \in E \X (1 .. MaxGap) /\ w[2] <= g[w[1]]
    BY DEF Units
  <2>2. PICK d \in D : b[d] = w[1]
    BY <1>1, <2>1
  <2>3. <<d, w[2]>> \in Units(f)
    BY <2>1, <2>2 DEF Units
  <2>4. c[<<d, w[2]>>] = w
    BY <2>1, <2>2, <2>3
  <2> QED BY <2>3, <2>4
<1>5. c \in Bijection(Units(f), Units(g))
  BY <1>2, <1>3, <1>4 DEF Bijection, Injection, Surjection, IsInjective
<1>6. ExistsBijection(Units(f), Units(g))
  BY <1>5 DEF ExistsBijection
<1>7. IsFiniteSet(Units(f)) /\ Total(f) = Cardinality(Units(f))
  BY TotalType
<1> QED BY <1>6, <1>7, FS_Bijection DEF Total, Units

\* A value inserted into a sequence of values adds to its sum.
LEMMA TotalInsert ==
  ASSUME NEW n \in Nat, NEW f \in [1 .. n -> Amounts], NEW g \in [1 .. n + 1 -> Amounts],
         NEW k \in 1 .. n + 1,
         \A i \in 1 .. n : f[i] = g[IF i < k THEN i ELSE i + 1]
  PROVE  Total(g) = Total(f) + g[k]
<1> DEFINE E == (1 .. n + 1) \ {k}
           rest == [e \in E |-> g[e]]
           b == [i \in 1 .. n |-> IF i < k THEN i ELSE i + 1]
<1>1. IsFiniteSet(1 .. n) /\ IsFiniteSet(1 .. n + 1)
  BY FS_Interval
<1>2. Total(g) = Total(rest) + g[k]
  BY <1>1, TotalSplit
<1>3. rest \in [E -> Amounts]
  OBVIOUS
<1>4. b \in Bijection(1 .. n, E)
  <2>1. b \in [1 .. n -> E]
    OBVIOUS
  <2>2. \A x, y \in 1 .. n : b[x] = b[y] => x = y
    OBVIOUS
  <2>3. \A e \in E : \E i \in 1 .. n : b[i] = e
    <3> SUFFICES ASSUME NEW e \in E PROVE \E i \in 1 .. n : b[i] = e
      OBVIOUS
    <3>1. CASE e < k
      BY <3>1
    <3>2. CASE e > k
      <4>1. e - 1 \in 1 .. n /\ b[e - 1] = e
        BY <3>2
      <4> QED BY <4>1
    <3> QED BY <3>1, <3>2
  <2> HIDE DEF b, E
  <2> QED BY <2>1, <2>2, <2>3 DEF Bijection, Injection, Surjection, IsInjective
<1>5. \A i \in 1 .. n : rest[b[i]] = f[i]
  OBVIOUS
<1> HIDE DEF rest, b, E
<1>6. Total(f) = Total(rest)
  BY <1>1, <1>3, <1>4, <1>5, TotalReindex
<1> QED BY <1>2, <1>6

\* A frame put between two stretches of frames adds its record and its gap.
LEMMA FrameInserted ==
  ASSUME NEW s \in Seq(Frames), NEW t \in Seq(Frames), NEW x \in Frames
  PROVE  /\ Total(Records(s \o <<x>> \o t))
             = Total(Records(s \o t)) + (IF x = Record THEN 1 ELSE 0)
         /\ Total(Gaps(s \o <<x>> \o t)) = Total(Gaps(s \o t)) + (IF x > 0 THEN x ELSE 0)
<1> DEFINE r == s \o t
           q == s \o <<x>> \o t
           k == Len(s) + 1
           n == Len(r)
<1>1. r \in Seq(Frames) /\ q \in Seq(Frames) /\ n \in Nat /\ Len(q) = n + 1
  OBVIOUS
<1>2. k \in 1 .. n + 1 /\ q[k] = x
  OBVIOUS
<1>3. \A i \in 1 .. n : r[i] = q[IF i < k THEN i ELSE i + 1]
  OBVIOUS
<1> HIDE DEF r, q, k, n
<1>4. DOMAIN r = 1 .. n /\ DOMAIN q = 1 .. n + 1
  BY <1>1 DEF n
<1>5. \A i \in DOMAIN r : r[i] \in Frames
  BY <1>1
<1>6. \A i \in DOMAIN q : q[i] \in Frames
  BY <1>1
<1>7. /\ Records(r) \in [1 .. n -> Amounts] /\ Gaps(r) \in [1 .. n -> Amounts]
      /\ Records(q) \in [1 .. n + 1 -> Amounts] /\ Gaps(q) \in [1 .. n + 1 -> Amounts]
  BY <1>4, <1>5, <1>6, GapAssumption DEF Records, Gaps, Amounts, Frames
<1>8. /\ Records(q)[k] = (IF x = Record THEN 1 ELSE 0)
      /\ Gaps(q)[k] = (IF x > 0 THEN x ELSE 0)
  BY <1>2, <1>4 DEF Records, Gaps
<1>9. \A i \in 1 .. n : /\ (IF i < k THEN i ELSE i + 1) \in 1 .. n + 1
                        /\ Records(r)[i] = Records(q)[IF i < k THEN i ELSE i + 1]
                        /\ Gaps(r)[i] = Gaps(q)[IF i < k THEN i ELSE i + 1]
  <2> SUFFICES ASSUME NEW i \in 1 .. n
               PROVE  /\ (IF i < k THEN i ELSE i + 1) \in 1 .. n + 1
                      /\ Records(r)[i] = Records(q)[IF i < k THEN i ELSE i + 1]
                      /\ Gaps(r)[i] = Gaps(q)[IF i < k THEN i ELSE i + 1]
    OBVIOUS
  <2>1. (IF i < k THEN i ELSE i + 1) \in 1 .. n + 1
    BY <1>1, <1>2
  <2> QED BY <2>1, <1>3, <1>4 DEF Records, Gaps
<1>10. Total(Records(q)) = Total(Records(r)) + Records(q)[k]
  BY <1>1, <1>2, <1>7, <1>9, TotalInsert
<1>11. Total(Gaps(q)) = Total(Gaps(r)) + Gaps(q)[k]
  BY <1>1, <1>2, <1>7, <1>9, TotalInsert
<1> QED BY <1>8, <1>10, <1>11 DEF r, q

---------------------------------------------------------------------------
(* One observer's stream                                                    *)

\* What relay_main keeps at the head of its loop: a count that is not zero
\* stands behind frames that are still to be written, so the loop's condition
\* need not mention it.
CountBehindQueue ==
  relay \in {"check", "write", "select"} /\ dropped > 0 => pending # <<>>

IInv == TypeOK /\ QueueBounded /\ CountBehindQueue /\ DrainedIsComplete
          /\ (result = "drained" => relay = "gone")

\* A count stays a count.
LEMMA CountedType == \A n \in 0 .. MaxGap : Counted(n) \in 0 .. MaxGap
BY GapAssumption DEF Counted

\* Counts and records are frames.
LEMMA FramesType == Record \in Frames /\ Greeting \in Frames /\ 0 .. MaxGap \subseteq Frames
BY GapAssumption DEF Record, Greeting, Frames

\* The initial state satisfies the invariant.
LEMMA InitIInv == Init => IInv
<1> SUFFICES ASSUME Init PROVE IInv
  OBVIOUS
<1> USE QueueAssumption, GapAssumption, RecordsAssumption, FramesType DEF Init
<1>1. publisher \in [Publishers -> {"idle", "gap", "frame", "ended"}]
  OBVIOUS
<1>2. missing \in [Publishers -> 0 .. MaxGap]
  OBVIOUS
<1>3. socket \in Seq(Frames) /\ pipe \in Seq(Frames) /\ pending \in Seq(Frames)
  OBVIOUS
<1>4. dropped \in 0 .. MaxGap /\ published \in 0 .. MaxRecords
  OBVIOUS
<1>5. TypeOK
  BY <1>1, <1>2, <1>3, <1>4 DEF TypeOK
<1> QED BY <1>5 DEF IInv, QueueBounded, CountBehindQueue, DrainedIsComplete

\* A publisher leaves the relay alone, and sends it frames.
LEMMA PublisherKeeps ==
  ASSUME IInv, NEW p \in Publishers, PublisherNext(p)
  PROVE  IInv'
<1> USE DEF relayVars, observerVars, publisherVars
<1>1. UNCHANGED <<relay, pending, dropped, result>>
  BY DEF PublisherNext, EmitBegins, EmitGap, EmitRecord, EmitBlocked, EmitRefused, EmitPrunes,
     PublisherEnds
<1>2. TypeOK'
  <2>1. CASE EmitBegins(p)
    BY <2>1, RecordsAssumption DEF EmitBegins, IInv, TypeOK
  <2>2. CASE EmitGap(p)
    <3>1. Append(socket, missing[p]) \in Seq(Frames)
      BY FramesType DEF IInv, TypeOK
    <3> QED BY <2>2, <3>1, GapAssumption DEF EmitGap, IInv, TypeOK
  <2>3. CASE EmitRecord(p)
    <3>1. Append(socket, Record) \in Seq(Frames)
      BY FramesType DEF IInv, TypeOK
    <3> QED BY <2>3, <3>1 DEF EmitRecord, IInv, TypeOK
  <2>4. CASE EmitBlocked(p)
    <3>1. missing' \in [Publishers -> 0 .. MaxGap]
      BY <2>4, CountedType DEF EmitBlocked, IInv, TypeOK
    <3> QED BY <2>4, <3>1 DEF EmitBlocked, IInv, TypeOK
  <2>5. CASE EmitRefused(p) \/ EmitPrunes(p) \/ PublisherEnds(p)
    <3>1. missing' \in [Publishers -> 0 .. MaxGap]
      BY <2>5, GapAssumption DEF EmitRefused, EmitPrunes, PublisherEnds, IInv, TypeOK
    <3>2. CASE EmitRefused(p)
      BY <3>1, <3>2 DEF EmitRefused, IInv, TypeOK
    <3>3. CASE EmitPrunes(p)
      BY <3>1, <3>3 DEF EmitPrunes, IInv, TypeOK
    <3>4. CASE PublisherEnds(p)
      BY <3>1, <3>4 DEF PublisherEnds, IInv, TypeOK
    <3> QED BY <2>5, <3>2, <3>3, <3>4
  <2> QED BY <2>1, <2>2, <2>3, <2>4, <2>5 DEF PublisherNext
<1> QED BY <1>1, <1>2 DEF IInv, QueueBounded, CountBehindQueue, DrainedIsComplete

\* The relay's loop keeps its queue bounded and its count behind the queue.
LEMMA RelayKeeps ==
  ASSUME IInv, RelayNext
  PROVE  IInv'
<1> USE DEF relayVars, observerVars, publisherVars, At, Leaves, IInv
<1> USE QueueAssumption, FramesType
<1>1. CASE RelayDrained \/ RelayLate
  <2>1. RelayDrained => pending = <<>> /\ dropped = 0
    <3>1. RelayDrained => relay = "check" /\ pending = <<>>
      BY DEF RelayDrained
    <3> QED BY <3>1 DEF TypeOK, CountBehindQueue
  <2> QED BY <1>1, <2>1 DEF RelayDrained, RelayLate, TypeOK, QueueBounded, CountBehindQueue,
          DrainedIsComplete
<1>2. CASE RelayContinues \/ RelayIdles \/ RelayOrphaned \/ RelayWriteFails
  BY <1>2 DEF RelayContinues, RelayIdles, RelayOrphaned, RelayWriteFails, TypeOK, QueueBounded,
     CountBehindQueue, DrainedIsComplete
<1>3. CASE RelayWrites
  <2>1. PICK n \in 0 .. Len(pending) :
          /\ pipe' = pipe \o SubSeq(pending, 1, n)
          /\ pending' = SubSeq(pending, n + 1, Len(pending))
    BY <1>3 DEF RelayWrites
  <2>2. SubSeq(pending, 1, n) \in Seq(Frames) /\ pending' \in Seq(Frames)
        /\ Len(pending') <= Len(pending)
    BY <2>1 DEF TypeOK
  <2>3. pipe' \in Seq(Frames)
    BY <2>1, <2>2 DEF TypeOK
  <2> QED BY <1>3, <2>2, <2>3 DEF RelayWrites, TypeOK, QueueBounded, CountBehindQueue,
          DrainedIsComplete
<1>4. CASE RelayReports
  <2>1. CASE dropped > 0 /\ Len(pending) < MaxQueue - 1
    <3>1. pending' = Append(pending, dropped) /\ dropped' = 0
      BY <1>4, <2>1 DEF RelayReports
    <3>2. pending' \in Seq(Frames) /\ Len(pending') = Len(pending) + 1
      BY <3>1 DEF TypeOK
    <3> QED BY <1>4, <2>1, <3>1, <3>2, GapAssumption
            DEF RelayReports, TypeOK, QueueBounded, CountBehindQueue, DrainedIsComplete
  <2>2. CASE ~(dropped > 0 /\ Len(pending) < MaxQueue - 1)
    <3>1. dropped > 0 => pending # <<>>
      BY <2>2 DEF TypeOK
    <3> QED BY <1>4, <2>2, <3>1
            DEF RelayReports, TypeOK, QueueBounded, CountBehindQueue, DrainedIsComplete
  <2> QED BY <2>1, <2>2
<1>5. CASE RelayReceives
  <2>1. Head(socket) \in Frames /\ Tail(socket) \in Seq(Frames)
    BY <1>5 DEF RelayReceives, TypeOK
  <2>2. CASE Len(pending) < MaxQueue
    <3>1. pending' = Append(pending, Head(socket)) /\ dropped' = dropped
      BY <1>5, <2>2 DEF RelayReceives
    <3>2. pending' \in Seq(Frames) /\ Len(pending') = Len(pending) + 1
      BY <2>1, <3>1 DEF TypeOK
    <3> QED BY <1>5, <2>1, <2>2, <3>1, <3>2
            DEF RelayReceives, TypeOK, QueueBounded, CountBehindQueue, DrainedIsComplete
  <2>3. CASE ~(Len(pending) < MaxQueue)
    <3>1. pending # <<>>
      BY <2>3
    <3>2. dropped' \in 0 .. MaxGap
      BY <1>5, <2>3, CountedType DEF RelayReceives, TypeOK
    <3> QED BY <1>5, <2>1, <2>3, <3>1, <3>2
            DEF RelayReceives, TypeOK, QueueBounded, CountBehindQueue, DrainedIsComplete
  <2> QED BY <2>2, <2>3
<1> QED BY <1>1, <1>2, <1>3, <1>4, <1>5 DEF RelayNext

\* Signals, time and the observer leave the relay's queue alone.
LEMMA ChannelKeeps ==
  ASSUME IInv, ChannelNext
  PROVE  IInv'
<1> USE DEF relayVars, observerVars, publisherVars, Leaves, IInv
<1>1. CASE Reads
  <2>1. Head(pipe) \in Frames /\ Tail(pipe) \in Seq(Frames)
    BY <1>1 DEF Reads, TypeOK
  <2>2. delivered' \in Nat /\ reported' \in Nat
    BY <1>1, <2>1, GapAssumption DEF Reads, TypeOK, Frames
  <2> QED BY <1>1, <2>1, <2>2 DEF Reads, TypeOK, QueueBounded, CountBehindQueue, DrainedIsComplete
<1>2. CASE RelaySignalled \/ TimePasses \/ RelayKilled \/ ChannelCloses \/ MasterLost
  BY <1>2 DEF RelaySignalled, TimePasses, RelayKilled, ChannelCloses, MasterLost, TypeOK,
     QueueBounded, CountBehindQueue, DrainedIsComplete, Subscribed
<1> QED BY <1>1, <1>2 DEF ChannelNext

\* The inductive invariant holds in every reachable state.
THEOREM Invariance == Spec => []IInv
<1>1. IInv /\ UNCHANGED vars => IInv'
  BY DEF IInv, vars, relayVars, observerVars, publisherVars, TypeOK, QueueBounded,
     CountBehindQueue, DrainedIsComplete
<1>2. IInv /\ [Next]_vars => IInv'
  BY <1>1, PublisherKeeps, RelayKeeps, ChannelKeeps DEF Next
<1> QED BY <1>2, InitIInv, PTL DEF Spec

\* The variables keep their types.
THEOREM TypeCorrect == Spec => []TypeOK
<1>1. IInv => TypeOK
  BY DEF IInv
<1> QED BY <1>1, Invariance, PTL

\* The relay's memory is bounded by MAX_QUEUE, gap frames included.
THEOREM MemoryIsBounded == Spec => []QueueBounded
<1>1. IInv => QueueBounded
  BY DEF IInv
<1> QED BY <1>1, Invariance, PTL

\* A relay that drained has written every frame and reported every count.
THEOREM DrainReportsEverything == Spec => []DrainedIsComplete
<1>1. IInv => DrainedIsComplete
  BY DEF IInv
<1> QED BY <1>1, Invariance, PTL

---------------------------------------------------------------------------
(* The counts of one observer's stream                                      *)

\* Only the relay itself queues its greeting.
EmittedOnly == \A i \in 1 .. Len(socket) : socket[i] # Greeting

\* A publisher that is about to send its count has one.
GapsAreSome == \A p \in Publishers : publisher[p] = "gap" => missing[p] > 0

CountInv == EmittedOnly /\ GapsAreSome /\ LossIsCounted

\* Whether a publisher in this state has a record in its hands.
Holds(state) == IF state \in {"gap", "frame"} THEN 1 ELSE 0

\* The sums over frames are numbers.
LEMMA FramesSum ==
  ASSUME NEW s \in Seq(Frames)
  PROVE  Total(Records(s)) \in Nat /\ Total(Gaps(s)) \in Nat
<1>1. IsFiniteSet(DOMAIN s) /\ \A i \in DOMAIN s : s[i] \in Frames
  BY FS_Interval
<1>2. Records(s) \in [DOMAIN s -> Amounts] /\ Gaps(s) \in [DOMAIN s -> Amounts]
  BY <1>1, GapAssumption DEF Records, Gaps, Amounts, Frames
<1> QED BY <1>1, <1>2, TotalType

\* The sums over publishers are numbers.
LEMMA PublishersSum ==
  ASSUME TypeOK
  PROVE  /\ Total(missing) \in Nat /\ Total(Emitting) \in Nat
         /\ OnTheWay \in Seq(Frames)
         /\ Total(Records(OnTheWay)) \in Nat /\ Total(Gaps(OnTheWay)) \in Nat
<1>1. missing \in [Publishers -> Amounts] /\ Emitting \in [Publishers -> Amounts]
  BY GapAssumption DEF TypeOK, Emitting, Amounts
<1>2. OnTheWay \in Seq(Frames)
  BY DEF TypeOK, OnTheWay
<1> QED BY <1>1, <1>2, PublishersAssumption, TotalType, FramesSum

\* A publisher that changes its state takes up or puts down a record.
LEMMA EmittingChanges ==
  ASSUME TypeOK, NEW p \in Publishers, NEW state,
         publisher' = [publisher EXCEPT ![p] = state]
  PROVE  Total(Emitting') = Total(Emitting) - Holds(publisher[p]) + Holds(state)
<1>1. Emitting \in [Publishers -> Amounts] /\ Holds(state) \in Amounts
  BY GapAssumption DEF Emitting, Amounts, Holds
<1>2. Emitting' = [Emitting EXCEPT ![p] = Holds(state)] /\ Emitting[p] = Holds(publisher[p])
  BY DEF TypeOK, Emitting, Holds
<1>3. Total([Emitting EXCEPT ![p] = Holds(state)])
        = Total(Emitting) - Emitting[p] + Holds(state)
  BY <1>1, PublishersAssumption, TotalExcept
<1> QED BY <1>2, <1>3

\* A publisher's count changes the sum of the counts.
LEMMA MissingChanges ==
  ASSUME TypeOK, NEW p \in Publishers, NEW n \in Amounts,
         missing' = [missing EXCEPT ![p] = n]
  PROVE  /\ Total(missing') = Total(missing) - missing[p] + n
         /\ n <= Total(missing')
BY PublishersAssumption, TotalExcept DEF TypeOK, Amounts

\* What the relay's and the kernel's moves make of three queues in a row.
LEMMA QueuesInARow ==
  ASSUME NEW a \in Seq(Frames), NEW b \in Seq(Frames), NEW c \in Seq(Frames)
  PROVE  /\ \A x \in Frames :
              /\ a \o b \o Append(c, x) = (a \o b \o c) \o <<x>> \o <<>>
              /\ a \o Append(b, x) \o c = (a \o b) \o <<x>> \o c
         /\ a \o b \o c = (a \o b \o c) \o <<>>
         /\ c # <<>> => /\ a \o b \o c = (a \o b) \o <<Head(c)>> \o Tail(c)
                       /\ a \o Append(b, Head(c)) \o Tail(c) = a \o b \o c
         /\ a # <<>> => /\ a \o b \o c = <<>> \o <<Head(a)>> \o (Tail(a) \o b \o c)
                       /\ Tail(a) \o b \o c = <<>> \o (Tail(a) \o b \o c)
         /\ \A n \in 0 .. Len(b) :
              (a \o SubSeq(b, 1, n)) \o SubSeq(b, n + 1, Len(b)) \o c = a \o b \o c
<1>1. a \o b \in Seq(Frames) /\ a \o b \o c \in Seq(Frames) /\ <<>> \in Seq(Frames)
  OBVIOUS
<1>2. \A s \in Seq(Frames) : s \o <<>> = s /\ <<>> \o s = s
  BY ConcatEmptySeq
<1>3. \A s, t, u \in Seq(Frames) : (s \o t) \o u = s \o (t \o u)
  BY ConcatAssociative
<1>4. \A x \in Frames : /\ <<x>> \in Seq(Frames)
                       /\ \A s \in Seq(Frames) : Append(s, x) = s \o <<x>>
  BY AppendIsConcat
<1>5. \A s \in Seq(Frames) : s # <<>> => /\ Head(s) \in Frames /\ Tail(s) \in Seq(Frames)
                                         /\ s = <<Head(s)>> \o Tail(s)
  <2> SUFFICES ASSUME NEW s \in Seq(Frames), s # <<>>
               PROVE  /\ Head(s) \in Frames /\ Tail(s) \in Seq(Frames)
                      /\ s = <<Head(s)>> \o Tail(s)
    OBVIOUS
  <2>1. Head(s) \in Frames /\ Tail(s) \in Seq(Frames)
    BY HeadTailProperties
  <2>2. <<Head(s)>> \o Tail(s) \in Seq(Frames) /\ Len(<<Head(s)>> \o Tail(s)) = Len(s)
    BY <2>1
  <2>3. \A i \in 1 .. Len(s) : s[i] = (<<Head(s)>> \o Tail(s))[i]
    BY <2>1
  <2> QED BY <2>1, <2>2, <2>3, SeqEqual
<1>6. \A x \in Frames :
        /\ a \o b \o Append(c, x) = (a \o b \o c) \o <<x>> \o <<>>
        /\ a \o Append(b, x) \o c = (a \o b) \o <<x>> \o c
  <2> SUFFICES ASSUME NEW x \in Frames
               PROVE  /\ a \o b \o Append(c, x) = (a \o b \o c) \o <<x>> \o <<>>
                      /\ a \o Append(b, x) \o c = (a \o b) \o <<x>> \o c
    OBVIOUS
  <2>1. <<x>> \in Seq(Frames) /\ Append(c, x) = c \o <<x>> /\ Append(b, x) = b \o <<x>>
    BY <1>4
  <2>2. (a \o b) \o (c \o <<x>>) = (a \o b \o c) \o <<x>>
    BY <1>1, <1>3, <2>1
  <2>3. (a \o b \o c) \o <<x>> \in Seq(Frames)
    BY <1>1, <2>1, ConcatProperties
  <2>4. a \o (b \o <<x>>) = (a \o b) \o <<x>>
    BY <1>3, <2>1
  <2> QED BY <1>2, <2>1, <2>2, <2>3, <2>4
<1>7. ASSUME c # <<>>
      PROVE  /\ a \o b \o c = (a \o b) \o <<Head(c)>> \o Tail(c)
             /\ a \o Append(b, Head(c)) \o Tail(c) = a \o b \o c
  <2>1. /\ Head(c) \in Frames /\ Tail(c) \in Seq(Frames) /\ <<Head(c)>> \in Seq(Frames)
        /\ c = <<Head(c)>> \o Tail(c) /\ Append(b, Head(c)) = b \o <<Head(c)>>
    BY <1>4, <1>5, <1>7
  <2>2. ((a \o b) \o <<Head(c)>>) \o Tail(c) = (a \o b) \o (<<Head(c)>> \o Tail(c))
    BY <1>1, <1>3, <2>1
  <2>3. a \o (b \o <<Head(c)>>) = (a \o b) \o <<Head(c)>>
    BY <1>3, <2>1
  <2> QED BY <2>1, <2>2, <2>3
<1>8. ASSUME a # <<>>
      PROVE  /\ a \o b \o c = <<>> \o <<Head(a)>> \o (Tail(a) \o b \o c)
             /\ Tail(a) \o b \o c = <<>> \o (Tail(a) \o b \o c)
  <2>1. /\ Tail(a) \in Seq(Frames) /\ <<Head(a)>> \in Seq(Frames)
        /\ a = <<Head(a)>> \o Tail(a)
    BY <1>4, <1>5, <1>8
  <2>2. Tail(a) \o b \in Seq(Frames) /\ Tail(a) \o b \o c \in Seq(Frames)
    BY <2>1, ConcatProperties
  <2>3. (<<Head(a)>> \o Tail(a)) \o b = <<Head(a)>> \o (Tail(a) \o b)
    BY <1>3, <2>1
  <2>4. (<<Head(a)>> \o (Tail(a) \o b)) \o c = <<Head(a)>> \o (Tail(a) \o b \o c)
    BY <1>3, <2>1, <2>2
  <2> QED BY <1>2, <2>1, <2>2, <2>3, <2>4
<1>9. \A n \in 0 .. Len(b) :
        (a \o SubSeq(b, 1, n)) \o SubSeq(b, n + 1, Len(b)) \o c = a \o b \o c
  <2> SUFFICES ASSUME NEW n \in 0 .. Len(b)
               PROVE  (a \o SubSeq(b, 1, n)) \o SubSeq(b, n + 1, Len(b)) \o c = a \o b \o c
    OBVIOUS
  <2>1. SubSeq(b, 1, n) \o SubSeq(b, n + 1, Len(b)) = b
    <3>1. Len(b) \in Nat /\ n \in Int
      OBVIOUS
    <3>2. 1 \in 1 .. Len(b) + 1 /\ n \in 1 - 1 .. Len(b) /\ Len(b) \in n .. Len(b)
      BY <3>1
    <3>3. SubSeq(b, 1, n) \o SubSeq(b, n + 1, Len(b)) = SubSeq(b, 1, Len(b))
      BY <3>2, ConcatAdjacentSubSeq
    <3> QED BY <3>3, SubSeqFull
  <2>2. SubSeq(b, 1, n) \in Seq(Frames) /\ SubSeq(b, n + 1, Len(b)) \in Seq(Frames)
    OBVIOUS
  <2>3. (a \o SubSeq(b, 1, n)) \o SubSeq(b, n + 1, Len(b))
          = a \o (SubSeq(b, 1, n) \o SubSeq(b, n + 1, Len(b)))
    BY <1>3, <2>2
  <2> QED BY <2>1, <2>3
<1> QED BY <1>1, <1>2, <1>6, <1>7, <1>8, <1>9

\* No record is lost and none is claimed before anything was published.
LEMMA InitCountInv == Init => CountInv
<1> SUFFICES ASSUME Init PROVE CountInv
  OBVIOUS
<1>1. OnTheWay = <<Greeting>>
  BY DEF Init, OnTheWay
<1>2. Total(Records(OnTheWay)) = 0 /\ Total(Gaps(OnTheWay)) = 0
  <2>1. /\ Records(OnTheWay) \in [1 .. 1 -> Amounts] /\ Gaps(OnTheWay) \in [1 .. 1 -> Amounts]
        /\ \A i \in 1 .. 1 : Records(OnTheWay)[i] = 0 /\ Gaps(OnTheWay)[i] = 0
    BY <1>1, GapAssumption DEF Records, Gaps, Record, Greeting, Amounts
  <2> QED BY <2>1, TotalZero
<1>3. Total(missing) = 0 /\ Total(Emitting) = 0
  <2>1. /\ missing \in [Publishers -> Amounts] /\ Emitting \in [Publishers -> Amounts]
        /\ \A p \in Publishers : missing[p] = 0 /\ Emitting[p] = 0
    BY GapAssumption DEF Init, Emitting, Amounts
  <2> QED BY <2>1, TotalZero
<1>4. Lost = 0 /\ Accounted = 0
  BY <1>2, <1>3 DEF Init, Lost, Accounted
<1>5. EmittedOnly /\ GapsAreSome
  BY DEF Init, EmittedOnly, GapsAreSome
<1> QED BY <1>4, <1>5 DEF CountInv, LossIsCounted

\* A frame that is appended to the socket adds what it says to the sums on the way.
LEMMA FrameSent ==
  ASSUME TypeOK, NEW x \in Frames, socket' = Append(socket, x), UNCHANGED <<pipe, pending>>
  PROVE  /\ Total(Records(OnTheWay')) = Total(Records(OnTheWay)) + (IF x = Record THEN 1 ELSE 0)
         /\ Total(Gaps(OnTheWay')) = Total(Gaps(OnTheWay)) + (IF x > 0 THEN x ELSE 0)
<1> DEFINE way == OnTheWay
<1>1. OnTheWay \in Seq(Frames) /\ <<>> \in Seq(Frames)
  BY PublishersSum
<1>2. OnTheWay' = OnTheWay \o <<x>> \o <<>> /\ OnTheWay = OnTheWay \o <<>>
  BY QueuesInARow DEF TypeOK, OnTheWay
<1>3. /\ Total(Records(OnTheWay \o <<x>> \o <<>>))
           = Total(Records(OnTheWay \o <<>>)) + (IF x = Record THEN 1 ELSE 0)
      /\ Total(Gaps(OnTheWay \o <<x>> \o <<>>))
           = Total(Gaps(OnTheWay \o <<>>)) + (IF x > 0 THEN x ELSE 0)
  BY <1>1, FrameInserted
<1> QED BY <1>2, <1>3

\* Whatever a publisher does, a record it gives up is lost, and counted unless it ended
\* or its observer left.
LEMMA PublisherCounts ==
  ASSUME TypeOK, TypeOK', CountInv, NEW p \in Publishers, PublisherNext(p)
  PROVE  CountInv'
<1> USE DEF relayVars, observerVars, publisherVars
<1> DEFINE R == Total(Records(OnTheWay))
           G == Total(Gaps(OnTheWay))
           M == Total(missing)
           E == Total(Emitting)
<1>1. R \in Nat /\ G \in Nat /\ M \in Nat /\ E \in Nat
  BY PublishersSum
<1>2. /\ published \in Nat /\ published' \in Nat /\ delivered \in Nat /\ reported \in Nat
      /\ dropped \in Nat /\ missing[p] \in Amounts
  BY RecordsAssumption, GapAssumption DEF TypeOK, Amounts
<1>3. UNCHANGED <<delivered, reported, dropped, relay, pipe, pending>>
  BY DEF PublisherNext, EmitBegins, EmitGap, EmitRecord, EmitBlocked, EmitRefused, EmitPrunes,
     PublisherEnds
<1>4. 0 \in Amounts /\ missing[p] \in Frames
  BY <1>2, GapAssumption, FramesType DEF Amounts
<1>5. socket' = socket => OnTheWay' = OnTheWay /\ R' = R /\ G' = G
  BY <1>3 DEF OnTheWay
<1>6. CASE EmitBegins(p)
  <2>1. E' = E + 1
    <3>1. PICK state \in {"gap", "frame"} : publisher' = [publisher EXCEPT ![p] = state]
      BY <1>6 DEF EmitBegins
    <3>2. E' = E - Holds(publisher[p]) + Holds(state)
      BY <3>1, EmittingChanges
    <3> QED BY <1>1, <1>6, <3>2 DEF EmitBegins, Holds
  <2>2. GapsAreSome'
    BY <1>6 DEF TypeOK, EmitBegins, CountInv, GapsAreSome
  <2> QED BY <1>1, <1>2, <1>3, <1>5, <1>6, <2>1, <2>2
          DEF EmitBegins, CountInv, EmittedOnly, LossIsCounted, Lost, Accounted, Subscribed
<1>7. CASE EmitGap(p)
  <2>1. E' = E
    <3>1. E' = E - Holds(publisher[p]) + Holds("frame")
      BY <1>7, EmittingChanges DEF EmitGap
    <3> QED BY <1>1, <1>7, <3>1 DEF EmitGap, Holds
  <2>2. M' = M - missing[p] + 0
    BY <1>4, <1>7, MissingChanges DEF EmitGap
  <2>3. missing[p] > 0
    BY <1>7 DEF EmitGap, CountInv, GapsAreSome
  <2>4. /\ R' = R + (IF missing[p] = Record THEN 1 ELSE 0)
        /\ G' = G + (IF missing[p] > 0 THEN missing[p] ELSE 0)
    BY <1>3, <1>4, <1>7, FrameSent DEF EmitGap
  <2>5. R' = R /\ G' = G + missing[p]
    BY <1>1, <2>3, <2>4 DEF Record
  <2>6. EmittedOnly' /\ GapsAreSome'
    BY <1>7, <2>3 DEF TypeOK, CountInv, EmitGap, EmittedOnly, GapsAreSome, Greeting
  <2> QED BY <1>1, <1>2, <1>3, <1>7, <2>1, <2>2, <2>5, <2>6
          DEF EmitGap, CountInv, LossIsCounted, Lost, Accounted, Subscribed, Amounts
<1>8. CASE EmitRecord(p)
  <2>1. E' = E - 1
    <3>1. E' = E - Holds(publisher[p]) + Holds("idle")
      BY <1>8, EmittingChanges DEF EmitRecord
    <3> QED BY <1>1, <1>8, <3>1 DEF EmitRecord, Holds
  <2>2. R' = R + 1 /\ G' = G
    BY <1>1, <1>3, <1>8, FramesType, FrameSent DEF EmitRecord, Record
  <2>3. EmittedOnly' /\ GapsAreSome'
    BY <1>8 DEF TypeOK, CountInv, EmitRecord, EmittedOnly, GapsAreSome, Record, Greeting
  <2> QED BY <1>1, <1>2, <1>3, <1>8, <2>1, <2>2, <2>3
          DEF EmitRecord, CountInv, LossIsCounted, Lost, Accounted, Subscribed
<1>9. CASE EmitBlocked(p)
  <2>1. E' = E - 1
    <3>1. E' = E - Holds(publisher[p]) + Holds("idle")
      BY <1>9, EmittingChanges DEF EmitBlocked
    <3> QED BY <1>1, <1>9, <3>1 DEF EmitBlocked, Holds
  <2>2. M' = M - missing[p] + Counted(missing[p]) /\ Counted(missing[p]) <= M'
    BY <1>2, <1>9, CountedType, MissingChanges DEF EmitBlocked, Amounts
  <2>3. Counted(missing[p]) \in {missing[p], missing[p] + 1} /\ Counted(missing[p]) > 0
    BY <1>2, GapAssumption DEF Counted, Amounts
  <2>4. M' \in Nat /\ M' \in {M, M + 1} /\ M' > 0
    BY <1>1, <1>2, <2>2, <2>3 DEF Amounts
  <2>5. GapsAreSome'
    BY <1>9 DEF TypeOK, EmitBlocked, CountInv, GapsAreSome
  <2> QED BY <1>1, <1>2, <1>3, <1>5, <1>9, <2>1, <2>4, <2>5
          DEF EmitBlocked, CountInv, EmittedOnly, LossIsCounted, Lost, Accounted, Subscribed
<1>10. CASE EmitRefused(p)
  <2>1. E' = E - 1
    <3>1. E' = E - Holds(publisher[p]) + Holds("idle")
      BY <1>10, EmittingChanges DEF EmitRefused
    <3> QED BY <1>1, <1>10, <3>1 DEF EmitRefused, Holds
  <2>2. M' = M - missing[p] + 0
    BY <1>4, <1>10, MissingChanges DEF EmitRefused
  <2>3. M' \in Int /\ M' <= M
    BY <1>1, <1>2, <2>2 DEF Amounts
  <2>4. GapsAreSome'
    BY <1>10 DEF TypeOK, EmitRefused, CountInv, GapsAreSome
  <2> QED BY <1>1, <1>2, <1>3, <1>5, <1>10, <2>1, <2>3, <2>4
          DEF EmitRefused, CountInv, EmittedOnly, LossIsCounted, Lost, Accounted, Subscribed, Amounts
<1>11. CASE EmitPrunes(p)
  <2>1. M' = M - missing[p] + 0
    BY <1>4, <1>11, MissingChanges DEF EmitPrunes
  <2>2. Emitting' = Emitting
    BY <1>11 DEF EmitPrunes, Emitting
  <2>4. GapsAreSome'
    BY <1>11 DEF TypeOK, EmitPrunes, CountInv, GapsAreSome
  <2> QED BY <1>1, <1>2, <1>3, <1>5, <1>11, <2>1, <2>2, <2>4
          DEF EmitPrunes, CountInv, EmittedOnly, LossIsCounted, Lost, Accounted, Subscribed, Amounts
<1>12. CASE PublisherEnds(p)
  <2>1. E' = E - Holds(publisher[p]) + Holds("ended")
    BY <1>12, EmittingChanges DEF PublisherEnds
  <2>2. E' \in Int /\ E' <= E
    BY <1>1, <2>1 DEF Holds
  <2>3. publisher'[p] = "ended"
    BY <1>12 DEF PublisherEnds, TypeOK
  <2>4. GapsAreSome'
    BY <1>12 DEF TypeOK, PublisherEnds, CountInv, GapsAreSome
  <2> QED BY <1>1, <1>2, <1>3, <1>5, <1>12, <2>2, <2>3, <2>4
          DEF PublisherEnds, CountInv, EmittedOnly, LossIsCounted, Lost, Accounted, Subscribed, Amounts
<1> QED BY <1>6, <1>7, <1>8, <1>9, <1>10, <1>11, <1>12 DEF PublisherNext

\* A step that leaves the publishers, the frames and the counts alone leaves the balance.
LEMMA BalanceKept ==
  ASSUME CountInv, UNCHANGED <<publisherVars, OnTheWay, dropped, delivered, reported>>,
         EmittedOnly', Subscribed' => Subscribed
  PROVE  CountInv'
<1>1. UNCHANGED <<Emitting, missing, published, publisher>>
  BY DEF publisherVars, Emitting
<1>2. UNCHANGED <<Total(Records(OnTheWay)), Total(Gaps(OnTheWay)), Total(missing), Total(Emitting)>>
  BY <1>1
<1>3. UNCHANGED <<Lost, Accounted>>
  BY <1>1, <1>2 DEF Lost, Accounted
<1> QED BY <1>1, <1>3 DEF CountInv, GapsAreSome, LossIsCounted

\* The relay moves frames and counts; what it drops it counts, and it claims no more.
LEMMA RelayCounts ==
  ASSUME TypeOK, CountInv, RelayNext
  PROVE  CountInv'
<1> USE DEF relayVars, observerVars
<1> DEFINE R == Total(Records(OnTheWay))
           G == Total(Gaps(OnTheWay))
<1>1. R \in Nat /\ G \in Nat /\ Total(missing) \in Nat /\ Total(Emitting) \in Nat
  BY PublishersSum
<1>2. /\ published \in Nat /\ delivered \in Nat /\ reported \in Nat
      /\ dropped \in Amounts /\ dropped \in Nat
      /\ pipe \in Seq(Frames) /\ pending \in Seq(Frames) /\ socket \in Seq(Frames)
  BY RecordsAssumption, GapAssumption DEF TypeOK, Amounts
<1>3. CASE RelayDrained \/ RelayLate \/ RelayContinues \/ RelayWriteFails \/ RelayIdles
             \/ RelayOrphaned
  <2>1. UNCHANGED <<publisherVars, OnTheWay, dropped, delivered, reported, socket>>
    BY <1>3 DEF RelayDrained, RelayLate, RelayContinues, RelayWriteFails, RelayIdles,
       RelayOrphaned, OnTheWay
  <2>2. Subscribed' => Subscribed
    BY <1>3 DEF RelayDrained, RelayLate, RelayContinues, RelayWriteFails, RelayIdles,
       RelayOrphaned, Leaves, At, Subscribed
  <2> QED BY <2>1, <2>2, BalanceKept DEF CountInv, EmittedOnly
<1>4. CASE RelayWrites
  <2>1. PICK n \in 0 .. Len(pending) :
          /\ pipe' = pipe \o SubSeq(pending, 1, n)
          /\ pending' = SubSeq(pending, n + 1, Len(pending))
    BY <1>4 DEF RelayWrites
  <2>2. UNCHANGED <<publisherVars, dropped, delivered, reported, socket>>
    BY <1>4 DEF RelayWrites
  <2>3. OnTheWay' = OnTheWay
    BY <1>2, <2>1, <2>2, QueuesInARow DEF OnTheWay
  <2>4. Subscribed' => Subscribed
    BY <1>4 DEF RelayWrites, At, Subscribed
  <2> QED BY <2>2, <2>3, <2>4, BalanceKept DEF CountInv, EmittedOnly
<1>5. CASE RelayReports
  <2>1. UNCHANGED <<publisherVars, delivered, reported, socket, pipe>> /\ Subscribed /\ Subscribed'
    BY <1>5 DEF RelayReports, At, Subscribed
  <2>2. CASE dropped > 0 /\ Len(pending) < MaxQueue - 1
    <3>1. pending' = Append(pending, dropped) /\ dropped' = 0
      BY <1>5, <2>2 DEF RelayReports
    <3>2. dropped \in Frames
      BY <1>2, FramesType DEF Amounts
    <3>3. pipe \o pending \in Seq(Frames)
      BY <1>2
    <3>4. OnTheWay' = (pipe \o pending) \o <<dropped>> \o socket
      BY <1>2, <2>1, <3>1, <3>2, QueuesInARow DEF OnTheWay
    <3>5. /\ Total(Records((pipe \o pending) \o <<dropped>> \o socket))
               = R + (IF dropped = Record THEN 1 ELSE 0)
          /\ Total(Gaps((pipe \o pending) \o <<dropped>> \o socket))
               = G + (IF dropped > 0 THEN dropped ELSE 0)
      BY <1>2, <3>2, <3>3, FrameInserted DEF OnTheWay
    <3>6. R' = R /\ G' = G + dropped
      BY <1>1, <2>2, <3>4, <3>5 DEF Record
    <3>7. /\ Total(missing') = Total(missing) /\ Total(Emitting') = Total(Emitting)
          /\ published' = published /\ publisher' = publisher /\ missing' = missing
      BY <2>1 DEF publisherVars, Emitting
    <3>8. Lost' = Lost /\ Accounted' = Accounted
      BY <1>1, <1>2, <2>1, <3>1, <3>6, <3>7 DEF Lost, Accounted, Amounts
    <3> QED BY <2>1, <3>7, <3>8 DEF CountInv, EmittedOnly, GapsAreSome, LossIsCounted
  <2>3. CASE ~(dropped > 0 /\ Len(pending) < MaxQueue - 1)
    <3>1. UNCHANGED <<pending, dropped>>
      BY <1>5, <2>3 DEF RelayReports
    <3>2. OnTheWay' = OnTheWay
      BY <2>1, <3>1 DEF OnTheWay
    <3> QED BY <2>1, <3>1, <3>2, BalanceKept DEF CountInv, EmittedOnly
  <2> QED BY <2>2, <2>3
<1>6. CASE RelayReceives
  <2>1. /\ socket # <<>> /\ socket' = Tail(socket) /\ Subscribed /\ Subscribed'
        /\ UNCHANGED <<publisherVars, delivered, reported, pipe>>
    BY <1>6 DEF RelayReceives, At, Subscribed
  <2>2. Head(socket) \in Frames /\ Head(socket) # Greeting /\ Tail(socket) \in Seq(Frames)
    BY <1>2, <2>1 DEF CountInv, EmittedOnly
  <2>3. EmittedOnly'
    BY <1>2, <2>1 DEF CountInv, EmittedOnly
  <2>4. CASE Len(pending) < MaxQueue
    <3>1. pending' = Append(pending, Head(socket)) /\ dropped' = dropped
      BY <1>6, <2>4 DEF RelayReceives
    <3>2. OnTheWay' = OnTheWay
      BY <1>2, <2>1, <3>1, QueuesInARow DEF OnTheWay
    <3> QED BY <2>1, <2>3, <3>1, <3>2, BalanceKept
  <2>5. CASE ~(Len(pending) < MaxQueue)
    <3>1. pending' = pending /\ dropped' = Counted(dropped)
      BY <1>6, <2>5 DEF RelayReceives
    <3>2. pipe \o pending \in Seq(Frames)
      BY <1>2
    <3>3. OnTheWay = (pipe \o pending) \o <<Head(socket)>> \o Tail(socket)
      BY <1>2, <2>1, QueuesInARow DEF OnTheWay
    <3>4. OnTheWay' = (pipe \o pending) \o Tail(socket)
      BY <2>1, <3>1 DEF OnTheWay
    <3>5. /\ Total(Records((pipe \o pending) \o <<Head(socket)>> \o Tail(socket)))
               = Total(Records((pipe \o pending) \o Tail(socket)))
                   + (IF Head(socket) = Record THEN 1 ELSE 0)
          /\ Total(Gaps((pipe \o pending) \o <<Head(socket)>> \o Tail(socket)))
               = Total(Gaps((pipe \o pending) \o Tail(socket)))
                   + (IF Head(socket) > 0 THEN Head(socket) ELSE 0)
      BY <2>2, <3>2, FrameInserted
    <3>6. /\ R = R' + (IF Head(socket) = Record THEN 1 ELSE 0)
          /\ G = G' + (IF Head(socket) > 0 THEN Head(socket) ELSE 0)
      BY <3>3, <3>4, <3>5
    <3>7. R' \in Nat /\ G' \in Nat
      <4>1. OnTheWay' \in Seq(Frames)
        BY <2>2, <3>2, <3>4
      <4> QED BY <4>1, FramesSum
    <3>8. /\ Total(missing') = Total(missing) /\ Total(Emitting') = Total(Emitting)
          /\ published' = published /\ publisher' = publisher /\ missing' = missing
      BY <2>1 DEF publisherVars, Emitting
    <3>9. dropped' \in {dropped, dropped + 1} /\ dropped' > 0
      BY <1>2, <3>1, GapAssumption DEF Counted, Amounts
    <3>10. /\ Accounted = reported + dropped + G + Total(missing)
           /\ Accounted' = reported + dropped' + G' + Total(missing)
      BY <2>1, <3>8 DEF Accounted
    <3>11. /\ reported \in Nat /\ dropped \in Nat /\ dropped' \in Nat
           /\ G \in Nat /\ Total(missing) \in Nat
      BY <1>1, <1>2, <3>9 DEF Amounts
    <3>12. CASE Head(socket) = Record
      <4>1. R = R' + 1 /\ G = G'
        BY <1>1, <3>6, <3>7, <3>12 DEF Record
      <4>2. Lost' = Lost + 1 /\ Lost \in Int
        BY <1>1, <1>2, <2>1, <3>7, <3>8, <4>1 DEF Lost
      <4>3. /\ Accounted \in Int /\ Accounted' \in Int
            /\ Accounted' <= Accounted + 1 /\ Accounted' > 0
        BY <3>7, <3>9, <3>10, <3>11, <4>1
      <4>4. Accounted' <= Lost'
        BY <4>2, <4>3 DEF CountInv, LossIsCounted
      <4> QED BY <2>1, <2>3, <3>8, <4>3, <4>4 DEF CountInv, GapsAreSome, LossIsCounted
    <3>13. CASE Head(socket) # Record
      <4>1. R = R' /\ G >= G' + 1
        BY <1>1, <2>2, <3>6, <3>7, <3>13 DEF Record, Greeting, Frames
      <4>2. Lost' = Lost /\ Lost \in Int
        BY <1>1, <1>2, <2>1, <3>7, <3>8, <4>1 DEF Lost
      <4>3. /\ Accounted \in Int /\ Accounted' \in Int
            /\ Accounted' <= Accounted /\ Accounted' > 0
        BY <3>7, <3>9, <3>10, <3>11, <4>1
      <4>4. Accounted' <= Lost'
        BY <4>2, <4>3 DEF CountInv, LossIsCounted
      <4> QED BY <2>1, <2>3, <3>8, <4>3, <4>4 DEF CountInv, GapsAreSome, LossIsCounted
    <3> QED BY <3>12, <3>13
  <2> QED BY <2>4, <2>5
<1> QED BY <1>3, <1>4, <1>5, <1>6 DEF RelayNext

\* The reader takes a frame off the way and adds it to what arrived or was reported;
\* signals, time and losses of whole processes change no count.
LEMMA ChannelCounts ==
  ASSUME TypeOK, CountInv, ChannelNext
  PROVE  CountInv'
<1> USE DEF relayVars, observerVars
<1> DEFINE R == Total(Records(OnTheWay))
           G == Total(Gaps(OnTheWay))
<1>1. R \in Nat /\ G \in Nat /\ Total(missing) \in Nat /\ Total(Emitting) \in Nat
  BY PublishersSum
<1>2. /\ published \in Nat /\ delivered \in Nat /\ reported \in Nat
      /\ dropped \in Amounts /\ dropped \in Nat
      /\ pipe \in Seq(Frames) /\ pending \in Seq(Frames) /\ socket \in Seq(Frames)
  BY RecordsAssumption, GapAssumption DEF TypeOK, Amounts
<1>3. CASE Reads
  <2>1. /\ pipe # <<>> /\ pipe' = Tail(pipe)
        /\ UNCHANGED <<publisherVars, relayVars, socket>>
        /\ delivered' = (IF Head(pipe) = Record THEN delivered + 1 ELSE delivered)
        /\ reported' = (IF Head(pipe) > 0 THEN reported + Head(pipe) ELSE reported)
    BY <1>3 DEF Reads
  <2> DEFINE rest == Tail(pipe) \o pending \o socket
  <2>2. Head(pipe) \in Frames /\ <<>> \in Seq(Frames) /\ rest \in Seq(Frames)
    BY <1>2, <2>1
  <2>3. OnTheWay = <<>> \o <<Head(pipe)>> \o rest /\ rest = <<>> \o rest
    BY <1>2, <2>1, QueuesInARow DEF OnTheWay
  <2>4. OnTheWay' = rest
    BY <2>1 DEF OnTheWay
  <2> HIDE DEF rest
  <2>5. /\ Total(Records(<<>> \o <<Head(pipe)>> \o rest))
             = Total(Records(<<>> \o rest)) + (IF Head(pipe) = Record THEN 1 ELSE 0)
        /\ Total(Gaps(<<>> \o <<Head(pipe)>> \o rest))
             = Total(Gaps(<<>> \o rest)) + (IF Head(pipe) > 0 THEN Head(pipe) ELSE 0)
    BY <2>2, FrameInserted
  <2>6. /\ R = R' + (IF Head(pipe) = Record THEN 1 ELSE 0)
        /\ G = G' + (IF Head(pipe) > 0 THEN Head(pipe) ELSE 0)
    BY <2>3, <2>4, <2>5
  <2>7. R' \in Nat /\ G' \in Nat
    BY <2>2, <2>4, FramesSum
  <2>8. /\ Total(missing') = Total(missing) /\ Total(Emitting') = Total(Emitting)
        /\ published' = published /\ publisher' = publisher /\ missing' = missing
    BY <2>1 DEF publisherVars, Emitting
  <2>9. Lost' = Lost /\ Accounted' = Accounted
    <3>1. Head(pipe) \in Int /\ UNCHANGED dropped
      BY <2>1, <2>2, GapAssumption DEF Frames
    <3>2. published' = published /\ Total(Emitting') = Total(Emitting)
          /\ Total(missing') = Total(missing) /\ dropped' = dropped
      BY <2>8, <3>1
    <3>3. CASE Head(pipe) = Record
      <4>1. delivered' = delivered + 1 /\ R = R' + 1 /\ reported' = reported /\ G = G'
        BY <2>1, <2>6, <2>7, <3>3 DEF Record
      <4>2. Lost' = Lost
        BY <1>1, <1>2, <2>7, <3>2, <4>1 DEF Lost
      <4>3. Accounted' = Accounted
        BY <1>1, <1>2, <2>7, <3>2, <4>1 DEF Accounted
      <4> QED BY <4>2, <4>3
    <3>4. CASE Head(pipe) # Record
      <4>1. delivered' = delivered /\ R = R'
        BY <1>1, <2>1, <2>6, <2>7, <3>4
      <4>2. \E n \in Nat : reported' = reported + n /\ G = G' + n
        BY <1>2, <2>1, <2>6, <2>7, <3>1
      <4>3. Lost' = Lost
        BY <1>1, <1>2, <2>7, <3>2, <4>1 DEF Lost
      <4>4. Accounted' = Accounted
        BY <1>1, <1>2, <2>7, <3>2, <4>2 DEF Accounted
      <4> QED BY <4>3, <4>4
    <3> QED BY <3>3, <3>4
  <2>10. EmittedOnly' /\ UNCHANGED Subscribed
    BY <2>1 DEF CountInv, EmittedOnly, Subscribed
  <2> QED BY <2>8, <2>9, <2>10 DEF CountInv, GapsAreSome, LossIsCounted
<1>4. CASE RelaySignalled \/ TimePasses \/ RelayKilled \/ ChannelCloses \/ MasterLost
  <2>1. UNCHANGED <<publisherVars, OnTheWay, dropped, delivered, reported, socket>>
    BY <1>4 DEF RelaySignalled, TimePasses, RelayKilled, ChannelCloses, MasterLost, OnTheWay
  <2>2. Subscribed' => Subscribed
    BY <1>4 DEF RelaySignalled, TimePasses, RelayKilled, ChannelCloses, MasterLost, Leaves,
       Subscribed
  <2> QED BY <2>1, <2>2, BalanceKept DEF CountInv, EmittedOnly
<1> QED BY <1>3, <1>4 DEF ChannelNext

\* The counts and the gap frames never claim more than was lost, and while everybody lives
\* a loss is never without a count: for any queue sizes and any number of publishers.
THEOREM LossCounted == Spec => []LossIsCounted
<1>1. TypeOK /\ CountInv /\ UNCHANGED vars => CountInv'
  <2> SUFFICES ASSUME TypeOK, CountInv, UNCHANGED vars PROVE CountInv'
    OBVIOUS
  <2>1. UNCHANGED <<publisherVars, OnTheWay, dropped, delivered, reported, socket, relay>>
    BY DEF vars, relayVars, observerVars, OnTheWay
  <2> QED BY <2>1, BalanceKept DEF CountInv, EmittedOnly, Subscribed
<1>2. TypeOK /\ TypeOK' /\ CountInv /\ [Next]_vars => CountInv'
  BY <1>1, PublisherCounts, RelayCounts, ChannelCounts DEF Next
<1>3. CountInv => LossIsCounted
  BY DEF CountInv
<1> QED BY <1>2, <1>3, InitCountInv, TypeCorrect, PTL DEF Spec

---------------------------------------------------------------------------
(* How observers come and go                                                *)

\* A socket in the directory belongs to a relay that is subscribed or was killed.
SocketInv ==
  /\ sockets \subseteq {o \in Observers : observer[o] \in {"bound", "dead"}}
  /\ \A o \in Observers : observer[o] = "bound" => o \in sockets
  /\ sockets # {} => directory

\* While the directory exists somebody will still try to remove it, or was killed.
RemoverInv ==
  directory => \E o \in Observers : observer[o] \in {"lstat", "count", "bind", "bound", "rmdir", "dead"}

SubscriptionInv == SubscriptionTypeOK /\ SocketInv /\ RemoverInv

\* Nothing exists and nobody has arrived.
LEMMA InitSubscriptionInv == SubscriptionInit => SubscriptionInv
BY DEF SubscriptionInit, SubscriptionInv, SubscriptionTypeOK, SocketInv, RemoverInv

\* The invariant survives every system call of one relay.
LEMMA StepSubscriptionInv ==
  ASSUME SubscriptionInv, NEW o \in Observers, Arrives(o) \/ Subscribes(o) \/ Unsubscribes(o) \/ Killed(o)
  PROVE  SubscriptionInv'
<1> USE DEF SubscriptionInv, Calls, Ended
<1>1. SubscriptionTypeOK'
  <2>1. CASE Arrives(o) \/ Subscribes(o)
    BY <2>1 DEF SubscriptionTypeOK, Arrives, Subscribes, Mkdir, Lstat, LstatFails, Count, CountRefuses,
       CountFails, Bind, BindRetries, BindFails
  <2>2. CASE Unsubscribes(o) \/ Killed(o)
    BY <2>2 DEF SubscriptionTypeOK, Unsubscribes, Unlink, Rmdir, Killed
  <2> QED BY <2>1, <2>2
<1>2. SocketInv'
  <2>1. CASE Arrives(o) \/ Subscribes(o)
    BY <2>1 DEF SubscriptionTypeOK, SocketInv, Arrives, Subscribes, Mkdir, Lstat, LstatFails, Count,
       CountRefuses, CountFails, Bind, BindRetries, BindFails
  <2>2. CASE Unsubscribes(o) \/ Killed(o)
    BY <2>2 DEF SubscriptionTypeOK, SocketInv, Unsubscribes, Unlink, Rmdir, Killed
  <2> QED BY <2>1, <2>2
<1>3. RemoverInv'
  <2>1. CASE Arrives(o) \/ Subscribes(o)
    BY <2>1 DEF SubscriptionTypeOK, RemoverInv, Arrives, Subscribes, Mkdir, Lstat, LstatFails, Count,
       CountRefuses, CountFails, Bind, BindRetries, BindFails
  <2>2. CASE Unlink(o) \/ Killed(o)
    BY <2>2 DEF SubscriptionTypeOK, RemoverInv, Unlink, Killed
  <2>3. CASE Rmdir(o)
    <3>1. ASSUME directory' PROVE \E p \in sockets : p # o /\ observer[p] \in {"bound", "dead"}
      BY <2>3, <3>1 DEF Rmdir, SocketInv
    <3> QED BY <2>3, <3>1 DEF SubscriptionTypeOK, Rmdir, RemoverInv
  <2> QED BY <2>1, <2>2, <2>3 DEF Unsubscribes
<1> QED BY <1>1, <1>2, <1>3

\* The inductive invariant holds in every reachable state.
THEOREM SubscriptionInvariance == SubscriptionSpec => []SubscriptionInv
<1>1. SubscriptionInv /\ UNCHANGED subscriptionVars => SubscriptionInv'
  BY DEF SubscriptionInv, subscriptionVars, SubscriptionTypeOK, SocketInv, RemoverInv
<1>2. SubscriptionInv /\ [SubscriptionNext]_subscriptionVars => SubscriptionInv'
  BY <1>1, StepSubscriptionInv DEF SubscriptionNext
<1> QED BY <1>2, InitSubscriptionInv, PTL DEF SubscriptionSpec

\* The variables keep their types.
THEOREM SubscriptionTypeCorrect == SubscriptionSpec => []SubscriptionTypeOK
<1>1. SubscriptionInv => SubscriptionTypeOK
  BY DEF SubscriptionInv
<1> QED BY <1>1, SubscriptionInvariance, PTL

\* No relay's arrival or departure takes away the socket of one that is subscribed.
THEOREM Reachable == SubscriptionSpec => []SubscribedIsReachable
<1>1. SubscriptionInv => SubscribedIsReachable
  BY DEF SubscriptionInv, SocketInv, SubscribedIsReachable
<1> QED BY <1>1, SubscriptionInvariance, PTL

\* When all relays left in their own time, their directory is gone.
THEOREM CleanDeparture == SubscriptionSpec => []NothingRemains
<1>1. SubscriptionInv => NothingRemains
  BY DEF SubscriptionInv, SocketInv, RemoverInv, NothingRemains
<1> QED BY <1>1, SubscriptionInvariance, PTL

================================================================================
