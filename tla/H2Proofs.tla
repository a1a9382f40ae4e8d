------------------------------ MODULE H2Proofs ------------------------------
(***************************************************************************)
(* Proofs about module H2, for any window, any number of requests on the   *)
(* connection, any number of frames on their way and any set of frames the *)
(* server sends.  The driver's record changes only through the operators   *)
(* that model nghttp2's callbacks and the driver's own functions: first    *)
(* what each of these keeps, then IInv action by action.                   *)
(***************************************************************************)
EXTENDS H2, SequenceTheorems, FiniteSetTheorems, TLAPS

(* DATA frames on their way, counted.                                      *)

DataFrames(w) == {i \in DOMAIN w : w[i].type = "data"}

LEMMA DataFramesFinite ==
  ASSUME NEW w \in Seq(Frame)
  PROVE  IsFiniteSet(DataFrames(w)) /\ Cardinality(DataFrames(w)) \in Nat
<1>1. Len(w) \in Nat /\ DataFrames(w) \in SUBSET (1..Len(w))
  BY DEF DataFrames
<1>2. IsFiniteSet(1..Len(w))
  BY <1>1, FS_Interval
<1>3. QED BY <1>1, <1>2, FS_Subset, FS_CardinalityType

\* A frame is sent.
LEMMA DataFramesSent ==
  ASSUME NEW w \in Seq(Frame), NEW f \in Frame
  PROVE  Cardinality(DataFrames(Append(w, f)))
           = IF f.type = "data" THEN Cardinality(DataFrames(w)) + 1
             ELSE Cardinality(DataFrames(w))
<1> DEFINE t == Append(w, f)
           n == Len(w)
<1>1. /\ t \in Seq(Frame) /\ Len(t) = n + 1 /\ t[n + 1] = f
      /\ \A i \in 1..n : t[i] = w[i]
  BY AppendProperties
<1>2. DOMAIN w = 1..n /\ DOMAIN t = 1..n + 1 /\ n \in Nat
  BY <1>1
<1>3. IsFiniteSet(DataFrames(w))
  BY DataFramesFinite
<1> HIDE DEF t
<1>4. CASE f.type = "data"
  <2>1. DataFrames(t) = DataFrames(w) \cup {n + 1}
    BY <1>1, <1>2, <1>4 DEF DataFrames
  <2>2. n + 1 \notin DataFrames(w)
    BY <1>2 DEF DataFrames
  <2>3. QED BY <1>3, <1>4, <2>1, <2>2, FS_AddElement DEF t
<1>5. CASE f.type # "data"
  <2>1. DataFrames(t) = DataFrames(w)
    BY <1>1, <1>2, <1>5 DEF DataFrames
  <2>2. QED BY <1>5, <2>1 DEF t
<1>6. QED BY <1>4, <1>5

\* The first frame is read.
LEMMA DataFramesRead ==
  ASSUME NEW w \in Seq(Frame), w # <<>>
  PROVE  Cardinality(DataFrames(w))
           = IF Head(w).type = "data" THEN Cardinality(DataFrames(Tail(w))) + 1
             ELSE Cardinality(DataFrames(Tail(w)))
<1> DEFINE t == Tail(w)
           n == Len(w)
           D == DataFrames(w) \ {1}
           g == [i \in DataFrames(t) |-> i + 1]
<1>1. n \in Nat \ {0}
  BY EmptySeq, LenProperties
<1>2. /\ t \in Seq(Frame) /\ Len(t) = n - 1 /\ Head(w) = w[1]
      /\ \A i \in 1..n - 1 : t[i] = w[i + 1]
  BY <1>1, HeadTailProperties
<1>3. DOMAIN w = 1..n /\ DOMAIN t = 1..n - 1
  BY <1>1, <1>2
<1> HIDE DEF t, n
<1>4. \A i \in DataFrames(t) : i \in Int /\ i + 1 \in D
  BY <1>1, <1>2, <1>3 DEF DataFrames
<1>5. \A j \in D : j \in Int /\ j - 1 \in DataFrames(t)
  <2> SUFFICES ASSUME NEW j \in D PROVE j \in Int /\ j - 1 \in DataFrames(t)
    OBVIOUS
  <2>1. j \in 1..n /\ j # 1 /\ w[j].type = "data"
    BY <1>3 DEF DataFrames
  <2>2. j - 1 \in 1..n - 1 /\ (j - 1) + 1 = j
    BY <1>1, <2>1
  <2>3. t[j - 1] = w[j]
    BY <1>2, <2>2
  <2>4. QED BY <1>3, <2>1, <2>2, <2>3 DEF DataFrames
<1>6. g \in Bijection(DataFrames(t), D)
  <2>1. g \in [DataFrames(t) -> D]
    BY <1>4
  <2>2. \A i, j \in DataFrames(t) : g[i] = g[j] => i = j
    BY <1>4
  <2>3. \A j \in D : \E i \in DataFrames(t) : g[i] = j
    <3> SUFFICES ASSUME NEW j \in D PROVE \E i \in DataFrames(t) : g[i] = j
      OBVIOUS
    <3>1. j \in Int /\ j - 1 \in DataFrames(t)
      BY <1>5
    <3>2. g[j - 1] = j
      BY <3>1
    <3>3. QED BY <3>1, <3>2
  <2>4. QED BY <2>1, <2>2, <2>3 DEF Bijection, Injection, Surjection, IsInjective
<1>7. IsFiniteSet(DataFrames(t)) /\ IsFiniteSet(DataFrames(w)) /\ Cardinality(DataFrames(t)) \in Nat
      /\ Cardinality(DataFrames(w)) \in Nat
  BY <1>2, DataFramesFinite
<1> HIDE DEF g
<1>8. Cardinality(D) = Cardinality(DataFrames(t))
  BY <1>6, <1>7, FS_Bijection DEF ExistsBijection
<1>9. Cardinality(D) = IF 1 \in DataFrames(w) THEN Cardinality(DataFrames(w)) - 1
                       ELSE Cardinality(DataFrames(w))
  BY <1>7, FS_RemoveElement
<1>10. 1 \in DataFrames(w) <=> Head(w).type = "data"
  BY <1>1, <1>2, <1>3 DEF DataFrames
<1>11. QED BY <1>7, <1>8, <1>9, <1>10 DEF t
-----------------------------------------------------------------------------
(* What the callbacks and the driver's functions keep.                     *)

\* The same stream, with the same verdicts on it.
Keeps(y, x) ==
  /\ y \in Driver /\ y.sid = x.sid /\ y.cancelled = x.cancelled
  /\ x.closed => y.closed

\* With no stream open, nothing more closes or fails.
Stays(y, x) == ~Active(x) => y.closed = x.closed /\ y.failed = x.failed

LEMMA CloseKeeps ==
  ASSUME NEW x \in Driver, NEW code \in {"none", "error", "cancel"}
  PROVE  /\ CloseStream(x, code) \in Driver /\ CloseStream(x, code).sid = x.sid
         /\ CloseStream(x, code).cancelled = x.cancelled /\ CloseStream(x, code).closed
         /\ CloseStream(x, code).data = x.data /\ CloseStream(x, code).failed = x.failed
  BY DEF CloseStream, Driver

LEMMA EndKeeps ==
  ASSUME NEW x \in Driver
  PROVE  /\ Keeps(EndRemote(x), x) /\ EndRemote(x).data = x.data
<1> DEFINE y == [x EXCEPT !.remote_end = TRUE]
<1>1. /\ y \in Driver /\ y.sid = x.sid /\ y.cancelled = x.cancelled
      /\ y.closed = x.closed /\ y.data = x.data
  BY DEF Driver
<1>2. EndRemote(x) = y \/ EndRemote(x) = CloseStream(y, "none")
  BY DEF EndRemote
<1> HIDE DEF y
<1>3. QED BY <1>1, <1>2, CloseKeeps DEF Keeps

LEMMA FlushKeeps ==
  ASSUME NEW x \in Driver
  PROVE  /\ Keeps(Flushed(x), x) /\ Flushed(x).data = x.data
         /\ Flushed(x).goaway = x.goaway /\ Flushed(x).failed = x.failed
         /\ Stays(Flushed(x), x)
<1> DEFINE y == [x EXCEPT !.sending = FALSE]
<1>1. /\ y \in Driver /\ y.sid = x.sid /\ y.cancelled = x.cancelled
      /\ y.closed = x.closed /\ y.data = x.data /\ y.goaway = x.goaway
      /\ y.failed = x.failed
  BY DEF Driver
<1>2. CloseStream(y, "none").goaway = y.goaway
  BY DEF CloseStream
<1>3. \/ Flushed(x) = x
      \/ Active(x) /\ (Flushed(x) = y \/ Flushed(x) = CloseStream(y, "none"))
  BY DEF Flushed
<1> HIDE DEF y
<1>4. QED BY <1>1, <1>2, <1>3, CloseKeeps DEF Keeps, Stays

\* One frame: a unit of DATA is buffered only for the open stream.
Buffers(y, x, f) ==
  \/ y.data = x.data
  \/ f.type = "data" /\ Ours(x, f) /\ y.data = Append(x.data, f.sid)

LEMMA FedKeeps ==
  ASSUME NEW x \in Driver, NEW f \in Frame
  PROVE  Keeps(Fed(x, f), x) /\ Stays(Fed(x, f), x) /\ Buffers(Fed(x, f), x, f)
<1> DEFINE Goal(y) == Keeps(y, x) /\ Stays(y, x) /\ Buffers(y, x, f)
<1>0. x.sid \in Int /\ Goal(x)
  BY DEF Keeps, Stays, Buffers, Driver
<1>1. CASE x.over
  <2>1. Fed(x, f) = x
    BY <1>1 DEF Fed
  <2>2. QED BY <1>0, <2>1
<1>2. CASE ~x.over /\ f.type = "goaway"
  <2> DEFINE y == [x EXCEPT !.goaway = TRUE]
  <2>1. /\ y \in Driver /\ y.sid = x.sid /\ y.cancelled = x.cancelled
        /\ y.closed = x.closed /\ y.data = x.data /\ y.failed = x.failed
    BY DEF Driver
  <2>2. Fed(x, f) = y \/ (Active(x) /\ Fed(x, f) = CloseStream(y, "error"))
    BY <1>2 DEF Fed, OnGoaway
  <2> HIDE DEF y
  <2>3. QED BY <2>1, <2>2, CloseKeeps DEF Keeps, Stays, Buffers
<1>3. CASE ~x.over /\ f.type = "pong"
  <2>1. Fed(x, f) = [x EXCEPT !.ping_acked = TRUE]
    BY <1>3 DEF Fed
  <2>2. QED BY <2>1 DEF Keeps, Stays, Buffers, Driver
<1>4. CASE ~x.over /\ f.type = "bad"
  <2>1. Fed(x, f) = [x EXCEPT !.over = TRUE]
    BY <1>4 DEF Fed
  <2>2. QED BY <2>1 DEF Keeps, Stays, Buffers, Driver
<1>5. CASE ~x.over /\ f.type = "window" /\ Ours(x, f)
  <2>1. Fed(x, f) = [x EXCEPT !.room = TRUE]
    BY <1>5 DEF Fed
  <2>2. QED BY <2>1 DEF Keeps, Stays, Buffers, Driver
<1>6. CASE ~x.over /\ f.type = "headers" /\ Ours(x, f)
  <2>1. Fed(x, f) = OnHeaders(x, f) /\ Active(x)
    BY <1>6 DEF Fed, Ours
  <2> DEFINE y == [x EXCEPT !.headers_done = TRUE]
             z == [x EXCEPT !.failed = TRUE]
  <2>2. /\ y \in Driver /\ y.sid = x.sid /\ y.cancelled = x.cancelled
        /\ y.closed = x.closed /\ y.data = x.data
        /\ z \in Driver /\ z.sid = x.sid /\ z.cancelled = x.cancelled
        /\ z.closed = x.closed /\ z.data = x.data
    BY DEF Driver
  <2>3. OnHeaders(x, f) = z \/ OnHeaders(x, f) = y \/ OnHeaders(x, f) = EndRemote(y)
    BY DEF OnHeaders
  <2> HIDE DEF y, z
  <2>4. QED BY <2>1, <2>2, <2>3, EndKeeps DEF Keeps, Stays, Buffers
<1>7. CASE ~x.over /\ f.type = "info" /\ Ours(x, f)
  <2>1. Fed(x, f) = OnInfo(x) /\ Active(x)
    BY <1>7 DEF Fed, Ours
  <2> DEFINE z == [x EXCEPT !.failed = TRUE]
  <2>2. /\ z \in Driver /\ z.sid = x.sid /\ z.cancelled = x.cancelled
        /\ z.closed = x.closed /\ z.data = x.data
    BY DEF Driver
  <2>3. OnInfo(x) = x \/ OnInfo(x) = z
    BY DEF OnInfo
  <2> HIDE DEF z
  <2>4. QED BY <1>0, <2>1, <2>2, <2>3 DEF Keeps, Stays, Buffers
<1>8. CASE ~x.over /\ f.type = "data" /\ Ours(x, f)
  <2>1. Fed(x, f) = OnData(x, f) /\ Active(x)
    BY <1>8 DEF Fed, Ours
  <2> DEFINE d == Append(x.data, f.sid)
             y == [x EXCEPT !.data = d]
  <2>a. f.sid \in Streams /\ x.data \in Seq(Streams)
    BY <1>0, <1>8, H2Assumption DEF Ours, Active, Driver, Streams
  <2>b. d \in Seq(Streams)
    BY <2>a
  <2> HIDE DEF d
  <2>2. /\ y \in Driver /\ y.sid = x.sid /\ y.cancelled = x.cancelled
        /\ y.closed = x.closed /\ y.data = d
    BY <2>b DEF Driver
  <2>3. OnData(x, f) = y \/ OnData(x, f) = EndRemote(y)
    BY DEF OnData, d
  <2> HIDE DEF y
  <2>4. Keeps(OnData(x, f), x) /\ OnData(x, f).data = d
    BY <2>2, <2>3, EndKeeps DEF Keeps
  <2>5. QED BY <1>8, <2>1, <2>4 DEF Stays, Buffers, d
<1>9. CASE ~x.over /\ f.type = "rst" /\ Ours(x, f)
  <2>1. Fed(x, f) = CloseStream(x, IF f.flag THEN "none" ELSE "error") /\ Active(x)
    BY <1>9 DEF Fed, Ours
  <2>2. QED BY <2>1, CloseKeeps DEF Keeps, Stays, Buffers
<1>10. CASE /\ ~x.over /\ f.type \notin {"goaway", "pong", "bad"}
            /\ ~(f.type \in {"window", "headers", "info", "data", "rst"} /\ Ours(x, f))
  <2>1. Fed(x, f) = x
    BY <1>10 DEF Fed
  <2>2. QED BY <1>0, <2>1
<1>11. CASE ~x.over /\ f.type \in {"window", "headers", "info", "data", "rst"} /\ Ours(x, f)
  BY <1>5, <1>6, <1>7, <1>8, <1>9, <1>11
<1>12. CASE ~x.over /\ f.type \in {"goaway", "pong", "bad"}
  BY <1>2, <1>3, <1>4, <1>12
<1>13. QED BY <1>1, <1>10, <1>11, <1>12

LEMMA DeliveredKeeps ==
  ASSUME NEW x \in Driver
  PROVE  /\ Keeps(Delivered(x), x) /\ Delivered(x).data = <<>>
         /\ Delivered(x).closed = x.closed /\ Delivered(x).failed = x.failed
         /\ Delivered(x).close_code = x.close_code
<1>1. <<>> \in Seq(Streams)
  OBVIOUS
<1>2. QED BY <1>1 DEF Delivered, Keeps, Driver

LEMMA CancelKeeps ==
  ASSUME NEW x \in Driver, NEW ok \in BOOLEAN, x.cancelled => x.closed
  PROVE  LET y == Cancelled(x, ok) IN
         /\ y \in Driver /\ y.sid = x.sid
         /\ y.cancelled => y.closed
         /\ y.data = IF x.closed \/ x.failed THEN x.data ELSE <<>>
<1> DEFINE c == [Delivered(x) EXCEPT !.cancelled = TRUE]
           d == [Delivered(x) EXCEPT !.failed = TRUE]
<1>1. /\ Delivered(x) \in Driver /\ Delivered(x).sid = x.sid
      /\ Delivered(x).cancelled = x.cancelled /\ Delivered(x).closed = x.closed
      /\ Delivered(x).data = <<>>
  BY DeliveredKeeps DEF Keeps
<1>2. /\ c \in Driver /\ c.sid = x.sid /\ c.data = <<>>
      /\ d \in Driver /\ d.sid = x.sid /\ d.data = <<>>
      /\ d.cancelled = x.cancelled /\ d.closed = x.closed
  BY <1>1 DEF Driver
<1>3. CASE x.closed \/ x.failed
  BY <1>3 DEF Cancelled
<1>4. CASE ~(x.closed \/ x.failed)
  <2>1. Cancelled(x, ok) = IF ok THEN CloseStream(c, "cancel") ELSE d
    BY <1>4 DEF Cancelled
  <2> HIDE DEF c, d
  <2>2. QED BY <1>2, <1>4, <2>1, CloseKeeps
<1>5. QED BY <1>3, <1>4
-----------------------------------------------------------------------------
(* IInv, action by action.                                                 *)

Between == {"release", "idle", "acquire", "ping", "held"}

\* What a step knows of the driver and of what is on its way.
LEMMA Known ==
  ASSUME IInv
  PROVE  /\ h \in Driver /\ wire \in Seq(Frame) /\ owed \in Int /\ h.sid \in Int
         /\ h.data \in Seq(Streams) /\ Len(h.data) \in Nat /\ InFlight \in Nat
         /\ InFlight = Cardinality(DataFrames(wire))
         /\ caller \in Between => ~Active(h) /\ ~h.failed
         /\ h.cancelled => h.closed
<1>1. h \in Driver /\ wire \in Seq(Frame) /\ owed \in Int
  BY DEF IInv, TypeOK
<1>2. h.sid \in Int /\ h.data \in Seq(Streams)
  BY <1>1 DEF Driver
<1>3. InFlight = Cardinality(DataFrames(wire)) /\ InFlight \in Nat
  BY <1>1, DataFramesFinite DEF InFlight, DataFrames
<1>4. caller \in Between => ~Active(h) /\ ~h.failed
  BY <1>2 DEF IInv, QuietBetweenRequests, Between, Active
<1>5. QED BY <1>1, <1>2, <1>3, <1>4 DEF IInv, CallerRight

\* With nothing read or sent, IInv is about the driver and its caller.
LEMMA LocalStep ==
  ASSUME IInv, h' \in Driver, caller' \in Callers, chunk' \in BOOLEAN,
         srv' \in [Streams -> {"none", "asked", "answered", "ended", "reset"}],
         peer' \in {"live", "closed"}, pings' \in Nat, owed' \in Int, quiet' \in Nat,
         short' \in BOOLEAN, UNCHANGED wire,
         CallerRight', DataOfThisStream', QuietBetweenRequests', NoRequestAfterGoaway',
         owed' >= InFlight + Len(h'.data)
  PROVE  IInv'
<1>1. TypeOK'
  BY DEF IInv, TypeOK
<1>2. WindowNotReturnedTwice'
  BY DEF WindowNotReturnedTwice, InFlight
<1>3. QED BY <1>1, <1>2 DEF IInv

LEMMA RecvFrameInv == ASSUME IInv, RecvFrame PROVE IInv'
<1> DEFINE f == Head(wire)
           y == Fed(h, f)
<1>1. /\ h \in Driver /\ wire \in Seq(Frame) /\ wire # <<>> /\ owed \in Int
      /\ f \in Frame /\ h.data \in Seq(Streams) /\ Len(h.data) \in Nat
  BY Known, HeadTailProperties DEF RecvFrame
<1>2. /\ h' = y /\ owed' = OwedAfter(f) /\ wire' = Tail(wire) /\ chunk' = TRUE
      /\ quiet' = 0 /\ UNCHANGED <<caller, srv, peer, pings, short>>
      /\ chunk \/ CanRead
  BY DEF RecvFrame, serverVars
<1>3. Keeps(y, h) /\ Stays(y, h) /\ Buffers(y, h, f)
  BY <1>1, FedKeeps
<1> HIDE DEF y, f
<1>4. caller \in {"begin", "step", "release", "acquire", "ping"}
  BY <1>2 DEF IInv, CallerRight, CanRead
<1>5. CallerRight'
  BY <1>2, <1>3, <1>4 DEF CallerRight, Keeps, IInv
<1>6. DataOfThisStream'
  <2>1. \A i \in DOMAIN h.data : h.data[i] = h.sid
    BY DEF IInv, DataOfThisStream
  <2>2. CASE y.data = h.data
    BY <1>2, <1>3, <2>1, <2>2 DEF DataOfThisStream, Keeps
  <2>3. CASE Ours(h, f) /\ y.data = Append(h.data, f.sid)
    <3>1. f.sid = h.sid /\ y.sid = h.sid
      BY <1>3, <2>3 DEF Ours, Keeps
    <3>2. \A i \in DOMAIN y.data : y.data[i] = h.sid
      BY <1>1, <2>1, <2>3, <3>1
    <3>3. QED BY <1>2, <3>1, <3>2 DEF DataOfThisStream
  <2>4. QED BY <1>3, <2>2, <2>3 DEF Buffers
<1>7. QuietBetweenRequests'
  BY <1>2, <1>3 DEF QuietBetweenRequests, IInv, Keeps, Stays, Active
<1>8. NoRequestAfterGoaway'
  BY <1>2, <1>4 DEF NoRequestAfterGoaway
<1>9. WindowNotReturnedTwice'
  <2> DEFINE before == Cardinality(DataFrames(wire))
             after  == Cardinality(DataFrames(Tail(wire)))
  <2>1. before = IF f.type = "data" THEN after + 1 ELSE after
    BY <1>1, DataFramesRead DEF f
  <2>2. after \in Nat /\ before \in Nat
    BY <1>1, DataFramesFinite, HeadTailProperties
  <2>3. owed >= before + Len(h.data)
    BY Known DEF IInv, WindowNotReturnedTwice
  <2>4. InFlight' = after
    BY <1>2 DEF InFlight, DataFrames
  <2>5. owed' = IF f.type = "data" /\ ~Ours(h, f) THEN owed - 1 ELSE owed
    BY <1>2 DEF OwedAfter
  <2>6. \/ Len(y.data) = Len(h.data)
        \/ f.type = "data" /\ Ours(h, f) /\ Len(y.data) = Len(h.data) + 1
    <3>1. Ours(h, f) => Len(Append(h.data, f.sid)) = Len(h.data) + 1
      <4>1. Ours(h, f) => f.sid \in Streams
        BY <1>1, H2Assumption DEF Ours, Active, Driver, Streams
      <4>2. QED BY <1>1, <4>1, AppendProperties
    <3>2. QED BY <1>3, <3>1 DEF Buffers
  <2> DEFINE held == Len(h.data)
             kept == Len(y.data)
             o1   == owed'
  <2>7. /\ owed \in Int /\ held \in Nat /\ owed >= before + held
        /\ f.type = "data" /\ Ours(h, f)
             => o1 = owed /\ (kept = held \/ kept = held + 1)
        /\ f.type = "data" /\ ~Ours(h, f) => o1 = owed - 1 /\ kept = held
        /\ f.type # "data" => o1 = owed /\ kept = held
        /\ f.type = "data" => before = after + 1
        /\ f.type # "data" => before = after
    <3>1. owed \in Int /\ held \in Nat
      BY <1>1
    <3>2. QED BY <2>1, <2>3, <2>5, <2>6, <3>1
  <2> HIDE DEF before, after, held, kept, o1
  <2>9. o1 >= after + kept
    <3>1. CASE f.type = "data" /\ Ours(h, f)
      BY <2>2, <2>7, <3>1
    <3>2. CASE f.type = "data" /\ ~Ours(h, f)
      BY <2>2, <2>7, <3>2
    <3>3. CASE f.type # "data"
      BY <2>2, <2>7, <3>3
    <3>4. QED BY <3>1, <3>2, <3>3
  <2>10. QED BY <1>2, <2>4, <2>9 DEF WindowNotReturnedTwice, o1, kept
<1>10. TypeOK'
  BY <1>1, <1>2, <1>3, HeadTailProperties DEF TypeOK, IInv, Keeps, OwedAfter
<1>11. QED BY <1>5, <1>6, <1>7, <1>8, <1>9, <1>10 DEF IInv

\* The driver flushes: at the end of a read, or before a wait.
LEMMA FlushInv == ASSUME IInv, ReadDone \/ StepWaits PROVE IInv'
<1>1. /\ h \in Driver /\ owed \in Int /\ Len(h.data) \in Nat /\ InFlight \in Nat
      /\ caller \in Between => ~Active(h) /\ ~h.failed
  BY Known
<1>2. /\ h' = Flushed(h) /\ quiet' \in {quiet, 0}
      /\ UNCHANGED <<wire, srv, peer, pings, owed, short>>
  BY DEF ReadDone, StepWaits, Stamp, serverVars
<1>3. /\ Keeps(h', h) /\ h'.data = h.data /\ h'.goaway = h.goaway /\ h'.failed = h.failed
      /\ Stays(h', h)
  BY <1>1, <1>2, FlushKeeps
<1>4. \/ chunk' = FALSE /\ (caller' = caller \/ caller' = "fed")
      \/ chunk' = chunk /\ caller = "open" /\ caller' \in {"fed", "step"}
  BY DEF ReadDone, StepWaits
<1>5. CallerRight'
  BY <1>3, <1>4 DEF CallerRight, IInv, Keeps
<1>6. DataOfThisStream'
  BY <1>3 DEF DataOfThisStream, IInv, Keeps
<1>7. QuietBetweenRequests'
  BY <1>3, <1>4 DEF QuietBetweenRequests, IInv, Keeps
<1>8. NoRequestAfterGoaway'
  BY <1>3, <1>4 DEF NoRequestAfterGoaway, IInv
<1>9. owed' >= InFlight + Len(h'.data)
  BY <1>2, <1>3 DEF IInv, WindowNotReturnedTwice
<1>10. caller' \in Callers /\ chunk' \in BOOLEAN /\ quiet' \in Nat /\ h' \in Driver
  <2>1. caller \in Callers /\ chunk \in BOOLEAN /\ quiet \in Nat
    BY DEF IInv, TypeOK
  <2>2. caller' \in Callers /\ chunk' \in BOOLEAN
    BY <1>4, <2>1 DEF Callers
  <2>3. QED BY <1>2, <1>3, <2>1, <2>2 DEF Keeps
<1>11. QED BY <1>1, <1>2, <1>5, <1>6, <1>7, <1>8, <1>9, <1>10, LocalStep DEF IInv, TypeOK

\* A wait that fails ends the connection; one that succeeds leaves it open.
LEMMA WaitInv == ASSUME IInv, WaitFails \/ BeginDone PROVE IInv'
<1>1. h \in Driver /\ owed \in Int
  BY Known
<1>2. /\ h' = [h EXCEPT !.failed = TRUE, !.hdrs = FALSE] \/ h' = [h EXCEPT !.hdrs = FALSE]
      /\ caller' \in {"gone", "open"} /\ ~chunk
      /\ UNCHANGED <<chunk, wire, srv, peer, pings, owed, quiet, short>>
  BY DEF WaitFails, BeginDone, serverVars
<1>3. /\ h' \in Driver /\ h'.data = h.data /\ h'.sid = h.sid
      /\ h'.cancelled = h.cancelled /\ h'.closed = h.closed
  BY <1>1, <1>2 DEF Driver
<1>4. /\ CallerRight' /\ DataOfThisStream' /\ QuietBetweenRequests' /\ NoRequestAfterGoaway'
  BY <1>2, <1>3 DEF CallerRight, DataOfThisStream, QuietBetweenRequests,
     NoRequestAfterGoaway, IInv
<1>5. owed' >= InFlight + Len(h'.data)
  BY <1>2, <1>3 DEF IInv, WindowNotReturnedTwice
<1>6. caller' \in Callers
  BY <1>2 DEF Callers
<1>7. QED BY <1>1, <1>2, <1>3, <1>4, <1>5, <1>6, LocalStep DEF IInv, TypeOK

LEMMA BeginInv == ASSUME IInv, NEW more \in BOOLEAN, Begin(more) PROVE IInv'
<1>1. /\ h \in Driver /\ owed \in Int /\ h.sid \in Int /\ InFlight \in Nat
      /\ Len(h.data) \in Nat
  BY Known
<1>2. /\ h' = [sid |-> h.sid + 1, hdrs |-> TRUE, headers_done |-> FALSE,
               closed |-> FALSE, close_code |-> "none", goaway |-> h.goaway,
               failed |-> h.failed, cancelled |-> FALSE, ping_acked |-> h.ping_acked,
               data |-> <<>>, sending |-> more, room |-> FALSE,
               remote_end |-> FALSE, over |-> h.over]
      /\ caller = "held" /\ h.sid < MaxStreams
      /\ srv' = [srv EXCEPT ![h.sid + 1] = "asked"] /\ caller' = "begin" /\ quiet' = 0
      /\ UNCHANGED <<chunk, wire, peer, pings, owed, short>>
  BY DEF Begin
<1>3. h' \in Driver
  <2>1. h.sid + 1 \in 0..MaxStreams
    BY <1>1, <1>2, H2Assumption DEF Driver
  <2>2. <<>> \in Seq(Streams)
    OBVIOUS
  <2>3. /\ h.goaway \in BOOLEAN /\ h.failed \in BOOLEAN /\ h.ping_acked \in BOOLEAN
        /\ h.over \in BOOLEAN
    BY <1>1 DEF Driver
  <2>4. QED BY <1>2, <2>1, <2>2, <2>3 DEF Driver
<1>4. h'.data = <<>> /\ ~h'.cancelled
  BY <1>2
<1>5. CallerRight' /\ DataOfThisStream' /\ QuietBetweenRequests' /\ NoRequestAfterGoaway'
  BY <1>2, <1>4 DEF CallerRight, DataOfThisStream, QuietBetweenRequests,
     NoRequestAfterGoaway
<1>6. owed' >= InFlight + Len(h'.data)
  <2>1. owed >= InFlight + Len(h.data) /\ Len(h'.data) = 0
    BY <1>4 DEF IInv, WindowNotReturnedTwice
  <2>2. QED BY <1>1, <1>2, <2>1
<1>7. /\ srv' \in [Streams -> {"none", "asked", "answered", "ended", "reset"}]
      /\ caller' \in Callers
  BY <1>2 DEF IInv, TypeOK, Callers
<1>8. QED BY <1>1, <1>2, <1>3, <1>5, <1>6, <1>7, LocalStep DEF IInv, TypeOK

\* A connection is given back only when its stream is closed and it may carry
\* another request.
LEMMA GivenBack ==
  ASSUME GiveBack, h' \in Driver, h'.cancelled => h'.closed, ~chunk'
  PROVE  /\ caller' \in Callers /\ CallerRight'
         /\ QuietBetweenRequests' /\ NoRequestAfterGoaway'
<1>1. caller' \in {"release", "gone"} /\ (caller' = "release" => Reusable(h'))
  BY DEF GiveBack
<1>2. QED BY <1>1 DEF Reusable, Callers, CallerRight, QuietBetweenRequests,
     NoRequestAfterGoaway

\* What is buffered is delivered, and the window it used given back, once.
LEMMA DeliverInv ==
  ASSUME IInv, DeliverMore \/ DeliverEnd \/ DeliverRefused
                 \/ \E ok \in BOOLEAN : DeliverStopped(ok)
  PROVE  IInv'
<1> DEFINE y == Delivered(h)
<1>1. /\ h \in Driver /\ owed \in Int /\ Len(h.data) \in Nat /\ InFlight \in Nat
      /\ h.cancelled => h.closed
  BY Known
<1>2. /\ Keeps(y, h) /\ y.data = <<>> /\ y.closed = h.closed /\ y.failed = h.failed
  BY <1>1, DeliveredKeeps
<1>3. /\ caller \in {"fed", "open"} /\ owed' = owed - Len(h.data)
      /\ UNCHANGED <<chunk, wire, srv, peer, pings>>
      /\ quiet' \in {quiet, 0}
  BY DEF DeliverMore, DeliverEnd, DeliverRefused, DeliverStopped, Delivering, serverVars
<1>4. ~chunk'
  BY <1>3 DEF IInv, CallerRight
<1> HIDE DEF y
<1>5. /\ h' \in Driver /\ h'.data = <<>> /\ (h'.cancelled => h'.closed)
      /\ caller' \in {"open", "gone"} \/ GiveBack
      /\ short' \in BOOLEAN
  <2>0. short \in BOOLEAN
    BY DEF IInv, TypeOK
  <2>1. CASE DeliverMore \/ DeliverRefused
    <3>1. h' = y /\ caller' \in {"open", "gone"} /\ short' = short
      BY <2>1 DEF DeliverMore, DeliverRefused, y
    <3>2. QED BY <1>1, <1>2, <2>0, <3>1 DEF Keeps
  <2>2. CASE DeliverEnd
    <3>1. h' = [y EXCEPT !.failed = y.failed \/ h.close_code # "none"]
      BY <2>2 DEF DeliverEnd, y
    <3>2. /\ h' \in Driver /\ h'.data = y.data /\ h'.cancelled = y.cancelled
          /\ h'.closed = y.closed
      BY <1>2, <3>1 DEF Keeps, Driver
    <3>3. GiveBack /\ short' \in BOOLEAN
      BY <2>2 DEF DeliverEnd
    <3>4. QED BY <1>1, <1>2, <3>2, <3>3 DEF Keeps
  <2>3. CASE \E ok \in BOOLEAN : DeliverStopped(ok)
    <3>1. PICK ok \in BOOLEAN : DeliverStopped(ok)
      BY <2>3
    <3>2. h' = Cancelled(y, ok) /\ GiveBack /\ short' = short
      BY <3>1 DEF DeliverStopped, y
    <3>3. y \in Driver /\ (y.cancelled => y.closed)
      BY <1>1, <1>2 DEF Keeps
    <3>4. QED BY <1>2, <2>0, <3>2, <3>3, CancelKeeps
  <2>4. QED BY <2>1, <2>2, <2>3
<1>6. DataOfThisStream'
  BY <1>5 DEF DataOfThisStream
<1>7. /\ caller' \in Callers /\ CallerRight' /\ QuietBetweenRequests' /\ NoRequestAfterGoaway'
  <2>1. CASE caller' \in {"open", "gone"}
    BY <1>4, <1>5, <2>1 DEF Callers, CallerRight, QuietBetweenRequests, NoRequestAfterGoaway
  <2>2. CASE GiveBack
    BY <1>4, <1>5, <2>2, GivenBack
  <2>3. QED BY <1>5, <2>1, <2>2
<1>8. owed' \in Int /\ owed' >= InFlight + Len(h'.data)
  <2>1. owed >= InFlight + Len(h.data) /\ Len(h'.data) = 0
    BY <1>5 DEF IInv, WindowNotReturnedTwice
  <2>2. QED BY <1>1, <1>3, <2>1
<1>9. quiet' \in Nat
  BY <1>3 DEF IInv, TypeOK
<1>10. QED BY <1>3, <1>4, <1>5, <1>6, <1>7, <1>8, <1>9, LocalStep DEF IInv, TypeOK

LEMMA AbortInv == ASSUME IInv, NEW ok \in BOOLEAN, Abort(ok) PROVE IInv'
<1>1. /\ h \in Driver /\ owed \in Int /\ Len(h.data) \in Nat /\ InFlight \in Nat
      /\ h.cancelled => h.closed
  BY Known
<1>2. /\ caller = "open" /\ h' = Cancelled(h, ok) /\ owed' = OwedCancelled /\ GiveBack
      /\ quiet' \in {quiet, 0}
      /\ UNCHANGED <<chunk, wire, srv, peer, pings, short>>
  BY DEF Abort, serverVars
<1>3. /\ h' \in Driver /\ h'.sid = h.sid /\ (h'.cancelled => h'.closed)
      /\ h'.data = IF h.closed \/ h.failed THEN h.data ELSE <<>>
  BY <1>1, <1>2, CancelKeeps
<1>4. ~chunk'
  BY <1>2 DEF IInv, CallerRight
<1>5. caller' \in Callers /\ CallerRight' /\ QuietBetweenRequests' /\ NoRequestAfterGoaway'
  BY <1>2, <1>3, <1>4, GivenBack
<1>6. DataOfThisStream'
  BY <1>3 DEF DataOfThisStream, IInv
<1>7. owed' \in Int /\ owed' >= InFlight + Len(h'.data)
  <2>1. owed >= InFlight + Len(h.data)
    BY DEF IInv, WindowNotReturnedTwice
  <2>2. CASE h.closed \/ h.failed
    BY <1>1, <1>2, <1>3, <2>1, <2>2 DEF OwedCancelled
  <2>3. CASE ~(h.closed \/ h.failed)
    <3>1. owed' = owed - Len(h.data) /\ Len(h'.data) = 0
      BY <1>2, <1>3, <2>3 DEF OwedCancelled
    <3>2. QED BY <1>1, <2>1, <3>1
  <2>4. QED BY <2>2, <2>3
<1>8. quiet' \in Nat
  BY <1>2 DEF IInv, TypeOK
<1>9. QED BY <1>2, <1>3, <1>4, <1>5, <1>6, <1>7, <1>8, LocalStep DEF IInv, TypeOK

\* The pool's probes let a connection through only without a GOAWAY.
LEMMA PoolInv ==
  ASSUME IInv, BeginRefused \/ Acquire \/ ProbeStale \/ ProbeReleased \/ ProbeHit \/ PingHit
  PROVE  IInv'
<1>1. /\ UNCHANGED <<h, chunk, wire, srv, peer, pings, owed, quiet, short>>
      /\ \/ caller' = "gone" /\ ~chunk
         \/ caller = "idle" /\ caller' = "acquire"
         \/ caller \in Between /\ caller' \in {"idle", "held"} /\ ~h.goaway /\ ~chunk
  <2>1. CASE BeginRefused
    BY <2>1 DEF BeginRefused, serverVars, IInv, CallerRight
  <2>2. CASE ~BeginRefused
    BY <2>2 DEF Acquire, ProbeStale, ProbeReleased, ProbeHit, PingHit, Probed, serverVars,
       Between
  <2>3. QED BY <2>1, <2>2
<1>2. /\ CallerRight' /\ DataOfThisStream' /\ QuietBetweenRequests' /\ NoRequestAfterGoaway'
  BY <1>1 DEF IInv, CallerRight, DataOfThisStream, QuietBetweenRequests,
     NoRequestAfterGoaway, Between
<1>3. owed' >= InFlight + Len(h'.data)
  BY <1>1 DEF IInv, WindowNotReturnedTwice
<1>4. caller' \in Callers
  BY <1>1 DEF Callers
<1>5. QED BY <1>1, <1>2, <1>3, <1>4, LocalStep DEF IInv, TypeOK

LEMMA PingSentInv == ASSUME IInv, PingSent PROVE IInv'
<1>1. h \in Driver
  BY Known
<1>2. /\ caller = "acquire" /\ ~chunk /\ h' = [h EXCEPT !.ping_acked = FALSE]
      /\ caller' = "ping" /\ pings' = pings + 1 /\ quiet' = 0
      /\ UNCHANGED <<chunk, wire, srv, peer, owed, short>>
  BY DEF PingSent, Probed
<1>3. /\ h' \in Driver /\ h'.data = h.data /\ h'.sid = h.sid /\ h'.closed = h.closed
      /\ h'.cancelled = h.cancelled /\ h'.failed = h.failed
  BY <1>1, <1>2 DEF Driver
<1>4. /\ CallerRight' /\ DataOfThisStream' /\ QuietBetweenRequests' /\ NoRequestAfterGoaway'
  BY <1>2, <1>3 DEF IInv, CallerRight, DataOfThisStream, QuietBetweenRequests,
     NoRequestAfterGoaway
<1>5. owed' >= InFlight + Len(h'.data)
  BY <1>2, <1>3 DEF IInv, WindowNotReturnedTwice
<1>6. caller' \in Callers /\ pings' \in Nat
  BY <1>2 DEF Callers, IInv, TypeOK
<1>7. QED BY <1>2, <1>3, <1>4, <1>5, <1>6, LocalStep DEF IInv, TypeOK

\* The server sends: what it adds to the wire it owes, and no more.
LEMMA SendInv ==
  ASSUME IInv, NEW f \in Frame, Send(f),
         owed' = IF f.type = "data" THEN owed + 1 ELSE owed,
         srv' \in [Streams -> {"none", "asked", "answered", "ended", "reset"}],
         pings' \in Nat
  PROVE  IInv'
<1>1. /\ h \in Driver /\ wire \in Seq(Frame) /\ owed \in Int
      /\ Len(h.data) \in Nat /\ InFlight \in Nat
      /\ InFlight = Cardinality(DataFrames(wire))
  BY Known
<1>2. wire' = Append(wire, f) /\ UNCHANGED <<h, caller, chunk, peer, quiet, short>>
  BY DEF Send
<1>3. InFlight' = IF f.type = "data" THEN InFlight + 1 ELSE InFlight
  <2>1. InFlight' = Cardinality(DataFrames(Append(wire, f)))
    BY <1>2 DEF InFlight, DataFrames
  <2>2. QED BY <1>1, <2>1, DataFramesSent
<1>4. owed >= InFlight + Len(h.data)
  BY DEF IInv, WindowNotReturnedTwice
<1>5. WindowNotReturnedTwice'
  <2>1. owed' >= InFlight' + Len(h.data)
    BY <1>1, <1>3, <1>4
  <2>2. QED BY <1>2, <2>1 DEF WindowNotReturnedTwice
<1>6. /\ CallerRight' /\ DataOfThisStream' /\ QuietBetweenRequests' /\ NoRequestAfterGoaway'
  BY <1>2 DEF IInv, CallerRight, DataOfThisStream, QuietBetweenRequests,
     NoRequestAfterGoaway
<1>7. wire' \in Seq(Frame) /\ owed' \in Int
  BY <1>1, <1>2, AppendProperties
<1>8. TypeOK'
  BY <1>2, <1>7 DEF IInv, TypeOK
<1>9. QED BY <1>5, <1>6, <1>8 DEF IInv

LEMMA ServerInv ==
  ASSUME IInv,
         \/ \E s \in Streams :
              \/ \E b \in BOOLEAN : SendAnswer(s, b) \/ SendData(s, b) \/ SendRst(s, b)
              \/ SendInfo(s) \/ SendTrailers(s) \/ SendWindow(s)
         \/ \E b \in BOOLEAN : SendGoaway(b)
         \/ SendPong \/ SendBad
  PROVE  IInv'
<1> DEFINE Srv == [Streams -> {"none", "asked", "answered", "ended", "reset"}]
<1>1. srv \in Srv /\ pings \in Nat /\ owed \in Int
  BY DEF IInv, TypeOK
<1>2. \A t \in Frames, s \in 0..MaxStreams, b \in BOOLEAN :
        [type |-> t, sid |-> s, flag |-> b] \in Frame
  BY DEF Frame
<1>3. \A s \in Streams : s \in 0..MaxStreams
  BY H2Assumption DEF Streams
<1>a. 0 \in 0..MaxStreams
  BY H2Assumption
<1>4. ASSUME NEW t, NEW s \in 0..MaxStreams, NEW b \in BOOLEAN,
             Send([type |-> t, sid |-> s, flag |-> b]),
             owed' = IF t = "data" THEN owed + 1 ELSE owed,
             srv' \in Srv, pings' \in Nat
      PROVE  IInv'
  <2>1. t \in Frames
    BY <1>4 DEF Send
  <2> DEFINE f == [type |-> t, sid |-> s, flag |-> b]
  <2>2. f \in Frame /\ f.type = t /\ Send(f)
    BY <1>2, <1>4, <2>1
  <2> HIDE DEF f
  <2>3. QED BY <1>4, <2>2, SendInv
<1>5. ASSUME NEW s \in Streams,
             \/ \E b \in BOOLEAN : SendAnswer(s, b) \/ SendData(s, b) \/ SendRst(s, b)
             \/ SendInfo(s) \/ SendTrailers(s) \/ SendWindow(s)
      PROVE  IInv'
  <2>1. \A v \in {"answered", "ended", "reset"} : [srv EXCEPT ![s] = v] \in Srv
    BY <1>1
  <2>2. srv[s] \in {"none", "asked", "answered", "ended", "reset"}
    BY <1>1
  <2>3. ASSUME NEW b \in BOOLEAN, SendAnswer(s, b) PROVE IInv'
    <3>1. /\ Send([type |-> "headers", sid |-> s, flag |-> b]) /\ UNCHANGED <<pings, owed>>
          /\ srv' \in Srv
      BY <2>1, <2>3 DEF SendAnswer
    <3>2. QED BY <1>1, <1>3, <1>4, <3>1
  <2>4. ASSUME NEW b \in BOOLEAN, SendData(s, b) PROVE IInv'
    <3>1. /\ Send([type |-> "data", sid |-> s, flag |-> b])
          /\ owed' = owed + 1 /\ UNCHANGED pings /\ srv' \in Srv
      BY <1>1, <2>1, <2>4 DEF SendData
    <3>2. QED BY <1>1, <1>3, <1>4, <3>1
  <2>5. ASSUME NEW b \in BOOLEAN, SendRst(s, b) PROVE IInv'
    <3>1. /\ Send([type |-> "rst", sid |-> s, flag |-> b])
          /\ UNCHANGED <<pings, owed>> /\ srv' \in Srv
      BY <2>1, <2>5 DEF SendRst
    <3>2. QED BY <1>1, <1>3, <1>4, <3>1
  <2>6. CASE SendInfo(s)
    <3>1. Send([type |-> "info", sid |-> s, flag |-> FALSE]) /\ UNCHANGED <<srv, pings, owed>>
      BY <2>6 DEF SendInfo
    <3>2. QED BY <1>1, <1>3, <1>4, <3>1
  <2>7. CASE SendTrailers(s)
    <3>1. /\ Send([type |-> "headers", sid |-> s, flag |-> TRUE])
          /\ UNCHANGED <<pings, owed>> /\ srv' \in Srv
      BY <2>1, <2>7 DEF SendTrailers
    <3>2. QED BY <1>1, <1>3, <1>4, <3>1
  <2>8. CASE SendWindow(s)
    <3>1. Send([type |-> "window", sid |-> s, flag |-> FALSE]) /\ UNCHANGED <<srv, pings, owed>>
      BY <2>8 DEF SendWindow
    <3>2. QED BY <1>1, <1>3, <1>4, <3>1
  <2>9. QED BY <1>5, <2>3, <2>4, <2>5, <2>6, <2>7, <2>8
<1>6. ASSUME NEW b \in BOOLEAN, SendGoaway(b) PROVE IInv'
  <2>1. /\ Send([type |-> "goaway", sid |-> 0, flag |-> b]) /\ UNCHANGED <<pings, owed>>
        /\ srv' = IF b THEN [srv EXCEPT ![h.sid] = "reset"] ELSE srv
    BY <1>6 DEF SendGoaway
  <2>2. srv' \in Srv
    BY <1>1, <2>1
  <2>3. QED BY <1>1, <1>a, <1>4, <2>1, <2>2
<1>7. CASE SendPong
  <2>1. /\ Send([type |-> "pong", sid |-> 0, flag |-> FALSE]) /\ UNCHANGED <<srv, owed>>
        /\ pings' \in Nat
    BY <1>1, <1>7 DEF SendPong
  <2>2. QED BY <1>1, <1>a, <1>4, <2>1
<1>8. CASE SendBad
  <2>1. Send([type |-> "bad", sid |-> 0, flag |-> FALSE]) /\ UNCHANGED <<srv, pings, owed>>
    BY <1>8 DEF SendBad
  <2>2. QED BY <1>1, <1>a, <1>4, <2>1
<1>9. QED BY <1>5, <1>6, <1>7, <1>8

\* A reset heard, the server gone, time passing, and a stuttering step.
LEMMA OutsideInv ==
  ASSUME IInv, (\E s \in Streams : HearReset(s)) \/ PeerLeaves \/ Tick \/ UNCHANGED vars
  PROVE  IInv'
<1>1. UNCHANGED <<h, caller, chunk, wire, pings, owed, short>>
  BY DEF HearReset, PeerLeaves, Tick, vars, serverVars
<1>2. /\ srv' \in [Streams -> {"none", "asked", "answered", "ended", "reset"}]
      /\ peer' \in {"live", "closed"} /\ quiet' \in Nat
  BY DEF HearReset, PeerLeaves, Tick, vars, serverVars, IInv, TypeOK
<1>3. /\ CallerRight' /\ DataOfThisStream' /\ QuietBetweenRequests' /\ NoRequestAfterGoaway'
  BY <1>1 DEF IInv, CallerRight, DataOfThisStream, QuietBetweenRequests,
     NoRequestAfterGoaway
<1>4. owed' >= InFlight + Len(h'.data)
  BY <1>1 DEF IInv, WindowNotReturnedTwice
<1>5. QED BY <1>1, <1>2, <1>3, <1>4, LocalStep DEF IInv, TypeOK
-----------------------------------------------------------------------------
LEMMA InitInv == Init => IInv
<1> SUFFICES ASSUME Init PROVE IInv
  OBVIOUS
<1>1. <<>> \in Seq(Streams) /\ <<>> \in Seq(Frame) /\ Len(<<>>) = 0 /\ DOMAIN <<>> = {}
  OBVIOUS
<1>2. 0 \in 0..MaxStreams
  BY H2Assumption
<1>3. h \in Driver
  BY <1>1, <1>2 DEF Init, Driver
<1>4. TypeOK
  <2>1. wire \in Seq(Frame) /\ srv \in [Streams -> {"none", "asked", "answered", "ended", "reset"}]
    BY <1>1 DEF Init
  <2>2. owed \in Int /\ quiet \in Nat /\ pings \in Nat
    <3>1. owed = 0 /\ quiet = 0 /\ pings = 0
      BY DEF Init
    <3>2. QED BY <3>1
  <2>3. caller \in Callers /\ chunk \in BOOLEAN /\ short \in BOOLEAN /\ peer \in {"live", "closed"}
    BY Zenon DEF Init, Callers
  <2>4. QED BY <1>3, <2>1, <2>2, <2>3 DEF TypeOK
<1>5. CallerRight /\ DataOfThisStream /\ QuietBetweenRequests /\ NoRequestAfterGoaway
  BY <1>1 DEF Init, CallerRight, DataOfThisStream, QuietBetweenRequests, NoRequestAfterGoaway
<1>6. WindowNotReturnedTwice
  <2>1. {i \in DOMAIN wire : wire[i].type = "data"} = {}
    BY <1>1 DEF Init
  <2>2. InFlight = 0
    BY <2>1, FS_EmptySet DEF InFlight
  <2>3. owed = 0 /\ h.data = <<>>
    BY DEF Init
  <2>4. QED BY <1>1, <2>2, <2>3 DEF WindowNotReturnedTwice
<1>7. QED BY <1>4, <1>5, <1>6 DEF IInv

LEMMA NextInv == IInv /\ [Next]_vars => IInv'
<1> SUFFICES ASSUME IInv, [Next]_vars PROVE IInv'
  OBVIOUS
<1>1. CASE RecvFrame \/ ReadDone \/ WaitFails \/ StepWaits \/ BeginDone
  BY <1>1, RecvFrameInv, FlushInv, WaitInv
<1>2. CASE \E more \in BOOLEAN : Begin(more)
  BY <1>2, BeginInv
<1>3. CASE DeliverMore \/ DeliverEnd \/ DeliverRefused
             \/ \E ok \in BOOLEAN : DeliverStopped(ok)
  BY <1>3, DeliverInv
<1>4. CASE \E ok \in BOOLEAN : Abort(ok)
  BY <1>4, AbortInv
<1>5. CASE BeginRefused \/ Acquire \/ ProbeStale \/ ProbeReleased \/ ProbeHit \/ PingHit
  BY <1>5, PoolInv
<1>6. CASE PingSent
  BY <1>6, PingSentInv
<1>7. CASE \/ \E s \in Streams :
                \/ \E b \in BOOLEAN : SendAnswer(s, b) \/ SendData(s, b) \/ SendRst(s, b)
                \/ SendInfo(s) \/ SendTrailers(s) \/ SendWindow(s)
           \/ \E b \in BOOLEAN : SendGoaway(b)
           \/ SendPong \/ SendBad
  BY <1>7, ServerInv
<1>8. CASE (\E s \in Streams : HearReset(s)) \/ PeerLeaves \/ Tick \/ UNCHANGED vars
  BY <1>8, OutsideInv
<1>9. QED BY <1>1, <1>2, <1>3, <1>4, <1>5, <1>6, <1>7, <1>8 DEF Next

\* IInv holds in every reachable state.
THEOREM Inductive == Spec => []IInv
  BY InitInv, NextInv, PTL DEF Spec

\* The variables of the driver, its callers and the server keep their types.
THEOREM TypeCorrect == Spec => []TypeOK
<1>1. IInv => TypeOK
  BY DEF IInv
<1>2. QED BY <1>1, Inductive, PTL

\* What the driver gives back to the connection window it gives back once,
\* for bytes that have left it, however bodies end and whatever still arrives
\* for streams that were cancelled.
THEOREM WindowHeld == Spec => []WindowNotReturnedTwice
<1>1. IInv => WindowNotReturnedTwice
  BY DEF IInv
<1>2. QED BY <1>1, Inductive, PTL

\* No response is given DATA of another stream of the connection.
THEOREM OwnDataOnly == Spec => []DataOfThisStream
<1>1. IInv => DataOfThisStream
  BY DEF IInv
<1>2. QED BY <1>1, Inductive, PTL

\* From the release of a connection to the next request on it no stream is
\* open, so no callback writes through a pointer of a request that is over.
THEOREM NoStreamBetween == Spec => []QuietBetweenRequests
<1>1. IInv => QuietBetweenRequests
  BY DEF IInv
<1>2. QED BY <1>1, Inductive, PTL

\* A connection that has received GOAWAY is not pooled and not handed out,
\* at whatever point of a probe or of a PING the frame came.
THEOREM GoawayRespected == Spec => []NoRequestAfterGoaway
<1>1. IInv => NoRequestAfterGoaway
  BY DEF IInv
<1>2. QED BY <1>1, Inductive, PTL
=============================================================================
