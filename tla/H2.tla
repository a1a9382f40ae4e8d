--------------------------------- MODULE H2 ---------------------------------
(***************************************************************************)
(* One HTTP/2 connection of zuh_h2.c through the requests it carries: the  *)
(* driver's record h2_impl, the code that drives it (perform_hops and the  *)
(* pulled body of zuh_engine.c, the probes of zuh_pool.c), the frames on   *)
(* their way from the server, and the server.                              *)
(*                                                                         *)
(* nghttp2 is external and modelled by what the driver relies on: frames   *)
(* of a stream it has closed are not reported and their window is given    *)
(* back at once, a stream closes when both sides have ended, and buffered  *)
(* DATA stays owed to the server until the driver consumes it.  DATA is    *)
(* counted in units of which Window make up the connection window.         *)
(***************************************************************************)
EXTENDS Integers, Sequences, FiniteSets, SequencesExt

CONSTANTS
  Window,        \* the connection window, ZUH_H2_WINDOW in units of DATA
  KeepaliveTime, \* cfg.keepalive_time_ms in units of time, 0 turns it off
  Frames,        \* the kinds of frame the server may send
  MaxStreams,    \* bound: requests on the connection
  MaxWire        \* bound: frames on their way

ASSUME H2Assumption ==
  /\ Window \in Nat \ {0} /\ KeepaliveTime \in Nat
  /\ MaxStreams \in Nat /\ MaxWire \in Nat
  /\ Frames \subseteq {"info", "headers", "data", "rst", "goaway", "window", "pong", "bad"}

VARIABLES
  h,         \* h2_impl, see Driver
  caller,    \* what the code above the driver is doing, see Callers
  chunk,     \* inside nghttp2_session_mem_recv2(): more of one read may follow
  wire,      \* frames sent and not read
  srv,       \* [1..MaxStreams -> where the server is with each request]
  peer,      \* "live", or "closed": EOF after wire
  pings,     \* PINGs the server has not answered
  owed,      \* units of DATA sent and not given back to the connection window
  quiet,     \* the time since last_frame, zuh_h2_idle_ms()
  \* history
  short      \* a body was reported complete that the server had not ended

vars == <<h, caller, chunk, wire, srv, peer, pings, owed, quiet, short>>
serverVars == <<srv, peer, pings>>

Streams == 1..MaxStreams
Frame   == [type : Frames, sid : 0..MaxStreams, flag : BOOLEAN]

Driver ==
  [sid          : 0..MaxStreams,  \* the one open stream
   hdrs         : BOOLEAN,        \* hdrs # NULL
   headers_done : BOOLEAN,
   closed       : BOOLEAN,
   close_code   : {"none", "error", "cancel"},
   goaway       : BOOLEAN,
   failed       : BOOLEAN,
   cancelled    : BOOLEAN,
   ping_acked   : BOOLEAN,
   data         : Seq(Streams),   \* buffered DATA, each unit by its stream
   \* nghttp2_session
   sending      : BOOLEAN,        \* request DATA is left to send
   room         : BOOLEAN,        \* the server's window lets it go
   remote_end   : BOOLEAN,        \* END_STREAM was received
   over         : BOOLEAN]        \* terminated by a protocol error

Callers ==
  {"held",     \* a request has the connection and has sent nothing on it
   "begin",    \* in zuh_h2_begin(), waiting
   "open",     \* headers are in; between reads of the body
   "step",     \* in zuh_h2_body_step(), waiting
   "fed",      \* there, after the wait
   "release",  \* zuh_pool_release() probes
   "idle",     \* in the pool
   "acquire",  \* zuh_pool_acquire_by() probes
   "ping",     \* and waits for a PING
   "gone"}     \* closed and freed
-----------------------------------------------------------------------------
(* nghttp2's part                                                          *)

Active(x)   == x.sid > 0 /\ ~x.closed
WantRead(x) == ~x.over /\ (Active(x) \/ ~x.goaway)
RequestAllowed(x) == ~x.over /\ ~x.goaway

\* on_close()
CloseStream(x, code) == [x EXCEPT !.closed = TRUE, !.close_code = code]

EndRemote(x) ==
  LET y == [x EXCEPT !.remote_end = TRUE] IN
  IF x.sending THEN y ELSE CloseStream(y, "none")

\* flush(): what is sendable goes out, and the last DATA may close the stream.
Flushed(x) ==
  IF ~(x.sending /\ x.room /\ Active(x)) THEN x
  ELSE LET y == [x EXCEPT !.sending = FALSE] IN
       IF x.remote_end THEN CloseStream(y, "none") ELSE y

Stamp == IF Flushed(h) = h THEN UNCHANGED quiet
         ELSE quiet' = 0

\* on_begin_headers(), on_header(), on_frame_recv() and on_data(), and what
\* nghttp2 does before it calls them.
OnHeaders(x, f) ==
  IF ~x.headers_done /\ ~x.hdrs THEN [x EXCEPT !.failed = TRUE]
  ELSE LET y == [x EXCEPT !.headers_done = TRUE] IN
       IF f.flag THEN EndRemote(y) ELSE y
OnInfo(x) == IF x.hdrs THEN x ELSE [x EXCEPT !.failed = TRUE]
OnData(x, f) ==
  LET y == [x EXCEPT !.data = Append(@, f.sid)] IN
  IF f.flag THEN EndRemote(y) ELSE y
OnGoaway(x, f) ==
  LET y == [x EXCEPT !.goaway = TRUE] IN
  IF f.flag /\ Active(x) THEN CloseStream(y, "error") ELSE y

\* A frame of a stream that is not open is nghttp2's affair.
Ours(x, f) == f.sid = x.sid /\ Active(x)

Fed(x, f) ==
  IF x.over THEN x ELSE
  CASE f.type = "goaway" -> OnGoaway(x, f)
    [] f.type = "pong" -> [x EXCEPT !.ping_acked = TRUE]
    [] f.type = "bad" -> [x EXCEPT !.over = TRUE]
    [] f.type = "window" /\ Ours(x, f) -> [x EXCEPT !.room = TRUE]
    [] f.type = "headers" /\ Ours(x, f) -> OnHeaders(x, f)
    [] f.type = "info" /\ Ours(x, f) -> OnInfo(x)
    [] f.type = "data" /\ Ours(x, f) -> OnData(x, f)
    [] f.type = "rst" /\ Ours(x, f) ->
         CloseStream(x, IF f.flag THEN "none" ELSE "error")
    [] OTHER -> x

\* DATA that is not reported to the driver is given back at once.
OwedAfter(f) == IF f.type = "data" /\ ~Ours(h, f) THEN owed - 1 ELSE owed
-----------------------------------------------------------------------------
(* pump(): one read, fed to the session frame by frame, and a flush.       *)

CanRead ==
  CASE caller = "begin" -> ~h.headers_done /\ ~h.closed
    [] caller = "step"  -> TRUE
    [] caller = "ping"  -> ~h.ping_acked /\ ~h.goaway
    [] caller \in {"release", "acquire"} -> ~h.failed /\ RequestAllowed(h)
    [] OTHER -> FALSE

RecvFrame ==
  /\ wire # <<>>
  /\ chunk \/ (CanRead /\ WantRead(h))
  /\ h' = Fed(h, Head(wire))
  /\ owed' = OwedAfter(Head(wire))
  /\ wire' = Tail(wire)
  /\ chunk' = TRUE
  /\ quiet' = 0
  /\ UNCHANGED <<caller, serverVars, short>>

ReadDone ==
  /\ chunk
  /\ chunk' = FALSE
  /\ h' = Flushed(h) /\ Stamp
  /\ caller' = IF caller = "step" THEN "fed" ELSE caller
  /\ UNCHANGED <<wire, serverVars, owed, short>>

\* The wait ends in a deadline, an interrupt, EOF or a session that no longer
\* reads: the connection is dropped.
WaitFails ==
  /\ caller \in {"begin", "step", "ping"} /\ ~chunk
  /\ caller = "begin" => ~h.headers_done
  /\ caller = "ping" => ~(h.ping_acked /\ ~h.goaway)
  /\ h' = [h EXCEPT !.failed = TRUE, !.hdrs = FALSE]
  /\ caller' = "gone"
  /\ UNCHANGED <<chunk, wire, serverVars, owed, quiet, short>>
-----------------------------------------------------------------------------
(* A request                                                               *)

\* Faulty: DATA of the last request is left in the buffer.
BeginUncleared(more) ==
  /\ caller = "held" /\ h.sid < MaxStreams /\ ~h.failed /\ RequestAllowed(h)
  /\ h' = [h EXCEPT !.sid = @ + 1, !.hdrs = TRUE, !.headers_done = FALSE,
           !.closed = FALSE, !.close_code = "none", !.cancelled = FALSE,
           !.sending = more, !.room = FALSE, !.remote_end = FALSE]
  /\ srv' = [srv EXCEPT ![h.sid + 1] = "asked"]
  /\ caller' = "begin"
  /\ quiet' = 0
  /\ UNCHANGED <<chunk, wire, peer, pings, owed, short>>

\* zuh_h2_begin() up to its first wait.  `more`: the request has a body that
\* the server's window does not let out at once.
Begin(more) ==
  /\ caller = "held" /\ h.sid < MaxStreams /\ ~h.failed /\ RequestAllowed(h)
  /\ h' = [sid |-> h.sid + 1, hdrs |-> TRUE, headers_done |-> FALSE,
           closed |-> FALSE, close_code |-> "none", goaway |-> h.goaway,
           failed |-> h.failed, cancelled |-> FALSE, ping_acked |-> h.ping_acked,
           data |-> <<>>, sending |-> more, room |-> FALSE,
           remote_end |-> FALSE, over |-> h.over]
  /\ srv' = [srv EXCEPT ![h.sid + 1] = "asked"]
  /\ caller' = "begin"
  /\ quiet' = 0
  /\ UNCHANGED <<chunk, wire, peer, pings, owed, short>>

\* Or refuses at once, and the request fails.
BeginRefused ==
  /\ caller = "held" /\ (h.failed \/ ~RequestAllowed(h))
  /\ caller' = "gone"
  /\ UNCHANGED <<h, chunk, wire, serverVars, owed, quiet, short>>

\* zuh_h2_begin() returns with the response headers.
BeginDone ==
  /\ caller = "begin" /\ ~chunk /\ h.headers_done
  /\ h' = [h EXCEPT !.hdrs = FALSE]
  /\ caller' = "open"
  /\ UNCHANGED <<chunk, wire, serverVars, owed, quiet, short>>

\* zuh_h2_body_step() finds nothing buffered and an open stream: it sends
\* what it can and, if that did not close the stream, waits.
StepWaits ==
  /\ caller = "open" /\ h.data = <<>> /\ ~h.closed
  /\ h' = Flushed(h) /\ Stamp
  /\ caller' = IF h'.closed THEN "fed" ELSE "step"
  /\ UNCHANGED <<chunk, wire, serverVars, owed, short>>

\* zuh_h2_reusable()
Reusable(x) ==
  /\ ~x.failed /\ ~x.goaway
  /\ x.cancelled \/ (x.closed /\ x.close_code = "none")
  /\ RequestAllowed(x)

GiveBack == caller' = IF Reusable(h') THEN "release" ELSE "gone"

\* deliver(): the window goes back before the pipe sees the bytes.
Delivering ==
  /\ caller = "fed" \/ (caller = "open" /\ (h.data # <<>> \/ h.closed))
  /\ owed' = owed - Len(h.data)
\* Faulty: the buffer is not reset.
DeliveredKept(x) == x
Delivered(x) == [x EXCEPT !.data = <<>>]

DeliverMore ==
  /\ Delivering /\ ~h.closed
  /\ h' = Delivered(h)
  /\ caller' = "open"
  /\ UNCHANGED <<chunk, wire, serverVars, quiet, short>>

\* The stream has closed: stream_outcome() decides, and the body has ended.
DeliverEnd ==
  /\ Delivering /\ h.closed
  /\ h' = [Delivered(h) EXCEPT !.failed = @ \/ h.close_code # "none"]
  /\ short' = (short \/ (h.close_code = "none" /\ ~h.remote_end))
  /\ GiveBack
  /\ UNCHANGED <<chunk, wire, serverVars, quiet>>

\* The pipe refuses the bytes, over max_body or undecodable, or their end.
DeliverRefused ==
  /\ Delivering /\ (h.data # <<>> \/ h.closed)
  /\ h' = Delivered(h)
  /\ caller' = "gone"
  /\ UNCHANGED <<chunk, wire, serverVars, quiet, short>>

\* Faulty: RST_STREAM is submitted and never flushed.
CancelledUnsent(x, ok) ==
  IF x.closed \/ x.failed THEN x ELSE [Delivered(x) EXCEPT !.cancelled = TRUE]

\* zuh_h2_cancel(); ok: RST_STREAM went out.
Cancelled(x, ok) ==
  IF x.closed \/ x.failed THEN x
  ELSE IF ok THEN CloseStream([Delivered(x) EXCEPT !.cancelled = TRUE], "cancel")
             ELSE [Delivered(x) EXCEPT !.failed = TRUE]
OwedCancelled == IF h.closed \/ h.failed THEN owed ELSE owed - Len(h.data)

\* The caller's sink asked to stop: reset the stream, keep the connection.
DeliverStopped(ok) ==
  /\ Delivering /\ h.data # <<>>
  /\ h' = Cancelled(Delivered(h), ok)
  /\ GiveBack
  /\ quiet' = 0
  /\ UNCHANGED <<chunk, wire, serverVars, short>>

\* zuh_open_body_abort(), by zu_resp_abort() or the finalizer.
Abort(ok) ==
  /\ caller = "open"
  /\ h' = Cancelled(h, ok)
  /\ owed' = OwedCancelled
  /\ GiveBack
  /\ IF h.closed THEN UNCHANGED quiet
                 ELSE quiet' = 0
  /\ UNCHANGED <<chunk, wire, serverVars, short>>
-----------------------------------------------------------------------------
(* The pool                                                                *)

Acquire ==
  /\ caller = "idle"
  /\ caller' = "acquire"
  /\ UNCHANGED <<h, chunk, wire, serverVars, owed, quiet, short>>

\* h2_readable() ends the connection: GOAWAY, a session that is over, EOF, or
\* bytes that do not make a whole record in time.
ProbeStale ==
  /\ caller \in {"release", "acquire"} /\ ~chunk
  /\ h.goaway \/ h.over \/ wire # <<>> \/ peer = "closed"
  /\ caller' = "gone"
  /\ UNCHANGED <<h, chunk, wire, serverVars, owed, quiet, short>>

Probed == ~chunk /\ ~h.goaway /\ ~h.over /\ wire = <<>> /\ peer # "closed"

PingDue == KeepaliveTime > 0 /\ quiet >= KeepaliveTime

\* Nothing ended the connection: into the pool, out of it, or a PING first.
ProbeReleased ==
  /\ caller = "release" /\ Probed
  /\ caller' = "idle"
  /\ UNCHANGED <<h, chunk, wire, serverVars, owed, quiet, short>>

ProbeHit ==
  /\ caller = "acquire" /\ Probed /\ ~PingDue
  /\ caller' = "held"
  /\ UNCHANGED <<h, chunk, wire, serverVars, owed, quiet, short>>

\* zuh_h2_ping()
PingSent ==
  /\ caller = "acquire" /\ Probed /\ PingDue
  /\ h' = [h EXCEPT !.ping_acked = FALSE]
  /\ caller' = "ping"
  /\ pings' = pings + 1
  /\ quiet' = 0
  /\ UNCHANGED <<chunk, wire, srv, peer, owed, short>>

\* Faulty: an ACK is enough, GOAWAY or not.
PingHitAnyway ==
  /\ caller = "ping" /\ ~chunk /\ h.ping_acked
  /\ caller' = "held"
  /\ UNCHANGED <<h, chunk, wire, serverVars, owed, quiet, short>>

PingHit ==
  /\ caller = "ping" /\ ~chunk /\ h.ping_acked /\ ~h.goaway
  /\ caller' = "held"
  /\ UNCHANGED <<h, chunk, wire, serverVars, owed, quiet, short>>
-----------------------------------------------------------------------------
(* The server and the network                                              *)

\* What it does on a connection we have closed is left out.
Serving == peer = "live" /\ caller # "gone"

Send(f) ==
  /\ Serving /\ f.type \in Frames /\ Len(wire) < MaxWire
  /\ wire' = Append(wire, f)
  /\ UNCHANGED <<h, caller, chunk, peer, quiet, short>>

SendAnswer(s, end) ==
  /\ srv[s] = "asked"
  /\ Send([type |-> "headers", sid |-> s, flag |-> end])
  /\ srv' = [srv EXCEPT ![s] = IF end THEN "ended" ELSE "answered"]
  /\ UNCHANGED <<pings, owed>>

SendInfo(s) ==
  /\ srv[s] = "asked"
  /\ Send([type |-> "info", sid |-> s, flag |-> FALSE])
  /\ UNCHANGED <<srv, pings, owed>>

SendTrailers(s) ==
  /\ srv[s] = "answered"
  /\ Send([type |-> "headers", sid |-> s, flag |-> TRUE])
  /\ srv' = [srv EXCEPT ![s] = "ended"]
  /\ UNCHANGED <<pings, owed>>

SendData(s, end) ==
  /\ srv[s] = "answered" /\ owed < Window
  /\ Send([type |-> "data", sid |-> s, flag |-> end])
  /\ srv' = [srv EXCEPT ![s] = IF end THEN "ended" ELSE @]
  /\ owed' = owed + 1
  /\ UNCHANGED pings

\* flag: with the code NO_ERROR.  Also after END_STREAM, to refuse the rest
\* of the request body.
SendRst(s, noError) ==
  /\ srv[s] \in {"asked", "answered"} \/ (srv[s] = "ended" /\ noError)
  /\ Send([type |-> "rst", sid |-> s, flag |-> noError])
  /\ srv' = [srv EXCEPT ![s] = "reset"]
  /\ UNCHANGED <<pings, owed>>

\* flag: the last request was not processed.
SendGoaway(refuse) ==
  /\ refuse => h.sid > 0 /\ srv[h.sid] = "asked"
  /\ Send([type |-> "goaway", sid |-> 0, flag |-> refuse])
  /\ srv' = IF refuse THEN [srv EXCEPT ![h.sid] = "reset"] ELSE srv
  /\ UNCHANGED <<pings, owed>>

SendPong ==
  /\ pings > 0 /\ pings' = pings - 1
  /\ Send([type |-> "pong", sid |-> 0, flag |-> FALSE])
  /\ UNCHANGED <<srv, owed>>

\* WINDOW_UPDATE for the request body; a frame that breaks the protocol.
\* Frames that only restart quiet are left out.
SendWindow(s) ==
  /\ srv[s] # "none"
  /\ Send([type |-> "window", sid |-> s, flag |-> FALSE])
  /\ UNCHANGED <<srv, pings, owed>>
SendBad ==
  /\ Send([type |-> "bad", sid |-> 0, flag |-> FALSE])
  /\ UNCHANGED <<srv, pings, owed>>

\* RST_STREAM reaches the server; until then it may go on answering.
HearReset(s) ==
  /\ Serving
  /\ s < h.sid \/ (s = h.sid /\ h.cancelled)
  /\ srv[s] \in {"asked", "answered"}
  /\ srv' = [srv EXCEPT ![s] = "reset"]
  /\ UNCHANGED <<h, caller, chunk, wire, peer, pings, owed, quiet, short>>

\* A server that goes silent is one that sends nothing more.
PeerLeaves ==
  /\ Serving
  /\ peer' = "closed"
  /\ UNCHANGED <<h, caller, chunk, wire, srv, pings, owed, quiet, short>>

\* A bound: time counts while the connection is idle.  Elsewhere it could only
\* make the PING due that it makes due here.
Tick ==
  /\ caller = "idle" /\ quiet < KeepaliveTime
  /\ quiet' = quiet + 1
  /\ UNCHANGED <<h, caller, chunk, wire, serverVars, owed, short>>
-----------------------------------------------------------------------------
\* zuh_h2_wrap(): a new connection, dialled for a request.
Init ==
  /\ h = [sid |-> 0, hdrs |-> FALSE, headers_done |-> FALSE, closed |-> FALSE,
          close_code |-> "none", goaway |-> FALSE, failed |-> FALSE,
          cancelled |-> FALSE, ping_acked |-> FALSE, data |-> <<>>,
          sending |-> FALSE, room |-> FALSE, remote_end |-> FALSE, over |-> FALSE]
  /\ caller = "held"
  /\ chunk = FALSE
  /\ wire = <<>>
  /\ srv = [s \in Streams |-> "none"]
  /\ peer = "live"
  /\ pings = 0
  /\ owed = 0
  /\ quiet = 0
  /\ short = FALSE

Next ==
  \/ RecvFrame \/ ReadDone \/ WaitFails
  \/ \E more \in BOOLEAN : Begin(more)
  \/ BeginRefused \/ BeginDone \/ StepWaits
  \/ DeliverMore \/ DeliverEnd \/ DeliverRefused
  \/ \E ok \in BOOLEAN : DeliverStopped(ok) \/ Abort(ok)
  \/ Acquire \/ ProbeStale \/ ProbeReleased \/ ProbeHit \/ PingSent \/ PingHit
  \/ \E s \in Streams :
       \/ \E b \in BOOLEAN : SendAnswer(s, b) \/ SendData(s, b) \/ SendRst(s, b)
       \/ SendInfo(s) \/ SendTrailers(s) \/ SendWindow(s) \/ HearReset(s)
  \/ \E b \in BOOLEAN : SendGoaway(b)
  \/ SendPong
  \/ SendBad
  \/ PeerLeaves
  \/ Tick

Spec == Init /\ [][Next]_vars
-----------------------------------------------------------------------------
(* Properties                                                              *)

\* Every variable has its type.
TypeOK ==
  /\ h \in Driver
  /\ caller \in Callers
  /\ chunk \in BOOLEAN
  /\ wire \in Seq(Frame)
  /\ srv \in [Streams -> {"none", "asked", "answered", "ended", "reset"}]
  /\ peer \in {"live", "closed"}
  /\ pings \in Nat
  /\ owed \in Int
  /\ quiet \in Nat
  /\ short \in BOOLEAN

InFlight == Cardinality({i \in DOMAIN wire : wire[i].type = "data"})

\* Section 65.4: window goes back only for bytes that have left the driver,
\* and once, whether the body was read, refused, cancelled or ignored.
WindowNotReturnedTwice == owed >= InFlight + Len(h.data)

\* A response is made of its own stream's DATA: nothing that was buffered or
\* in flight for a cancelled or abandoned one gets into the next.
DataOfThisStream == \A i \in DOMAIN h.data : h.data[i] = h.sid

\* Section 65.2, at most one open stream: between requests none is open, so
\* nothing writes through a pointer of a request that has returned.
QuietBetweenRequests ==
  caller \in {"release", "idle", "acquire", "ping", "held"} =>
    (h.sid = 0 \/ h.closed) /\ ~h.failed

\* Section 65.2: a connection that received GOAWAY carries no further request,
\* also when the GOAWAY came while it was probed or pinged for one.
NoRequestAfterGoaway == caller \in {"idle", "held"} => ~h.goaway

\* What makes the four inductive: only a caller that waits or probes is in the
\* middle of a read, and a stream that was cancelled is closed.
CallerRight ==
  /\ chunk => caller \in {"begin", "step", "release", "acquire", "ping"}
  /\ h.cancelled => h.closed

IInv ==
  /\ TypeOK /\ CallerRight
  /\ WindowNotReturnedTwice /\ DataOfThisStream
  /\ QuietBetweenRequests /\ NoRequestAfterGoaway

\* Section 65.2: a body is ended by END_STREAM, and a RST_STREAM from the
\* server is an error.
EndedByEndStream == ~short
=============================================================================
