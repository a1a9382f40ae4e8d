--------------------------------- MODULE Net --------------------------------
(***************************************************************************)
(* Sockets and deadlines (zuh_net.c, zuh_time.c, zuh_stream.c): a host's   *)
(* addresses are tried in turn under one deadline, and every wait, of a    *)
(* connect, a read or a write, is a poll of at most one tick, after which  *)
(* the tick and the deadline are asked again.  The layers above (Tls,      *)
(* Conn) call a read or a write with Reads and Writes and go on at `back`, *)
(* with its result in `in`.                                                *)
(***************************************************************************)
EXTENDS Integers, Sequences, SequencesExt, FiniteSetsExt

CONSTANTS
  Addresses,  \* how many addresses the name has
  Deadline,   \* of the whole opening, which starts at 0
  TickMs      \* tick_ms

ASSUME NetAssumption == Addresses \in Nat /\ Deadline \in Nat /\ TickMs \in Nat \ {0}

VARIABLES
  now,      \* zuh_now_ms()
  dns,      \* when the resolver answered
  addr,     \* the address tried, 0 before the first
  fds,      \* descriptors that are open, one per address
  sock,     \* m->fd, 0 when it is ZUH_INVALID_SOCK
  held,     \* stream objects allocated, of "tcp" and "tls"
  misused,  \* something closed or freed that was not open or allocated
  wire,     \* what the peer has sent and recv() has not returned
  ended,    \* the peer's end of the socket: "no", "fin" or "reset"
  pc,       \* where the opening, or an operation of the stream, is
  back,     \* where a read or a write goes on
  in,       \* what it returned: a code and units; OK with no units is an end
  rc,       \* the code the opening or the operation returned
  err       \* the code in *err

clock   == <<now, dns>>
sockets == <<addr, fds, sock, held, misused>>
peerEnd == <<wire, ended>>
call    == <<back, in>>
codes   == <<rc, err>>
netVars == <<clock, sockets, peerEnd, call, codes, pc>>

Nothing == [code |-> "OK", units |-> <<>>]
-----------------------------------------------------------------------------
(***************************************************************************)
(* zuh_time.c.                                                             *)
(***************************************************************************)
\* Faulty: a clock that is never past the deadline.
NeverExpired == FALSE

\* zuh_deadline_expired()
Expired == Deadline - now <= 0

\* Faulty: the last slice is a whole tick.
PollMsWholeTick == IF Expired THEN 0 ELSE TickMs

\* zuh_deadline_poll_ms(): never longer than one tick, nor past the deadline
PollMs == IF Expired THEN 0 ELSE Min({TickMs, Deadline - now})

\* wait_ready(): after every slice the tick is asked, then the deadline.
Slice == ~Expired /\ now' = now + PollMs

WaitStops(code) ==
  \/ code = "CANCELLED"
  \/ code = "TIMEOUT" /\ Expired
  \/ code = "IO" /\ ~Expired      \* poll() itself failed
-----------------------------------------------------------------------------
(***************************************************************************)
(* zuh_net_connect() and the TCP stream's close and destroy.               *)
(***************************************************************************)
\* zuh_closesocket()
CloseFd(fd, open) == open \ {fd}

\* getaddrinfo() takes as long as it likes; then the two objects are made.
Resolve ==
  /\ pc = "resolve"
  /\ now' \in 0..(Deadline + 1) /\ dns' = now'
  /\ \/ pc' = "address" /\ held' = {"tcp"} /\ UNCHANGED codes
     \/ pc' = "failed" /\ rc' = "DNS" /\ err' = "DNS" /\ UNCHANGED held
     \/ pc' = "failed" /\ rc' = "NOMEM" /\ UNCHANGED <<held, err>>
  /\ UNCHANGED <<addr, fds, sock, misused, peerEnd, call>>

\* A candidate that cannot be made, is refused at once, is connected at once,
\* or is in progress
NextAddress ==
  /\ pc = "address" /\ addr < Addresses
  /\ addr' = addr + 1
  /\ \/ pc' = "address" /\ UNCHANGED <<fds, sock, err>>
     \/ pc' = "address" /\ err' = "CONNECT" /\ UNCHANGED <<fds, sock>>
     \/ pc' \in {"connected", "connecting"} /\ fds' = fds \cup {addr'} /\ sock' = addr' /\ UNCHANGED err
  /\ UNCHANGED <<clock, held, misused, peerEnd, call, rc>>

ConnectFails(code) ==
  /\ held' = held \ {"tcp"}
  /\ pc' = "failed" /\ rc' = code

NoAddressLeft ==
  /\ pc = "address" /\ addr = Addresses
  /\ ConnectFails("CONNECT")
  /\ UNCHANGED <<clock, addr, fds, sock, misused, peerEnd, call, err>>

ConnectSlice ==
  /\ pc = "connecting" /\ Slice
  /\ UNCHANGED <<dns, sockets, peerEnd, call, codes, pc>>

\* Writable: SO_ERROR says whether it is connected.  A refused one is closed,
\* and the next address is tried.
ConnectReady ==
  /\ pc = "connecting" /\ ~Expired
  /\ \/ pc' = "connected" /\ UNCHANGED <<fds, sock, err>>
     \/ pc' = "address" /\ fds' = CloseFd(sock, fds) /\ sock' = 0 /\ err' = "CONNECT"
  /\ UNCHANGED <<clock, addr, held, misused, peerEnd, call, rc>>

\* A cancellation or a timeout is final: no other address is tried.
ConnectStops(code) ==
  /\ pc = "connecting" /\ WaitStops(code)
  /\ fds' = CloseFd(sock, fds) /\ sock' = 0
  /\ ConnectFails(code) /\ err' = code
  /\ UNCHANGED <<clock, addr, misused, peerEnd, call>>

\* net_close(): a second call finds it done.  net_destroy() closes and frees.
NetClose(open, fd) == IF fd = 0 THEN open ELSE CloseFd(fd, open)
NetDestroy ==
  /\ fds' = NetClose(fds, sock) /\ sock' = 0
  /\ held' = held \ {"tcp"} /\ misused' = (misused \/ "tcp" \notin held)
-----------------------------------------------------------------------------
(***************************************************************************)
(* The TCP stream's read and write.  A read asks recv() first, so what has *)
(* arrived is returned however late it is; a write is taken by the kernel  *)
(* or waits, and zuh_stream_write_all() asks the deadline before it.       *)
(***************************************************************************)
Reads(k)   == pc' = "recv" /\ back' = k
Writes(k)  == pc' = "send" /\ back' = k
Returns(i) == pc' = back /\ in' = i /\ UNCHANGED <<sockets, back, rc>>

RecvData ==
  /\ pc = "recv" /\ wire # <<>>
  /\ \E n \in 1..Len(wire) :
       /\ Returns([code |-> "OK", units |-> SubSeq(wire, 1, n)])
       /\ wire' = SubSeq(wire, n + 1, Len(wire))
  /\ UNCHANGED <<clock, ended, err>>

RecvEnd ==
  /\ pc = "recv" /\ wire = <<>> /\ ended # "no"
  /\ IF ended = "fin" THEN Returns(Nothing) /\ UNCHANGED err
                      ELSE Returns([Nothing EXCEPT !.code = "IO"]) /\ err' = "IO"
  /\ UNCHANGED <<clock, peerEnd>>

RecvSlice ==
  /\ pc = "recv" /\ wire = <<>> /\ ended = "no" /\ Slice
  /\ UNCHANGED <<dns, sockets, peerEnd, call, codes, pc>>

RecvStops(code) ==
  /\ pc = "recv" /\ wire = <<>> /\ ended = "no" /\ WaitStops(code)
  /\ Returns([Nothing EXCEPT !.code = code]) /\ err' = code
  /\ UNCHANGED <<clock, peerEnd>>

SendAll ==
  /\ pc = "send" /\ ~Expired
  /\ Returns(Nothing)
  /\ UNCHANGED <<clock, peerEnd, err>>

SendSlice ==
  /\ pc = "send" /\ Slice
  /\ UNCHANGED <<dns, sockets, peerEnd, call, codes, pc>>

SendStops(code) ==
  /\ pc = "send" /\ WaitStops(code)
  /\ Returns([Nothing EXCEPT !.code = code]) /\ err' = code
  /\ UNCHANGED <<clock, peerEnd>>

\* net_readable(): data, an end and an error all count.
NetReadable == sock = 0 \/ wire # <<>> \/ ended # "no"

NetInit ==
  /\ now = 0 /\ dns = 0 /\ addr = 0 /\ fds = {} /\ sock = 0 /\ held = {} /\ misused = FALSE
  /\ wire = <<>> /\ ended = "no"
  /\ pc = "resolve" /\ back = "none" /\ in = Nothing /\ rc = "OK" /\ err = "OK"

NetStep ==
  \/ Resolve \/ NextAddress \/ NoAddressLeft \/ ConnectSlice \/ ConnectReady
  \/ RecvData \/ RecvEnd \/ RecvSlice \/ SendAll \/ SendSlice
  \/ ConnectStops("TIMEOUT") \/ RecvStops("TIMEOUT") \/ SendStops("TIMEOUT")

\* What the library cannot count on: the user's interrupt, a failing poll()
NetDisturbed ==
  \E code \in {"CANCELLED", "IO"} : ConnectStops(code) \/ RecvStops(code) \/ SendStops(code)
=============================================================================
