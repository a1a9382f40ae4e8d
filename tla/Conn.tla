-------------------------------- MODULE Conn --------------------------------
(***************************************************************************)
(* Opening a connection (zuh_engine.c, open_stream() and proxy_tunnel();   *)
(* zuh_proxy.c, the CONNECT exchange): TCP to the origin or to the proxy,  *)
(* the tunnel, then TLS, each step of which may fail with the ones before  *)
(* it to be undone.  The pool's answer and a backend that dials by itself  *)
(* are in Pool and Nw; this module is the path without them.               *)
(***************************************************************************)
EXTENDS Tls

CONSTANTS
  Configs,      \* the requests
  Peers,        \* the peers: their script, TLS version and certificate
  MaxHeadUnits  \* ZUH_MAX_HEADER_BYTES, in units

VARIABLES
  raw,    \* proxy_tunnel()'s buffer
  asked,  \* the proxy has the CONNECT request
  sent    \* units of the peer's script sent

connVars == <<raw, asked, sent>>
vars     == <<netVars, tlsVars, connVars>>

\* How many units of the script are the proxy's answer
AnswerLen(p) == Count("c", p.script) + Count("no", p.script)

Units == {"c", "no", "x", "h", "r", "fin"} \X Nat

\* A script is the proxy's answer, whose header block ends with a unit 2, what
\* the proxy sends behind it, then the server's handshake, its records and its
\* end; any of them may be missing.
Scripted(p) ==
  /\ p.script \in Seq(Units)
  /\ \E a, b, c, d \in 0..Len(p.script) :
       /\ a <= b /\ b <= c /\ c <= d /\ Len(p.script) <= d + 1
       /\ c - b <= HsLen(p)
       /\ \A i \in DOMAIN p.script :
            /\ i <= a => p.script[i][1] \in {"c", "no"} /\ (p.script[i][2] = 2 => i = a)
            /\ a < i /\ i <= b => p.script[i][1] = "x"
            /\ b < i /\ i <= c => p.script[i] = <<"h", i - b>>
            /\ c < i /\ i <= d => p.script[i] = <<"r", i - c>>
            /\ d < i => p.script[i][1] = "fin"

ASSUME ConnAssumption == MaxHeadUnits \in Nat /\ \A p \in Peers : Scripted(p)

Init ==
  /\ NetInit
  /\ cfg \in Configs
  /\ peer \in {p \in Peers : /\ cfg.proxy <=> AnswerLen(p) > 0
                             /\ p.tls13 => OpenSSL
                             /\ "tls13" \in cfg.asks => p.tls13 \/ ~OpenSSL
                             /\ ~cfg.https => p.script = <<>>}
  /\ flights = 0 /\ hs = 0 /\ buf = <<>> /\ dec = <<>> /\ peer_closed = FALSE /\ fed = <<>>
  /\ out = <<>> /\ eof = FALSE
  /\ raw = <<>> /\ asked = FALSE /\ sent = 0
-----------------------------------------------------------------------------
(***************************************************************************)
(* The peer: it answers what it has been asked, in any pieces, and may end *)
(* the connection after any of them.                                       *)
(***************************************************************************)
MaySend(u) ==
  CASE u[1] \in {"c", "no", "x"}   -> asked
    [] u[1] = "h" /\ u[2] <= 2     -> flights >= 1
    [] OTHER                       -> flights >= 2

Connected == sock # 0 /\ pc # "connecting"

PeerSends ==
  /\ Connected /\ ended = "no" /\ sent < Len(peer.script) /\ MaySend(peer.script[sent + 1])
  /\ wire' = Append(wire, peer.script[sent + 1]) /\ sent' = sent + 1
  /\ UNCHANGED <<clock, sockets, ended, call, codes, pc, tlsVars, raw, asked>>

PeerEnds ==
  /\ Connected /\ ended = "no" /\ ended' \in {"fin", "reset"}
  /\ UNCHANGED <<clock, sockets, wire, call, codes, pc, tlsVars, connVars>>
-----------------------------------------------------------------------------
(***************************************************************************)
(* open_stream().                                                          *)
(***************************************************************************)
\* A plain stream is ready; https goes through the proxy's tunnel first.
\* zuh_proxy_connect_request() may fail to be built.
TcpOpened ==
  /\ pc = "connected"
  /\ \/ ~cfg.https /\ pc' = "open" /\ rc' = "OK" /\ UNCHANGED back
     \/ cfg.https /\ ~cfg.proxy /\ pc' = "tls" /\ UNCHANGED <<back, rc>>
     \/ cfg.https /\ cfg.proxy /\ Writes("asked") /\ UNCHANGED rc
     \/ cfg.https /\ cfg.proxy /\ pc' = "dropping" /\ rc' \in {"PROXY", "NOMEM"} /\ UNCHANGED back
  /\ UNCHANGED <<clock, sockets, peerEnd, in, err, tlsVars, connVars>>

TunnelFails(code) == pc' = "dropping" /\ rc' = code /\ err' = code /\ UNCHANGED back

TunnelAsked ==
  /\ pc = "asked"
  /\ IF in.code # "OK" THEN TunnelFails(in.code) /\ UNCHANGED asked
     ELSE asked' = TRUE /\ pc' = "answer" /\ UNCHANGED <<back, codes>>
  /\ UNCHANGED <<clock, sockets, peerEnd, in, tlsVars, raw, sent>>

\* zuh_proxy_connect_response(): the header block ends with a unit 2; OK,
\* PROXY or WOULDBLOCK.
Ends(r)   == {i \in DOMAIN r : r[i][1] \in {"c", "no"} /\ r[i][2] = 2}
Answer(r) ==
  IF Ends(r) = {} THEN "WOULDBLOCK"
  ELSE IF \E i \in Ends(r) : r[i][1] = "c" THEN "OK" ELSE "PROXY"

\* Faulty: bytes behind the response are dropped with the buffer.
SurplusIgnored(r) == FALSE

\* Anything past the response: the tunnel is out of step before it starts.
Surplus(r) == Len(r) \notin Ends(r)

\* The loop of proxy_tunnel(): parse, give up when it is too large, read more.
TunnelAnswer ==
  /\ pc = "answer"
  /\ LET a == Answer(raw) IN
       \/ a = "PROXY" /\ TunnelFails(a)
       \/ a = "OK" /\ Surplus(raw) /\ TunnelFails("PROXY")
       \/ a = "OK" /\ ~Surplus(raw) /\ pc' = "tls" /\ UNCHANGED <<back, codes>>
       \/ a = "WOULDBLOCK" /\ Len(raw) >= MaxHeadUnits /\ TunnelFails("PROXY")
       \/ a = "WOULDBLOCK" /\ Len(raw) < MaxHeadUnits /\ Reads("got") /\ UNCHANGED codes
  /\ UNCHANGED <<clock, sockets, peerEnd, in, tlsVars, connVars>>

TunnelGot ==
  /\ pc = "got"
  /\ IF in.code # "OK" THEN TunnelFails(in.code) /\ UNCHANGED raw
     ELSE IF in.units = <<>> THEN TunnelFails("PROXY") /\ UNCHANGED raw
     ELSE IF Len(raw \o in.units) > MaxHeadUnits
       THEN pc' = "dropping" /\ rc' = "NOMEM" /\ UNCHANGED <<raw, back, err>>
     ELSE raw' = raw \o in.units /\ pc' = "answer" /\ UNCHANGED <<back, codes>>
  /\ UNCHANGED <<clock, sockets, peerEnd, in, tlsVars, asked, sent>>

\* drop_stream(): what the engine holds is the TLS stream once there is one.
DropStream == IF "tls" \in held THEN TlsDestroy ELSE NetDestroy

Dropped ==
  /\ pc = "dropping" /\ DropStream /\ pc' = "failed"
  /\ UNCHANGED <<clock, addr, peerEnd, call, codes, tlsVars, connVars>>

\* The caller is through with the stream.
Finished ==
  /\ pc = "open" /\ DropStream /\ pc' = "closed"
  /\ UNCHANGED <<clock, addr, peerEnd, call, codes, tlsVars, connVars>>

Step ==
  \/ NetStep /\ UNCHANGED <<tlsVars, connVars>>
  \/ TlsStep /\ UNCHANGED connVars
  \/ TcpOpened \/ TunnelAsked \/ TunnelAnswer \/ TunnelGot \/ Dropped \/ Finished

Disturbed == NetDisturbed /\ UNCHANGED <<tlsVars, connVars>>

Next == Step \/ Disturbed \/ PeerSends \/ PeerEnds

\* The library's own thread goes on by itself; nothing is asked of the peer,
\* nor of the user.
Spec == Init /\ [][Next]_vars /\ WF_vars(Step)
-----------------------------------------------------------------------------
(***************************************************************************)
(* What must hold.                                                         *)
(***************************************************************************)
\* Where the opening is: during a read or a write, where it goes on.
At == IF pc \in {"recv", "send"} THEN back ELSE pc

Opening   == {"connected", "tls", "asked", "answer", "got"}
Shaking   == {"shake", "flushed", "filled"}
Using     == {"made", "read", "fill", "wrote"}
TlsShaken == At \in Using \/ (At = "open" /\ cfg.https)
TlsUp     == At \in Shaking \/ TlsShaken
Over      == {"dropping", "failed", "closed"}

TypeOK ==
  /\ now \in Nat /\ dns \in Nat /\ addr \in Nat /\ sock \in Nat
  /\ hs \in Nat /\ sent \in Nat
  /\ {wire, raw, buf, fed, in.units} \subseteq Seq(Units)
  /\ {dec, out} \subseteq Seq(Nat)
  /\ At \in Opening \cup Shaking \cup Using \cup Over \cup {"resolve", "address", "connecting", "open"}
  /\ pc = "recv" => back \in {"got", "filled", "fill"}
  /\ pc = "send" => back \in {"asked", "flushed", "wrote"}
  /\ cfg \in Configs /\ peer \in Peers

\* Who has been asked what: no TLS without https, no tunnel without a proxy
AsConfigured ==
  /\ cfg.proxy <=> AnswerLen(peer) > 0
  /\ ~cfg.https => peer.script = <<>>
  /\ At \in {"asked", "answer", "got"} => cfg.https /\ cfg.proxy
  /\ At \in Shaking \cup Using \cup {"tls"} => cfg.https

\* What is open and allocated at each place
Holding ==
  /\ ~misused
  /\ At \in {"resolve", "address", "failed", "closed"} => fds = {} /\ sock = 0
  /\ At \in {"resolve", "failed", "closed"} => held = {}
  /\ At = "address" => held = {"tcp"}
  /\ At \in Opening \cup Shaking \cup Using \cup {"connecting", "open", "dropping"} => fds = {sock} /\ sock # 0
  /\ At \in Opening \cup {"connecting"} => held = {"tcp"}
  /\ At = "open" /\ ~cfg.https => held = {"tcp"}
  /\ TlsUp => held = {"tcp", "tls"}
  /\ At = "dropping" => held \in {{"tcp"}, {"tcp", "tls"}}

InTime == now <= Deadline \/ now <= dns

\* The request was one the backend can honour, and the peer was found good as
\* soon as the certificate was there (OpenSSL) or the handshake was through.
Checked ==
  TlsUp =>
    /\ ConfigCheck(cfg.asks, cfg.backend)
    /\ OpenSSL /\ hs >= 2 => Verdict = "OK"
    /\ TlsShaken => hs = HsLen(peer)
    /\ TlsShaken /\ At # "made" => Verdict = "OK"

\* What recv() returned and its caller has not taken yet
Coming == IF pc \in {"got", "filled", "fill"} THEN in.units ELSE <<>>

\* Every unit sent is in one place: the tunnel's buffer, what the TLS engine
\* was given, on its way between, or in the socket, in the order it was sent.
InOrder ==
  LET r == Len(raw)
      f == r + Len(fed)
      g == f + Len(Coming)
  IN  /\ sent <= Len(peer.script)
      /\ At \in {"resolve", "address", "connecting"} => sent = 0
      /\ At \in Opening => fed = <<>>
      /\ At \in Opening \ {"answer", "got", "tls"} => raw = <<>>
      /\ TlsUp \/ At = "tls" => r = AnswerLen(peer)
      /\ At \notin Over =>
           /\ g + Len(wire) = sent
           /\ \A i \in DOMAIN raw    : raw[i]    = peer.script[i]
           /\ \A i \in DOMAIN fed    : fed[i]    = peer.script[r + i]
           /\ \A i \in DOMAIN Coming : Coming[i] = peer.script[f + i]
           /\ \A i \in DOMAIN wire   : wire[i]   = peer.script[g + i]

\* The buffer is the end of what the engine was given.  What is no longer in
\* it was taken by the handshake, message by message, or was decrypted; only
\* the close_notify is taken and not handed over.
Accounted ==
  LET n == Len(out) + Len(dec)
      k == Len(fed) - Len(buf)
  IN  /\ At \in Opening \cup {"resolve", "address", "connecting"} => buf = <<>> /\ hs = 0
      /\ ~TlsShaken /\ At \notin Over => out = <<>> /\ dec = <<>> /\ ~peer_closed
      /\ \A i \in DOMAIN out : out[i] = i
      /\ \A i \in DOMAIN dec : dec[i] = Len(out) + i
      /\ TlsUp =>
           /\ k >= 0 /\ \A i \in DOMAIN buf : buf[i] = fed[k + i]
           /\ \A i \in 1..hs : fed[i][1] = "h"
           /\ ~TlsShaken => k = hs
           /\ TlsShaken  => k = hs + n + (IF peer_closed THEN 1 ELSE 0)
           /\ n <= Count("r", peer.script)
           /\ peer_closed => /\ n = Count("r", peer.script) /\ buf = <<>>
                             /\ At # "fill" /\ ~OpenSSL

IInv == TypeOK /\ AsConfigured /\ Holding /\ InTime /\ Checked /\ InOrder /\ Accounted

\* However an opening ends, at whichever of its steps, it leaves no socket
\* and no stream behind and frees none twice; one that succeeds holds exactly
\* its socket and its streams.
NothingLeaks ==
  /\ ~misused
  /\ pc \in {"failed", "closed"} => fds = {} /\ held = {}
  /\ pc = "open" => fds = {sock} /\ sock # 0 /\ held = (IF cfg.https THEN {"tcp", "tls"} ELSE {"tcp"})

\* No wait runs past the deadline, whichever addresses, rounds of the tunnel
\* and flights share it: only the resolver, which cannot be stopped, may.
DeadlineSpentOnce == now <= Max({Deadline, dns})

\* The TLS engine is given exactly what came behind the proxy's answer, with
\* nothing skipped: a tunnel that is out of step is not spoken to.
TunnelClean ==
  pc \in {"shake", "made", "open", "read"} /\ "tls" \in held =>
    fed \o wire = SubSeq(peer.script, AnswerLen(peer) + 1, sent)

\* Records come out in order and whole, whatever pieces they came in, with
\* those that came behind the last message of the handshake: what was sent
\* has been handed over or is still held.
PlaintextInOrder ==
  /\ out = [i \in 1..Len(out) |-> i]
  /\ pc = "open" /\ "tls" \in held =>
       Len(out) + Len(dec) + Count("r", buf \o wire) = Count("r", SubSeq(peer.script, 1, sent))

\* A stream that says it is not readable, which is what the pool reuses, has
\* handed over all the peer has sent, and the peer has not ended it.
QuietIsQuiet ==
  pc = "open" /\ "tls" \in held /\ ~TlsReadable =>
    /\ ended = "no" /\ fed = SubSeq(peer.script, AnswerLen(peer) + 1, sent)
    /\ Len(out) = Count("r", fed)
    /\ \A i \in DOMAIN fed : fed[i][1] # "fin"

\* With verification on, a stream is open only to a peer whose chain was good
\* and whose key was one of the pins, where there are any: the backend that
\* cannot compare them refuses the request.
VerifiedAsAsked ==
  pc = "open" /\ "tls" \in held /\ cfg.verify =>
    peer.cert # "bad" /\ ("pins" \in cfg.asks => peer.cert # "key")

\* Every opening ends, with a connection or without one, although the peer
\* may fall silent at any step.
OpeningEnds == []<>(pc \in {"open", "failed", "closed"})

\* A read returns the end of the stream only after all it has decrypted.
EndAfterAll == eof => dec = <<>>

\* A request with pins is answered by a peer that has one of them, or raises.
PinHeld == pc = "open" /\ "pins" \in cfg.asks => peer.cert # "key"
=============================================================================
