--------------------------------- MODULE Tls --------------------------------
(***************************************************************************)
(* The two TLS backends that wrap a TCP stream (zuh_tls_openssl.c,         *)
(* zuh_tls_schannel.c): the handshake, the check of the certificate, the   *)
(* record layer, and the probe the pool asks whether a stream is quiet.    *)
(*                                                                         *)
(* What the peer sends is a sequence of units <<kind, n>>: "h" n is the    *)
(* n-th message of the server's handshake, "r" n a half of a record (two   *)
(* make one, and carry the plaintext bytes of the same numbers) and "fin"  *)
(* the close_notify; "c", "no" and "x" belong to the tunnel of Conn.  The  *)
(* client's flight 1 asks for messages 1 and 2, with which it can check    *)
(* the certificate and send flight 2; TLS 1.2 answers that with message 3. *)
(***************************************************************************)
EXTENDS Net

VARIABLES
  cfg,          \* the request: https, proxy, backend, verify, asks
  peer,         \* what the peer does: its script, TLS 1.3 or not, its certificate
  flights,      \* flights of the client's handshake the server has
  hs,           \* messages of the server's handshake taken
  buf,          \* ciphertext read: OpenSSL's rbio, Schannel's enc
  dec,          \* plaintext decrypted: inside SSL, Schannel's dec
  peer_closed,  \* Schannel: the close_notify has been decrypted
  fed,          \* every unit the TLS engine was given
  out,          \* the plaintext read() returned
  eof           \* and whether it returned the end

request == <<cfg, peer>>
engine  == <<flights, hs, buf, dec, peer_closed, fed>>
given   == <<out, eof>>
tlsVars == <<request, engine, given>>

OpenSSL == cfg.backend = "openssl"

\* zuh_tls_backend_caps(), of the settings that are security requests (D-56)
Caps(backend) == IF backend = "openssl" THEN {"pins", "tls13", "ca"} ELSE {"revocation"}

\* Faulty: a setting the backend does not know is dropped.
ConfigCheckQuiet(asks, backend) == TRUE

\* zuh_tls_config_check(): refuse, never downgrade.
ConfigCheck(asks, backend) == asks \subseteq Caps(backend)
-----------------------------------------------------------------------------
(***************************************************************************)
(* zuh_tls_connect().  The stream takes `inner` over only when it succeeds.*)
(***************************************************************************)
\* Faulty: the failing handshake destroys the inner stream too.
FailTlsInner(code) ==
  /\ held' = held \ {"tls", "tcp"} /\ fds' = fds \ {sock} /\ sock' = 0
  /\ pc' = "dropping" /\ rc' = code /\ err' = code
  /\ UNCHANGED <<addr, misused, call>>

\* fail_detach: what the backend made is freed; `inner` stays the caller's.
FailTls(code) ==
  /\ held' = held \ {"tls"}
  /\ pc' = "dropping" /\ rc' = code /\ err' = code
  /\ UNCHANGED <<addr, fds, sock, misused, call>>

TlsConnect ==
  /\ pc = "tls"
  /\ \/ ~ConfigCheck(cfg.asks, cfg.backend) /\ FailTls("TLS_UNSUPPORTED")
     \/ ConfigCheck(cfg.asks, cfg.backend) /\ \E code \in {"NOMEM", "TLS"} : FailTls(code)
     \/ /\ ConfigCheck(cfg.asks, cfg.backend)
        /\ held' = held \cup {"tls"} /\ pc' = "shake"
        /\ UNCHANGED <<addr, fds, sock, misused, call, codes>>
  /\ UNCHANGED <<clock, peerEnd, tlsVars>>

\* The server's messages still to come, and the flight they let the client send
HsLen(p)  == IF p.tls13 THEN 2 ELSE 3
Flight(n) == IF n >= 2 THEN 2 ELSE 1

\* How many of the units b are of kind k
Count(k, b) == Cardinality({i \in DOMAIN b : b[i][1] = k})

\* The messages in what was read
Messages(b) == Count("h", b)

\* How many of them one call takes: SSL_do_handshake() every one,
\* InitializeSecurityContext() at least one.
Taken(b) ==
  LET n == Messages(b)
  IN  IF OpenSSL \/ n = 0 THEN {n} ELSE 1..n

\* Faulty: what arrived with the last message is dropped with it.
KeepTrailingNone(b, n) == <<>>

\* What is left of it, SECBUFFER_EXTRA: keep_trailing()
KeepTrailing(b, n) == SubSeq(b, n + 1, Len(b))

\* verify_cb(), verify_peer(): the chain and the name, then the pin, and
\* none of it without verify_peer
Verdict ==
  IF ~cfg.verify THEN "OK"
  ELSE IF peer.cert = "bad" THEN "TLS_CERT"
  ELSE IF peer.cert = "key" /\ "pins" \in cfg.asks /\ OpenSSL THEN "TLS_PIN"
  ELSE "OK"

\* One round: the engine takes what it can and says whether it has something
\* to send, wants more or is through.  OpenSSL asks the deadline first, and
\* checks the certificate inside the round that brings it.
Shake ==
  /\ pc = "shake"
  /\ \/ OpenSSL /\ Expired /\ FailTls("TIMEOUT") /\ UNCHANGED engine
     \/ /\ ~(OpenSSL /\ Expired)
        /\ buf # <<>> /\ Head(buf)[1] # "h"                \* not a message of TLS
        /\ FailTls("TLS_HANDSHAKE") /\ UNCHANGED engine
     \/ /\ ~(OpenSSL /\ Expired)
        /\ buf # <<>> => Head(buf)[1] = "h"
        /\ \E n \in Taken(buf) :
             /\ hs' = hs + n /\ buf' = KeepTrailing(buf, n)
             /\ IF OpenSSL /\ hs < 2 /\ hs' >= 2 /\ Verdict # "OK" THEN FailTls(Verdict)
                ELSE /\ IF flights < Flight(hs') THEN Writes("flushed")
                        ELSE IF hs' = HsLen(peer) THEN pc' = "made" /\ UNCHANGED back
                        ELSE Reads("filled")
                     /\ UNCHANGED <<sockets, codes, in>>
        /\ UNCHANGED <<flights, dec, peer_closed, fed>>
  /\ UNCHANGED <<clock, peerEnd, request, given>>

\* flush_out(), then fill_in() unless the handshake is through
Flushed ==
  /\ pc = "flushed"
  /\ IF in.code # "OK" THEN FailTls(in.code) /\ UNCHANGED flights
     ELSE /\ flights' = Flight(hs)
          /\ IF hs = HsLen(peer) THEN pc' = "made" /\ UNCHANGED back ELSE Reads("filled")
          /\ UNCHANGED <<sockets, codes, in>>
  /\ UNCHANGED <<clock, peerEnd, request, hs, buf, dec, peer_closed, fed, given>>

Append2Tls == buf' = buf \o in.units /\ fed' = fed \o in.units

Filled ==
  /\ pc = "filled"
  /\ IF in.code # "OK" THEN FailTls(in.code) /\ UNCHANGED <<buf, fed>>
     ELSE IF in.units = <<>> THEN FailTls("TLS_HANDSHAKE") /\ UNCHANGED <<buf, fed>>
     ELSE Append2Tls /\ pc' = "shake" /\ UNCHANGED <<sockets, codes, call>>
  /\ UNCHANGED <<clock, peerEnd, request, flights, hs, dec, peer_closed, given>>

\* Schannel checks the certificate after the handshake, and asks the sizes.
Made ==
  /\ pc = "made"
  /\ \/ ~OpenSSL /\ Verdict # "OK" /\ FailTls(Verdict)
     \/ ~OpenSSL /\ Verdict = "OK" /\ FailTls("TLS")
     \/ /\ OpenSSL \/ Verdict = "OK"
        /\ pc' = "open" /\ rc' = "OK" /\ UNCHANGED <<sockets, call, err>>
  /\ UNCHANGED <<clock, peerEnd, tlsVars>>
-----------------------------------------------------------------------------
(***************************************************************************)
(* The record layer.                                                       *)
(***************************************************************************)
IsRecord(b) == Len(b) >= 2 /\ b[1][1] = "r" /\ b[2][1] = "r"
Plain(b)    == [i \in DOMAIN b |-> b[i][2]]

\* The units of the complete records at the front
Complete(b) ==
  SubSeq(b, 1, 2 * (Count("r", b) \div 2))

ReadStarts ==
  /\ pc = "open" /\ "tls" \in held /\ ~eof
  /\ pc' = "read"
  /\ UNCHANGED <<clock, sockets, peerEnd, call, codes, tlsVars>>

\* The caller's buffer takes some of what is there.
HandOver ==
  /\ pc = "read" /\ dec # <<>>
  /\ \E n \in 1..Len(dec) : out' = out \o SubSeq(dec, 1, n) /\ dec' = SubSeq(dec, n + 1, Len(dec))
  /\ pc' = "open"
  /\ UNCHANGED <<clock, sockets, peerEnd, call, codes, request, flights, hs, buf, peer_closed, fed, eof>>

\* SSL_read(): one record at a time, the close_notify, or WANT_READ
SslRead ==
  /\ pc = "read" /\ OpenSSL /\ dec = <<>>
  /\ \/ /\ IsRecord(buf)
        /\ dec' = Plain(SubSeq(buf, 1, 2)) /\ buf' = SubSeq(buf, 3, Len(buf))
        /\ UNCHANGED <<eof, pc, back>>
     \/ buf # <<>> /\ Head(buf)[1] = "fin" /\ eof' = TRUE /\ pc' = "open" /\ UNCHANGED <<dec, buf, back>>
     \/ /\ ~IsRecord(buf) /\ (buf # <<>> => Head(buf)[1] # "fin")
        /\ Reads("fill") /\ UNCHANGED <<dec, buf, eof>>
  /\ UNCHANGED <<clock, sockets, peerEnd, in, codes, request, flights, hs, peer_closed, fed, out>>

\* sch_read() with nothing decrypted.  decrypt_available() takes every
\* complete record; the close_notify behind them resets enc, and an incomplete
\* record sends the loop back to the socket whatever has been decrypted.
SchRead ==
  /\ pc = "read" /\ ~OpenSSL /\ dec = <<>>
  /\ IF peer_closed
     THEN eof' = TRUE /\ pc' = "open" /\ UNCHANGED <<dec, buf, peer_closed, back>>
     ELSE LET rest == SubSeq(buf, Len(Complete(buf)) + 1, Len(buf)) IN
       /\ dec' = Plain(Complete(buf)) /\ UNCHANGED eof
       /\ IF rest = <<>> /\ buf # <<>>
            THEN buf' = <<>> /\ UNCHANGED <<pc, back, peer_closed>>
          ELSE IF rest # <<>> /\ Head(rest)[1] = "fin"
            THEN buf' = <<>> /\ peer_closed' = TRUE /\ UNCHANGED <<pc, back>>
          ELSE buf' = rest /\ Reads("fill") /\ UNCHANGED peer_closed
  /\ UNCHANGED <<clock, sockets, peerEnd, in, codes, request, flights, hs, fed, out>>

\* What came, a TCP end, which is the end of the stream, or a failure, after
\* which the engine drops the stream
Fill ==
  /\ pc = "fill"
  /\ IF in.code # "OK" THEN pc' = "dropping" /\ rc' = in.code /\ UNCHANGED <<buf, fed, eof>>
     ELSE IF in.units = <<>> THEN eof' = TRUE /\ pc' = "open" /\ UNCHANGED <<buf, fed, rc>>
     ELSE Append2Tls /\ pc' = "read" /\ UNCHANGED <<eof, rc>>
  /\ UNCHANGED <<clock, sockets, peerEnd, call, err, request, flights, hs, dec, peer_closed, out>>

\* tls_write(), sch_write(): encrypted and written in full
WriteStarts ==
  /\ pc = "open" /\ "tls" \in held
  /\ Writes("wrote")
  /\ UNCHANGED <<clock, sockets, peerEnd, in, codes, tlsVars>>

Wrote ==
  /\ pc = "wrote"
  /\ IF in.code = "OK" THEN pc' = "open" /\ UNCHANGED rc ELSE pc' = "dropping" /\ rc' = in.code
  /\ UNCHANGED <<clock, sockets, peerEnd, call, err, tlsVars>>

\* Faulty: ciphertext that is read and not decrypted does not count.
TlsReadableSocket == dec # <<>> \/ NetReadable

\* tls_readable(), sch_readable()
TlsReadable == dec # <<>> \/ buf # <<>> \/ peer_closed \/ NetReadable

\* tls_destroy(), sch_destroy(): the stream owns the inner one by now.
TlsDestroy ==
  /\ fds' = NetClose(fds, sock) /\ sock' = 0
  /\ held' = held \ {"tls", "tcp"}
  /\ misused' = (misused \/ ~({"tls", "tcp"} \subseteq held))

TlsStep ==
  \/ TlsConnect \/ Shake \/ Flushed \/ Filled \/ Made
  \/ ReadStarts \/ HandOver \/ SslRead \/ SchRead \/ Fill \/ WriteStarts \/ Wrote
=============================================================================
