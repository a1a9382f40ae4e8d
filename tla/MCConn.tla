------------------------------- MODULE MCConn -------------------------------
\* Small instances of Conn.
EXTENDS Conn

Request(https, proxy, backend, verify, asks) ==
  [https |-> https, proxy |-> proxy, backend |-> backend, verify |-> verify, asks |-> asks]

MCConfigs ==
  {Request(FALSE, FALSE, "openssl", TRUE, {})} \cup
  {Request(TRUE, p, b, TRUE, {}) : p \in BOOLEAN, b \in {"openssl", "schannel"}} \cup
  {Request(TRUE, FALSE, b, TRUE, {"pins"}) : b \in {"openssl", "schannel"}} \cup
  {Request(TRUE, FALSE, "openssl", FALSE, {})}

Unverified == {Request(TRUE, FALSE, "openssl", FALSE, {"pins"})}
Schannel   == {Request(TRUE, FALSE, "schannel", TRUE, {})}

Hello(tls13) == [i \in 1..(IF tls13 THEN 2 ELSE 3) |-> <<"h", i>>]
Data(n)      == [i \in 1..n |-> <<"r", i>>]

Tunnel       == <<<<"c", 1>>, <<"c", 2>>>>
Whole(tls13) == Hello(tls13) \o Data(4) \o <<<<"fin", 0>>>>

Peer(script, tls13, cert) == [script |-> script, tls13 |-> tls13, cert |-> cert]

\* A plain server, a TLS server, one behind a proxy, a proxy that refuses,
\* goes on for too long or sends more than its answer, and certificates that are not good
MCPeers ==
  {Peer(<<>>, FALSE, "good"), Peer(<<<<"c", 1>>, <<"no", 2>>>>, FALSE, "good"),
   Peer(<<<<"c", 1>>, <<"c", 1>>, <<"c", 1>>, <<"c", 1>>>>, FALSE, "good"),
   Peer(Tunnel \o <<<<"x", 0>>>>, FALSE, "good")} \cup
  {Peer(h \o Whole(v), v, "good") : h \in {<<>>, Tunnel}, v \in BOOLEAN} \cup
  {Peer(Hello(v), v, c) : v \in BOOLEAN, c \in {"bad", "key"}}
=============================================================================
