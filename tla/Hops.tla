-------------------------------- MODULE Hops --------------------------------
(***************************************************************************)
(* One call of zuh_engine_perform(): the hop loop perform_hops() of        *)
(* zuh_engine.c with the decisions of zuh_redirect.c and the verdict of    *)
(* zuh_reuse_decide() on each hop's connection.                            *)
(*                                                                         *)
(* The server, the network, the caller's sink and the name of the protocol *)
(* ALPN chooses are external.  A URL is its scheme, host and the rest; a   *)
(* response is its status, its Location and how reading its body went.     *)
(***************************************************************************)
EXTENDS Integers, Sequences, FiniteSets

CONSTANTS
  Urls,         \* records [https, host, path]
  LongHosts,    \* hosts of more than ZUH_MAX_HOST_LEN characters
  MaxRedirects, \* o->max_redirects
  NoLocation,   \* a response without Location
  BadLocation   \* one that zuh_uri_resolve() refuses

ASSUME HopsAssumption ==
  /\ MaxRedirects \in Nat
  /\ \A u \in Urls : u.https \in BOOLEAN
  /\ {NoLocation, BadLocation} \cap Urls = {} /\ NoLocation # BadLocation

VARIABLES
  req,          \* the request, see Requests
  pc,           \* where the loop is, see Places
  cur, method, body, src_live, strip_creds, hops,
  trail,        \* the (method, URL) pairs of the chain
  use_h2,
  conn,         \* s # NULL
  resp,         \* out->status and the Location, once the body is behind us
  held,         \* the hops whose bytes are in out->body
  err,          \* the error object's message, by its meaning
  \* history
  sent,         \* the requests that went out, in order
  sank,         \* the hops whose bytes the caller's sink was given
  done,         \* connections closed, released or handed over
  skewed        \* some went back to the pool out of step with the server

vars == <<req, pc, cur, method, body, src_live, strip_creds, hops, trail, use_h2,
          conn, resp, held, err, sent, sank, done, skewed>>
hopVars == <<req, cur, method, body, src_live, strip_creds, hops, trail>>

Methods == {"GET", "HEAD", "POST"}
Bodies  == {"none", "memory", "source"}

Requests ==
  [url : Urls, method : Methods, body : Bodies,
   dest  : {"memory", "sink", "stream"},  \* o->sink, o->stream_body
   sound : BOOLEAN]                       \* its headers pass the checks

Places == {"start", "open", "send", "receive", "decide", "returned", "raised"}
\* A code and its message: "url_as_oom" is ZUH_ERR_URL saying "out of memory".
Errors == {"none", "url", "parse", "io", "limit", "too_many", "downgrade", "loop",
           "not_replayable", "url_as_oom"}

Statuses == {200, 301, 303, 307}
IsRedirect(status) == status \in {301, 303, 307}
Locations == Urls \cup {NoLocation, BadLocation}

\* A response.  `read`: the body ended exactly, with more behind it, over the
\* cap, cut short by EOF, by a reset, or by the clock; or the caller's sink
\* asked to stop.  `keep`: the headers, or over HTTP/2 the session, allow
\* another request.
Responses ==
  [status : Statuses, loc : Locations, framed : BOOLEAN, keep : BOOLEAN,
   read : {"whole", "surplus", "over", "cut", "reset", "late", "stopped"}]

SameOrigin(u, v) == u.https = v.https /\ u.host = v.host
-----------------------------------------------------------------------------
Init ==
  /\ req \in Requests
  /\ pc = "start"
  /\ cur = req.url /\ method = req.method
  /\ body = IF req.body = "memory" THEN "memory" ELSE "none"
  /\ src_live = (req.body = "source")
  /\ strip_creds = FALSE
  /\ hops = 0
  /\ trail = {}
  /\ use_h2 = FALSE /\ conn = FALSE
  /\ resp = [status |-> 0, loc |-> NoLocation]
  /\ held = {}
  /\ err = "none"
  /\ sent = <<>> /\ sank = {} /\ done = 0 /\ skewed = FALSE

Raise(e) == pc' = "raised" /\ err' = e

\* Up to the loop: check_host(), check_caller_framing(), check_caller_headers()
\* and the first entry of the trail.
Refuse ==
  /\ pc = "start"
  /\ \/ cur.host \in LongHosts /\ Raise("url")
     \/ cur.host \notin LongHosts /\ ~req.sound /\ Raise("parse")
  /\ UNCHANGED <<hopVars, use_h2, conn, resp, held, sent, sank, done, skewed>>

Start ==
  /\ pc = "start" /\ cur.host \notin LongHosts /\ req.sound
  /\ trail' = {<<method, cur>>}
  /\ pc' = "open"
  /\ UNCHANGED <<req, cur, method, body, src_live, strip_creds, hops, use_h2, conn,
                 resp, held, err, sent, sank, done, skewed>>

\* zuh_proxy_resolve(), open_stream() and choose_protocol(); a connection that
\* fails in them is closed by them.
Open(h2) ==
  /\ pc = "open"
  /\ conn' = TRUE /\ use_h2' = h2
  /\ pc' = "send"
  /\ UNCHANGED <<hopVars, resp, held, err, sent, sank, done, skewed>>

OpenFails ==
  /\ pc = "open"
  /\ Raise("io")
  /\ UNCHANGED <<hopVars, use_h2, conn, resp, held, sent, sank, done, skewed>>

\* The request of this hop, headers rebuilt from the caller's list.
Send ==
  /\ pc = "send"
  /\ sent' = Append(sent, [method |-> method, url |-> cur, creds |-> ~strip_creds,
                           body |-> IF src_live THEN "source" ELSE body])
  /\ pc' = "receive"
  /\ UNCHANGED <<hopVars, use_h2, conn, resp, held, err, sank, done, skewed>>

\* Faulty: the exit forgets the connection.
DropForgotten == conn' = FALSE /\ UNCHANGED <<done, skewed>>
\* drop_stream(), or done_with_stream() after a failure
Drop == conn' = FALSE /\ done' = done + 1 /\ UNCHANGED skewed

\* The request cannot be built or written, or no response headers come.
ExchangeFails ==
  /\ pc \in {"send", "receive"}
  /\ Drop
  /\ Raise("io")
  /\ UNCHANGED <<hopVars, use_h2, resp, held, sent, sank>>
-----------------------------------------------------------------------------
(* The body of a response, and what becomes of its connection              *)

MayFollow(r) == IsRedirect(r.status) /\ MaxRedirects > 0 /\ r.loc # NoLocation

Streamed(r) == req.dest = "stream" /\ ~MayFollow(r)

\* hop_sink is the caller's sink
ToSink(r) == req.dest = "sink" /\ ~MayFollow(r)

\* What a response can do on this hop
Possible(r) ==
  /\ r.loc # NoLocation => IsRedirect(r.status)
  /\ r.read = "stopped" => ToSink(r)
  /\ use_h2 => r.framed /\ r.read # "surplus"
  /\ ~r.framed => r.read \notin {"surplus", "cut"}
  /\ Streamed(r) => r.read = "whole"    \* nothing is read here

ReadCode(r) ==
  CASE r.read \in {"whole", "surplus"} -> "OK"
    [] r.read = "over"    -> "BODY_LIMIT"
    [] r.read = "cut"     -> "PARSE"
    [] r.read = "reset"   -> "IO"
    [] r.read = "late"    -> "TIMEOUT"
    [] r.read = "stopped" -> "CANCELLED"

\* The failures the loop forgives: a redirect's body that cannot be drained,
\* and a sink that asked to stop.
Forgiven(r) ==
  \/ MayFollow(r) /\ ReadCode(r) \in {"BODY_LIMIT", "PARSE"}
  \/ ReadCode(r) = "CANCELLED"
Final(r) == IF Forgiven(r) THEN "OK" ELSE ReadCode(r)

\* zuh_reuse_decide(), h2_reuse()
ReuseDecide(rc, r) == rc = "OK" /\ r.framed /\ r.keep

\* Faulty: the verdict is given on the code the loop goes on with.
ReusableLate(r) == ReuseDecide(Final(r), r) /\ r.read # "surplus"
\* The code as it was read, the surplus, and over HTTP/2 a stream that was
\* reset for the sink.
Reusable(r) ==
  /\ r.read # "surplus"
  /\ \/ ReuseDecide(ReadCode(r), r)
     \/ r.read = "stopped" /\ use_h2 /\ ReuseDecide("OK", r)

\* The next byte on the connection belongs to the next response: the body ended
\* where its framing says, or its stream is closed.
InStep(r) == r.framed /\ (r.read = "whole" \/ (r.read = "stopped" /\ use_h2))

\* done_with_stream(), with a pool; or the pulled body takes the connection.
Done(r) ==
  /\ conn' = FALSE
  /\ done' = done + 1
  /\ skewed' = (skewed \/ (~Streamed(r) /\ Reusable(r) /\ ~InStep(r)))

Receive(r) ==
  /\ pc = "receive" /\ Possible(r)
  /\ held' = IF ToSink(r) \/ Streamed(r) THEN held ELSE held \cup {hops}
  /\ sank' = IF ToSink(r) THEN sank \cup {hops} ELSE sank
  /\ Done(r)
  /\ IF Final(r) = "OK"
       THEN /\ pc' = "decide"
            /\ resp' = [status |-> r.status, loc |-> r.loc]
            /\ UNCHANGED err
       ELSE /\ Raise(CASE Final(r) = "BODY_LIMIT" -> "limit"
                       [] Final(r) = "PARSE" -> "parse"
                       [] OTHER -> "io")
            /\ UNCHANGED resp
  /\ UNCHANGED <<hopVars, use_h2, sent>>
-----------------------------------------------------------------------------
(* Redirect?                                                               *)

Asked == IsRedirect(resp.status) /\ MaxRedirects > 0 /\ resp.loc # NoLocation

Return ==
  /\ pc = "decide" /\ ~Asked
  /\ pc' = "returned"
  /\ UNCHANGED <<hopVars, use_h2, conn, resp, held, err, sent, sank, done, skewed>>

TooMany   == hops >= MaxRedirects
Downgrade == cur.https /\ ~resp.loc.https
Rewritten == \/ resp.status = 301 /\ method = "POST"
             \/ resp.status = 303 /\ method # "HEAD"
DropBody  == Rewritten \/ resp.status = 303

\* Faulty: the last hop alone decides.
StripThisHop == ~SameOrigin(cur, resp.loc)
Strip == strip_creds \/ ~SameOrigin(cur, resp.loc)

DecideRefuses ==
  /\ pc = "decide" /\ Asked
  /\ \/ resp.loc = BadLocation /\ Raise("url")
     \/ resp.loc # BadLocation /\ TooMany /\ Raise("too_many")
     \/ resp.loc # BadLocation /\ ~TooMany /\ Downgrade /\ Raise("downgrade")
     \/ /\ resp.loc # BadLocation /\ ~TooMany /\ ~Downgrade
        /\ src_live /\ ~DropBody /\ Raise("not_replayable")
  /\ UNCHANGED <<hopVars, use_h2, conn, resp, held, sent, sank, done, skewed>>

Visited(m, u) == <<m, u>> \in trail

\* Faulty: the redirect's body stays in the result.
HeldOn == held
\* zuh_buf_reset(&out->body)
HeldReset == {}

\* Faulty: the source is still there on the next hop.
SrcKept == src_live
SrcDone == FALSE

\* Go to the next hop.  A host that is too long and a loop are found here; any
\* error but the loop gets the message "out of memory", whatever its code.
Follow ==
  /\ pc = "decide" /\ Asked
  /\ resp.loc # BadLocation /\ ~TooMany /\ ~Downgrade /\ (src_live => DropBody)
  /\ LET next == resp.loc
         m == IF Rewritten THEN "GET" ELSE method
     IN
       /\ cur' = next /\ method' = m
       /\ body' = IF DropBody THEN "none" ELSE body
       /\ src_live' = SrcDone
       /\ strip_creds' = Strip
       /\ hops' = hops + 1
       /\ \/ next.host \in LongHosts /\ Raise("url_as_oom") /\ UNCHANGED <<trail, held>>
          \/ /\ next.host \notin LongHosts /\ Visited(m, next)
             /\ Raise("loop") /\ UNCHANGED <<trail, held>>
          \/ /\ next.host \notin LongHosts /\ ~Visited(m, next)
             /\ trail' = trail \cup {<<m, next>>}
             /\ held' = HeldReset
             /\ pc' = "open" /\ UNCHANGED err
  /\ UNCHANGED <<req, use_h2, conn, resp, sent, sank, done, skewed>>

Next ==
  \/ Refuse \/ Start \/ OpenFails \/ Send \/ ExchangeFails
  \/ \E h2 \in BOOLEAN : Open(h2)
  \/ \E r \in Responses : Receive(r)
  \/ Return \/ DecideRefuses \/ Follow

Spec == Init /\ [][Next]_vars
-----------------------------------------------------------------------------
(* Properties                                                              *)

Request == [method : Methods, url : Urls, creds : BOOLEAN, body : Bodies]

\* Every variable has its type, and the count of hops stays within the limit.
TypeOK ==
  /\ req \in Requests
  /\ pc \in Places
  /\ cur \in Urls /\ method \in Methods /\ body \in {"none", "memory"}
  /\ src_live \in BOOLEAN /\ strip_creds \in BOOLEAN
  /\ use_h2 \in BOOLEAN /\ conn \in BOOLEAN
  /\ hops \in 0..MaxRedirects
  /\ trail \subseteq Methods \X Urls
  /\ resp \in [status : Statuses \cup {0}, loc : Locations]
  /\ held \subseteq 0..MaxRedirects
  /\ err \in Errors
  /\ sent \in Seq(Request)
  /\ sank \subseteq 0..MaxRedirects
  /\ done \in Nat /\ skewed \in BOOLEAN

\* Section 19.2: the caller's credentials go to the first origin only, and a
\* chain that has once left it does not get them back by returning.
CredentialsStayHome ==
  \A i \in DOMAIN sent : sent[i].creds =>
    \A j \in 1..i : SameOrigin(sent[j].url, req.url)

\* Section 19.5: no byte of a followed redirect reaches the caller, in their
\* sink or in the body of the response they get.
FinalBodyOnly ==
  /\ sank \subseteq {hops}
  /\ pc = "returned" => held \subseteq {hops}

\* Sections 19.1 and 28.2: a streamed body is sent once, a body that was
\* dropped does not come back, and none goes with a method that was rewritten.
BodyFollowsMethod ==
  /\ \A i, j \in DOMAIN sent : i < j /\ sent[j].body # "none" =>
       sent[i].body = "memory" /\ sent[j].body = "memory"
  /\ \A i \in DOMAIN sent : sent[i].method # req.method => sent[i].body = "none"

\* Sections 19.3 and 19.4: no (method, URL) is requested twice, at most
\* max_redirects requests follow the first, and none over HTTP after one over
\* HTTPS.
ChainBounded ==
  /\ Len(sent) <= MaxRedirects + 1
  /\ \A i, j \in DOMAIN sent : i < j =>
       /\ <<sent[i].method, sent[i].url>> # <<sent[j].method, sent[j].url>>
       /\ sent[i].url.https => sent[j].url.https

\* Section 26.3: a connection goes back to the pool only where the next byte
\* on it begins the next response, whatever the loop forgave.
PooledInStep == ~skewed

\* Review #187: every connection the loop opens is closed, released or handed
\* over exactly once, and none is left when it returns.
ConnectionsAccounted ==
  /\ pc \in {"returned", "raised", "open", "decide"} => ~conn
  /\ pc = "returned" => done = hops + 1
  /\ done + (IF conn THEN 1 ELSE 0) >= Len(sent)

\* What makes the properties above inductive.  One request, and one connection,
\* for every hop; every request is in the trail and the next one is not among
\* those sent; the flag tells whether the chain ever left the first origin; the
\* source is live on the first hop only; nothing is held between hops.
HopsCounted ==
  /\ pc = "start" => hops = 0
  /\ pc \in {"start", "open", "send"} => Len(sent) = hops
  /\ pc \in {"receive", "decide", "returned"} => Len(sent) = hops + 1
  /\ Len(sent) <= hops + 1
  /\ conn <=> pc \in {"send", "receive"}
  /\ pc \in {"start", "open", "send", "receive"} => done = hops
  /\ pc \in {"decide", "returned"} => done = hops + 1
OnTrail ==
  /\ \A i \in DOMAIN sent : <<sent[i].method, sent[i].url>> \in trail
  /\ pc \in {"open", "send"} =>
       /\ <<method, cur>> \in trail
       /\ \A i \in DOMAIN sent : <<sent[i].method, sent[i].url>> # <<method, cur>>
  /\ \A i \in DOMAIN sent : sent[i].url.https => cur.https
HomeUnlessStripped ==
  ~strip_creds => /\ SameOrigin(cur, req.url)
                  /\ \A i \in DOMAIN sent : SameOrigin(sent[i].url, req.url)
BodyAtHand ==
  /\ src_live => hops = 0 /\ body = "none" /\ method = req.method
  /\ body = "memory" => /\ method = req.method
                        /\ \A i \in DOMAIN sent : sent[i].body = "memory"
NothingHeld ==
  /\ pc \in {"start", "open", "send", "receive"} => sank = {} /\ held = {}
  /\ pc = "decide" => held \subseteq {hops} /\ (Asked => sank = {})
  /\ pc = "returned" => ~Asked

IInv ==
  /\ TypeOK /\ CredentialsStayHome /\ FinalBodyOnly /\ BodyFollowsMethod /\ ChainBounded
  /\ PooledInStep /\ ConnectionsAccounted
  /\ HopsCounted /\ OnTrail /\ HomeUnlessStripped /\ BodyAtHand /\ NothingHeld
=============================================================================
