# A TLA+ model of zuhttp

zuhttp is an HTTP client for R: a C engine (`src/src/zuh_*.c`), the glue that
calls it from R (`src/src/init.c`), and the R layer with the retry loop
(`src/R/*.R`). These modules model the parts of it that keep state from one
call, hop, stream, thread or process to the next, model-check them on small
instances, and prove the safety properties of all nine of them (the pool, the
HTTP/2 driver, the response body, the redirect loop, the callbacks into R, the
retry loop, the opening of a connection with its sockets and its TLS, the macOS
TLS stream, the download file) for every instance. Section
numbers (section 26.4, D-76, review #155) are those the source's comments and
`src/.agents/zuhttp-design.md` use.

`PROJECT.json` has, for every definition, the lines of the source it stands for,
and the list of runs, theorems, hazards and findings that this text explains.

## 1. The system

| Part | State | Operations | Hard because |
|---|---|---|---|
| Connection pool (`zuh_pool.c`, `zuh_fork.c`) | an idle list with its counter, the process that owns it | acquire, release, clear, free | a probe of an HTTP/2 connection waits, the wait ticks into R, R collects garbage, and a finalizer releases into the list being walked; a fork copies the list |
| HTTP/2 driver (`zuh_h2.c`) | one `h2_impl` per connection: stream, buffered DATA, GOAWAY, PING | begin, body step, cancel, reusable, probe, ping | frames of an old stream arrive during the next; flow-control window must be returned once; the server may leave at any read |
| Body reader and pipe (`zuh_body.c`, `zuh_response.c`, `zuh_inflate.c`, `zuh_sink.c`) | seed, framing position, chunk decoder, surplus, cap, staged bytes | step, read, abort, free | the wire is cut anywhere; three counters for one cap; one connection to give up on every path |
| Engine: the hop loop (`zuh_engine.c`, `zuh_redirect.c`) | current URL, method, body, credentials flag, trail, connection | open, send, receive, decide, follow | some twenty early returns per hop, decisions that are made before the facts they depend on change |
| Callbacks into R (`init.c`, `R/perform.R`) | the stack of engine and user frames, `g_tick_current`, `in_callback`, continuation tokens | perform, pulled read, callback, body function, jump | re-entrance to any depth, jumps across C frames |
| Retry loop (`R/perform.R`, `R/retry.R`) | attempt, time spent, streamed responses | attempt, judge, hooks, sleep | one budget over attempts, hooks and waits; what was already delivered or opened |
| Sockets, deadlines (`zuh_net.c`, `zuh_time.c`, `zuh_stream.c`) | one descriptor | connect (one address after another), read, write, readable, close | one deadline over many waits, any of which may be the last; what a failed address leaves open |
| TLS over a socket (`zuh_tls_openssl.c`, `zuh_tls_schannel.c`, `zuh_tls.c`), the CONNECT tunnel (`zuh_proxy.c`, `zuh_engine.c`) | ciphertext read, plaintext decrypted, whether the peer has closed | connect, handshake, read, write, readable, destroy | a layer owns the one below only once it succeeds; bytes of the next phase arrive with the last of this one |
| TLS of macOS (`zuh_tls_nw.c`) | a counted structure shared with a dispatch queue; a pipe | dial, read, write, readable, close, destroy; the blocks of the queue | a second thread; who frees; a sleep that must be ended by a byte in a pipe; a fork leaves the queue behind |
| File sink (`zuh_sink.c`, the end of a request in `init.c`) | a temporary file and its name | create, write, finish (flush, rename), abort, free | a crash or a failure between its steps; other downloads to the same path |
| Parsing, formatting, redaction, URLs, proxy rules, objects and accessors in R, mock and record | none, or values that do not change | pure functions | string rules |

How the parts meet: the retry loop calls the engine once per attempt and judges
what comes back; the engine takes a connection from the pool for each hop or opens one (socket,
tunnel, TLS; on macOS the framework does all three), sends
over HTTP/1.1 or the HTTP/2 driver, reads the body through the pipe into a sink
(a download's is a file), and gives the connection back, closes it, or hands it with the body to the
caller (`zu_resp_read()`); every wait of every part ticks into R, where an
interrupt is noted and garbage may be collected; callbacks and request-body
functions run R code from inside the engine, which may start at the top again.

What makes each part correct: a connection has one owner and is reused only in
step with its server (pool, engine, body); a child process leaves its parent's
connections alone (pool); a response consists of its own bytes, all of them or
an error (driver, body); credentials and bodies go only where the first request
meant them to (engine); no callback disturbs the request it interrupts
(callbacks); the caller's timeout bounds the whole call (retry) and each opening
(sockets); an opening that fails leaves nothing behind, one that succeeds is
verified as asked and in step (TLS, tunnel); two threads share a stream without
losing a byte, a wake-up or the last reference (macOS TLS); a destination file
is the old one or a whole new one (file sink).

## 2. Modules

One module per component, an `MC...` module that instantiates it for TLC, and a
proof module that extends it. What surrounds one `zu_perform()` (Retry) and what
runs inside it (Reentry) share a proof module, PerformProofs.

### Pool

State: for each of two processes, parent and forked child, the idle list
`head` with `since` and the counter `idle`, the fork guard's owner, the
connections `open` there and `held` by requests and pulled bodies, and a stack
of pool calls in progress. The stack is the point of the model: each process has
one R thread, so a call that begins during another's probe runs to its end
before the outer one goes on. Actions: `AcquireBegin`, `AcquireUnlink`,
`AcquireAsk`, `AcquireDiscard`, `AcquireHit`, `AcquireMiss` are the loop of
`zuh_pool_acquire_by()` cut where other code can run; `ReleaseBegin`,
`ReleaseClose`, `ReleaseHostRoom`, `ReleaseEvict`, `ReleaseLink` are
`zuh_pool_release()`; `Clear`, `FreeAndRenew`, `Fork`, `Dial`; and the world:
`PeerLeaves`, `Tick`. Statistics are left out, save the counter the eviction loop
reads.

An entry is looked at once and handed out later. `AcquireAsk` is its age and the readability
probe (which says -1, "cannot tell", of a connection in `Blind`, and passes it);
then, over HTTP/2, a PING may wait, in the phase `asked`, with releases nested in
it; `AcquireHit` hands out what came through and asks nothing again. So a
connection may be handed out whose peer left after its probe: `zuh_h2_ping()` returns 1
also when the read that brought the ACK ended the session. What the loop
guarantees is about the moment it began, and `HitsAreSound` says that; a reused
connection that turns out dead is the business of Hops and Retry.

`Ownership` is what the pool promises, without lists, counters, stacks or a
guard: in each process a connection is nowhere, in use, being probed or idle, and
moves from one to the next one at a time. `PoolOwners` maps Pool's variables to
its four places; `KeepsThePromise` says that Pool implements it.

### H2

State: the driver's record `h`, what the code above it is doing (`caller`), the
frames on the wire, where the server is with each request, and how much of the
connection window it is owed. nghttp2 is external and modelled by what the
driver relies on (stated at the head of the module). `RecvFrame` takes one frame
inside one read, `ReadDone` ends the read, so several frames can be handled
between two looks at the deadline. DATA is counted in units; each buffered unit
remembers its stream.

### Body

State: the message on its way, how much was received, the reader and pipe
(`rd`), the staged bytes and those given to the caller. A byte is what it stands
for (byte i of the body is the number i, framing is below 1), so a property can
say "these bytes, in this order". A chunked body is whatever wire `Encodes` it:
each byte is the number of bytes so far (`Carried`), each chunk has its size line
and is not empty, the last chunk and the end of the trailers close it. The
chunked decoder works on one read at a time as `zuh_chunked_decode()` does: the
bytes of a run are moved to its front (`Bytes`), and what lies in the buffer behind
them is there when it fails. `StepNothing`, `StepSeed`, `StepRead`, `StepEof` and `StepFails` are
one `zuh_body_reader_step()` each, with all that its caller does about the
outcome; `ReadBegin`, `ReadReturns`, `Aborts` and `Free` are the pulled body's
caller. A chunk-size line and a trailer section arrive whole (picohttpparser
keeps its own state across reads), and a compressed body decodes byte for byte.
A cap of 0, none, is a `MaxBody` above `MaxLength`. A body that ends with its
connection (`until_close`, identity coding) is never cut short in `Messages`: the
reader, which has no length to compare it with, takes the peer's end for the body's.

### Hops

State: the variables of `perform_hops()` under their own names, and as history
the requests sent, the hops whose bytes the caller's sink was given, and the
connections disposed of. `Receive` is the whole of a hop from its headers to the
disposal of its connection: the read, what the loop forgives, the verdict of
`zuh_reuse_decide()`, the surplus. The some twenty early returns before and after it are one
action, `ExchangeFails`, with one `Drop`: a return that forgot its
`drop_stream()` would not show. `DecideRefuses` and `Follow` are
`zuh_redirect_decide()` and the bookkeeping after it.

### Reentry

State: the call stack of the one R thread, with the flag, the tick and the
continuation token beside it. A frame is `C_zu_perform()`, `C_zu_stream_read()`,
a callback or a request-body function; `Return` and `Throw` leave one.

### Retry

State: the request, the place in `attempt_with_retries()`, the clock, the
outcome of each attempt and the streamed body it came with. One action per step
of the loop; time advances in attempts, hooks and slices of the sleep. The
transport is external: it answers anything within the time it is given.

### Net, Tls and Conn

One component in three layers, each of which EXTENDS the one below. `pc` is where
the R thread is; a layer calls a read or a write of the one below with `Reads(k)`
or `Writes(k)` and goes on at `k` with the result in `in`. **Net** is
`zuh_net_connect()`, the waits of `wait_ready()` and `zuh_deadline_poll_ms()`,
`net_read()` and `net_write()`: each slice of a wait is a step, and what a failure
closes is the set `fds` of open descriptors. **Tls** is `zuh_tls_connect()` with
the rounds of its handshake, the verdict on the certificate, and the record layer
of OpenSSL (`SslRead`) and of Schannel (`SchRead`). The peer's bytes are units:
handshake messages, halves of records, a close_notify, halves of the proxy's
answer, so that any read may end inside of one. `Count` says how many of each kind
a buffer has. **Conn** is `open_stream()`:
address, tunnel, TLS; `DropStream` is what each failure undoes; `PeerSends` and
`PeerEnds` the world. A peer sends a script, of which `Scripted` says what it may
be: the proxy's answer, what the proxy may add, the server's handshake, records,
an end; any of them may be missing, and the peer may stop or end anywhere.

### Nw

The Network.framework stream, with two threads. `pc`, `goal`, `then` are the R
thread, which waits only in `wait_for()`, cut into `WaitCheck` (the predicate
under the mutex), `WaitTick` and `WaitPoll`; `q` is the block the connection's
serial queue runs. What a thread does under the mutex is one step, what it does after
it (`wake()`, `shared_release()`) a step each. `sh` is `nw_shared` with its count
and `live` until `shared_free()`; `fw` is the framework, external: a state, the
receives, sends and report it owes, and whether it has been cancelled. `Fork`
leaves queue and framework behind: their actions need `Mine`. The behaviour then
goes on as one of the two processes. As the child: only `nw_stream_close()` and
`nw_impl_free()` ask whose process it is, so it may read, write and probe what it
inherited, until it calls the framework, which kills it (`FrameworkKills`, F-19). As the parent
of a child that does the same: the two share the pipe, and the child's
`drain()` may take the byte that was to wake the parent (`TwinPolls`), which
then sleeps until its slice of the poll is over; `NoLostWakeUp` is of a process
without such a child. The child's copy of the mutex, which the queue may
have held at the fork, is not modelled: the child would wait for it for ever.
`CheckTrust` and `FailureError` are there for the dial's outcomes, and no
property is about which one it is.

### Download

The directory as a function from names to files, the downloads that run in each
process (a callback of one may start another) and the sinks. `Create`, `Write`,
`Flush`, `Rename`, `Abort` and `Free` are the file sink's operations as `init.c`
calls them after the engine (`Performed`); `Crash` ends a process at any step and
leaves its files.

### How they compose

Tls EXTENDS Net, Conn EXTENDS Tls, and the run is of the three together;
PoolOwners relates Pool and Ownership. The other
modules share no state, and each is explicit about what it takes from its
neighbour: Hops' verdict on a connection (`Reusable`) is Pool's `reuse`
argument; Hops' `read` outcomes are the ways Body can end; Body's `conn =
"held"` is a member of Pool's `held`; Retry's outcomes are what Hops returns or
raises; Pool's nested calls are the finalizers of bodies that Body's `Free`
releases; Conn's and Nw's `readable` is the answer Pool's probe acts on (`QuietIsQuiet`
and `CloseNoticed` are what the pool relies on), and their failed openings are
the dials that Pool's `Dial` leaves out; Download's `Performed` is the end of Hops.

## 3. Runs

Each run's bounds are its constants; TLC explores all of the state space they
leave. `CHECK_DEADLOCK FALSE` everywhere: calls return and the model stops there,
or at a bound.

| Run | Bounds | States | Shows |
|---|---|---|---|
| PoolNested | 3 connections (2 HTTP/2), 4 keys on 3 hosts, room for 2, one per host, 2 nested calls, idle timeout 1, 1 connection whose probe cannot tell | 830,950 | one owner each; the limit per host; a hit is of its key, and was young enough and not known to be gone when the acquisition began |
| PoolFork | 2 connections (1 HTTP/2), 2 keys on 2 hosts, room for 1, one per host, one fork, 2 nested calls, 1 connection whose probe cannot tell | 224,969 | the pool implements Ownership, across the fork; every call of either process returns |
| H2Reuse | 2 streams, window of 2, 1 frame on the wire, keepalive 1, every frame kind | 692,362 | nothing of a stream leaks into the next; the window is returned once; no read waits for a closed stream; no request after GOAWAY |
| BodyReads | bodies up to 3 bytes, cap 2, reads up to 3, asked for 1 or 2 at a time | 118,282 | complete means whole; handed out in order; reused in step |
| HopsChain | 5 URLs (3 hosts, 2 schemes, 2 paths, one host too long), 3 redirects | 296,250 | credentials, bodies, reuse and connections over every chain |
| ReentrySafe | 2 clients, 6 frames | 37,720 | the tick is the innermost request's; nghttp2 is not re-entered |
| RetrySafe | budget 4, 3 attempts of at most 3, delays up to 2, Retry-After 3 clamped to 2, hooks up to 2 | 426,826 | the budget, one body, no stream left open, and that the call ends |
| NwStream | every trust configuration over one CA of each kind, 3 bytes, 2 sends at once, one fork, then either process | 1,731,579 | nothing touched after it is freed; no wake-up lost; bytes in order; a close is noticed; a child that only closes, frees or probes an idle stream lives; freed in the end |
| ConnOpen | 2 addresses, deadline 3 and ticks of 2, an answer of at most 3 units, 8 requests, 12 peers | 781,589 | nothing leaks; one deadline; the tunnel in step; plaintext in order; a quiet stream is quiet; verified as asked; every opening ends |
| Downloads | 2 processes, 3 downloads, 2 at once in a process, 1 piece, 2 names each, any names taken before | 429,406 | the destination is old or whole; only a success replaces it; no litter; others' files untouched |

Why these bounds are enough to be interesting. Pool: three connections are one
idle, one being probed and one released by a nested call, and a capacity below
that number makes the room loop run. Two keys share a host, so the limit per
host and the key differ. H2: two streams are an old and a new one; a window of two
units can be half returned; one frame in flight suffices because what matters
is between which two driver steps a frame is read, and a read may go on with
the next. Body: a cap of two with bodies up to three has bodies below, at and
over the cap, two chunk boundaries, and reads that end before, at and behind
either. Hops: three redirects leave an origin, come back to it, and reach the
limit. Reentry: six frames are three user functions in one another. Retry:
three attempts make two waits, and a share of three in a budget of four does
not fit twice. PoolFork: two connections to two hosts with room for one make the child
evict, forget and reuse. Nw: three bytes can be in the buffer read to its end, in
the buffer partly read, and on the way; two sends outlive the write that started them; the fork
comes at each place the caller can be outside the backend. Conn: the deadline is a
slice and a half, so that the last slice is cut; two addresses are one that fails and one that does
not; four halves of records come in every cut, before and behind the last message
of the handshake. Downloads: three downloads are two in different processes and one
inside one of them; two names are a taken one and a free one.

Symmetry is used over connections that differ in nothing but their name
(PoolNested; no liveness there) and over clients.

### Fairness

`CallsReturn` assumes weak fairness of the running pool call, in each process
(`WF_vars(CallStep(p))`): nothing in `zuh_pool.c` waits without a bound, a PING
has its own timeout, and the calls it nests are pool calls too. Nothing else is
assumed fair: peers, the clock and the callers need not move. `Terminates`
assumes weak fairness of the retry loop: the transport keeps to the time it is
given (its own deadline) and the caller's hooks return. `OpeningEnds` assumes weak
fairness of `Step`, the library's own thread, in which time passes by the slices
of its waits; the peer may be silent from any point on, and interrupts and
failures of `poll()` are not assumed. The resolver returns (the code cannot stop
it either). `FreedAtLast` assumes that both threads are scheduled (`Wait` and
`Continue`; `BlockEnd` and `Verdict`), and of the framework what the
code relies on: once a connection is cancelled, what is outstanding ends with an error
(`Aborted`) and the cancelled event is delivered. That the caller's
waits end needs nothing of the peer: each slice is a tick and a deadline, which
may end the wait at any of them.

### Mutants

Every property of a passing run has a faulty version of one definition, kept
beside it in the module and marked `Faulty`, under which TLC finds the
property violated: an entry left on the list during its probe, an early exit
that forgets the connection, a `finish` that does not ask the decoder, a tick
that a jump leaves in place, a reference the connection does not count, a pipe
drained before the poll, a file renamed with its tail in the buffer.

## 4. Disagreements with the documentation, shown by a run

Two runs are expected to fail; each states what the repository says and TLC
shows a behaviour of the code against it.

- **H2Reset** (`EndedByEndStream`): RST_STREAM with NO_ERROR in the middle of a
  body ends it as complete (`zuh_h2.c:362`). `.agents/zuhttp-design.md:2248,2254`.
- **RetryBudget** (`ReturnedIsReadable`): a streamed 503 is aborted for a retry
  that the budget then refuses, and is returned (`R/perform.R:533`).
  `R/perform.R:364`.

Six more are stated in the modules, with no run of their own; each is violated
by the instance given here, as the INVARIANT of a configuration with `SPECIFICATION
Spec` and `CHECK_DEADLOCK FALSE`.

- `ClosedByMaker` of Pool (MCPool with `Conns = {c1, c2}`, `H2 = {c1}`, `Keys =
  {k1}`, `HostOf <- OneKey`, `MaxIdle = 2`, `MaxPerHost = 0`, `MaxForks = 1`, `MaxDepth
  = 1`, `IdleTimeout = 0`, `MaxClock = 0`, `Blind = {}`): garbage collection in a forked child
  finalizes a streamed body opened before the fork and closes the parent's
  connection (`zuh_engine.c:757`). `.agents/zuhttp-design.md:1277`: "finalizers
  check the PID before closing a descriptor". `zuh_pool_clear()`
  (`zuh_pool.c:179`) breaks the same property, against the comment at
  `zuh_pool.c:166-168`.
- `ReentryRefused` of Reentry (ReentrySafe's constants): a body
  function that returns lowers `in_callback` under a callback that is still
  running (`R/perform.R:642`), so that a request on the callback's own client,
  which `.agents/zuhttp-design.md:1227-1228` says raises, starts.
- `SinkGetsBody` of Body (MCBody with `MaxBody = 3`, `ReadChunk = 3`, `Wants =
  {1}`, `MaxLength = 2`): on malformed chunk framing the sink is given the undecoded
  bytes of the read before the error (`zuh_response.c:201`, `zuh_body.c:209-214`).
  `zuh_response.h:78-79`. A pulled body does not show them: `HandedInOrder` holds.
- `EndAfterAll` of Conn (MCConn with `Addresses`, `Deadline`, `TickMs` = 1,
  `MaxHeadUnits = 3`, `Configs <- Schannel`, `Peers <- MCPeers`): when TCP ends inside a record behind
  a complete one, `sch_read()` returns the end with the complete one's plaintext
  in `dec` (`zuh_tls_schannel.c:440`); the comment in the same function (#123) says of
  what a pass has decrypted "The loop hands it over first".
- `ChildNeverCalls` of Nw (NwStream's constants): a forked child that writes to a
  stream it inherited, or reads on top of bytes its parent had received, calls
  Network.framework and dies: `nw_stream_read()`, `nw_stream_write()` and
  `nw_stream_readable()` do not ask whose process it is (`zuh_tls_nw.c:451`, `:486`,
  `:542`). The collection of a streamed HTTP/2 body is enough, whose
  abort sends RST_STREAM (`zuh_engine.c:862-866`, `zuh_h2.c:619-636`).
  `.agents/zuhttp-design.md:551-553`: the guard "must fire before *any*
  Network.framework call"; `zuh_tls_nw.c:30-32` has it checked in `zuh_tls_dial()` and says that an
  inherited stream "is freed without one". `KilledByUse` is what holds.
- `PinHeld` of Conn (the same with `Configs <- Unverified`): with verification off, OpenSSL
  compares no pin and the request succeeds. `R/topics.R:123-124`: "A pinned request
  either enforces the pin or raises; it never quietly succeeds unpinned."

Met while modelling, with no run of their own, because what they concern is
left out of the models or is a matter of one line:

- `zuh_h2.c:624`: cancelling a stream that has closed keeps its unread bytes'
  window; the comment at :616-618 says it is given back.
- `zuh_h2.c:320` with `zuh_pool.c:237,247`: a frame is stamped when it is read,
  and the probe reads just before the idle time is compared;
  `.agents/zuhttp-design.md:2382-2383` counts from the frame's arrival.
- `zuh_h2.c:641-654`: an acknowledged PING makes a connection usable also when
  the same read ended the session; the comment at :692-696 says otherwise.
- `zuh_error.c:131`: a reset after part of a response is retried;
  `.agents/zuhttp-design.md:1473` says it is not.
- `R/perform.R:517`: a stale pooled connection uses up an attempt;
  `.agents/zuhttp-design.md:1468` says it does not count.
- `zuh_engine.c:1500`: a redirect to a host name that is too long is reported
  as "out of memory" (comment at :577-581).
- `zuh_engine.c:862`: aborting a body whose last bytes are staged does nothing
  and later reads go on; the documentation in `R/response.R` says a later read
  raises `zu_cancelled_error`, as the mock transport's does.
- `zuh_tls_nw.c`, `nw_write()`: the message of a failed write is made from the
  error's domain and code outside the mutex, while the queue may write them; the
  comment at :476 says they are read under it "as every other field of `sh` is".
- `zuh_tls_schannel.c`, `do_handshake()`: after a token is sent, the next round reads from
  the network even when the last one left a whole message in the buffer; and
  `decrypt_available()` keeps what it decrypted from its caller while an
  incomplete record follows, until the next read (or end, see `EndAfterAll`).
- `zuh_tls_openssl.c`, `tls_close()`: the alert of `SSL_shutdown()` goes to a memory
  BIO that nothing flushes.
- `zuh_net.c:303,317`: a refused address leaves its code in the error also when the
  next one connects; a later failure that only returns a code (a lack of memory) then
  reaches R with the refused address's, although `init.c:1076` says "The return
  code is the authority".
- `zuh_sink.c`: a failed download removes its temporary name up to three times.
  `OthersAlone` shows this harmless as long as processes have different pids.

## 5. Theorems

Checked by TLAPS for every value of the constants that satisfies the named
assumptions (`ConnsAssumption`, `ProcAssumption`, `LimitAssumption`; `H2Assumption`;
`BodyAssumption`; `HopsAssumption`; `ReentryAssumption`; `RetryAssumption`; `NetAssumption` and
`ConnAssumption`; `NwAssumption`; `DownloadAssumption`). Most say that a bound is a
number; `ConnAssumption` also says that every peer keeps to a script (section 2),
which is what the units of the model mean.

**PoolProofs** (which begins with what removing, prepending and dropping the
last do to a list without repetitions). `TypeCorrect`, `SingleOwnership`,
`IdleBounded`: `Spec => []TypeOK`, `[]OwnedOnce`, `[]WithinMaxIdle`, for any
number of connections and keys and any depth of nesting, with a fork or without.
`OwnedOnce` is not inductive alone: an unlinked entry is owned by the call that
probes it, so one has to know that a call has a connection exactly when it is
past its scan (`CallShape`), that calls do not share one (part of
`OwnedOnce`), that a connection that is opened was not open before
(`OpenIsDialled`), and that the child has no calls before it exists
(`ChildNotYet`). `IInv` is their conjunction. The argument is in three layers:
lemmas about one process's list, stack and sets (`UnlinkOK`, `DiscardOK`, `HitOK`,
`EvictOK`, `LinkOK`, ...), one lemma that a step of one process leaves the
other's part alone (`StepOfOne`), and one lemma per action (`...Inv`), which
`NextInv` collects. That the counter equals the length of the list is what
makes the eviction loop stop below `MaxIdle`.

Its second invariant, `HInv` (`HostInductive`), is what `HostBounded` needs, that is
`WithinMaxPerHost`, for any limits, and half of what `HitsSound` does. A
release makes room for its host, then for the pool, then links its entry. That the
room is still there when it links (`RoomMade`) holds because a call nests in
another's probe only (`NestedInProbe`), and a release has probed the connection it
gives back before it makes room. A hit has the key asked for
because a connection in hand keeps its key while calls nest in its probe
(`KeysInHand`). The rest of `HitsAreSound` is a third invariant, `SInv`
(`SoundInductive`): an entry that was asked was then not one of those whose peers
had gone when its call began, nor too old, and this stays so while it waits
for its PING, because no peer comes back and a nested release stamps an entry
that is not this one (which needs `OwnedOnce`).

Its last part relates Pool and Ownership. `Implements`: `Spec => KeepsThePromise`, that the pool
implements Ownership. Each action of Pool is shown to be a step of
Ownership or a stutter under the mapping of `PoolOwners` (`NextMaps`). For the calls'
steps one has to know that the guard is not tripped inside a call
(`GuardRight`, proved as `GuardHolds`): a call ends what it began in
the process that began it, and the first thing a call of the child does is to
take the pool over. `ChildForgets` proves `InheritedIdleDropped`, and is
proved of Ownership's steps, not Pool's: that is what the abstraction is for
(`AbstractForgets`; `Fork` is the only step that needs Pool's invariant).

**H2Proofs**. `WindowHeld`, `OwnDataOnly`, `NoStreamBetween`, `GoawayRespected`:
the four properties of H2Reuse, for any windows, any number of streams and any
frames on the wire. They are proved together: that DATA is credited once needs that
the buffer has only the open stream's, and that what is buffered for a stream has
left it when the stream ends; `CallerRight` adds that a read is under way only
where the caller waits or probes, and that a cancelled stream is closed. What goes
on in the server changes the wire only, so its steps need the count of the DATA
frames there and nothing else (the lemmas `DataFrames...`).

**HopsProofs**. `CredentialsSafe`, `FinalBody`, `Bounded`, `BodiesSafe`,
`PoolFedInStep`, `NoConnectionLost`, for any set of URLs and any limit. `IInv` adds
to the properties: requests and connections are counted by the hops
(`HopsCounted`); every request sent is on the trail, and the next one is not
among them (`OnTrail`); as long as the flag is down the chain has not left its
first origin (`HomeUnlessStripped`, which needs that the origin relation is
transitive); a body at hand has gone with every request before, and a source is
live on the first hop only (`BodyAtHand`); nothing is held between hops
(`NothingHeld`).

**ConnProofs**. `NothingLeft`, `OneDeadline`, `Verified`, `TunnelInStep`,
`RecordsInOrder`, `QuietWhenReused`: the safety properties of ConnOpen, for any
number of addresses, any deadline and tick, any requests and any peers that
keep to a script, with records without number. The place, `At`, is where the
opening is, or where it goes on after the read or write it is in; the parts of `IInv` are
stated by place. `Holding`: what is open and allocated there, which is
`NothingLeaks` in the middle. `Checked`: what has been compared with the
certificate by then, earlier in OpenSSL than in Schannel. `InOrder`: the tunnel's
buffer, what the TLS engine was given, what recv() has just returned and what is in the
socket are the script's units up to `sent`, one behind the other; and the tunnel's
buffer ends where the proxy's answer does from the moment TLS begins, which is
`TunnelClean`. `Accounted`: what the engine was given is the handshake's messages, the
plaintext handed over or decrypted, Schannel's close_notify, and the buffer, in that order, so
the buffer's place in the script is known by counting. `Handshaken` and `Records` draw
from it and the script that the messages taken are all there are and that the
buffer's records have the next numbers; then no record can be lost where
a round of the handshake, or `decrypt_available()`, leaves a rest in the buffer. One lemma per action
says that it keeps `IInv`; all the failures are one lemma (`Drops`), because once
an opening has failed only what it holds is left to say.

**NwProofs**. `NothingTouchedAfterFree`, `NoChangeSleptThrough`, `BytesInOrder`,
`CloseIsNoticed`, `ChildDiesOfUseOnly`: the safety properties of NwStream, for any
number of bytes and sends. `IInv` has eight parts, and each is there for a reason:
`Counted` says that the count is the number of those who may still touch the
structure (stream, connection, each outstanding completion, the block about to
release), from which `NoUseAfterFree` follows; it needs `Shape` (who can be where:
a forked child waits for bytes only, with nothing to ask the framework for, and never
releases) and `Pending` (what `sh` says is pending is
what the framework was asked for). `Awake` is `NoLostWakeUp` from one step
earlier, between the check and the poll. `Armed` says a receive is outstanding or
the predicate holds whenever the stream is in use, which `CloseNoticed` needs of
the idle one, and `KilledByUse` of the one a child inherits. `Ordered` relates the bytes handed out, the buffer with its offset
and the peer's count. One lemma per part (`...Step`), one step per action in each.

**BodyProofs**. `CompleteBody`, `PulledInOrder`, `ReuseInStep`: for a body of
any length in any framing, any cut into a seed and reads, any cap, any sizes
the caller asks for. The state is related to the wire by counting: a byte is
its own number, so `WireSound` says, of every wire that may come, spoiled ones
included, that a byte is the count up to it, that none is missing at the last
chunk, and that what runs to the end of the trailers unharmed is an encoding.
`Consumed` says how far the reader has been (through which units, with which
flags and counts) and `InStep` that this is what was received without what is
still in the seed; `Delivered`, that what is handed out and staged is the body
so far, and `Awaited`, that a read in progress is of a body that can answer it.
The lemma in the middle (`DecodedFacts`) is about `zuh_chunked_decode()` of one
run of the wire: unless it fails, its output is the next bytes, because the
`i`-th byte of the run is where the run's count comes to `i` (`CarriedReaches`,
`BytesAre`); when it fails nothing is claimed of its output (see
`SinkGetsBody`), and the body is not called complete. `SteppedFacts` and
`ChunkedStep` take it through `step_framed()`, and one lemma per action does
the rest. The end of a body is known to nobody but the framing, so
`ReusedInStep` needs all of this and the surplus from its three places
(`EndFacts`). Nothing here is induction over the wire: where one would be used,
the least place at which a claim fails is taken instead (`Least`, from the
library's theorem that the order of the naturals is well-founded).

**PerformProofs, on Reentry**. `TickFollows`, `NotReentered`: for any set of clients and any depth
of callbacks. The tick alone is not inductive: a frame restores the pointer it
saved, so one has to know what each saved (`WellNested`: engine and user frames
alternate, an engine frame in place `i` saved `i - 2`, and only a body function of the
same client runs on top of a pulled read). `EnginePushed`, `UserPushed` and `FramesLeft` are
about the stack alone; each action is one of them, and a jump leaves two frames at once.

**PerformProofs, on Retry**. `BudgetHeld`, `OneBodyDelivered`, `NoneLeftOpen`: for any policy, any
answers of the transport and any times of the hooks. `BudgetKept` allows the floor
under one attempt's share once, not once for each attempt: `RetryIInv` says it has been
used only where no further attempt follows (`Afterwards`), because an attempt that
used it leaves nothing of the budget. `OneBody` likewise: bytes have been delivered
only by the last attempt, after which the loop stops.

**DownloadProofs**. `WholeAlways`, `NothingLeft`, `SuccessReplaces`, `OthersLeftAlone`:
for any number of processes, downloads, nested downloads, pieces and names tried,
whatever lies in the directory before. Cleaning up goes by name, so the question is whether the
name can have become somebody else's. `Nested` (with processes' pids different) leaves only
a download further down the same process's stack, which is open and thus has its
file (`Holding`): the name would not have been free (`NameIsMine`). From there every
step of a download has one shape (`Shape`): it touches a name that is its own or is
free, and the destination only with a body on the disk. One lemma per part of `IInv`
is proved from the shape, and one per action proves the shape.

One thing the proofs found in the modules, and TLC could not: where the code
asks one condition after another, a CASE whose arms overlap is right for TLC, which
takes the first, and says too little, since TLA+ lets it be any of them. In `Fed` (H2),
`DecideRefuses` (Hops) and `Decoded` (Body) the order is now part of the guards.

## 6. Only model-checked

- Liveness (`CallsReturn`, `Terminates`, `OpeningEnds`, `FreedAtLast`): fairness and
  ENABLED are beyond the prover.
- The runs' bounds on frames, forks, clocks and depth are constants of the
  specifications, so the theorems hold for each value of them.
- Induction over data is out of the prover's reach: the library's induction theorems
  take an operator as a parameter, which cannot be instantiated. So no module here
  is written with recursive definitions: counts are cardinalities, what a decoder puts
  out is indexed by them, and a claim about every place of a sequence is proved
  at the least place where it would fail.

## 7. Not modelled

- Memory allocation failure, inside every operation.
- HTTP/2 header validation and content; trailers' fields; statistics; timings;
  the trace.
- Which framing the headers ask for (`zuh_framing.c`): Body starts from the
  decision. Header parsing and storage, request formatting, redaction, URL and
  proxy rules: pure string functions.
- In Body: the decompression ratio, the members of a gzip body, the deflate
  wrapping; a compressed stream followed by bytes inside its framing.
- OpenSSL, Schannel, nghttp2, Network.framework and the file system are external: the
  models have what the code relies on. Of the TLS backends the loading of CA files,
  keys and pins, ALPN and what the stream says of itself (protocol, cipher) are
  left out, and renegotiation in Schannel, which it reports as a failure to decrypt.
- In Net, the number of bytes a `send()` takes: a write is taken or waits. The
  resolver's own retries.
- The memory sink and the discarding sink keep nothing that could go wrong in the
  order of steps.
- The R objects (requests, clients, responses) and their accessors: values.
- Mock transport, recording and replay: for tests.

## 8. Plan

Done: Pool, H2, Hops, Reentry, Retry, Body; Ownership and the refinement; Net, Tls
and Conn; Nw; Download. Proved: every safety property that a passing run checks.

Next, in the order of importance:

1. Framing rules as operators over bounded header sets, checked against the
   order of the rules in section 18.1 (`zuh_framing.c`); the inflater's
   allowance and the members of a gzip body.
2. Proxy selection from options and environment.
3. A composition of Pool with pulled bodies, against Ownership.
