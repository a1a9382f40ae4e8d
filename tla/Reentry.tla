------------------------------ MODULE Reentry -------------------------------
(***************************************************************************)
(* The caller's R functions run from inside the engine: the body callback  *)
(* and the request body function, which may call the package again, and    *)
(* may leave by a jump.  The state is the call stack of the one R thread,  *)
(* with what init.c and R/perform.R keep beside it: the in_callback flag   *)
(* of each client, the tick of the running request, and the request body   *)
(* function a pulled response has taken over (full duplex, section 65.7).  *)
(***************************************************************************)
EXTENDS Integers, Sequences, SequencesExt, FiniteSetsExt

CONSTANTS
  Clients,
  FullDuplex,  \* a pulled response may take over a request body function
  MaxDepth     \* bound: frames on the stack

ASSUME ReentryAssumption == FullDuplex \in BOOLEAN /\ MaxDepth \in Nat

VARIABLES
  stack,        \* see Frames
  in_callback,  \* [Clients -> pool_state$in_callback]
  tick,         \* g_tick_current: which frame's tick_ctx, 0 for NULL
  src,          \* [Clients -> the source of a pulled response, "none" if there is none]
  jumped,       \* [Clients -> g.jumped of that source]
  resumes       \* [Clients -> how often its token was resumed]

vars == <<stack, in_callback, tick, src, jumped, resumes>>

\* An engine frame is C_zu_perform() or C_zu_stream_read(), a user frame the
\* callback or the body function.  `prev` is the tick an engine frame found.
Frames ==
  [kind : {"perform", "read", "callback", "body"}, client : Clients,
   callback : BOOLEAN, body_stream : BOOLEAN, stream : BOOLEAN, prev : 0..MaxDepth]

Engine == {"perform", "read"}
User   == {"callback", "body"}

Top == stack[Len(stack)]
Popped(n) == SubSeq(stack, 1, Len(stack) - n)

\* The caller's code is what runs.
UserRuns == stack # <<>> => Top.kind \in User

Frame(kind, c) ==
  [kind |-> kind, client |-> c, callback |-> FALSE, body_stream |-> FALSE,
   stream |-> FALSE, prev |-> tick]

\* The body function of c's pulled response is running: zuh_open_body_busy()
Busy(c) ==
  \E i \in 2..Len(stack) : /\ stack[i].kind = "body" /\ stack[i].client = c
                           /\ stack[i - 1].kind = "read"
-----------------------------------------------------------------------------
Init ==
  /\ stack = <<>>
  /\ in_callback = [c \in Clients |-> FALSE]
  /\ tick = 0
  /\ src = [c \in Clients |-> "none"]
  /\ jumped = [c \in Clients |-> FALSE]
  /\ resumes = [c \in Clients |-> 0]

\* zu_perform(), refused from a callback of the same client, down to the
\* engine in C_zu_perform().
Perform(c, cb, bf, st) ==
  /\ UserRuns /\ Len(stack) < MaxDepth
  /\ ~in_callback[c]
  /\ ~(st /\ cb)
  /\ stack' = Append(stack, [Frame("perform", c) EXCEPT !.callback = cb,
                               !.body_stream = bf, !.stream = st])
  /\ tick' = Len(stack) + 1
  /\ UNCHANGED <<in_callback, src, jumped, resumes>>

Enter(kind, c) ==
  /\ Len(stack) < MaxDepth
  /\ stack' = Append(stack, Frame(kind, c))
  /\ in_callback' = [in_callback EXCEPT ![c] = TRUE]
  /\ UNCHANGED <<tick, src, jumped, resumes>>

\* cb_write(), and guard_callback() above it
CallCallback ==
  /\ stack # <<>> /\ Top.kind = "perform" /\ Top.callback
  /\ Enter("callback", Top.client)

\* src_next(), and guard_body_stream(): while the request is sent, or as a
\* pulled response is read.
CallBody ==
  /\ stack # <<>>
  /\ \/ Top.kind = "perform" /\ Top.body_stream
     \/ Top.kind = "read" /\ src[Top.client] = "live"
  /\ Enter("body", Top.client)

\* on.exit()
Cleared == [in_callback EXCEPT ![Top.client] = FALSE]

Return ==
  /\ stack # <<>> /\ Top.kind \in User
  /\ stack' = Popped(1)
  /\ in_callback' = Cleared
  /\ UNCHANGED <<tick, src, jumped, resumes>>

ClearedOnThrow == Cleared

\* Faulty: the tick is restored on return only.
TickKept == tick
TickRestored == stack[Len(stack) - 1].prev

\* The function leaves by a jump: guard_eval() stops it, the engine unwinds,
\* guard_resume() lets it go on, past the engine frame.  A pulled body whose
\* source raised has failed.
Throw ==
  /\ stack # <<>> /\ Top.kind \in User
  /\ in_callback' = ClearedOnThrow
  /\ tick' = TickRestored
  /\ stack' = Popped(2)
  /\ LET c == Top.client IN
       IF stack[Len(stack) - 1].kind = "read"
       THEN /\ src' = [src EXCEPT ![c] = "over"]
            /\ jumped' = [jumped EXCEPT ![c] = TRUE]
            /\ resumes' = [resumes EXCEPT ![c] = @ + 1]
       ELSE UNCHANGED <<src, jumped, resumes>>

\* C_zu_perform() returns or raises a condition of its own.  A pulled
\* response may leave with the source: out->open->src = *src.
PerformDone(detached) ==
  /\ stack # <<>> /\ Top.kind = "perform"
  /\ detached => FullDuplex /\ Top.stream /\ Top.body_stream /\ src[Top.client] = "none"
  /\ stack' = Popped(1)
  /\ tick' = Top.prev
  /\ src' = IF detached THEN [src EXCEPT ![Top.client] = "live"] ELSE src
  /\ UNCHANGED <<in_callback, jumped, resumes>>

\* Faulty: the response can be read from inside its own body function.
ReadAnyway(c) ==
  /\ UserRuns /\ Len(stack) < MaxDepth /\ src[c] = "live"
  /\ stack' = Append(stack, Frame("read", c))
  /\ tick' = Len(stack) + 1
  /\ UNCHANGED <<in_callback, src, jumped, resumes>>

\* zu_resp_read() of a pulled response that has a source
Read(c) ==
  /\ UserRuns /\ Len(stack) < MaxDepth /\ src[c] = "live" /\ ~Busy(c)
  /\ stack' = Append(stack, Frame("read", c))
  /\ tick' = Len(stack) + 1
  /\ UNCHANGED <<in_callback, src, jumped, resumes>>

\* over: the body, or the connection, came to its end.
ReadDone(over) ==
  /\ stack # <<>> /\ Top.kind = "read"
  /\ stack' = Popped(1)
  /\ tick' = Top.prev
  /\ src' = IF over THEN [src EXCEPT ![Top.client] = "over"] ELSE src
  /\ UNCHANGED <<in_callback, jumped, resumes>>

Resumable(c) == jumped[c] /\ resumes[c] = 0

\* zu_resp_read() of a body that has ended or failed: a condition, since
\* g.resumed says that its jump has gone on (review #175).
ReadAgain(c) ==
  /\ UserRuns /\ src[c] = "over"
  /\ resumes' = [resumes EXCEPT ![c] = IF Resumable(c) THEN @ + 1 ELSE @]
  /\ UNCHANGED <<stack, in_callback, tick, src, jumped>>

\* zu_resp_abort(), or the finalizer: the source is released.
Drop(c) ==
  /\ UserRuns /\ src[c] # "none" /\ ~Busy(c)
  /\ src' = [src EXCEPT ![c] = "none"]
  /\ jumped' = [jumped EXCEPT ![c] = FALSE]
  /\ resumes' = [resumes EXCEPT ![c] = 0]
  /\ UNCHANGED <<stack, in_callback, tick>>

Next ==
  \/ \E c \in Clients :
       \/ \E cb, bf, st \in BOOLEAN : Perform(c, cb, bf, st)
       \/ Read(c) \/ ReadAgain(c) \/ Drop(c)
  \/ CallCallback \/ CallBody \/ Return \/ Throw
  \/ \E b \in BOOLEAN : PerformDone(b) \/ ReadDone(b)

Spec == Init /\ [][Next]_vars
-----------------------------------------------------------------------------
TypeOK ==
  /\ stack \in Seq(Frames) /\ Len(stack) <= MaxDepth
  /\ tick \in 0..MaxDepth
  /\ in_callback \in [Clients -> BOOLEAN] /\ jumped \in [Clients -> BOOLEAN]
  /\ src \in [Clients -> {"none", "live", "over"}] /\ resumes \in [Clients -> Nat]

\* Engine and user frames take turns, from an engine frame on; each engine
\* frame has kept the tick of the one below it; on a read there is only its
\* own response's body function.
WellNested(s, t) ==
  /\ \A i \in DOMAIN s :
       /\ IF i = 1 THEN s[i].kind \in Engine ELSE s[i].kind \in Engine <=> s[i - 1].kind \in User
       /\ s[i].kind \in Engine => s[i].prev = IF i = 1 THEN 0 ELSE i - 2
       /\ i > 1 /\ s[i - 1].kind = "read" => s[i].kind = "body" /\ s[i].client = s[i - 1].client
  /\ s = <<>> => t = 0
  /\ s # <<>> => t = IF s[Len(s)].kind \in Engine THEN Len(s) ELSE Len(s) - 1

\* The comment on g_tick_current: an interrupt is noted in the innermost
\* request, and never in a frame that has returned.
TickIsInnermost ==
  LET engine == {i \in DOMAIN stack : stack[i].kind \in Engine} IN
  tick = IF engine = {} THEN 0 ELSE Max(engine)

\* Review #155: nghttp2 is not entered again for a response whose body
\* function it is calling.
SourceNotReentered ==
  \A i, j \in DOMAIN stack : i < j /\ stack[i].kind = "read" /\ stack[j].kind = "read" =>
    stack[i].client # stack[j].client

IInv == TypeOK /\ WellNested(stack, tick) /\ SourceNotReentered

\* Section 27.4: a callback makes no request on the client whose connection
\* is being read.
ReentryRefused ==
  \A i, j \in DOMAIN stack :
    i < j /\ stack[i].kind \in User /\ stack[j].kind = "perform" =>
      stack[i].client # stack[j].client
=============================================================================
