-------------------------------- MODULE Body --------------------------------
(***************************************************************************)
(* The body of one HTTP/1.1 response, from the bytes that arrived with its *)
(* headers to the return of its connection: the reader and the pipe of     *)
(* zuh_body.c, the chunked decoder of zuh_response.c, and what drives      *)
(* them, zuh_body_read() into a caller's sink or a pulled body             *)
(* (zuh_open_body_*, section 65.4).                                        *)
(*                                                                         *)
(* A byte of the wire is what it stands for: byte i of the body is the     *)
(* number i; chunk framing, or bytes of no response, are numbers below 1.  *)
(* picohttpparser and zlib are external: a chunk-size line and a trailer   *)
(* section arrive whole, and a compressed body decodes byte for byte.      *)
(***************************************************************************)
EXTENDS Integers, Sequences, FiniteSets, SequencesExt, FiniteSetsExt

CONSTANTS
  MaxBody,   \* cap: max_body, counted on what the sink is given
  ReadChunk, \* ZUH_READ_CHUNK
  Wants,     \* the sizes zu_resp_read() is asked for
  MaxLength  \* bound: the longest body

ASSUME BodyAssumption ==
  MaxBody \in Nat \ {0} /\ ReadChunk \in Nat \ {0} /\ MaxLength \in Nat
  /\ Wants \subseteq Nat \ {0}

VARIABLES
  msg,    \* what the server sends, see Messages
  pos,    \* how much of msg.wire has been received
  dest,   \* "sink": zuh_body_read(); "pull": an open body
  rd,     \* zuh_body_reader and zuh_body_pipe, see Readers
  staged, \* b->staged from staged_off on
  given,  \* what the caller has: their sink's bytes, or those handed out
  want,   \* the size of the zu_resp_read() in progress, 0 if there is none
  b,      \* "open", "ended", "failed", "aborted"; "stopped" by the sink
  freed,  \* the pulled body has been collected
  err,    \* the code of the failure
  conn    \* "held", "reused" or "closed"

vars == <<msg, pos, dest, rd, staged, given, want, b, freed, err, conn>>

\* A chunk-size line with the CRLF before it, the last one, the blank line that
\* ends the trailers, and bytes that are none of these.
Chunk == 0
LastChunk == -1
EndTrailers == -2
Bad == -3
Surplus == -4

Whole(n) == [i \in 1..n |-> i]

\* How many of the first p units of w are bytes of the body.
Carried(w, p) == Cardinality({q \in 1..p : w[q] > 0})

\* w is a body of n bytes in its framing.  Of a chunked one that is: the bytes,
\* all and in order, each chunk with a size line and at least one of them, the
\* last chunk and the end of the trailers.
Encodes(w, kind, n) ==
  \/ kind = "none" /\ w = <<>>
  \/ kind \in {"length", "until_close"} /\ w = Whole(n)
  \/ /\ kind = "chunked"
     /\ Len(w) > 1 /\ w[Len(w) - 1] = LastChunk /\ w[Len(w)] = EndTrailers
     /\ \A p \in 1..Len(w) - 2 : \/ w[p] > 0 /\ w[p] = Carried(w, p)
                                 \/ w[p] = Chunk /\ w[p + 1] > 0
     /\ Carried(w, Len(w)) = n
     /\ n > 0 => w[1] = Chunk

Encodings(kind, n) ==
  {w \in {Whole(n)} \cup {u \o <<LastChunk, EndTrailers>> :
                            u \in UNION {[1..m -> {Chunk} \cup 1..n] : m \in n..2 * n}} :
     Encodes(w, kind, n)}

\* What may become of it on the way: nothing, more bytes behind it, cut short,
\* or one piece of chunk framing that does not parse.
Spoiled(w, kind) ==
  {w} \cup (IF kind = "until_close" THEN {} ELSE {w \o <<Surplus>>})
      \cup {SubSeq(w, 1, i) : i \in 0..Len(w) - 1}
      \cup {[w EXCEPT ![i] = Bad] : i \in {j \in DOMAIN w : w[j] < 1}}

\* `coding`: none, a compressed stream that ends with the body, or one that
\* stops short.  `keep`: the headers allow reuse.  `tail`: the connection ends
\* after the wire, or nothing more comes.
Messages(kind, n, wire) ==
  {m \in [kind : {kind}, n : {n}, wire : {wire}, coding : {"identity", "whole", "short"},
          keep : BOOLEAN, tail : {"eof", "quiet"}] :
     /\ m.kind = "none" => m.n = 0 /\ m.coding = "identity"
     /\ m.kind = "until_close" => /\ ~m.keep
                                  /\ m.coding = "identity" => Len(m.wire) = m.n
                                  /\ m.n > 0 => m.wire # <<>>
     /\ m.coding = "short" => m.n > 0}

\* `total`: bytes that left the framing, of which `fed` entered the decoder;
\* `written` is the sink's count.
Readers ==
  [seed : Seq(Int), raw_seen : Nat, in_trailer : BOOLEAN, surplus : Nat,
   done : BOOLEAN, total : Nat, fed : Nat, written : Nat]
-----------------------------------------------------------------------------
(* The pipe                                                                *)

\* One run of bytes handed to zuh_body_pipe_feed(): the reader after it, the
\* code, and what reaches the sink.
Outcome(r, rc, out) == [r |-> r, rc |-> rc, out |-> out]

\* The first byte of run that is one of S, or 0.
First(run, S) ==
  LET found == {i \in DOMAIN run : run[i] \in S} IN IF found = {} THEN 0 ELSE Min(found)

\* cap_check()
OverCap(r, n) == r.written + n > MaxBody

\* zuh_inflate_run(): whatever comes out is held to the same bound, and nothing
\* of a run that fails reaches the sink.
Inflate(r, run) ==
  LET bad == First(run, {Chunk, LastChunk, EndTrailers, Bad, Surplus})
      n   == IF bad = 0 THEN Len(run) ELSE bad - 1
  IN IF OverCap(r, n) THEN "BODY_LIMIT" ELSE IF bad > 0 THEN "BODY_DECODE" ELSE "OK"

Feed(r, run) ==
  LET rc == IF msg.coding # "identity" THEN Inflate(r, run)
            ELSE IF OverCap(r, Len(run)) THEN "BODY_LIMIT" ELSE "OK"
  IN
  IF rc # "OK" THEN Outcome(r, rc, <<>>)
  ELSE Outcome([r EXCEPT !.fed = @ + Len(run), !.written = @ + Len(run)], "OK", run)

\* Faulty: the end of the compressed stream is not asked for.
FinishQuietly(r) == "OK"
\* zuh_body_pipe_finish(): the decoder has to agree that the body is over.
Finish(r) ==
  IF msg.coding = "identity" \/ r.fed = 0 \/ (msg.coding = "whole" /\ r.fed = msg.n)
  THEN "OK" ELSE "BODY_DECODE"
-----------------------------------------------------------------------------
(* zuh_chunked_decode() of one read                                        *)

\* trailer_parse(), on what follows the last chunk
Trailer(r, rest) ==
  LET end == First(rest, {EndTrailers, Bad}) IN
  CASE end = 0 -> Outcome(r, "WOULDBLOCK", <<>>)
    [] end > 0 /\ rest[end] = Bad -> Outcome(r, "PARSE", <<>>)
    [] OTHER -> Outcome([r EXCEPT !.surplus = @ + (Len(rest) - end)], "OK", <<>>)

\* The bytes of the body among the units of run: the i-th is where their count
\* comes to i.
Bytes(run) ==
  [i \in 1..Carried(run, Len(run)) |->
     run[CHOOSE p \in DOMAIN run : run[p] > 0 /\ Carried(run, p) = i]]

\* The body bytes of run are moved to its front, and what was not looked at
\* behind them.  Malformed framing is reported before *len is set, so what is
\* fed is the whole buffer, with what lies there still.
Decoded(r, run) ==
  LET stop    == First(run, {LastChunk, Bad})
      part    == IF stop = 0 THEN run ELSE SubSeq(run, 1, stop - 1)
      decoded == Bytes(part)
      n       == Len(decoded)
      counted == [r EXCEPT !.total = @ + n]
      rest    == SubSeq(run, stop + 1, Len(run))
      t       == Trailer([counted EXCEPT !.in_trailer = TRUE], rest)
      bad     == stop > 0 /\ run[stop] = Bad
  IN
  CASE r.in_trailer -> Trailer(r, run)
    [] ~r.in_trailer /\ bad ->
         Outcome(r, "PARSE", decoded \o SubSeq(run, stop, Len(run))
                               \o SubSeq(run, n + Len(run) - stop + 2, Len(run)))
    [] ~r.in_trailer /\ ~bad /\ r.total + n > MaxBody -> Outcome(r, "BODY_LIMIT", decoded)
    [] ~r.in_trailer /\ stop = 0 /\ r.total + n <= MaxBody ->
         Outcome(counted, "WOULDBLOCK", decoded)
    [] OTHER -> Outcome(t.r, t.rc, decoded)
-----------------------------------------------------------------------------
(* step_framed() of one read                                               *)

\* Faulty: what is left of the seed is not counted.
EndUncounted(r) == [r EXCEPT !.seed = <<>>, !.done = TRUE]
\* The framing says the body is over: what is left of the seed is surplus.
End(r) == [r EXCEPT !.surplus = @ + Len(r.seed), !.seed = <<>>, !.done = TRUE]

AtLength(r) == msg.kind = "length" /\ r.raw_seen >= msg.n
NothingToRead(r) == msg.kind = "none" \/ AtLength(r)

StepChunked(r, run) ==
  LET d == Decoded([r EXCEPT !.raw_seen = @ + Len(run)], run)
      f == Feed(d.r, d.out)
  IN
  CASE f.rc # "OK" -> f
    [] f.rc = "OK" /\ d.rc = "OK" -> Outcome(End(f.r), "OK", f.out)
    [] OTHER -> Outcome(f.r, d.rc, f.out)

Take(r, run) ==
  IF msg.kind = "length" THEN Min({Len(run), msg.n - r.raw_seen}) ELSE Len(run)

StepPlain(r, run) ==
  LET take == Take(r, run)
      f == Feed([r EXCEPT !.surplus = @ + (Len(run) - take)], SubSeq(run, 1, take))
      g == [f.r EXCEPT !.raw_seen = @ + take]
  IN
  IF f.rc # "OK" THEN f ELSE Outcome(IF AtLength(g) THEN End(g) ELSE g, "OK", f.out)

StepRun(r, run) == IF msg.kind = "chunked" THEN StepChunked(r, run) ELSE StepPlain(r, run)

\* zuh_body_reader_step(): a step that ends the framing finishes the pipe.
Stepped(o) == IF o.rc = "OK" /\ o.r.done THEN [o EXCEPT !.rc = Finish(o.r)] ELSE o

\* EOF where bytes were expected
Closed(r) == IF msg.kind = "until_close" THEN Outcome([r EXCEPT !.done = TRUE], "OK", <<>>)
                                         ELSE Outcome(r, "PARSE", <<>>)
-----------------------------------------------------------------------------
\* The headers are in, with any number of the bytes behind them.
Init ==
  /\ \E kind \in {"none", "length", "chunked", "until_close"}, n \in 0..MaxLength :
       \E e \in Encodings(kind, n) : \E w \in Spoiled(e, kind) : msg \in Messages(kind, n, w)
  /\ pos \in 0..Len(msg.wire)
  /\ dest \in {"sink", "pull"}
  /\ rd = [seed |-> SubSeq(msg.wire, 1, pos), raw_seen |-> 0, in_trailer |-> FALSE,
           surplus |-> 0, done |-> FALSE, total |-> 0, fed |-> 0, written |-> 0]
  /\ staged = <<>> /\ given = <<>>
  /\ want = IF dest = "sink" THEN 1 ELSE 0
  /\ b = "open" /\ freed = FALSE
  /\ err = "OK"
  /\ conn = "held"

\* open_body_release(), done_with_stream(): once.
Release(ok) == conn' = IF conn # "held" THEN conn ELSE IF ok THEN "reused" ELSE "closed"

\* zuh_reuse_decide() of a body that has ended, and the surplus on top
Verdict(r) == msg.kind # "until_close" /\ msg.keep /\ r.surplus = 0

\* What the loop of zuh_body_read(), or of zuh_open_body_read_within(), makes
\* of one step.
Failed(rc)   == b' = "failed" /\ err' = rc /\ want' = 0 /\ Release(FALSE)
Ended(r)     == /\ b' = "ended" /\ want' = (IF dest = "sink" THEN 0 ELSE want)
                /\ Release(Verdict(r)) /\ UNCHANGED err
\* The caller's sink asked to stop as it took the run: the response is theirs.
SinkStops(o) == /\ dest = "sink" /\ o.out # <<>>
                /\ b' = "stopped" /\ want' = 0 /\ Release(FALSE) /\ UNCHANGED err
After(o) ==
  /\ rd' = o.r
  /\ IF dest = "sink" THEN given' = given \o o.out /\ UNCHANGED staged
                      ELSE staged' = o.out /\ UNCHANGED given
  /\ \/ o.rc \notin {"OK", "WOULDBLOCK"} /\ Failed(o.rc)
     \/ o.rc = "OK" /\ o.r.done /\ Ended(o.r)
     \/ o.rc \in {"OK", "WOULDBLOCK"} /\ ~o.r.done /\ UNCHANGED <<b, err, want, conn>>
     \/ SinkStops(o)

\* A read is in progress and has to wait for, or decode, more.
Reading == want > 0 /\ b = "open" /\ staged = <<>>

StepNothing ==
  /\ Reading /\ NothingToRead(rd)
  /\ \E o \in {Stepped(Outcome(End(rd), "OK", <<>>))} : After(o)
  /\ UNCHANGED <<msg, pos, dest, freed>>

SeedLeft(n) == SubSeq(rd.seed, n + 1, Len(rd.seed))

\* next_bytes(): the seed first
StepSeed ==
  /\ Reading /\ ~NothingToRead(rd) /\ rd.seed # <<>>
  /\ \E n \in {Min({Len(rd.seed), ReadChunk})} :
       \E o \in {Stepped(StepRun([rd EXCEPT !.seed = SeedLeft(n)],
                                 SubSeq(rd.seed, 1, n)))} : After(o)
  /\ UNCHANGED <<msg, pos, dest, freed>>

StepRead(n) ==
  /\ Reading /\ ~NothingToRead(rd) /\ rd.seed = <<>>
  /\ n \in 1..Min({ReadChunk, Len(msg.wire) - pos})
  /\ pos' = pos + n
  /\ \E o \in {Stepped(StepRun(rd, SubSeq(msg.wire, pos + 1, pos + n)))} : After(o)
  /\ UNCHANGED <<msg, dest, freed>>

StepEof ==
  /\ Reading /\ ~NothingToRead(rd) /\ rd.seed = <<>>
  /\ pos = Len(msg.wire) /\ msg.tail = "eof"
  /\ \E o \in {Stepped(Closed(rd))} : After(o)
  /\ UNCHANGED <<msg, pos, dest, freed>>

\* The wait ends in its deadline, an interrupt or a reset.
StepFails(rc) ==
  /\ Reading /\ ~NothingToRead(rd) /\ rd.seed = <<>>
  /\ After(Outcome(rd, rc, <<>>))
  /\ UNCHANGED <<msg, pos, dest, freed>>
-----------------------------------------------------------------------------
(* The pulled body's caller                                                *)

\* zu_resp_read(); of a body that failed or was aborted, an error at once
ReadBegin(n) ==
  /\ dest = "pull" /\ ~freed /\ want = 0 /\ b \in {"open", "ended"}
  /\ want' = n
  /\ UNCHANGED <<msg, pos, dest, rd, staged, given, b, freed, err, conn>>

\* Faulty: what was handed out stays staged.
StagedKept(n) == staged
\* staged_off += n
StagedLeft(n) == SubSeq(staged, n + 1, Len(staged))

ReadReturns ==
  /\ dest = "pull" /\ want > 0 /\ ~Reading
  /\ LET n == Min({want, Len(staged)}) IN
       /\ given' = given \o SubSeq(staged, 1, n)
       /\ staged' = StagedLeft(n)
  /\ want' = 0
  /\ UNCHANGED <<msg, pos, dest, rd, b, freed, err, conn>>

\* zuh_open_body_abort(), which leaves a body alone that has ended
Aborts ==
  /\ dest = "pull" /\ ~freed /\ want = 0 /\ b = "open"
  /\ b' = "aborted"
  /\ Release(FALSE)
  /\ UNCHANGED <<msg, pos, dest, rd, staged, given, want, freed, err>>

FreeConn == Release(FALSE)

\* stream_finalizer()
Free ==
  /\ dest = "pull" /\ ~freed /\ want = 0
  /\ freed' = TRUE
  /\ b' = IF b = "open" THEN "aborted" ELSE b
  /\ staged' = <<>>
  /\ FreeConn
  /\ UNCHANGED <<msg, pos, dest, rd, given, want, err>>

Next ==
  \/ StepNothing \/ StepSeed \/ StepEof
  \/ \E n \in 1..ReadChunk : StepRead(n)
  \/ \E rc \in {"TIMEOUT", "CANCELLED", "IO"} : StepFails(rc)
  \/ ReadReturns
  \/ \E n \in Wants : ReadBegin(n)
  \/ Aborts \/ Free

Spec == Init /\ [][Next]_vars
-----------------------------------------------------------------------------
(* Properties                                                              *)

\* A body that is reported complete is complete: every byte of it, in order,
\* once, however the wire was cut into reads and the seed, and whatever sizes
\* the caller asked for; and a compressed one came to its own end
\* (zuh_open_body_ended_clean, D-76).
CompleteIsWhole ==
  b = "ended" /\ staged = <<>> /\ ~freed =>
    given = Whole(msg.n) /\ msg.coding # "short"

\* What a pulled body hands out before that is the beginning of the body, also
\* when it goes on to fail.
HandedInOrder == dest = "pull" => IsPrefix(given, Whole(msg.n))

\* Section 26.3: a connection is reused only where the next byte on it is the
\* first of the next response, not one of this one and none behind it.
ReusedInStep ==
  conn = "reused" => Encodes(SubSeq(msg.wire, 1, pos), msg.kind, msg.n)

\* The comment on zuh_chunked_decode(): *len "on return it is the number of
\* DECODED bytes".  So a sink is handed bytes of the body only.
SinkGetsBody == dest = "sink" => IsPrefix(given, Whole(msg.n))
-----------------------------------------------------------------------------
(* The inductive invariant                                                 *)

Codes == {"OK", "WOULDBLOCK", "PARSE", "BODY_LIMIT", "BODY_DECODE", "TIMEOUT", "CANCELLED", "IO"}

TypeOK ==
  /\ msg \in [kind : {"none", "length", "chunked", "until_close"}, n : 0..MaxLength,
              wire : Seq(Int), coding : {"identity", "whole", "short"}, keep : BOOLEAN,
              tail : {"eof", "quiet"}]
  /\ pos \in 0..Len(msg.wire)
  /\ dest \in {"sink", "pull"}
  /\ rd \in Readers
  /\ staged \in Seq(Int) /\ given \in Seq(Int)
  /\ want \in Nat
  /\ b \in {"open", "ended", "failed", "aborted", "stopped"}
  /\ freed \in BOOLEAN
  /\ err \in Codes
  /\ conn \in {"held", "reused", "closed"}

\* What the server's bytes say however they were spoiled: a byte of a chunked
\* body is the next one, nothing is missing at its last chunk, and what runs to
\* the end of the trailers with no malformed framing is the body's encoding.
WireSound ==
  LET w == msg.wire IN
  /\ msg.kind = "none" => msg.n = 0
  /\ msg.coding = "short" => msg.n > 0
  /\ msg.kind \in {"length", "until_close"} => \A p \in DOMAIN w : p <= msg.n => w[p] = p
  /\ msg.kind = "until_close" => /\ Len(w) <= msg.n
                                 /\ msg.coding = "identity" => Len(w) = msg.n
                                 /\ msg.n > 0 => w # <<>>
  /\ msg.kind = "chunked" =>
       \A p \in DOMAIN w :
         /\ Carried(w, p) <= msg.n
         /\ w[p] > 0 => w[p] = Carried(w, p)
         /\ w[p] = LastChunk => Carried(w, p) = msg.n
         /\ w[p] = EndTrailers =>
              \/ \E q \in 1..p : w[q] = Bad
              \/ Encodes(SubSeq(w, 1, p), msg.kind, msg.n)

\* A reader that has been through the first t units of the wire, and goes on.
Consumed(r, t) ==
  LET w == msg.wire IN
  /\ ~r.done /\ r.surplus = 0
  /\ msg.kind = "none" => t = 0 /\ r.fed = 0
  /\ msg.kind = "length" => r.fed = t /\ r.raw_seen = t /\ t <= msg.n
  /\ msg.kind = "until_close" => r.fed = t
  /\ msg.kind = "chunked" =>
       /\ r.fed = Carried(w, t)
       /\ \A p \in 1..t : w[p] \notin {EndTrailers, Bad}
       /\ r.in_trailer <=> \E p \in 1..t : w[p] = LastChunk

\* While the body is open its reader is in step with the wire: it has been
\* through what was received and is not still in the seed.
InStep ==
  b = "open" =>
    /\ conn = "held" /\ ~freed
    /\ Len(rd.seed) <= pos /\ rd.seed = SubSeq(msg.wire, pos - Len(rd.seed) + 1, pos)
    /\ Consumed(rd, pos - Len(rd.seed))
    /\ rd.fed = Len(given) + Len(staged)

\* What the caller has, and what is staged behind it.
Delivered ==
  /\ dest = "sink" => staged = <<>>
  /\ dest = "pull" \/ b \in {"open", "ended"} =>
       Len(given) <= msg.n /\ \A i \in DOMAIN given : given[i] = i
  /\ b \in {"open", "ended"} => /\ Len(given) + Len(staged) <= msg.n
                                /\ \A i \in DOMAIN staged : staged[i] = Len(given) + i
  /\ b = "ended" => /\ msg.coding # "short"
                    /\ ~freed => Len(given) + Len(staged) = msg.n

\* A read in progress is of a body that can still answer it.
Awaited == dest = "pull" /\ want > 0 => b \in {"open", "ended"} /\ ~freed

IInv == TypeOK /\ WireSound /\ InStep /\ Delivered /\ Awaited /\ ReusedInStep
=============================================================================
