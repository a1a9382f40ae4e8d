------------------------------- MODULE Retry --------------------------------
(***************************************************************************)
(* One zu_perform() call: the retry loop attempt_with_retries() of         *)
(* R/perform.R with the policy of R/retry.R, from the request the caller   *)
(* made to the response or the condition they get.                         *)
(*                                                                         *)
(* The transport below is external: it takes up to the time it is given    *)
(* and answers with a response or a condition.  So are the caller's hooks, *)
(* which take time of their own.  Time is counted in units of the floor of *)
(* attempt_request(), a millisecond.                                       *)
(***************************************************************************)
EXTENDS Integers, Sequences, FiniteSets, FiniteSetsExt

CONSTANTS
  Timeout,        \* resolved$timeout, the budget of the whole call
  Attempts,       \* policy$attempts
  AttemptTimeout, \* policy$attempt_timeout
  Base,           \* policy$base
  MaxDelay,       \* policy$max_delay
  MaxRetryAfter,  \* policy$max_retry_after
  Slice,          \* the slice of retry_sleep()
  RetryAfters,    \* bound: the delays a server asks for
  HookTime        \* bound: the longest a hook runs

ASSUME RetryAssumption ==
  /\ {Timeout, Attempts, AttemptTimeout, Slice} \subseteq Nat \ {0}
  /\ {Base, MaxDelay, MaxRetryAfter, HookTime} \subseteq Nat
  /\ RetryAfters \subseteq Nat

Floor == 1
NoHeader == -1   \* no Retry-After, or one that does not parse

VARIABLES
  req,      \* the request, see Requests
  pc,       \* where the call is, see Places
  now,      \* proc.time(), from t0
  attempt,
  stream,   \* [1..Attempts -> the streamed body each attempt's response came with]
  sleep,    \* what is left of the delay in retry_sleep()
  \* history
  outs,     \* the outcome of every attempt
  ended,    \* when the last attempt ended
  hooked    \* time spent in hooks

retryVars == <<req, pc, now, attempt, stream, sleep, outs, ended, hooked>>

Requests ==
  [dest        : {"memory", "callback", "stream"},
   replay_safe : BOOLEAN,   \* zu_req_replay_safe()
   rewindable  : BOOLEAN,   \* zu_body_rewindable()
   check       : BOOLEAN]

Places ==
  {"call", "before_request", "attempt", "judge", "before_retry", "sleep",
   "after_retry", "after_response", "returned", "raised"}

\* What the transport answers.  A status is "good", "retryable" by the table
\* of retry_verdict() or, below 400, by policy$on ("asked"), or "bad": another
\* 4xx or 5xx.  `bytes`: some of a body came before the end, or the failure.
Responses ==
  [status : {"good", "asked", "retryable", "bad"}, after : RetryAfters \cup {NoHeader},
   code : {"OK"}, bytes : BOOLEAN]
Conditions ==
  [status : {"none"}, after : {NoHeader}, code : {"IO", "TIMEOUT", "PARSE"},
   bytes : BOOLEAN]
Outcomes ==
  {o \in Responses \cup Conditions :
     o.after # NoHeader => o.status \in {"asked", "retryable"}}
-----------------------------------------------------------------------------
IsResp(o) == o.code = "OK"
Latest == outs[Len(outs)]
Left == Timeout - now

MayReplay == Attempts > 1 /\ req.replay_safe

\* Faulty: every attempt is handed the whole timeout.
WholeBudget == Min({Timeout, AttemptTimeout})
\* attempt_request()
Budget == Max({Floor, Min({Timeout, Left, AttemptTimeout})})

\* watch_delivery(): bytes reached the caller's callback.
Delivered(o) == req.dest = "callback" /\ o.bytes

\* zuh_code_retryable(), of the codes the transport raises
CodeRetryable(c) == c \in {"IO", "TIMEOUT"}

\* retry_verdict()
Retry(o) == IF IsResp(o) THEN o.status \in {"retryable", "asked"}
                         ELSE CodeRetryable(o.code)

\* backoff_delay(): Retry-After, clamped, or exponential with full jitter
Backoff(n) == Min({Base * 2^(n - 1), MaxDelay})
Delays(n, o) == IF o.after # NoHeader THEN {Min({o.after, MaxRetryAfter})}
                                      ELSE 0..Backoff(n)
-----------------------------------------------------------------------------
RetryInit ==
  /\ req \in Requests
  /\ pc = "call"
  /\ now = 0
  /\ attempt = 1
  /\ stream = [i \in 1..Attempts |-> "none"]
  /\ sleep = 0
  /\ outs = <<>>
  /\ ended = 0
  /\ hooked = 0

\* The third condition of section 33.1, refused before the first attempt.
Refuse ==
  /\ pc = "call" /\ MayReplay /\ ~req.rewindable
  /\ pc' = "raised"
  /\ UNCHANGED <<req, now, attempt, stream, sleep, outs, ended, hooked>>

Call ==
  /\ pc = "call" /\ ~(MayReplay /\ ~req.rewindable)
  /\ pc' = "before_request"
  /\ UNCHANGED <<req, now, attempt, stream, sleep, outs, ended, hooked>>

\* fire_hook(): it returns, whatever the hook does.
FireHook(event, t) ==
  /\ pc = event
  /\ now' = now + t
  /\ hooked' = hooked + t

BeforeRequest(t) ==
  /\ FireHook("before_request", t)
  /\ pc' = "attempt"
  /\ UNCHANGED <<req, attempt, stream, sleep, outs, ended>>

\* zu_transport_perform(), within the attempt's budget
Attempt(o, t) ==
  /\ pc = "attempt"
  /\ t <= Budget /\ (o.code = "TIMEOUT" => t = Budget)
  /\ req.dest # "callback" => ~o.bytes
  /\ now' = now + t
  /\ ended' = now + t
  /\ outs' = Append(outs, o)
  /\ stream' = IF req.dest = "stream" /\ IsResp(o)
               THEN [stream EXCEPT ![attempt] = "open"] ELSE stream
  /\ pc' = "judge"
  /\ UNCHANGED <<req, attempt, sleep, hooked>>

\* Faulty: what the callback has received is not asked about.
GivesUpUnwatched == ~MayReplay \/ attempt >= Attempts \/ ~Retry(Latest)

\* The breaks of the loop that look at the attempt alone
GivesUp == ~MayReplay \/ attempt >= Attempts \/ Delivered(Latest) \/ ~Retry(Latest)

\* Where the call goes after the loop: stop(cnd), or on with the response
AfterLoop == IF IsResp(Latest) THEN "after_response" ELSE "raised"

GiveUp ==
  /\ pc = "judge" /\ GivesUp
  /\ pc' = AfterLoop
  /\ UNCHANGED <<req, now, attempt, stream, sleep, outs, ended, hooked>>

\* Faulty: a response about to be retried keeps its connection.
Kept == stream
\* zu_resp_abort()
Aborted == IF stream[attempt] = "open" THEN [stream EXCEPT ![attempt] = "aborted"]
                                       ELSE stream

\* The attempt would be retried: its body is given up, and the budget decides.
OutOfBudget(d) ==
  /\ pc = "judge" /\ ~GivesUp
  /\ stream' = Aborted
  /\ Left <= 0 \/ d >= Left
  /\ pc' = AfterLoop
  /\ UNCHANGED <<req, now, attempt, sleep, outs, ended, hooked>>

BackOff(d) ==
  /\ pc = "judge" /\ ~GivesUp
  /\ stream' = Aborted
  /\ Left > 0 /\ d < Left
  /\ sleep' = d
  /\ pc' = "before_retry"
  /\ UNCHANGED <<req, now, attempt, outs, ended, hooked>>

BeforeRetry(t) ==
  /\ FireHook("before_retry", t)
  /\ pc' = "sleep"
  /\ UNCHANGED <<req, attempt, stream, sleep, outs, ended>>

\* One turn of retry_sleep()
SleepLeft == Min({sleep, Max({0, Left})})

\* Faulty: a deadline that has passed is not noticed.
AwakeByDelay == sleep <= 0
Awake == SleepLeft <= 0

Sleep ==
  /\ pc = "sleep" /\ ~Awake
  /\ LET d == Min({Slice, SleepLeft}) IN
       /\ now' = now + d
       /\ sleep' = sleep - d
  /\ UNCHANGED <<req, pc, attempt, stream, outs, ended, hooked>>

Wake ==
  /\ pc = "sleep" /\ Awake
  /\ attempt' = attempt + 1
  /\ pc' = "after_retry"
  /\ UNCHANGED <<req, now, stream, sleep, outs, ended, hooked>>

AfterRetry(t) ==
  /\ FireHook("after_retry", t)
  /\ pc' = "before_request"
  /\ UNCHANGED <<req, attempt, stream, sleep, outs, ended>>

\* The rest of zu_perform(): the hook, and with `check` a 4xx or 5xx raised
\* and its streamed body aborted.
AfterResponse(t) ==
  /\ FireHook("after_response", t)
  /\ LET failed == req.check /\ Latest.status \in {"retryable", "bad"} IN
       /\ stream' = IF failed THEN Aborted ELSE stream
       /\ pc' = IF failed THEN "raised" ELSE "returned"
  /\ UNCHANGED <<req, attempt, sleep, outs, ended>>

RetryNext ==
  \/ Refuse \/ Call \/ GiveUp \/ Sleep \/ Wake
  \/ \E t \in 0..HookTime :
       BeforeRequest(t) \/ BeforeRetry(t) \/ AfterRetry(t) \/ AfterResponse(t)
  \/ \E o \in Outcomes, t \in 0..Max({Floor, Timeout}) : Attempt(o, t)
  \/ \E d \in IF pc = "judge" THEN Delays(attempt, Latest) ELSE {} :
       OutOfBudget(d) \/ BackOff(d)

RetrySpec == RetryInit /\ [][RetryNext]_retryVars

\* The loop runs on: the transport keeps to its budget, hooks return.
FairSpec == RetrySpec /\ WF_retryVars(RetryNext)
-----------------------------------------------------------------------------
RetryTypeOK ==
  /\ req \in Requests /\ pc \in Places
  /\ now \in Nat /\ sleep \in Nat /\ ended \in Nat /\ hooked \in Nat
  /\ attempt \in 1..Attempts /\ outs \in Seq(Outcomes)
  /\ stream \in [1..Attempts -> {"none", "open", "aborted"}]

Done == pc \in {"returned", "raised"}

\* Section 24.3: the timeout is the budget of the whole call, every attempt
\* and every wait between them.  Only the caller's own hooks, and the floor
\* under one attempt's share, come on top.
BudgetKept == now <= Timeout + hooked + Floor

\* D-81: the callback is handed the bytes of one attempt only.
OneBody == Cardinality({i \in DOMAIN outs : Delivered(outs[i])}) <= 1

\* Section 65.4: no connection waits with an unread body for a response that
\* nobody will see, through a backoff or after the condition is raised.
NoBodyLeftOpen ==
  \A i \in 1..Attempts : stream[i] = "open" =>
    i = attempt /\ pc \in {"judge", "after_response", "returned"}

\* What makes them inductive: the floor may have been used only by an attempt
\* after which the budget lets no other one follow; only the last attempt's
\* bytes may have been delivered, after which none follows; and only a
\* response has a body to leave open.
Afterwards == {"judge", "after_response", "returned", "raised"}
RetryIInv ==
  /\ RetryTypeOK
  /\ pc \in {"judge", "after_response"} => outs # <<>>
  /\ pc \in {"before_retry", "sleep"} => attempt < Attempts
  /\ now <= Timeout + hooked + (IF pc \in Afterwards THEN Floor ELSE 0)
  /\ \A i \in DOMAIN outs : Delivered(outs[i]) => i = Len(outs) /\ pc \in Afterwards
  /\ pc = "judge" /\ stream[attempt] = "open" => IsResp(Latest)
  /\ NoBodyLeftOpen

\* The call ends, and a deadline that passes during a wait ends the wait.
Terminates == <>Done

\* zu_perform(stream = TRUE) returns the response "with the body unread", to
\* be read with zu_resp_read().
ReturnedIsReadable ==
  pc = "returned" /\ req.dest = "stream" => stream[attempt] = "open"
=============================================================================
