---------------------------- MODULE PerformProofs ----------------------------
(***************************************************************************)
(* Proofs about what runs in one zu_perform(): the retry loop around it     *)
(* (Retry) and the caller's functions inside it (Reentry).                  *)
(*                                                                         *)
(* Retry: for every timeout, policy, Retry-After and hook, the call stays   *)
(* in its budget, its callback is handed one body, and no streamed body is  *)
(* left open behind a response nobody will see.                             *)
(*                                                                         *)
(* Reentry: whatever the caller's functions call, and however they leave,   *)
(* the tick is the innermost running request's and nghttp2 is not entered   *)
(* again for a response whose body function it is calling.                  *)
(***************************************************************************)
EXTENDS Retry, Reentry, SequenceTheorems, FiniteSetTheorems, TLAPS

\* The smaller and the larger of two integers.
LEMMA MinOfTwo ==
  ASSUME NEW a \in Int, NEW b \in Int PROVE Min({a, b}) = IF a <= b THEN a ELSE b
<1>1. CASE a <= b
  <2>1. a \in {a, b} /\ \A y \in {a, b} : a <= y
    BY <1>1
  <2>2. \A x \in {a, b} : (\A y \in {a, b} : x <= y) => x = a
    BY <1>1
  <2>3. QED BY <1>1, <2>1, <2>2 DEF Min
<1>2. CASE ~(a <= b)
  <2>1. b \in {a, b} /\ \A y \in {a, b} : b <= y
    BY <1>2
  <2>2. \A x \in {a, b} : (\A y \in {a, b} : x <= y) => x = b
    BY <1>2
  <2>3. QED BY <1>2, <2>1, <2>2 DEF Min
<1>3. QED BY <1>1, <1>2

LEMMA MaxOfTwo ==
  ASSUME NEW a \in Int, NEW b \in Int PROVE Max({a, b}) = IF a >= b THEN a ELSE b
<1>1. CASE a >= b
  <2>1. a \in {a, b} /\ \A y \in {a, b} : a >= y
    BY <1>1
  <2>2. \A x \in {a, b} : (\A y \in {a, b} : x >= y) => x = a
    BY <1>1
  <2>3. QED BY <1>1, <2>1, <2>2 DEF Max
<1>2. CASE ~(a >= b)
  <2>1. b \in {a, b} /\ \A y \in {a, b} : b >= y
    BY <1>2
  <2>2. \A x \in {a, b} : (\A y \in {a, b} : x >= y) => x = b
    BY <1>2
  <2>3. QED BY <1>2, <2>1, <2>2 DEF Max
<1>3. QED BY <1>1, <1>2

\* The smallest of three is an integer no larger than the second.
LEMMA MinOfThree ==
  ASSUME NEW a \in Int, NEW b \in Int, NEW c \in Int
  PROVE  Min({a, b, c}) \in Int /\ Min({a, b, c}) <= b
<1>1. \E x \in {a, b, c} : \A y \in {a, b, c} : x <= y
  <2>1. CASE a <= b /\ a <= c
    BY <2>1
  <2>2. CASE b <= a /\ b <= c
    BY <2>2
  <2>3. CASE c <= a /\ c <= b
    BY <2>3
  <2>4. QED BY <2>1, <2>2, <2>3
<1>2. Min({a, b, c}) \in {a, b, c} /\ \A y \in {a, b, c} : Min({a, b, c}) <= y
  BY <1>1 DEF Min
<1>3. QED BY <1>2

\* attempt_request() hands out what is left, and at least the floor.
LEMMA BudgetWithin ==
  ASSUME now \in Nat
  PROVE  Budget \in Int /\ (Left >= Floor => Budget <= Left) /\ (Left < Floor => Budget = Floor)
<1>1. Timeout \in Int /\ Left \in Int /\ AttemptTimeout \in Int
  BY RetryAssumption DEF Left
<1> DEFINE m == Min({Timeout, Left, AttemptTimeout})
<1>2. m \in Int /\ m <= Left
  BY <1>1, MinOfThree
<1> HIDE DEF m
<1>3. Budget = IF Floor >= m THEN Floor ELSE m
  <2>1. Floor \in Int
    BY DEF Floor
  <2>2. Max({Floor, m}) = IF Floor >= m THEN Floor ELSE m
    BY <1>2, <2>1, MaxOfTwo
  <2>3. QED BY <2>2 DEF Budget, m
<1>4. QED BY <1>1, <1>2, <1>3 DEF Floor

\* A turn of the sleep is positive and stays within the delay and the budget.
LEMMA SleepWithin ==
  ASSUME now \in Nat, sleep \in Nat, ~Awake
  PROVE  LET d == Min({Slice, SleepLeft})
         IN  d \in Nat /\ d <= sleep /\ d <= Left
<1>1. Left \in Int /\ sleep \in Int /\ Slice \in Nat \ {0} /\ 0 \in Int
  BY RetryAssumption DEF Left
<1>2. Max({0, Left}) = IF 0 >= Left THEN 0 ELSE Left
  BY <1>1, MaxOfTwo
<1>3. SleepLeft = IF sleep <= Max({0, Left}) THEN sleep ELSE Max({0, Left})
  BY <1>1, <1>2, MinOfTwo DEF SleepLeft
<1>4. SleepLeft \in Int /\ SleepLeft > 0 /\ SleepLeft <= sleep /\ SleepLeft <= Left
  BY <1>1, <1>2, <1>3 DEF Awake
<1>5. Min({Slice, SleepLeft}) = IF Slice <= SleepLeft THEN Slice ELSE SleepLeft
  BY <1>1, <1>4, MinOfTwo
<1>6. QED BY <1>1, <1>4, <1>5

\* A delay is a natural number, asked for or drawn.
LEMMA DelayTyped ==
  ASSUME NEW n, NEW o \in Outcomes, NEW d \in Delays(n, o) PROVE d \in Nat
<1>1. CASE o.after # NoHeader
  <2>1. o.after \in Nat /\ MaxRetryAfter \in Nat
    BY <1>1, RetryAssumption DEF Outcomes, Responses, Conditions
  <2>2. Min({o.after, MaxRetryAfter}) \in Nat
    BY <2>1, MinOfTwo
  <2>3. QED BY <1>1, <2>2 DEF Delays
<1>2. CASE o.after = NoHeader
  BY <1>2 DEF Delays
<1>3. QED BY <1>1, <1>2

LEMMA AbortedTyped ==
  ASSUME RetryTypeOK
  PROVE  /\ Aborted \in [1..Attempts -> {"none", "open", "aborted"}]
         /\ Aborted[attempt] # "open"
         /\ \A i \in 1..Attempts : i # attempt => Aborted[i] = stream[i]
  BY DEF RetryTypeOK, Aborted

LEMMA RetryInitIInv == RetryInit => RetryIInv
<1> SUFFICES ASSUME RetryInit PROVE RetryIInv
  OBVIOUS
<1>1. RetryTypeOK
  BY RetryAssumption DEF RetryInit, RetryTypeOK, Places
<1>2. NoBodyLeftOpen
  BY DEF RetryInit, NoBodyLeftOpen
<1>3. now <= Timeout + hooked
  BY RetryAssumption DEF RetryInit
<1>4. pc = "call" /\ DOMAIN outs = {}
  BY DEF RetryInit
<1>5. now <= Timeout + hooked + (IF pc \in Afterwards THEN Floor ELSE 0)
  BY <1>3, <1>4, RetryAssumption DEF RetryInit, Afterwards
<1>6. QED BY <1>1, <1>2, <1>4, <1>5 DEF RetryIInv

\* What each step keeps.  Only an attempt and a sleep spend time of the
\* budget, and only a hook's time is added to it.
LEMMA RetryNextIInv == RetryIInv /\ [RetryNext]_retryVars => RetryIInv'
<1> SUFFICES ASSUME RetryIInv, [RetryNext]_retryVars PROVE RetryIInv'
  OBVIOUS
<1> USE DEF Afterwards
<1>0. /\ RetryTypeOK /\ Timeout \in Nat /\ Attempts \in Nat \ {0} /\ HookTime \in Nat
      /\ now \in Nat /\ hooked \in Nat /\ Floor = 1
  BY RetryAssumption DEF RetryIInv, RetryTypeOK, Floor
<1>1. CASE Refuse \/ Call
  <2>1. /\ UNCHANGED <<req, now, attempt, stream, sleep, outs, ended, hooked>>
        /\ pc = "call" /\ pc' \in {"raised", "before_request"}
    BY <1>1 DEF Refuse, Call
  <2>2. \A i \in DOMAIN outs : ~Delivered(outs[i])
    BY <2>1 DEF RetryIInv
  <2>3. \A i \in DOMAIN outs' : ~Delivered(outs[i])'
    BY <2>1, <2>2 DEF Delivered
  <2>4. RetryTypeOK' /\ NoBodyLeftOpen'
    BY <1>0, <2>1 DEF RetryTypeOK, NoBodyLeftOpen, Places, RetryIInv
  <2>5. QED BY <1>0, <2>1, <2>3, <2>4 DEF RetryIInv
<1>2. CASE GiveUp
  <2>1. /\ UNCHANGED <<req, now, attempt, stream, sleep, outs, ended, hooked>>
        /\ pc = "judge" /\ pc' = IF IsResp(Latest) THEN "after_response" ELSE "raised"
    BY <1>2 DEF GiveUp, AfterLoop
  <2>2. \A i \in DOMAIN outs' : Delivered(outs[i])' => i = Len(outs)
    BY <2>1 DEF Delivered, RetryIInv
  <2>3. RetryTypeOK' /\ NoBodyLeftOpen'
    BY <1>0, <2>1 DEF RetryTypeOK, NoBodyLeftOpen, Places, RetryIInv
  <2>4. QED BY <1>0, <2>1, <2>2, <2>3 DEF RetryIInv
<1>3. CASE Sleep
  <2>1. /\ UNCHANGED <<req, pc, attempt, stream, outs, ended, hooked>> /\ pc = "sleep"
        /\ now' = now + Min({Slice, SleepLeft}) /\ sleep' = sleep - Min({Slice, SleepLeft})
    BY <1>3 DEF Sleep
  <2>2. now' \in Nat /\ sleep' \in Nat /\ now' <= Timeout
    <3>1. sleep \in Nat /\ Left = Timeout - now
      BY <1>0 DEF RetryTypeOK, Left
    <3>2. QED BY <1>0, <1>3, <2>1, <3>1, SleepWithin DEF Sleep
  <2>3. \A i \in DOMAIN outs' : ~Delivered(outs[i])'
    BY <2>1 DEF Delivered, RetryIInv
  <2>4. RetryTypeOK' /\ NoBodyLeftOpen'
    BY <1>0, <2>1, <2>2 DEF RetryTypeOK, NoBodyLeftOpen, RetryIInv
  <2>5. QED BY <1>0, <2>1, <2>2, <2>3, <2>4 DEF RetryIInv
<1>4. CASE Wake
  <2>1. /\ UNCHANGED <<req, now, stream, sleep, outs, ended, hooked>>
        /\ pc = "sleep" /\ pc' = "after_retry" /\ attempt' = attempt + 1 /\ attempt < Attempts
    BY <1>4 DEF Wake, RetryIInv
  <2>2. \A i \in DOMAIN outs' : ~Delivered(outs[i])'
    BY <2>1 DEF Delivered, RetryIInv
  <2>3. RetryTypeOK' /\ NoBodyLeftOpen'
    BY <1>0, <2>1 DEF RetryTypeOK, NoBodyLeftOpen, Places, RetryIInv
  <2>4. QED BY <1>0, <2>1, <2>2, <2>3 DEF RetryIInv
<1>5. CASE \E t \in 0..HookTime : BeforeRequest(t) \/ BeforeRetry(t) \/ AfterRetry(t)
  <2>1. PICK t \in 0..HookTime : BeforeRequest(t) \/ BeforeRetry(t) \/ AfterRetry(t)
    BY <1>5
  <2>2. /\ UNCHANGED <<req, attempt, stream, sleep, outs, ended>>
        /\ now' = now + t /\ hooked' = hooked + t
        /\ <<pc, pc'>> \in {<<"before_request", "attempt">>, <<"before_retry", "sleep">>,
                           <<"after_retry", "before_request">>}
    BY <2>1 DEF BeforeRequest, BeforeRetry, AfterRetry, FireHook
  <2>3. t \in Nat
    BY <1>0
  <2>4. \A i \in DOMAIN outs' : ~Delivered(outs[i])'
    BY <2>2 DEF Delivered, RetryIInv
  <2>5. RetryTypeOK' /\ NoBodyLeftOpen'
    BY <1>0, <2>2, <2>3 DEF RetryTypeOK, NoBodyLeftOpen, Places, RetryIInv
  <2>6. now <= Timeout + hooked
    <3>1. pc \notin Afterwards
      BY <2>2
    <3>2. now <= Timeout + hooked + 0
      BY <3>1 DEF RetryIInv
    <3>3. QED BY <1>0, <3>2
  <2>7. QED BY <1>0, <2>2, <2>3, <2>4, <2>5, <2>6 DEF RetryIInv
<1>6. CASE \E t \in 0..HookTime : AfterResponse(t)
  <2>1. PICK t \in 0..HookTime : AfterResponse(t)
    BY <1>6
  <2>2. /\ UNCHANGED <<req, attempt, sleep, outs, ended>>
        /\ now' = now + t /\ hooked' = hooked + t /\ pc = "after_response"
        /\ \/ stream' = Aborted /\ pc' = "raised"
           \/ stream' = stream /\ pc' = "returned"
    BY <2>1 DEF AfterResponse, FireHook
  <2>3. t \in Nat
    BY <1>0
  <2>4. \A i \in DOMAIN outs' : Delivered(outs[i])' => i = Len(outs)
    BY <2>2 DEF Delivered, RetryIInv
  <2>5. RetryTypeOK' /\ NoBodyLeftOpen'
    <3>1. RetryTypeOK'
      BY <1>0, <2>2, <2>3, AbortedTyped DEF RetryTypeOK, Places
    <3>2. NoBodyLeftOpen'
      BY <1>0, <2>2, AbortedTyped DEF NoBodyLeftOpen, RetryIInv
    <3>3. QED BY <3>1, <3>2
  <2>6. now <= Timeout + hooked + 1
    BY <1>0, <2>2 DEF RetryIInv
  <2>7. QED BY <1>0, <2>2, <2>3, <2>4, <2>5, <2>6 DEF RetryIInv
<1>7. CASE \E o \in Outcomes, t \in 0..Max({Floor, Timeout}) : Attempt(o, t)
  <2>1. PICK o \in Outcomes, t \in 0..Max({Floor, Timeout}) : Attempt(o, t)
    BY <1>7
  <2>2. /\ UNCHANGED <<req, attempt, sleep, hooked>>
        /\ pc = "attempt" /\ pc' = "judge" /\ t <= Budget
        /\ now' = now + t /\ ended' = now + t /\ outs' = Append(outs, o)
        /\ stream' = IF req.dest = "stream" /\ IsResp(o)
                     THEN [stream EXCEPT ![attempt] = "open"] ELSE stream
    BY <2>1 DEF Attempt
  <2>3. t \in Nat /\ now + t <= Timeout + hooked + 1
    <3>1. t \in Int /\ t >= 0
      OBVIOUS
    <3>2. now <= Timeout + hooked /\ Left = Timeout - now
      BY <1>0, <2>2 DEF RetryIInv, Left
    <3>3. QED BY <1>0, <2>2, <3>1, <3>2, BudgetWithin
  <2>4. /\ outs \in Seq(Outcomes) /\ outs' \in Seq(Outcomes) /\ Len(outs') = Len(outs) + 1
        /\ outs'[Len(outs) + 1] = o /\ outs' # <<>>
        /\ \A i \in 1..Len(outs) : outs'[i] = outs[i]
    BY <1>0, <2>2 DEF RetryTypeOK
  <2>5. \A i \in DOMAIN outs' : Delivered(outs[i])' => i = Len(outs')
    <3>1. \A i \in 1..Len(outs) : ~Delivered(outs[i])
      BY <2>2, <2>4 DEF RetryIInv
    <3>2. \A i \in 1..Len(outs) : ~Delivered(outs[i])'
      BY <2>2, <2>4, <3>1 DEF Delivered
    <3>3. DOMAIN outs' = 1..Len(outs) + 1
      BY <2>4
    <3>4. QED BY <2>4, <3>2, <3>3
  <2>6. \A i \in 1..Attempts : stream[i] # "open"
    BY <2>2 DEF RetryIInv, NoBodyLeftOpen
  <2>7. RetryTypeOK' /\ NoBodyLeftOpen'
    <3>1. RetryTypeOK'
      BY <1>0, <2>2, <2>3, <2>4 DEF RetryTypeOK, Places
    <3>2. NoBodyLeftOpen'
      BY <1>0, <2>2, <2>6 DEF NoBodyLeftOpen, RetryTypeOK
    <3>3. QED BY <3>1, <3>2
  <2>8. stream'[attempt] = "open" => IsResp(Latest)'
    <3>1. Latest' = o
      BY <2>4 DEF Latest
    <3>2. stream'[attempt] = "open" => IsResp(o)
      BY <1>0, <2>2, <2>6 DEF RetryTypeOK
    <3>3. QED BY <3>1, <3>2 DEF IsResp
  <2>9. QED BY <1>0, <2>2, <2>3, <2>4, <2>5, <2>7, <2>8 DEF RetryIInv
<1>8. CASE \E d \in IF pc = "judge" THEN Delays(attempt, Latest) ELSE {} : OutOfBudget(d)
  <2>1. /\ UNCHANGED <<req, now, attempt, sleep, outs, ended, hooked>>
        /\ pc = "judge" /\ stream' = Aborted /\ pc' \in {"after_response", "raised"}
    BY <1>8 DEF OutOfBudget, AfterLoop
  <2>2. \A i \in DOMAIN outs' : Delivered(outs[i])' => i = Len(outs)
    BY <2>1 DEF Delivered, RetryIInv
  <2>3. RetryTypeOK'
    BY <1>0, <2>1, AbortedTyped DEF RetryTypeOK, Places
  <2>4. NoBodyLeftOpen'
    BY <1>0, <2>1, AbortedTyped DEF NoBodyLeftOpen, RetryIInv
  <2>5. QED BY <1>0, <2>1, <2>2, <2>3, <2>4 DEF RetryIInv
<1>9. CASE \E d \in IF pc = "judge" THEN Delays(attempt, Latest) ELSE {} : BackOff(d)
  <2>1. PICK d \in IF pc = "judge" THEN Delays(attempt, Latest) ELSE {} : BackOff(d)
    BY <1>9
  <2>2. /\ UNCHANGED <<req, now, attempt, outs, ended, hooked>>
        /\ pc = "judge" /\ pc' = "before_retry" /\ stream' = Aborted /\ sleep' = d
        /\ Left > 0 /\ ~(attempt >= Attempts) /\ ~Delivered(Latest)
    BY <2>1 DEF BackOff, GivesUp
  <2>3. d \in Nat
    <3>1. outs # <<>> /\ outs \in Seq(Outcomes)
      BY <1>0, <2>2 DEF RetryIInv, RetryTypeOK
    <3>2. Latest \in Outcomes
      BY <3>1 DEF Latest
    <3>3. QED BY <2>2, <3>2, DelayTyped
  <2>4. \A i \in DOMAIN outs' : ~Delivered(outs[i])'
    <3>1. \A i \in DOMAIN outs : ~Delivered(outs[i])
      BY <2>2 DEF RetryIInv, Latest
    <3>2. QED BY <2>2, <3>1 DEF Delivered
  <2>5. RetryTypeOK'
    BY <1>0, <2>2, <2>3, AbortedTyped DEF RetryTypeOK, Places
  <2>6. NoBodyLeftOpen'
    BY <1>0, <2>2, AbortedTyped DEF NoBodyLeftOpen, RetryIInv
  <2>7. attempt < Attempts /\ now <= Timeout + hooked
    BY <1>0, <2>2 DEF Left, RetryTypeOK
  <2>8. QED BY <1>0, <2>2, <2>4, <2>5, <2>6, <2>7 DEF RetryIInv
<1>10. CASE UNCHANGED retryVars
  <2>1. /\ RetryTypeOK' /\ NoBodyLeftOpen' /\ IsResp(Latest)' = IsResp(Latest)
        /\ \A i \in DOMAIN outs : Delivered(outs[i])' = Delivered(outs[i])
    BY <1>0, <1>10 DEF retryVars, RetryTypeOK, NoBodyLeftOpen, RetryIInv, IsResp, Latest, Delivered
  <2>2. QED BY <1>10, <2>1 DEF retryVars, RetryIInv
<1>11. QED BY <1>1, <1>2, <1>3, <1>4, <1>5, <1>6, <1>7, <1>8, <1>9, <1>10 DEF RetryNext

\* Every reachable state of attempt_with_retries() is one of RetryIInv.
THEOREM RetryInductive == RetrySpec => []RetryIInv
<1>1. QED BY RetryInitIInv, RetryNextIInv, PTL DEF RetrySpec

\* attempt_with_retries(): no sum of attempts, waits and clamped Retry-After
\* goes over the caller's timeout, save for the hooks and one attempt's floor.
THEOREM BudgetHeld == RetrySpec => []BudgetKept
<1>1. RetryIInv => BudgetKept
  BY RetryAssumption DEF RetryIInv, RetryTypeOK, BudgetKept, Floor
<1>2. QED BY <1>1, RetryInductive, PTL

\* watch_delivery(): once bytes of an attempt have reached the callback, no
\* other attempt follows.
THEOREM OneBodyDelivered == RetrySpec => []OneBody
<1>1. RetryIInv => OneBody
  <2> SUFFICES ASSUME RetryIInv PROVE OneBody
    OBVIOUS
  <2> DEFINE D == {i \in DOMAIN outs : Delivered(outs[i])}
  <2>1. D = {} \/ D = {Len(outs)}
    BY DEF RetryIInv
  <2>2. Cardinality(D) = 0 \/ Cardinality(D) = 1
    BY <2>1, FS_EmptySet, FS_Singleton
  <2>3. QED BY <2>2 DEF OneBody
<1>2. QED BY <1>1, RetryInductive, PTL

\* zu_resp_abort() in the loop and behind check = TRUE: a streamed response
\* that is retried or raised does not keep its connection.
THEOREM NoneLeftOpen == RetrySpec => []NoBodyLeftOpen
<1>1. RetryIInv => NoBodyLeftOpen
  BY DEF RetryIInv
<1>2. QED BY <1>1, RetryInductive, PTL
-----------------------------------------------------------------------------
\* A frame on top of the stack.
LEMMA PushedStack ==
  ASSUME NEW s \in Seq(Frames), NEW f \in Frames
  PROVE  /\ Append(s, f) \in Seq(Frames) /\ Append(s, f) # <<>>
         /\ Len(Append(s, f)) = Len(s) + 1 /\ Append(s, f)[Len(s) + 1] = f
         /\ \A i \in 1..Len(s) : Append(s, f)[i] = s[i]
  OBVIOUS

\* The stack without its n upper frames.
LEMMA PoppedStack ==
  ASSUME NEW s \in Seq(Frames), NEW n \in 0..Len(s)
  PROVE  LET t == SubSeq(s, 1, Len(s) - n)
         IN  /\ t \in Seq(Frames) /\ Len(t) = Len(s) - n
             /\ \A i \in 1..Len(s) - n : t[i] = s[i]
  OBVIOUS

\* A user function calls into the engine, which keeps the tick it finds.
LEMMA EnginePushed ==
  ASSUME NEW s \in Seq(Frames), NEW t \in Int, WellNested(s, t), NEW f \in Frames,
         s # <<>> => s[Len(s)].kind \in User, f.kind \in Engine, f.prev = t
  PROVE  WellNested(Append(s, f), Len(s) + 1)
<1> DEFINE r == Append(s, f)
<1>1. /\ r \in Seq(Frames) /\ r # <<>> /\ Len(r) = Len(s) + 1 /\ r[Len(s) + 1] = f
      /\ \A i \in 1..Len(s) : r[i] = s[i]
  BY PushedStack
<1>2. Len(s) \in Nat /\ (s = <<>> <=> Len(s) = 0) /\ DOMAIN s = 1..Len(s) /\ DOMAIN r = 1..Len(s) + 1
  BY <1>1
<1> HIDE DEF r
<1>3. ASSUME NEW i \in 1..Len(s) + 1
      PROVE  /\ IF i = 1 THEN r[i].kind \in Engine ELSE r[i].kind \in Engine <=> r[i - 1].kind \in User
             /\ r[i].kind \in Engine => r[i].prev = IF i = 1 THEN 0 ELSE i - 2
             /\ i > 1 /\ r[i - 1].kind = "read" => r[i].kind = "body" /\ r[i].client = r[i - 1].client
  <2>1. CASE i \in 1..Len(s)
    <3>1. r[i] = s[i] /\ (i > 1 => r[i - 1] = s[i - 1]) /\ i \in DOMAIN s /\ i \in Int /\ i >= 1
      BY <1>1, <1>2, <2>1
    <3>2. /\ IF i = 1 THEN s[i].kind \in Engine ELSE s[i].kind \in Engine <=> s[i - 1].kind \in User
          /\ s[i].kind \in Engine => s[i].prev = IF i = 1 THEN 0 ELSE i - 2
          /\ i > 1 /\ s[i - 1].kind = "read" => s[i].kind = "body" /\ s[i].client = s[i - 1].client
      BY <3>1 DEF WellNested
    <3>3. QED BY <3>1, <3>2
  <2>2. CASE i = Len(s) + 1
    <3>1. r[i] = f /\ (i > 1 => r[i - 1] = s[Len(s)])
      BY <1>1, <1>2, <2>2
    <3>2. Len(s) = 0 => t = 0
      BY <1>2 DEF WellNested
    <3>3. Len(s) > 0 => t = Len(s) - 1 /\ s[Len(s)].kind \in User
      <4>1. Len(s) > 0 => s # <<>> /\ s[Len(s)].kind \notin Engine
        BY <1>2 DEF User, Engine
      <4>2. QED BY <1>2, <4>1 DEF WellNested
    <3>5. i = 1 => Len(s) = 0
      BY <1>2, <2>2
    <3>6. i # 1 => Len(s) > 0 /\ i - 2 = Len(s) - 1 /\ i > 1
      BY <1>2, <2>2
    <3>7. r[i].prev = IF i = 1 THEN 0 ELSE i - 2
      BY <3>1, <3>2, <3>3, <3>5, <3>6
    <3>4. QED BY <3>1, <3>3, <3>6, <3>7 DEF User, Engine
  <2>3. QED BY <1>2, <2>1, <2>2
<1>4. QED BY <1>1, <1>2, <1>3 DEF WellNested, r

\* The engine calls a user function, which for a read is its response's own.
LEMMA UserPushed ==
  ASSUME NEW s \in Seq(Frames), NEW t \in Int, WellNested(s, t), NEW f \in Frames,
         s # <<>>, s[Len(s)].kind \in Engine, f.kind \in User,
         s[Len(s)].kind = "read" => f.kind = "body" /\ f.client = s[Len(s)].client
  PROVE  WellNested(Append(s, f), t)
<1> DEFINE r == Append(s, f)
<1>1. /\ r \in Seq(Frames) /\ r # <<>> /\ Len(r) = Len(s) + 1 /\ r[Len(s) + 1] = f
      /\ \A i \in 1..Len(s) : r[i] = s[i]
  BY PushedStack
<1>2. Len(s) \in Nat \ {0} /\ DOMAIN s = 1..Len(s) /\ DOMAIN r = 1..Len(s) + 1
  BY <1>1
<1> HIDE DEF r
<1>3. ASSUME NEW i \in 1..Len(s) + 1
      PROVE  /\ IF i = 1 THEN r[i].kind \in Engine ELSE r[i].kind \in Engine <=> r[i - 1].kind \in User
             /\ r[i].kind \in Engine => r[i].prev = IF i = 1 THEN 0 ELSE i - 2
             /\ i > 1 /\ r[i - 1].kind = "read" => r[i].kind = "body" /\ r[i].client = r[i - 1].client
  <2>1. CASE i \in 1..Len(s)
    <3>1. r[i] = s[i] /\ (i > 1 => r[i - 1] = s[i - 1]) /\ i \in DOMAIN s /\ i \in Int /\ i >= 1
      BY <1>1, <1>2, <2>1
    <3>2. /\ IF i = 1 THEN s[i].kind \in Engine ELSE s[i].kind \in Engine <=> s[i - 1].kind \in User
          /\ s[i].kind \in Engine => s[i].prev = IF i = 1 THEN 0 ELSE i - 2
          /\ i > 1 /\ s[i - 1].kind = "read" => s[i].kind = "body" /\ s[i].client = s[i - 1].client
      BY <3>1 DEF WellNested
    <3>3. QED BY <3>1, <3>2
  <2>2. CASE i = Len(s) + 1
    <3>1. r[i] = f /\ r[i - 1] = s[Len(s)] /\ i > 1
      BY <1>1, <1>2, <2>2
    <3>2. QED BY <3>1 DEF User, Engine
  <2>3. QED BY <1>2, <2>1, <2>2
<1>4. t = Len(s) /\ r[Len(r)].kind \notin Engine
  BY <1>1, <1>2 DEF WellNested, User, Engine, r
<1>5. QED BY <1>1, <1>2, <1>3, <1>4 DEF WellNested, r

\* n frames leave, of which the lowest is a user frame when the tick stays,
\* and an engine frame when the one it kept is put back.
LEMMA FramesLeft ==
  ASSUME NEW s \in Seq(Frames), NEW t \in Int, WellNested(s, t), NEW n \in 1..Len(s), NEW u \in Int,
         \/ n = 1 /\ s[Len(s)].kind \in User /\ u = t
         \/ s[Len(s) - n + 1].kind \in Engine /\ u = s[Len(s) - n + 1].prev
  PROVE  WellNested(SubSeq(s, 1, Len(s) - n), u)
<1> DEFINE r == SubSeq(s, 1, Len(s) - n)
<1>1. r \in Seq(Frames) /\ Len(r) = Len(s) - n /\ \A i \in 1..Len(s) - n : r[i] = s[i]
  BY PoppedStack
<1> HIDE DEF r
<1>2. /\ Len(s) \in Nat \ {0} /\ Len(r) \in 0..Len(s) - 1 /\ DOMAIN s = 1..Len(s)
      /\ DOMAIN r = 1..Len(r) /\ (r = <<>> <=> Len(r) = 0)
  <2>1. Len(s) \in Nat /\ Len(r) \in Nat /\ n \in Int /\ 1 <= n /\ n <= Len(s)
    BY <1>1
  <2>2. QED BY <1>1, <2>1
<1>6. \A i \in 1..Len(s) :
        /\ i = 1 => s[i].kind \in Engine
        /\ i > 1 => (s[i].kind \in Engine <=> s[i - 1].kind \in User)
        /\ s[i].kind \in Engine => s[i].prev = IF i = 1 THEN 0 ELSE i - 2
        /\ i > 1 /\ s[i - 1].kind = "read" => s[i].kind = "body" /\ s[i].client = s[i - 1].client
        /\ s[i].kind \in Engine \cup User
  <2>1. ASSUME NEW i \in 1..Len(s) PROVE s[i].kind \in Engine \cup User
    <3>1. s[i] \in Frames
      BY <2>1
    <3>2. QED BY <3>1 DEF Frames, Engine, User
  <2>2. ASSUME NEW i \in 1..Len(s)
        PROVE  /\ i = 1 => s[i].kind \in Engine
               /\ i > 1 => (s[i].kind \in Engine <=> s[i - 1].kind \in User)
               /\ s[i].kind \in Engine => s[i].prev = IF i = 1 THEN 0 ELSE i - 2
               /\ i > 1 /\ s[i - 1].kind = "read" => s[i].kind = "body" /\ s[i].client = s[i - 1].client
    <3>1. i \in DOMAIN s
      BY <1>2
    <3>2. QED BY <3>1 DEF WellNested
  <2>3. QED BY <2>1, <2>2
<1>7. s # <<>> /\ s[Len(s)].kind \notin Engine => t = Len(s) - 1
  BY DEF WellNested
<1>3. ASSUME NEW i \in 1..Len(r)
      PROVE  /\ IF i = 1 THEN r[i].kind \in Engine ELSE r[i].kind \in Engine <=> r[i - 1].kind \in User
             /\ r[i].kind \in Engine => r[i].prev = IF i = 1 THEN 0 ELSE i - 2
             /\ i > 1 /\ r[i - 1].kind = "read" => r[i].kind = "body" /\ r[i].client = r[i - 1].client
  <2>1. Len(s) \in Nat /\ n \in Int /\ n >= 1 /\ i \in Int /\ 1 <= i /\ i <= Len(s) - n
    <3>1. Len(s) \in Nat
      OBVIOUS
    <3>2. n \in Int /\ n >= 1
      BY <3>1
    <3>3. i \in 1..Len(s) - n
      BY <1>1, <1>3
    <3>4. QED BY <3>1, <3>2, <3>3
  <2>2. i \in 1..Len(s) - n /\ i \in 1..Len(s) /\ (i > 1 => i - 1 \in 1..Len(s) - n)
    BY <2>1
  <2>3. r[i] = s[i] /\ (i > 1 => r[i - 1] = s[i - 1])
    BY <1>1, <2>2
  <2>4. /\ i = 1 => s[i].kind \in Engine
        /\ i > 1 => (s[i].kind \in Engine <=> s[i - 1].kind \in User)
        /\ s[i].kind \in Engine => s[i].prev = IF i = 1 THEN 0 ELSE i - 2
        /\ i > 1 /\ s[i - 1].kind = "read" => s[i].kind = "body" /\ s[i].client = s[i - 1].client
    BY <1>6, <2>2
  <2>5. i = 1 \/ i > 1
    BY <2>1
  <2>6. QED BY <2>3, <2>4, <2>5
<1>4. /\ r = <<>> => u = 0
      /\ r # <<>> => u = IF r[Len(r)].kind \in Engine THEN Len(r) ELSE Len(r) - 1
  <2> DEFINE k == Len(s) - n + 1
  <2>1. /\ k \in 1..Len(s) /\ k = Len(r) + 1 /\ (k = 1 <=> r = <<>>)
        /\ k > 1 => r[Len(r)] = s[k - 1] /\ k - 1 \in 1..Len(s)
    BY <1>1, <1>2
  <2>2. CASE s[k].kind \in Engine /\ u = s[k].prev
    <3>1. u = IF k = 1 THEN 0 ELSE k - 2
      BY <1>6, <2>1, <2>2
    <3>2. k > 1 => s[k - 1].kind \notin Engine
      BY <1>6, <2>1, <2>2 DEF User, Engine
    <3>3. QED BY <1>2, <2>1, <3>1, <3>2
  <2>3. CASE n = 1 /\ s[Len(s)].kind \in User /\ u = t
    <3>1. k = Len(s) /\ s[k].kind \notin Engine /\ s # <<>>
      BY <1>2, <2>3 DEF User, Engine
    <3>2. t = Len(s) - 1
      BY <1>7, <3>1
    <3> HIDE DEF k
    <3>3. k # 1
      BY <1>6, <2>1, <3>1
    <3>4. k > 1 /\ k \in Int
      BY <2>1, <3>3
    <3>5. s[k - 1].kind \in Engine
      BY <1>6, <2>1, <3>1, <3>4
    <3>6. r # <<>> /\ r[Len(r)].kind \in Engine /\ u = Len(r)
      <4>1. r # <<>> /\ r[Len(r)] = s[k - 1]
        BY <2>1, <3>4
      <4>2. Len(r) = Len(s) - 1
        BY <1>1, <2>3
      <4>3. QED BY <2>3, <3>2, <3>5, <4>1, <4>2
    <3>7. QED BY <3>6
  <2>4. QED BY <2>2, <2>3
<1>5. QED BY <1>1, <1>2, <1>3, <1>4 DEF WellNested, r

\* What Reentry calls the innermost request.
LEMMA Innermost ==
  ASSUME NEW s \in Seq(Frames), NEW t \in Int, WellNested(s, t)
  PROVE  LET engine == {i \in DOMAIN s : s[i].kind \in Engine}
         IN  t = IF engine = {} THEN 0 ELSE Max(engine)
<1> DEFINE engine == {i \in DOMAIN s : s[i].kind \in Engine}
<1>1. /\ Len(s) \in Nat /\ DOMAIN s = 1..Len(s) /\ (s = <<>> <=> Len(s) = 0)
      /\ \A i \in 1..Len(s) : s[i] \in Frames
  OBVIOUS
<1>2. CASE Len(s) = 0
  <2>1. engine = {} /\ t = 0
    BY <1>1, <1>2 DEF WellNested
  <2>2. QED BY <2>1
<1>3. ASSUME Len(s) > 0 PROVE t \in engine /\ \A i \in engine : t >= i
  <2>1. CASE s[Len(s)].kind \in Engine
    <3>1. t = Len(s)
      BY <1>1, <1>3, <2>1 DEF WellNested
    <3>2. QED BY <1>1, <1>3, <2>1, <3>1
  <2>2. CASE s[Len(s)].kind \notin Engine
    <3>9. s # <<>> /\ Len(s) \in DOMAIN s
      BY <1>1, <1>3
    <3>1. t = Len(s) - 1
      BY <2>2, <3>9 DEF WellNested
    <3>2. Len(s) \in DOMAIN s /\ Len(s) # 1
      <4>1. 1 \in DOMAIN s => s[1].kind \in Engine
        BY DEF WellNested
      <4>2. QED BY <2>2, <3>9, <4>1
    <3>3. s[Len(s) - 1].kind \notin User
      BY <2>2, <3>2 DEF WellNested
    <3>4. Len(s) - 1 \in 1..Len(s)
      BY <1>1, <1>3, <3>2
    <3>5. s[Len(s) - 1] \in Frames
      BY <1>1, <3>4
    <3>6. s[Len(s) - 1].kind \in Engine
      BY <3>3, <3>5 DEF Frames, User, Engine
    <3>7. \A i \in engine : i # Len(s)
      BY <2>2
    <3>8. QED BY <1>1, <3>1, <3>4, <3>6, <3>7
  <2>3. QED BY <2>1, <2>2
<1>4. CASE Len(s) > 0
  <2>1. engine # {} /\ \A x \in engine : x \in Int
    BY <1>1, <1>3, <1>4
  <2>2. \A x \in engine : (\A y \in engine : x >= y) => x = t
    BY <1>3, <1>4, <2>1
  <2>3. Max(engine) = t
    <3> HIDE DEF engine
    <3>1. QED BY <1>3, <1>4, <2>2 DEF Max
  <2>4. QED BY <2>1, <2>3
<1>5. QED BY <1>1, <1>2, <1>4

\* A response that is read has nothing above it that would be disturbed: its
\* body function is there, and Read() asks.
LEMMA ReadsApart ==
  ASSUME IInv, NEW f \in Frames, stack' = Append(stack, f),
         f.kind = "read" => (stack # <<>> => Top.kind \in User) /\ ~Busy(f.client)
  PROVE  SourceNotReentered'
<1>1. /\ stack \in Seq(Frames) /\ Len(stack) \in Nat /\ DOMAIN stack = 1..Len(stack)
      /\ stack' \in Seq(Frames) /\ Len(stack') = Len(stack) + 1 /\ stack'[Len(stack) + 1] = f
      /\ \A i \in 1..Len(stack) : stack'[i] = stack[i]
  BY PushedStack DEF IInv, TypeOK
<1>2. SUFFICES ASSUME NEW i \in DOMAIN stack', NEW j \in DOMAIN stack', i < j,
                      stack'[i].kind = "read", stack'[j].kind = "read"
               PROVE  stack'[i].client # stack'[j].client
  BY DEF SourceNotReentered
<1>3. i \in 1..Len(stack) /\ j \in 1..Len(stack) + 1
  BY <1>1, <1>2
<1>4. CASE j \in 1..Len(stack)
  BY <1>1, <1>2, <1>3, <1>4 DEF IInv, SourceNotReentered
<1>5. CASE j = Len(stack) + 1
  <2>1. stack[i].kind = "read" /\ f.kind = "read" /\ stack'[j] = f /\ stack'[i] = stack[i]
    BY <1>1, <1>2, <1>3, <1>5
  <2>2. i # Len(stack)
    <3>1. stack # <<>>
      BY <1>1, <1>3
    <3>2. Top.kind # "read"
      BY <2>1, <3>1 DEF User
    <3>3. QED BY <2>1, <3>2 DEF Top
  <2>3. i + 1 \in 2..Len(stack) /\ i + 1 - 1 = i /\ i + 1 \in DOMAIN stack
    BY <1>1, <1>3, <2>2
  <2>4. stack[i + 1].kind = "body" /\ stack[i + 1].client = stack[i].client
    BY <2>1, <2>3 DEF IInv, WellNested
  <2>5. stack[i].client # f.client
    BY <2>1, <2>3, <2>4 DEF Busy
  <2>6. QED BY <2>1, <2>5
<1>6. QED BY <1>1, <1>3, <1>4, <1>5

\* Frames that leave disturb no other.
LEMMA ReadsKept ==
  ASSUME IInv, NEW n \in 0..Len(stack), stack' = SubSeq(stack, 1, Len(stack) - n)
  PROVE  SourceNotReentered' /\ stack' \in Seq(Frames) /\ Len(stack') <= MaxDepth
<1>1. /\ stack \in Seq(Frames) /\ Len(stack) \in Nat /\ DOMAIN stack = 1..Len(stack) /\ Len(stack) <= MaxDepth
      /\ stack' \in Seq(Frames) /\ Len(stack') = Len(stack) - n
      /\ \A i \in 1..Len(stack) - n : stack'[i] = stack[i]
  BY PoppedStack DEF IInv, TypeOK
<1>2. \A i \in DOMAIN stack' : i \in DOMAIN stack /\ stack'[i] = stack[i]
  <2>1. stack' \in Seq(Frames) /\ Len(stack') = Len(stack) - n
    BY <1>1
  <2>2. DOMAIN stack' = 1..Len(stack) - n
    BY <2>1
  <2>3. DOMAIN stack = 1..Len(stack) /\ Len(stack) \in Nat
    BY <1>1
  <2>4. 1..Len(stack) - n \subseteq 1..Len(stack)
    <3> DEFINE l == Len(stack)
    <3>1. l \in Nat /\ n \in 0..l
      BY <2>3
    <3> HIDE DEF l
    <3>2. 1..l - n \subseteq 1..l
      BY <3>1
    <3>3. QED BY <3>2 DEF l
  <2>5. \A i \in 1..Len(stack) - n : stack'[i] = stack[i]
    BY <1>1
  <2>6. QED BY <2>2, <2>3, <2>4, <2>5
<1>3. SourceNotReentered'
  BY <1>2 DEF IInv, SourceNotReentered
<1>4. Len(stack) \in Nat /\ MaxDepth \in Nat
  BY <1>1, ReentryAssumption
<1>5. n \in Int /\ n >= 0
  BY <1>4
<1>6. Len(stack') = Len(stack) - n /\ Len(stack) <= MaxDepth
  BY <1>1
<1>7. Len(stack') <= MaxDepth
  BY <1>4, <1>5, <1>6
<1>8. QED BY <1>1, <1>3, <1>7

LEMMA InitIInv == Init => IInv
  BY ReentryAssumption DEF Init, IInv, TypeOK, WellNested, SourceNotReentered

\* Where the stack is not empty, its top is a frame.
LEMMA TopFrame ==
  ASSUME IInv, stack # <<>>
  PROVE  /\ Len(stack) \in Nat \ {0} /\ stack \in Seq(Frames) /\ Top \in Frames
         /\ Top = stack[Len(stack)] /\ Len(stack) \in DOMAIN stack /\ tick \in Int
<1>1. stack \in Seq(Frames) /\ tick \in Int
  BY ReentryAssumption DEF IInv, TypeOK
<1>2. QED BY <1>1 DEF Top

\* C_zu_perform() or C_zu_stream_read() is entered.
LEMMA EngineStep ==
  ASSUME IInv, NEW f \in Frames, UserRuns, Len(stack) < MaxDepth, f.kind \in Engine, f.prev = tick,
         f.kind = "read" => ~Busy(f.client),
         stack' = Append(stack, f), tick' = Len(stack) + 1,
         UNCHANGED <<in_callback, src, jumped, resumes>>
  PROVE  IInv'
<1>1. stack \in Seq(Frames) /\ tick \in Int /\ Len(stack) \in Nat /\ MaxDepth \in Nat
  BY ReentryAssumption DEF IInv, TypeOK
<1>2. WellNested(stack', tick')
  <2>1. stack # <<>> => stack[Len(stack)].kind \in User
    BY DEF UserRuns, Top
  <2>2. QED BY <1>1, <2>1, EnginePushed DEF IInv
<1>3. SourceNotReentered'
  BY ReadsApart DEF UserRuns
<1>4. stack' \in Seq(Frames) /\ Len(stack') <= MaxDepth /\ tick' \in 0..MaxDepth
  BY <1>1, PushedStack
<1>5. TypeOK'
  BY <1>4 DEF IInv, TypeOK
<1>6. QED BY <1>2, <1>3, <1>5 DEF IInv

LEMMA FrameTyped ==
  ASSUME IInv, NEW k \in Engine \cup User, NEW c \in Clients
  PROVE  Frame(k, c) \in Frames /\ Frame(k, c).kind = k /\ Frame(k, c).client = c /\ Frame(k, c).prev = tick
  BY DEF Frame, Frames, Engine, User, IInv, TypeOK

\* cb_write() or src_next() calls the caller's function.
LEMMA UserStep ==
  ASSUME IInv, stack # <<>>, NEW k \in User, Top.kind \in Engine, Top.kind = "read" => k = "body",
         Enter(k, Top.client)
  PROVE  IInv'
<1> DEFINE f == Frame(k, Top.client)
<1>1. /\ stack \in Seq(Frames) /\ tick \in Int /\ Len(stack) \in Nat /\ MaxDepth \in Nat
      /\ Top \in Frames /\ Top.client \in Clients /\ Top = stack[Len(stack)]
  <2>1. Top \in Frames /\ stack \in Seq(Frames) /\ tick \in Int /\ Len(stack) \in Nat /\ Top = stack[Len(stack)]
    BY TopFrame
  <2>2. QED BY <2>1, ReentryAssumption DEF Frames
<1>2. f \in Frames /\ f.kind = k /\ f.client = Top.client
  BY <1>1, FrameTyped
<1>3. /\ Len(stack) < MaxDepth /\ stack' = Append(stack, f) /\ tick' = tick
      /\ in_callback' = [in_callback EXCEPT ![Top.client] = TRUE] /\ UNCHANGED <<src, jumped, resumes>>
  BY DEF Enter
<1> HIDE DEF f
<1>4. WellNested(stack', tick')
  BY <1>1, <1>2, <1>3, UserPushed DEF IInv
<1>5. SourceNotReentered'
  BY <1>2, <1>3, ReadsApart DEF User
<1>6. stack' \in Seq(Frames) /\ Len(stack') <= MaxDepth
  BY <1>1, <1>2, <1>3, PushedStack
<1>7. TypeOK'
  BY <1>3, <1>6 DEF IInv, TypeOK
<1>8. QED BY <1>4, <1>5, <1>7 DEF IInv

\* n frames leave, by a return or by a jump.
LEMMA LeaveStep ==
  ASSUME IInv, NEW n \in 1..Len(stack), stack' = SubSeq(stack, 1, Len(stack) - n),
         \/ n = 1 /\ stack[Len(stack)].kind \in User /\ tick' = tick
         \/ stack[Len(stack) - n + 1].kind \in Engine /\ tick' = stack[Len(stack) - n + 1].prev,
         in_callback' \in [Clients -> BOOLEAN], jumped' \in [Clients -> BOOLEAN],
         src' \in [Clients -> {"none", "live", "over"}], resumes' \in [Clients -> Nat]
  PROVE  IInv'
<1>1. stack \in Seq(Frames) /\ tick \in 0..MaxDepth /\ Len(stack) \in Nat /\ MaxDepth \in Nat
  BY ReentryAssumption DEF IInv, TypeOK
<1>2. tick' \in 0..MaxDepth
  <2>1. CASE tick' = tick
    BY <1>1, <2>1
  <2>2. CASE tick' = stack[Len(stack) - n + 1].prev
    <3>1. Len(stack) - n + 1 \in 1..Len(stack)
      BY <1>1
    <3>2. stack[Len(stack) - n + 1] \in Frames
      BY <1>1, <3>1
    <3>3. QED BY <2>2, <3>2 DEF Frames
  <2>3. QED BY <2>1, <2>2
<1>3. WellNested(stack', tick')
  <2>1. tick' \in Int /\ tick \in Int
    BY <1>1, <1>2
  <2>2. QED BY <1>1, <2>1, FramesLeft DEF IInv
<1>4. SourceNotReentered' /\ stack' \in Seq(Frames) /\ Len(stack') <= MaxDepth
  BY <1>1, ReadsKept
<1>5. TypeOK'
  BY <1>2, <1>4 DEF TypeOK
<1>6. QED BY <1>3, <1>4, <1>5 DEF IInv

LEMMA NextIInv == IInv /\ [Next]_vars => IInv'
<1> SUFFICES ASSUME IInv, [Next]_vars PROVE IInv'
  OBVIOUS
<1>0. /\ stack \in Seq(Frames) /\ Len(stack) \in Nat /\ tick \in 0..MaxDepth /\ MaxDepth \in Nat
      /\ in_callback \in [Clients -> BOOLEAN] /\ jumped \in [Clients -> BOOLEAN]
      /\ src \in [Clients -> {"none", "live", "over"}] /\ resumes \in [Clients -> Nat]
  BY ReentryAssumption DEF IInv, TypeOK
<1>1. CASE \E c \in Clients : \E cb, bf, st \in BOOLEAN : Perform(c, cb, bf, st)
  <2>1. PICK c \in Clients, cb \in BOOLEAN, bf \in BOOLEAN, st \in BOOLEAN : Perform(c, cb, bf, st)
    BY <1>1
  <2> DEFINE f == [Frame("perform", c) EXCEPT !.callback = cb, !.body_stream = bf, !.stream = st]
  <2>2. f \in Frames /\ f.kind = "perform" /\ f.prev = tick
    BY <1>0 DEF Frame, Frames
  <2>3. /\ UserRuns /\ Len(stack) < MaxDepth /\ stack' = Append(stack, f) /\ tick' = Len(stack) + 1
        /\ UNCHANGED <<in_callback, src, jumped, resumes>>
    BY <2>1 DEF Perform
  <2> HIDE DEF f
  <2>4. QED BY <2>2, <2>3, EngineStep DEF Engine
<1>2. CASE \E c \in Clients : Read(c)
  <2>1. PICK c \in Clients : Read(c)
    BY <1>2
  <2>2. /\ Frame("read", c) \in Frames /\ Frame("read", c).kind = "read"
        /\ Frame("read", c).client = c /\ Frame("read", c).prev = tick
    BY FrameTyped DEF Engine
  <2>3. /\ UserRuns /\ Len(stack) < MaxDepth /\ ~Busy(c)
        /\ stack' = Append(stack, Frame("read", c)) /\ tick' = Len(stack) + 1
        /\ UNCHANGED <<in_callback, src, jumped, resumes>>
    BY <2>1 DEF Read
  <2>4. QED BY <2>2, <2>3, EngineStep DEF Engine
<1>3. CASE \E c \in Clients : ReadAgain(c) \/ Drop(c)
  <2>1. PICK c \in Clients : ReadAgain(c) \/ Drop(c)
    BY <1>3
  <2>2. /\ UNCHANGED <<stack, in_callback, tick>>
        /\ jumped' \in [Clients -> BOOLEAN] /\ resumes' \in [Clients -> Nat]
        /\ src' \in [Clients -> {"none", "live", "over"}]
    <3>1. CASE ReadAgain(c)
      BY <1>0, <3>1 DEF ReadAgain
    <3>2. CASE Drop(c)
      BY <1>0, <3>2 DEF Drop
    <3>3. QED BY <2>1, <3>1, <3>2
  <2>3. QED BY <2>2 DEF IInv, TypeOK, SourceNotReentered
<1>4. CASE CallCallback
  BY <1>4, UserStep DEF CallCallback, User, Engine
<1>5. CASE CallBody
  BY <1>5, UserStep DEF CallBody, User, Engine
<1>6. CASE Return
  <2>1. /\ stack # <<>> /\ Top = stack[Len(stack)] /\ stack[Len(stack)].kind \in User
        /\ stack' = SubSeq(stack, 1, Len(stack) - 1) /\ in_callback' = Cleared
        /\ UNCHANGED <<tick, src, jumped, resumes>>
    BY <1>6 DEF Return, Popped, Top
  <2>2. in_callback' \in [Clients -> BOOLEAN] /\ 1 \in 1..Len(stack)
    <3>1. in_callback' \in [Clients -> BOOLEAN]
      BY <1>0, <2>1 DEF Cleared
    <3>2. Len(stack) # 0
      BY <1>0, <2>1
    <3>3. QED BY <1>0, <3>1, <3>2
  <2>3. QED BY <1>0, <2>1, <2>2, LeaveStep
<1>7. CASE Throw
  <2>1. /\ stack # <<>> /\ Top \in Frames /\ Top.client \in Clients /\ stack[Len(stack)].kind \in User
        /\ stack' = SubSeq(stack, 1, Len(stack) - 2) /\ in_callback' = Cleared
        /\ tick' = stack[Len(stack) - 1].prev
    <3>1. stack # <<>> /\ Top.kind \in User
      BY <1>7 DEF Throw
    <3>2. Top \in Frames /\ Top = stack[Len(stack)]
      BY <3>1, TopFrame
    <3>3. QED BY <1>7, <3>1, <3>2 DEF Throw, Popped, ClearedOnThrow, TickRestored, Frames
  <2>2. Len(stack) > 1 /\ stack[Len(stack) - 1].kind \in Engine
    <3>1. Len(stack) \in DOMAIN stack /\ Len(stack) # 1
      BY <1>0, <2>1 DEF IInv, WellNested, User, Engine
    <3>2. Len(stack) > 1 /\ Len(stack) - 1 \in 1..Len(stack)
      <4>1. Len(stack) \in Nat /\ Len(stack) # 0
        BY <1>0, <2>1
      <4>2. Len(stack) # 1
        BY <3>1
      <4>3. QED BY <4>1, <4>2
    <3>3. stack[Len(stack) - 1] \in Frames
      BY <1>0, <3>2
    <3>4. stack[Len(stack) - 1].kind \notin User
      BY <2>1, <3>1 DEF IInv, WellNested, User, Engine
    <3>5. QED BY <3>2, <3>3, <3>4 DEF Frames, User, Engine
  <2>3. /\ in_callback' \in [Clients -> BOOLEAN] /\ jumped' \in [Clients -> BOOLEAN]
        /\ src' \in [Clients -> {"none", "live", "over"}] /\ resumes' \in [Clients -> Nat]
    <3>1. in_callback' \in [Clients -> BOOLEAN]
      BY <1>0, <2>1 DEF Cleared
    <3>2. CASE stack[Len(stack) - 1].kind = "read"
      <4>1. /\ src' = [src EXCEPT ![Top.client] = "over"]
            /\ jumped' = [jumped EXCEPT ![Top.client] = TRUE]
            /\ resumes' = [resumes EXCEPT ![Top.client] = @ + 1]
        BY <1>7, <3>2 DEF Throw
      <4>2. QED BY <1>0, <2>1, <3>1, <4>1
    <3>3. CASE stack[Len(stack) - 1].kind # "read"
      BY <1>0, <1>7, <3>1, <3>3 DEF Throw
    <3>4. QED BY <3>2, <3>3
  <2>4. 2 \in 1..Len(stack) /\ Len(stack) - 2 + 1 = Len(stack) - 1
    BY <1>0, <2>2
  <2>5. QED BY <2>1, <2>2, <2>3, <2>4, LeaveStep
<1>8. CASE \E b \in BOOLEAN : PerformDone(b) \/ ReadDone(b)
  <2>1. PICK b \in BOOLEAN : PerformDone(b) \/ ReadDone(b)
    BY <1>8
  <2>2. /\ stack # <<>> /\ Top.kind \in Engine /\ tick' = Top.prev
        /\ stack' = SubSeq(stack, 1, Len(stack) - 1)
        /\ UNCHANGED <<in_callback, jumped, resumes>>
        /\ src' \in {src, [src EXCEPT ![Top.client] = "live"], [src EXCEPT ![Top.client] = "over"]}
    BY <2>1 DEF PerformDone, ReadDone, Popped, Engine
  <2>3. src' \in [Clients -> {"none", "live", "over"}] /\ 1 \in 1..Len(stack)
    BY <1>0, <2>2
  <2>4. Len(stack) - 1 + 1 = Len(stack) /\ Top = stack[Len(stack)]
    BY <1>0 DEF Top
  <2>5. QED BY <1>0, <2>2, <2>3, <2>4, LeaveStep
<1>9. CASE UNCHANGED vars
  BY <1>9 DEF vars, IInv, TypeOK, SourceNotReentered
<1>10. QED BY <1>1, <1>2, <1>3, <1>4, <1>5, <1>6, <1>7, <1>8, <1>9 DEF Next

\* In every reachable state engine and user frames alternate, and each frame
\* saved the tick of the engine frame below it.
THEOREM ReentryInductive == Spec => []IInv
<1>1. QED BY InitIInv, NextIInv, PTL DEF Spec

\* init.c, g_tick_current: through every nesting, return and jump, an interrupt
\* is noted in the innermost running request, and never in one that is gone.
THEOREM TickFollows == Spec => []TickIsInnermost
<1>1. IInv => TickIsInnermost
  <2> SUFFICES ASSUME IInv PROVE TickIsInnermost
    OBVIOUS
  <2>1. stack \in Seq(Frames) /\ tick \in Int
    BY ReentryAssumption DEF IInv, TypeOK
  <2>2. QED BY <2>1, Innermost DEF IInv, TickIsInnermost
<1>2. QED BY <1>1, ReentryInductive, PTL

\* zuh_open_body_busy(): nghttp2 is not entered again for a response whose body
\* function it is calling, however deep between them the caller's functions are.
THEOREM NotReentered == Spec => []SourceNotReentered
<1>1. IInv => SourceNotReentered
  BY DEF IInv
<1>2. QED BY <1>1, ReentryInductive, PTL
=============================================================================
