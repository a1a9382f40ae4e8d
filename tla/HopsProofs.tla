----------------------------- MODULE HopsProofs -----------------------------
(***************************************************************************)
(* The redirect chain is safe for every set of URLs, every limit and every *)
(* answer: credentials, bodies and connections end up where they should.   *)
(***************************************************************************)
EXTENDS Hops, SequenceTheorems, TLAPS

\* Origins are equal when the scheme and the host are.
LEMMA OriginTransitive ==
  ASSUME NEW u, NEW v, NEW w, SameOrigin(u, v), SameOrigin(v, w)
  PROVE  SameOrigin(u, w)
BY DEF SameOrigin

\* What zuh_reuse_decide() and the surplus let back into the pool is in step.
LEMMA ReusableInStep ==
  ASSUME NEW r \in Responses, Reusable(r)
  PROVE  InStep(r)
<1>1. r.read \in {"whole", "surplus", "over", "cut", "reset", "late", "stopped"}
  BY DEF Responses
<1>2. CASE ReuseDecide(ReadCode(r), r)
  BY <1>1, <1>2 DEF Reusable, ReuseDecide, ReadCode, InStep
<1>3. CASE r.read = "stopped" /\ use_h2 /\ ReuseDecide("OK", r)
  BY <1>3 DEF ReuseDecide, InStep
<1> QED BY <1>2, <1>3 DEF Reusable

\* One more request at the end of the history.
LEMMA SentGrows ==
  ASSUME NEW s \in Seq(Request), NEW q \in Request
  PROVE  /\ Append(s, q) \in Seq(Request)
         /\ Len(Append(s, q)) = Len(s) + 1
         /\ DOMAIN Append(s, q) = 1..(Len(s) + 1)
         /\ DOMAIN s = 1..Len(s)
         /\ \A i \in DOMAIN s : Append(s, q)[i] = s[i]
         /\ Append(s, q)[Len(s) + 1] = q
         /\ Len(s) \in Nat
BY AppendProperties, LenProperties

LEMMA InitIInv == Init => IInv
<1> SUFFICES ASSUME Init PROVE IInv
  OBVIOUS
<1> USE HopsAssumption DEF Init
<1>1. TypeOK
  <2>1. req \in Requests /\ pc \in Places /\ err \in Errors /\ use_h2 \in BOOLEAN
        /\ conn \in BOOLEAN /\ strip_creds \in BOOLEAN /\ skewed \in BOOLEAN
    BY DEF Places, Errors
  <2>2. src_live \in BOOLEAN
    BY Zenon
  <2>3. /\ cur \in Urls /\ method \in Methods /\ body \in {"none", "memory"}
        /\ hops \in 0..MaxRedirects /\ trail \subseteq Methods \X Urls
        /\ held \subseteq 0..MaxRedirects /\ sank \subseteq 0..MaxRedirects
        /\ sent \in Seq(Request) /\ done \in Nat
    BY DEF Requests
  <2>4. resp \in [status : Statuses \cup {0}, loc : Locations]
    BY DEF Locations
  <2>5. QED BY <2>1, <2>2, <2>3, <2>4 DEF TypeOK
<1>2. sent = <<>> /\ Len(sent) = 0 /\ DOMAIN sent = {}
  OBVIOUS
<1>3. CredentialsStayHome /\ BodyFollowsMethod /\ ChainBounded
  BY <1>2 DEF CredentialsStayHome, BodyFollowsMethod, ChainBounded
<1>4. FinalBodyOnly /\ PooledInStep /\ ConnectionsAccounted
  BY <1>2 DEF FinalBodyOnly, PooledInStep, ConnectionsAccounted
<1>5. HopsCounted /\ OnTrail
  BY <1>2 DEF HopsCounted, OnTrail
<1>6. HomeUnlessStripped /\ BodyAtHand /\ NothingHeld
  BY <1>1, <1>2 DEF HomeUnlessStripped, SameOrigin, BodyAtHand, NothingHeld, TypeOK
<1> QED BY <1>1, <1>3, <1>4, <1>5, <1>6 DEF IInv

\* An exit from the loop, with the connection gone: the request is raised.
LEMMA Exit ==
  ASSUME IInv, pc' = "raised", err' \in Errors, conn' = FALSE,
         UNCHANGED <<req, method, body, src_live, strip_creds, hops, trail, cur,
                     use_h2, resp, held, sent, sank, skewed>>,
         \/ ~conn /\ done' = done
         \/ conn /\ done' = done + 1
  PROVE  IInv'
<1> USE DEF IInv
<1>1. TypeOK'
  <2>1. done' \in Nat
    BY DEF TypeOK
  <2>2. pc' \in Places /\ conn' \in BOOLEAN
    BY DEF Places
  <2> QED BY <2>1, <2>2 DEF TypeOK
<1>2. HopsCounted' /\ ConnectionsAccounted'
  BY DEF HopsCounted, ConnectionsAccounted, TypeOK, Places
<1>3. (CredentialsStayHome /\ BodyFollowsMethod /\ ChainBounded /\ HomeUnlessStripped)'
  BY DEF CredentialsStayHome, BodyFollowsMethod, ChainBounded, HomeUnlessStripped
<1>4. (FinalBodyOnly /\ PooledInStep /\ OnTrail /\ BodyAtHand /\ NothingHeld)'
  BY DEF FinalBodyOnly, PooledInStep, OnTrail, BodyAtHand, NothingHeld
<1> QED BY <1>1, <1>2, <1>3, <1>4

LEMMA StepExit ==
  ASSUME IInv, Refuse \/ OpenFails \/ ExchangeFails \/ DecideRefuses
  PROVE  IInv'
<1>1. CASE Refuse
  <2>1. pc' = "raised" /\ err' \in Errors /\ conn = FALSE
    BY <1>1 DEF Refuse, Raise, Errors, IInv, HopsCounted, TypeOK
  <2> QED BY <1>1, <2>1, Exit DEF Refuse, hopVars
<1>2. CASE OpenFails
  <2>1. pc' = "raised" /\ err' \in Errors /\ conn = FALSE
    BY <1>2 DEF OpenFails, Raise, Errors, IInv, HopsCounted, TypeOK
  <2> QED BY <1>2, <2>1, Exit DEF OpenFails, hopVars
<1>3. CASE ExchangeFails
  <2>1. pc' = "raised" /\ err' \in Errors /\ conn
    BY <1>3 DEF ExchangeFails, Raise, Errors, IInv, HopsCounted, TypeOK
  <2> QED BY <1>3, <2>1, Exit DEF ExchangeFails, Drop, hopVars
<1>4. CASE DecideRefuses
  <2>1. pc' = "raised" /\ err' \in Errors
    BY <1>4 DEF DecideRefuses, Raise, Errors
  <2>2. conn = FALSE
    BY <1>4 DEF DecideRefuses, IInv, HopsCounted, TypeOK
  <2> QED BY <1>4, <2>1, <2>2, Exit DEF DecideRefuses, hopVars
<1> QED BY <1>1, <1>2, <1>3, <1>4

LEMMA StepStart ==
  ASSUME IInv, Start
  PROVE  IInv'
<1> USE DEF IInv, Start
<1>1. sent = <<>> /\ DOMAIN sent = {}
  <2>1. Len(sent) = 0 /\ sent \in Seq(Request)
    BY DEF HopsCounted, TypeOK
  <2> QED BY <2>1, EmptySeq
<1>2. TypeOK'
  BY DEF TypeOK, Places
<1>3. HopsCounted' /\ ConnectionsAccounted'
  BY DEF HopsCounted, ConnectionsAccounted
<1>4. (CredentialsStayHome /\ BodyFollowsMethod /\ ChainBounded /\ HomeUnlessStripped)'
  BY DEF CredentialsStayHome, BodyFollowsMethod, ChainBounded, HomeUnlessStripped
<1>5. (FinalBodyOnly /\ PooledInStep /\ BodyAtHand /\ NothingHeld)'
  BY DEF FinalBodyOnly, PooledInStep, BodyAtHand, NothingHeld
<1>6. OnTrail'
  BY <1>1 DEF OnTrail
<1> QED BY <1>2, <1>3, <1>4, <1>5, <1>6

LEMMA StepOpen ==
  ASSUME IInv, NEW h2 \in BOOLEAN, Open(h2)
  PROVE  IInv'
<1> USE DEF IInv, Open, hopVars
<1>1. TypeOK'
  BY DEF TypeOK, Places
<1>2. HopsCounted' /\ ConnectionsAccounted'
  BY DEF HopsCounted, ConnectionsAccounted, TypeOK
<1>3. (CredentialsStayHome /\ BodyFollowsMethod /\ ChainBounded /\ HomeUnlessStripped)'
  BY DEF CredentialsStayHome, BodyFollowsMethod, ChainBounded, HomeUnlessStripped
<1>4. (FinalBodyOnly /\ PooledInStep /\ OnTrail /\ BodyAtHand /\ NothingHeld)'
  BY DEF FinalBodyOnly, PooledInStep, OnTrail, BodyAtHand, NothingHeld
<1> QED BY <1>1, <1>2, <1>3, <1>4

LEMMA StepReturn ==
  ASSUME IInv, Return
  PROVE  IInv'
<1> USE DEF IInv, Return, hopVars
<1>1. TypeOK'
  BY DEF TypeOK, Places
<1>2. HopsCounted' /\ ConnectionsAccounted'
  BY DEF HopsCounted, ConnectionsAccounted, TypeOK
<1>3. (CredentialsStayHome /\ BodyFollowsMethod /\ ChainBounded /\ HomeUnlessStripped)'
  BY DEF CredentialsStayHome, BodyFollowsMethod, ChainBounded, HomeUnlessStripped
<1>4. (PooledInStep /\ OnTrail /\ BodyAtHand)'
  BY DEF PooledInStep, OnTrail, BodyAtHand
<1>5. FinalBodyOnly' /\ NothingHeld'
  BY DEF FinalBodyOnly, NothingHeld, Asked
<1> QED BY <1>1, <1>2, <1>3, <1>4, <1>5

LEMMA StepSend ==
  ASSUME IInv, Send
  PROVE  IInv'
<1> USE DEF IInv, Send, hopVars
<1> DEFINE q == [method |-> method, url |-> cur, creds |-> ~strip_creds,
                 body |-> IF src_live THEN "source" ELSE body]
<1>1. q \in Request
  <2>1. q.creds \in BOOLEAN
    BY DEF TypeOK
  <2>2. q.body \in Bodies /\ q.method \in Methods /\ q.url \in Urls
    BY DEF TypeOK, Bodies
  <2> QED BY <2>1, <2>2 DEF Request
<1>2. sent' = Append(sent, q) /\ sent \in Seq(Request)
  BY DEF TypeOK
<1>3. /\ q.method = method /\ q.url = cur /\ q.body = (IF src_live THEN "source" ELSE body)
      /\ q.creds = ~strip_creds
  OBVIOUS
<1> HIDE DEF q
<1>4. /\ sent' \in Seq(Request) /\ Len(sent') = Len(sent) + 1
      /\ DOMAIN sent' = 1..(Len(sent) + 1) /\ DOMAIN sent = 1..Len(sent)
      /\ \A i \in DOMAIN sent : sent'[i] = sent[i]
      /\ sent'[Len(sent) + 1] = q /\ Len(sent) \in Nat
  BY <1>1, <1>2, SentGrows
<1>5. \A i \in DOMAIN sent' : i \in DOMAIN sent \/ (i = Len(sent) + 1 /\ sent'[i] = q)
  BY <1>4
<1>6. Len(sent) = hops /\ hops \in Nat
  BY HopsAssumption DEF HopsCounted, TypeOK
<1>7. TypeOK'
  BY <1>4 DEF TypeOK, Places
<1>8. HopsCounted' /\ ConnectionsAccounted'
  BY <1>4, <1>6 DEF HopsCounted, ConnectionsAccounted, TypeOK
<1>9. HomeUnlessStripped'
  BY <1>3, <1>4, <1>5 DEF HomeUnlessStripped
<1>10. CredentialsStayHome'
  <2> SUFFICES ASSUME NEW i \in DOMAIN sent', sent'[i].creds, NEW j \in 1..i
               PROVE  SameOrigin(sent'[j].url, req.url)
    BY DEF CredentialsStayHome
  <2>1. CASE i \in DOMAIN sent
    <3>1. j \in DOMAIN sent /\ sent'[i] = sent[i] /\ sent'[j] = sent[j]
      BY <2>1, <1>4
    <3> QED BY <3>1, <2>1 DEF CredentialsStayHome
  <2>2. CASE i = Len(sent) + 1 /\ sent'[i] = q
    <3>1. ~strip_creds
      BY <2>2, <1>3 DEF TypeOK
    <3>2. j \in DOMAIN sent'
      BY <1>4
    <3> QED BY <3>1, <3>2, <1>9 DEF HomeUnlessStripped
  <2> QED BY <2>1, <2>2, <1>5
<1>11. BodyAtHand'
  BY <1>3, <1>4, <1>5 DEF BodyAtHand
<1>12. BodyFollowsMethod'
  <2>1. ASSUME NEW i \in DOMAIN sent', NEW j \in DOMAIN sent', i < j, sent'[j].body # "none"
        PROVE  sent'[i].body = "memory" /\ sent'[j].body = "memory"
    <3>1. i \in DOMAIN sent /\ sent'[i] = sent[i]
      BY <2>1, <1>4, <1>5
    <3>2. CASE j \in DOMAIN sent
      BY <2>1, <3>1, <3>2, <1>4 DEF BodyFollowsMethod
    <3>3. CASE j = Len(sent) + 1 /\ sent'[j] = q
      <4>1. ~src_live
        BY <3>1, <1>4, <1>6 DEF BodyAtHand
      <4>2. body = "memory"
        BY <4>1, <2>1, <3>3, <1>3 DEF TypeOK
      <4> QED BY <4>1, <4>2, <3>1, <3>3, <1>3 DEF BodyAtHand
    <3> QED BY <3>2, <3>3, <1>5
  <2>2. ASSUME NEW i \in DOMAIN sent', sent'[i].method # req.method
        PROVE  sent'[i].body = "none"
    <3>1. CASE i \in DOMAIN sent
      BY <2>2, <3>1, <1>4 DEF BodyFollowsMethod
    <3>2. CASE i = Len(sent) + 1 /\ sent'[i] = q
      BY <2>2, <3>2, <1>3 DEF BodyAtHand, TypeOK
    <3> QED BY <3>1, <3>2, <1>5
  <2> QED BY <2>1, <2>2 DEF BodyFollowsMethod
<1>13. OnTrail'
  BY <1>3, <1>4, <1>5 DEF OnTrail
<1>14. ChainBounded'
  <2>1. Len(sent') <= MaxRedirects + 1
    BY <1>4, <1>6, HopsAssumption DEF TypeOK
  <2>2. ASSUME NEW i \in DOMAIN sent', NEW j \in DOMAIN sent', i < j
        PROVE  /\ <<sent'[i].method, sent'[i].url>> # <<sent'[j].method, sent'[j].url>>
               /\ sent'[i].url.https => sent'[j].url.https
    <3>1. i \in DOMAIN sent /\ sent'[i] = sent[i]
      BY <2>2, <1>4, <1>5
    <3>2. CASE j \in DOMAIN sent
      BY <2>2, <3>1, <3>2, <1>4 DEF ChainBounded
    <3>3. CASE j = Len(sent) + 1 /\ sent'[j] = q
      BY <3>1, <3>3, <1>3 DEF OnTrail
    <3> QED BY <3>2, <3>3, <1>5
  <2> QED BY <2>1, <2>2 DEF ChainBounded
<1>15. (FinalBodyOnly /\ PooledInStep /\ NothingHeld)'
  BY DEF FinalBodyOnly, PooledInStep, NothingHeld
<1> QED BY <1>7, <1>8, <1>9, <1>10, <1>11, <1>12, <1>13, <1>14, <1>15

LEMMA StepReceive ==
  ASSUME IInv, NEW r \in Responses, Receive(r)
  PROVE  IInv'
<1> USE DEF IInv, Receive, hopVars
<1>1. /\ pc = "receive" /\ conn' = FALSE /\ done' = done + 1 /\ sank = {} /\ held = {}
      /\ done = hops /\ Len(sent) = hops + 1 /\ hops \in 0..MaxRedirects /\ hops \in Nat
  BY HopsAssumption DEF Done, NothingHeld, HopsCounted, TypeOK
<1>2. skewed' = FALSE
  <2>1. ~skewed
    BY DEF PooledInStep
  <2>2. ~(~Streamed(r) /\ Reusable(r) /\ ~InStep(r))
    BY ReusableInStep
  <2> QED BY <2>1, <2>2, Zenon DEF Done
<1>3. /\ pc' \in {"decide", "raised"} /\ err' \in Errors
      /\ resp' \in [status : Statuses \cup {0}, loc : Locations]
      /\ pc' = "decide" => resp' = [status |-> r.status, loc |-> r.loc]
  <2>1. CASE Final(r) = "OK"
    BY <2>1 DEF TypeOK, Responses
  <2>2. CASE Final(r) # "OK"
    BY <2>2 DEF TypeOK, Raise, Errors
  <2> QED BY <2>1, <2>2
<1>4. held' \subseteq {hops} /\ sank' \subseteq {hops}
  BY <1>1
<1>5. pc' = "decide" => (Asked' => sank' = {})
  <2> SUFFICES ASSUME pc' = "decide", Asked' PROVE sank' = {}
    OBVIOUS
  <2>1. MayFollow(r)
    BY <1>3 DEF Asked, MayFollow
  <2> QED BY <2>1, <1>1 DEF ToSink
<1>6. TypeOK'
  <2>1. skewed' \in BOOLEAN /\ conn' \in BOOLEAN
    BY <1>1, <1>2
  <2>2. done' \in Nat /\ held' \subseteq 0..MaxRedirects /\ sank' \subseteq 0..MaxRedirects
    BY <1>1, <1>4
  <2> QED BY <1>3, <2>1, <2>2 DEF TypeOK, Places
<1>7. HopsCounted' /\ ConnectionsAccounted'
  BY <1>1, <1>3 DEF HopsCounted, ConnectionsAccounted, TypeOK
<1>8. (CredentialsStayHome /\ BodyFollowsMethod /\ ChainBounded /\ HomeUnlessStripped)'
  BY DEF CredentialsStayHome, BodyFollowsMethod, ChainBounded, HomeUnlessStripped
<1>9. (OnTrail /\ BodyAtHand)'
  BY <1>3 DEF OnTrail, BodyAtHand
<1>10. PooledInStep'
  BY <1>2 DEF PooledInStep
<1>11. (FinalBodyOnly /\ NothingHeld)'
  BY <1>3, <1>4, <1>5 DEF FinalBodyOnly, NothingHeld
<1> QED BY <1>6, <1>7, <1>8, <1>9, <1>10, <1>11

LEMMA StepFollow ==
  ASSUME IInv, Follow
  PROVE  IInv'
<1> USE DEF IInv, Follow
<1> DEFINE next == resp.loc
           m == IF Rewritten THEN "GET" ELSE method
<1>1. /\ pc = "decide" /\ Asked /\ next \in Urls /\ m \in Methods
      /\ cur' = next /\ method' = m /\ hops' = hops + 1 /\ src_live' = FALSE
      /\ strip_creds' = Strip /\ (cur.https => next.https)
      /\ body' = (IF DropBody THEN "none" ELSE body)
  BY DEF TypeOK, Locations, Methods, Asked, Downgrade, SrcDone
<1>2. /\ conn = FALSE /\ done = hops + 1 /\ Len(sent) = hops + 1 /\ hops \in Nat
      /\ hops + 1 \in 0..MaxRedirects /\ sank = {}
  BY <1>1, HopsAssumption DEF HopsCounted, TypeOK, NothingHeld, TooMany
<1>3. /\ held' \subseteq 0..MaxRedirects /\ err' \in Errors
      /\ \/ pc' = "raised" /\ trail' = trail
         \/ /\ pc' = "open" /\ <<m, next>> \notin trail
            /\ trail' = trail \cup {<<m, next>>} /\ held' = {}
  BY <1>1 DEF TypeOK, Raise, Errors, HeldReset, Visited
<1> HIDE DEF next, m
<1>4. TypeOK'
  <2>1. strip_creds' \in BOOLEAN
    BY <1>1 DEF Strip, TypeOK
  <2>2. trail' \subseteq Methods \X Urls /\ pc' \in Places
    BY <1>1, <1>3 DEF TypeOK, Places
  <2>3. body' \in {"none", "memory"} /\ hops' \in 0..MaxRedirects /\ src_live' \in BOOLEAN
    BY <1>1, <1>2 DEF TypeOK
  <2> QED BY <1>1, <1>3, <2>1, <2>2, <2>3 DEF TypeOK
<1>5. HopsCounted' /\ ConnectionsAccounted'
  BY <1>1, <1>2, <1>3 DEF HopsCounted, ConnectionsAccounted
<1>6. OnTrail'
  <2>1. \A i \in DOMAIN sent : sent[i].url.https => next.https
    BY <1>1 DEF OnTrail
  <2> QED BY <2>1, <1>1, <1>3 DEF OnTrail
<1>7. HomeUnlessStripped'
  <2> SUFFICES ASSUME ~Strip
               PROVE  /\ SameOrigin(next, req.url)
                      /\ \A i \in DOMAIN sent : SameOrigin(sent[i].url, req.url)
    BY <1>1 DEF HomeUnlessStripped
  <2>1. ~strip_creds /\ SameOrigin(cur, next)
    BY DEF Strip, next, TypeOK
  <2> QED BY <2>1 DEF HomeUnlessStripped, SameOrigin
<1>8. BodyAtHand'
  <2> SUFFICES ASSUME body' = "memory"
               PROVE  m = req.method /\ \A i \in DOMAIN sent : sent[i].body = "memory"
    BY <1>1 DEF BodyAtHand
  <2>1. ~DropBody /\ body = "memory"
    BY <1>1
  <2>2. m = method
    BY <2>1 DEF DropBody, m
  <2> QED BY <2>1, <2>2 DEF BodyAtHand
<1>9. (CredentialsStayHome /\ ChainBounded /\ PooledInStep)'
  BY DEF CredentialsStayHome, ChainBounded, PooledInStep
<1>10. BodyFollowsMethod'
  BY DEF BodyFollowsMethod
<1>11. (FinalBodyOnly /\ NothingHeld)'
  BY <1>2, <1>3 DEF FinalBodyOnly, NothingHeld
<1> QED BY <1>4, <1>5, <1>6, <1>7, <1>8, <1>9, <1>10, <1>11

LEMMA Stutter ==
  ASSUME IInv, UNCHANGED vars
  PROVE  IInv'
<1> USE DEF IInv, vars
<1>1. TypeOK'
  BY DEF TypeOK
<1>2. (HopsCounted /\ ConnectionsAccounted /\ OnTrail /\ BodyAtHand /\ NothingHeld)'
  BY DEF HopsCounted, ConnectionsAccounted, OnTrail, BodyAtHand, NothingHeld, Asked
<1>3. (CredentialsStayHome /\ BodyFollowsMethod /\ ChainBounded /\ HomeUnlessStripped)'
  BY DEF CredentialsStayHome, BodyFollowsMethod, ChainBounded, HomeUnlessStripped
<1>4. (FinalBodyOnly /\ PooledInStep)'
  BY DEF FinalBodyOnly, PooledInStep
<1> QED BY <1>1, <1>2, <1>3, <1>4

\* IInv holds throughout every run of the hop loop, for any URLs, any limit on
\* redirects and any sequence of responses.
THEOREM Inductive == Spec => []IInv
<1>1. Init => IInv
  BY InitIInv
<1>2. IInv /\ [Next]_vars => IInv'
  <2> SUFFICES ASSUME IInv, [Next]_vars PROVE IInv'
    OBVIOUS
  <2>1. CASE Refuse \/ OpenFails \/ ExchangeFails \/ DecideRefuses
    BY <2>1, StepExit
  <2>2. CASE Start
    BY <2>2, StepStart
  <2>3. CASE Send
    BY <2>3, StepSend
  <2>4. CASE \E h2 \in BOOLEAN : Open(h2)
    BY <2>4, StepOpen
  <2>5. CASE \E r \in Responses : Receive(r)
    BY <2>5, StepReceive
  <2>6. CASE Return
    BY <2>6, StepReturn
  <2>7. CASE Follow
    BY <2>7, StepFollow
  <2>8. CASE UNCHANGED vars
    BY <2>8, Stutter
  <2> QED BY <2>1, <2>2, <2>3, <2>4, <2>5, <2>6, <2>7, <2>8 DEF Next
<1> QED BY <1>1, <1>2, PTL DEF Spec

\* Section 19.2: the credentials of zuh_req_spec never reach an origin other
\* than the first, nor the first again once the chain has left it.
THEOREM CredentialsSafe == Spec => []CredentialsStayHome
BY Inductive, PTL DEF IInv

\* Section 19.5: no byte of a followed redirect reaches the caller's sink or
\* the response's body.
THEOREM FinalBody == Spec => []FinalBodyOnly
BY Inductive, PTL DEF IInv

\* Sections 19.3 and 19.4: the chain of requests has no repetition, is no
\* longer than the limit allows and never steps down from HTTPS.
THEOREM Bounded == Spec => []ChainBounded
BY Inductive, PTL DEF IInv

\* Sections 19.1 and 28.2: bodies are sent with the method they were given
\* for, and a streamed one once.
THEOREM BodiesSafe == Spec => []BodyFollowsMethod
BY Inductive, PTL DEF IInv

\* Section 26.3: what perform_hops() releases for reuse is in step.
THEOREM PoolFedInStep == Spec => []PooledInStep
BY Inductive, PTL DEF IInv

\* Review #187: perform_hops() accounts for every connection on every exit.
THEOREM NoConnectionLost == Spec => []ConnectionsAccounted
BY Inductive, PTL DEF IInv
=============================================================================
