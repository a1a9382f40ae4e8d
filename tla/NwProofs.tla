------------------------------ MODULE NwProofs ------------------------------
(***************************************************************************)
(* The inductive invariant of the Network.framework stream and what follows *)
(* from it, for every value of the constants.  One lemma for each part of   *)
(* IInv, with one step for each action.                                     *)
(***************************************************************************)
EXTENDS Nw, TLAPS, SequenceTheorems

\* Each field of the two records may change alone within its type.
LEMMA SharedFields ==
  ASSUME NEW s \in Shared
  PROVE  /\ \A v \in BOOLEAN :
              /\ [s EXCEPT !.live = v] \in Shared /\ [s EXCEPT !.rx_pending = v] \in Shared
              /\ [s EXCEPT !.rx_eof = v] \in Shared /\ [s EXCEPT !.rx_failed = v] \in Shared
              /\ [s EXCEPT !.send_failed = v] \in Shared /\ [s EXCEPT !.verify_ran = v] \in Shared
              /\ [s EXCEPT !.report_done = v] \in Shared
         /\ \A v \in Int : [s EXCEPT !.refs = v] \in Shared /\ [s EXCEPT !.sends_pending = v] \in Shared
         /\ \A v \in Nat : [s EXCEPT !.rx_off = v] \in Shared
         /\ \A v \in Seq(Nat) : [s EXCEPT !.rx = v] \in Shared
         /\ \A v \in Verdicts : [s EXCEPT !.verify_err = v] \in Shared
         /\ \A v \in Domains \cup {"none"} : [s EXCEPT !.nw_domain = v] \in Shared
         /\ \A v \in {"SETUP", "READY", "FAILED", "CANCELLED"} : [s EXCEPT !.state = v] \in Shared
  BY DEF Shared

LEMMA ConnectionFields ==
  ASSUME NEW f \in Connection
  PROVE  /\ \A v \in BOOLEAN :
              /\ [f EXCEPT !.cancel = v] \in Connection /\ [f EXCEPT !.verified = v] \in Connection
              /\ [f EXCEPT !.report = v] \in Connection /\ [f EXCEPT !.fin = v] \in Connection
         /\ \A v \in Nat :
              /\ [f EXCEPT !.recv = v] \in Connection /\ [f EXCEPT !.sends = v] \in Connection
              /\ [f EXCEPT !.sent = v] \in Connection
         /\ \A v \in 0..2 : [f EXCEPT !.owner = v] \in Connection
         /\ \A v \in {"none", "setup", "refused", "ready", "failed", "cancelled"} :
              [f EXCEPT !.state = v] \in Connection
  BY DEF Connection

LEMMA InitialTyped == NoShared \in Shared /\ NoConnection \in Connection /\ Fresh \in Shared
<1>1. NoShared \in Shared
  BY DEF NoShared, Shared, Domains, Verdicts
<1>2. NoConnection \in Connection
  BY DEF NoConnection, Connection
<1>3. TRUE \in BOOLEAN /\ 2 \in Int
  OBVIOUS
<1>4. Fresh \in Shared
  BY <1>1, <1>3, SharedFields, Zenon DEF Fresh
<1>5. QED BY <1>1, <1>2, <1>4

\* What the helpers that change the shared state return.
LEMMA ArmTyped ==
  ASSUME NEW s \in Shared, NEW f \in Connection
  PROVE  ArmShared(s) \in Shared /\ ArmConnection(s, f) \in Connection
<1>1. s.refs + 1 \in Int /\ f.recv + 1 \in Nat
  BY DEF Shared, Connection
<1>2. ArmShared(s) \in Shared
  BY <1>1, SharedFields, Zenon DEF ArmShared
<1>3. ArmConnection(s, f) \in Connection
  BY <1>1, ConnectionFields, Zenon DEF ArmConnection
<1>4. QED BY <1>2, <1>3

LEMMA ReleaseTyped == ASSUME NEW s \in Shared PROVE Release(s) \in Shared
<1>1. s.refs - 1 \in Int /\ (s.refs > 1) \in BOOLEAN
  BY DEF Shared
<1>2. QED BY <1>1, SharedFields, Zenon DEF Release

\* What they leave alone.
LEMMA ArmChanges ==
  ASSUME NEW s \in Shared, NEW f \in Connection
  PROVE  /\ ArmShared(s).refs = s.refs + One(Arms(s))
         /\ ArmShared(s).rx_pending <=> s.rx_pending \/ Arms(s)
         /\ ArmShared(s).live = s.live /\ ArmShared(s).state = s.state
         /\ ArmShared(s).rx = s.rx /\ ArmShared(s).rx_off = s.rx_off
         /\ ArmShared(s).rx_eof = s.rx_eof /\ ArmShared(s).rx_failed = s.rx_failed
         /\ ArmShared(s).sends_pending = s.sends_pending
         /\ ArmShared(s).send_failed = s.send_failed
         /\ ArmShared(s).report_done = s.report_done
         /\ ArmConnection(s, f).recv = f.recv + One(Arms(s))
         /\ ArmConnection(s, f).owner = f.owner /\ ArmConnection(s, f).state = f.state
         /\ ArmConnection(s, f).sends = f.sends /\ ArmConnection(s, f).report = f.report
         /\ ArmConnection(s, f).sent = f.sent /\ ArmConnection(s, f).fin = f.fin
<1>1. CASE Arms(s)
  BY <1>1 DEF ArmShared, ArmConnection, One, Shared, Connection
<1>2. CASE ~Arms(s)
  BY <1>2 DEF ArmShared, ArmConnection, One, Shared, Connection
<1>3. QED BY <1>1, <1>2

\* Arithmetic of positions.
\* What continues the bytes handed out still does when more is appended.
LEMMA Continued ==
  ASSUME NEW s,
         /\ sh.rx_off \in Nat /\ Len(sh.rx) \in Nat /\ Len(got) \in Nat /\ fw.sent \in Nat
         /\ s.rx_off \in Nat /\ Len(s.rx) \in Nat,
         \A i \in s.rx_off + 1..Len(s.rx) :
           s.rx[i] = IF i - s.rx_off + sh.rx_off <= Len(sh.rx)
                     THEN sh.rx[i - s.rx_off + sh.rx_off]
                     ELSE fw.sent + (i - s.rx_off + sh.rx_off) - Len(sh.rx),
         \A i \in sh.rx_off + 1..Len(sh.rx) : sh.rx[i] = Len(got) - sh.rx_off + i,
         Len(got) + Len(sh.rx) - sh.rx_off = fw.sent
  PROVE  \A i \in s.rx_off + 1..Len(s.rx) : s.rx[i] = Len(got) - s.rx_off + i
<1> DEFINE r == sh.rx
           o == sh.rx_off
           n == Len(r)
           r2 == s.rx
           o2 == s.rx_off
           n2 == Len(r2)
           g == Len(got)
           sent == fw.sent
<1>1. /\ o \in Nat /\ n \in Nat /\ g \in Nat /\ sent \in Nat /\ o2 \in Nat /\ n2 \in Nat
      /\ \A i \in o + 1..n : r[i] = g - o + i
      /\ g + n - o = sent
      /\ \A i \in o2 + 1..n2 :
           r2[i] = IF i - o2 + o <= n THEN r[i - o2 + o] ELSE sent + (i - o2 + o) - n
  OBVIOUS
<1> HIDE DEF r, o, n, r2, o2, n2, g, sent
<1>2. ASSUME NEW i \in o2 + 1..n2 PROVE r2[i] = g - o2 + i
  <2>1. CASE i - o2 + o <= n
    <3>1. i - o2 + o \in o + 1..n
      BY <1>1, <2>1
    <3>2. r[i - o2 + o] = g - o + (i - o2 + o)
      BY <1>1, <3>1
    <3>3. QED BY <1>1, <2>1, <3>2
  <2>2. CASE ~(i - o2 + o <= n)
    BY <1>1, <2>2
  <2>3. QED BY <2>1, <2>2
<1>3. QED BY <1>2 DEF r2, o2, n2, g

LEMMA PlaceInRange ==
  \A a, b, t, d \in Int : a + t <= b /\ d \in 1..t => a + d \in a + 1..b
  OBVIOUS

LEMMA MinOfTwo ==
  ASSUME NEW a \in Int, NEW b \in Int
  PROVE  Min({a, b}) \in {a, b} /\ Min({a, b}) <= a /\ Min({a, b}) <= b
<1>1. \E x \in {a, b} : \A y \in {a, b} : x <= y
  OBVIOUS
<1>2. Min({a, b}) \in {a, b} /\ \A y \in {a, b} : Min({a, b}) <= y
  BY <1>1 DEF Min
<1>3. QED BY <1>2

LEMMA TakeTyped ==
  ASSUME NEW s \in Shared, NEW n \in Nat, s.rx_off <= Len(s.rx)
  PROVE  LET take == Min({n, Len(s.rx) - s.rx_off})
         IN  /\ take \in Nat /\ s.rx_off + take <= Len(s.rx) /\ take <= n
             /\ take = 0 /\ n > 0 => s.rx_off = Len(s.rx)
             /\ SubSeq(s.rx, s.rx_off + 1, s.rx_off + take) \in Seq(Nat)
             /\ Len(SubSeq(s.rx, s.rx_off + 1, s.rx_off + take)) = take
             /\ \A i \in 1..take : SubSeq(s.rx, s.rx_off + 1, s.rx_off + take)[i] = s.rx[s.rx_off + i]
<1> DEFINE take == Min({n, Len(s.rx) - s.rx_off})
<1>1. s.rx \in Seq(Nat) /\ s.rx_off \in Nat /\ Len(s.rx) \in Nat
  BY DEF Shared
<1>2. take \in {n, Len(s.rx) - s.rx_off} /\ take <= n /\ take <= Len(s.rx) - s.rx_off
  <2>1. Len(s.rx) - s.rx_off \in Int /\ n \in Int
    BY <1>1
  <2>2. QED BY <2>1, MinOfTwo
<1> HIDE DEF take
<1>3. /\ take \in Nat /\ s.rx_off + take <= Len(s.rx)
      /\ take = 0 /\ n > 0 => s.rx_off = Len(s.rx)
  BY <1>1, <1>2
<1> DEFINE first == s.rx_off + 1
           last == s.rx_off + take
           r == SubSeq(s.rx, first, last)
<1>4. first \in Int /\ last \in Int /\ \A i \in first..last : s.rx[i] \in Nat
  <2>1. first \in Int /\ last \in Int
    BY <1>1, <1>3
  <2>2. \A i \in first..last : i \in 1..Len(s.rx)
    BY <1>1, <1>3
  <2>3. \A i \in 1..Len(s.rx) : s.rx[i] \in Nat
    BY <1>1
  <2>4. QED BY <2>1, <2>2, <2>3
<1>5. (first <= last => last - first + 1 = take) /\ (~(first <= last) => take = 0)
  BY <1>1, <1>3
<1>6. \A i \in 1..take : i \in 1..last - first + 1 /\ first + i - 1 = s.rx_off + i
  BY <1>1, <1>3
<1> HIDE DEF first, last
<1>7. /\ r \in Seq(Nat)
      /\ Len(r) = IF first <= last THEN last - first + 1 ELSE 0
      /\ \A i \in 1..last - first + 1 : r[i] = s.rx[first + i - 1]
  BY <1>4, SubSeqProperties
<1> HIDE DEF r
<1>8. Len(r) = take /\ \A i \in 1..take : r[i] = s.rx[s.rx_off + i]
  BY <1>5, <1>6, <1>7
<1>9. QED BY <1>2, <1>3, <1>7, <1>8 DEF take, r, first, last

LEMMA AppendTyped ==
  ASSUME NEW s \in Shared, NEW k \in Nat, fw \in Connection
  PROVE  Content(k) \in Seq(Nat) /\ Len(Content(k)) = k /\ RxAppend(s, Content(k)) \in Shared
<1>1. fw.sent \in Nat /\ s.rx \in Seq(Nat)
  BY DEF Connection, Shared
<1>2. Content(k) \in Seq(Nat) /\ Len(Content(k)) = k
  BY <1>1 DEF Content
<1>3. s.rx \o Content(k) \in Seq(Nat)
  BY <1>1, <1>2, ConcatProperties
<1>4. 0 \in Nat
  OBVIOUS
<1>5. RxAppend(s, Content(k)) \in Shared
  BY <1>2, <1>3, <1>4, SharedFields, Zenon DEF RxAppend
<1>6. QED BY <1>2, <1>5

LEMMA GivenTyped == Given \subseteq Verdicts
  <1>1. \A cert \in Certs, cfg \in Cfgs : CheckTrust(cert, cfg) \in Verdicts
    BY DEF CheckTrust, Evaluated, Verdicts
  <1>2. QED BY <1>1 DEF Given

LEMMA AppendChanges ==
  ASSUME NEW s \in Shared, s.rx_off <= Len(s.rx), NEW k \in Nat, fw \in Connection
  PROVE  LET t == RxAppend(s, Content(k))
         IN  /\ t.state = s.state /\ t.refs = s.refs /\ t.live = s.live
             /\ t.rx_eof = s.rx_eof /\ t.rx_failed = s.rx_failed
             /\ t.sends_pending = s.sends_pending
             /\ Len(t.rx) - t.rx_off = Len(s.rx) - s.rx_off + k
             /\ \A i \in t.rx_off + 1..Len(t.rx) :
                  LET j == i - t.rx_off + s.rx_off
                  IN  t.rx[i] = IF j <= Len(s.rx) THEN s.rx[j] ELSE fw.sent + j - Len(s.rx)
<1>1. /\ s.rx \in Seq(Nat) /\ s.rx_off \in Nat /\ fw.sent \in Nat /\ Len(s.rx) \in Nat
      /\ Content(k) \in Seq(Nat) /\ Len(Content(k)) = k
      /\ \A i \in 1..k : Content(k)[i] = fw.sent + i
  BY AppendTyped DEF Shared, Connection, Content
<1>2. CASE s.rx_off > 0 /\ s.rx_off = Len(s.rx)
  <2>1. RxAppend(s, Content(k)) = [s EXCEPT !.rx = Content(k), !.rx_off = 0]
    BY <1>2 DEF RxAppend
  <2>2. QED BY <1>1, <1>2, <2>1 DEF Shared
<1>3. CASE ~(s.rx_off > 0 /\ s.rx_off = Len(s.rx))
  <2>1. RxAppend(s, Content(k)) = [s EXCEPT !.rx = @ \o Content(k)]
    BY <1>3 DEF RxAppend
  <2>2. /\ Len(s.rx \o Content(k)) = Len(s.rx) + k
        /\ \A i \in 1..Len(s.rx) + k :
             (s.rx \o Content(k))[i] = IF i <= Len(s.rx) THEN s.rx[i] ELSE fw.sent + i - Len(s.rx)
    <3>1. /\ Len(s.rx \o Content(k)) = Len(s.rx) + Len(Content(k))
          /\ \A i \in 1..Len(s.rx) + Len(Content(k)) :
               (s.rx \o Content(k))[i] =
                 IF i <= Len(s.rx) THEN s.rx[i] ELSE Content(k)[i - Len(s.rx)]
      BY <1>1, ConcatProperties
    <3>2. ASSUME NEW i \in 1..Len(s.rx) + k
          PROVE  (s.rx \o Content(k))[i] = IF i <= Len(s.rx) THEN s.rx[i] ELSE fw.sent + i - Len(s.rx)
      <4>1. CASE i <= Len(s.rx)
        BY <1>1, <3>1, <4>1
      <4>2. CASE i > Len(s.rx)
        <5>1. i - Len(s.rx) \in 1..k
          BY <1>1, <4>2
        <5>2. Content(k)[i - Len(s.rx)] = fw.sent + (i - Len(s.rx))
          BY <1>1, <5>1
        <5>3. (s.rx \o Content(k))[i] = Content(k)[i - Len(s.rx)]
          BY <1>1, <3>1, <4>2
        <5>4. QED BY <1>1, <4>2, <5>2, <5>3
      <4>3. QED BY <1>1, <4>1, <4>2
    <3>3. QED BY <1>1, <3>1, <3>2
  <2>3. LET t == RxAppend(s, Content(k))
        IN  /\ t.rx = s.rx \o Content(k) /\ t.rx_off = s.rx_off
            /\ t.state = s.state /\ t.refs = s.refs /\ t.live = s.live
            /\ t.rx_eof = s.rx_eof /\ t.rx_failed = s.rx_failed
            /\ t.sends_pending = s.sends_pending
    BY <2>1 DEF Shared
  <2> DEFINE t == RxAppend(s, Content(k))
  <2>4. /\ t.rx_off = s.rx_off /\ Len(t.rx) = Len(s.rx) + k
        /\ \A i \in 1..Len(s.rx) + k :
             t.rx[i] = IF i <= Len(s.rx) THEN s.rx[i] ELSE fw.sent + i - Len(s.rx)
    BY <2>2, <2>3
  <2> HIDE DEF t
  <2>5. /\ Len(t.rx) - t.rx_off = Len(s.rx) - s.rx_off + k
        /\ \A i \in t.rx_off + 1..Len(t.rx) : i - t.rx_off + s.rx_off = i
    BY <1>1, <2>4
  <2>6. \A i \in t.rx_off + 1..Len(t.rx) : i \in 1..Len(s.rx) + k
    BY <1>1, <2>4
  <2>7. QED BY <2>3, <2>4, <2>5, <2>6 DEF t
<1>4. QED BY <1>2, <1>3

\* read() either takes bytes and asks for the next, or changes neither record.
LEMMA ReadTaken ==
  ASSUME TypeOK, Ordered, NEW n \in 1..MaxBytes, ReadEnds(n)
  PROVE  \/ sh' = sh /\ fw' = fw /\ got' = got /\ (rc = "OK" => sh.rx_off = Len(sh.rx))
         \/ \E take \in Nat :
              LET s == [sh EXCEPT !.rx_off = @ + take]
              IN  /\ 0 < take /\ take <= n /\ s.rx_off <= Len(s.rx) /\ s \in Shared
                  /\ SubSeq(sh.rx, sh.rx_off + 1, sh.rx_off + take) \in Seq(Nat)
                  /\ Len(SubSeq(sh.rx, sh.rx_off + 1, sh.rx_off + take)) = take
                  /\ \A i \in 1..take :
                       SubSeq(sh.rx, sh.rx_off + 1, sh.rx_off + take)[i] = sh.rx[sh.rx_off + i]
                  /\ res' = "DATA" /\ got' = got \o SubSeq(sh.rx, sh.rx_off + 1, sh.rx_off + take)
                  /\ sh' = ArmShared(s) /\ fw' = ArmConnection(s, fw)
<1> DEFINE take == Min({n, Len(sh.rx) - sh.rx_off})
           s == [sh EXCEPT !.rx_off = @ + take]
           r == SubSeq(sh.rx, sh.rx_off + 1, sh.rx_off + take)
<1>1. sh \in Shared /\ n \in Nat /\ sh.rx_off <= Len(sh.rx) /\ sh.rx_off \in Nat
  BY DEF TypeOK, Ordered, Shared
<1>2. take \in Nat /\ sh.rx_off + take <= Len(sh.rx) /\ take <= n /\ r \in Seq(Nat)
      /\ Len(r) = take /\ (\A i \in 1..take : r[i] = sh.rx[sh.rx_off + i])
      /\ (take = 0 => sh.rx_off = Len(sh.rx))
  <2>1. n > 0
    OBVIOUS
  <2>2. QED BY <1>1, <2>1, TakeTyped, Zenon
<1>3. \/ sh' = sh /\ fw' = fw /\ got' = got /\ ~(rc = "OK" /\ take > 0)
      \/ /\ take > 0 /\ res' = "DATA" /\ got' = got \o r
         /\ sh' = ArmShared(s) /\ fw' = ArmConnection(s, fw)
  BY DEF ReadEnds, Ends
<1> HIDE DEF take, r
<1>4. sh.rx_off + take \in Nat
  BY <1>1, <1>2
<1>5. s \in Shared
  BY <1>1, <1>4, SharedFields, Zenon
<1>6. s.rx_off <= Len(s.rx)
  BY <1>1, <1>2 DEF Shared
<1>7. CASE /\ take > 0 /\ res' = "DATA" /\ got' = got \o r
           /\ sh' = ArmShared(s) /\ fw' = ArmConnection(s, fw)
  BY <1>2, <1>5, <1>6, <1>7 DEF r
<1>8. take \in Nat /\ (take = 0 => sh.rx_off = Len(sh.rx))
  BY <1>2
<1>9. take > 0 \/ take = 0
  BY <1>8
<1>10. CASE sh' = sh /\ fw' = fw /\ got' = got /\ ~(rc = "OK" /\ take > 0)
  BY <1>8, <1>9, <1>10
<1>11. QED BY <1>3, <1>7, <1>10
-----------------------------------------------------------------------------
\* The places of the caller and the queue stay together.
LEMMA ShapeStep == ASSUME IInv, [Next]_vars PROVE Shape'
<1>0. TypeOK /\ Shape /\ Counted /\ Ordered
  BY DEF IInv
<1>1. ASSUME WaitCheck PROVE Shape'
  BY <1>0, <1>1 DEF Shape, InWait, Mine, WaitCheck
<1>2. ASSUME WaitTick PROVE Shape'
  BY <1>0, <1>2 DEF Shape, InWait, Mine, WaitTick
<1>3. ASSUME WaitPoll PROVE Shape'
  BY <1>0, <1>3 DEF Shape, InWait, Mine, WaitPoll
<1>4. ASSUME DialForked PROVE Shape'
  BY <1>0, <1>4 DEF Shape, InWait, Mine, DialForked
<1>5. ASSUME DialStarts PROVE Shape'
  BY <1>0, <1>5 DEF Shape, InWait, Mine, TypeOK, Connection, DialStarts, Fresh, NoShared,
       NoConnection, Waits
<1>6. ASSUME NEW code \in {"TLS", "PROXY", "IO", "NOMEM", "CONNECT"}, DialFails(code)
      PROVE  Shape'
  BY <1>0, <1>6 DEF Shape, InWait, Mine, DialFails
<1>7. ASSUME ReadStarts PROVE Shape'
  BY <1>0, <1>7 DEF Shape, Mine, ReadStarts, Waits, ArmShared, ArmConnection, Arms
<1>8. ASSUME WriteStarts PROVE Shape'
  <2>1. pc = "open" /\ pc' \in {"open", "send"} /\ fw' = fw /\ q' = q /\ proc' = proc
        /\ goal' \in {goal, "none"}
    BY <1>8 DEF WriteStarts, Ends
  <2>2. sh'.live = sh.live
    BY <1>0, <1>8 DEF WriteStarts, TypeOK, Shared
  <2>3. QED BY <1>0, <2>1, <2>2 DEF Shape, InWait, Mine
<1>9. ASSUME NEW wait \in BOOLEAN, Readable(wait) PROVE Shape'
  BY <1>0, <1>9 DEF Shape, InWait, Mine, Readable, Ends, ArmShared, ArmConnection, Arms
<1>10. ASSUME Close PROVE Shape'
  BY <1>0, <1>10 DEF Shape, InWait, Mine, TypeOK, Connection, Close, CancelFor, Waits
<1>11. ASSUME Destroy PROVE Shape'
  BY <1>0, <1>11 DEF Shape, InWait, Mine, TypeOK, Connection, Destroy, CancelFor, Waits
<1>12. ASSUME DialSettled PROVE Shape'
  BY <1>0, <1>12 DEF Shape, InWait, Mine, TypeOK, Connection, DialSettled, CancelFor, Waits
<1>13. ASSUME ReportRetain PROVE Shape'
  BY <1>0, <1>13 DEF Shape, Mine, ReportRetain
<1>14. ASSUME ReportAsk PROVE Shape'
  BY <1>0, <1>14 DEF Shape, Mine, ReportAsk, Waits
<1>15. ASSUME DialOpened PROVE Shape'
  BY <1>0, <1>15 DEF Shape, InWait, Mine, DialOpened, Ends, ArmShared, ArmConnection, Arms
<1>16. ASSUME NEW n \in 1..MaxBytes, ReadEnds(n) PROVE Shape'
  <2>1. pc = "after" /\ goal = "rx" /\ pc' = "open" /\ q' = q /\ proc' = proc /\ goal' = "none"
    BY <1>16 DEF ReadEnds, Ends
  <2>2. /\ sh'.live = sh.live /\ fw'.owner = fw.owner /\ fw'.state = fw.state
        /\ fw'.report = fw.report
    <3>1. ASSUME NEW take \in Nat, NEW s \in Shared, s = [sh EXCEPT !.rx_off = @ + take],
                 sh' = ArmShared(s), fw' = ArmConnection(s, fw)
          PROVE  /\ sh'.live = sh.live /\ fw'.owner = fw.owner /\ fw'.state = fw.state
                 /\ fw'.report = fw.report
      BY <1>0, <3>1, ArmChanges DEF TypeOK, Shared
    <3>2. QED BY <1>0, <1>16, <3>1, ReadTaken
  <2>3. QED BY <1>0, <2>1, <2>2 DEF Shape, InWait, Mine
<1>17. ASSUME WriteSends PROVE Shape'
  BY <1>0, <1>17 DEF Shape, Mine, WriteSends, Waits
<1>18. ASSUME WriteEnds PROVE Shape'
  BY <1>0, <1>18 DEF Shape, InWait, Mine, WriteEnds, Ends
<1>19. ASSUME ReadablePolls PROVE Shape'
  BY <1>0, <1>19 DEF Shape, InWait, Mine, ReadablePolls
<1>20. ASSUME ReadableEnds PROVE Shape'
  BY <1>0, <1>20 DEF Shape, InWait, Mine, ReadableEnds, Ends
<1>21. ASSUME Cancelled PROVE Shape'
  BY <1>0, <1>21 DEF Shape, InWait, Mine, Cancelled
<1>22. ASSUME ReleaseStream PROVE Shape'
  BY <1>0, <1>22 DEF Shape, InWait, Mine, ReleaseStream, Release
<1>23. ASSUME Preparing PROVE Shape'
  BY <1>0, <1>23 DEF Shape, InWait, Mine, TypeOK, Connection, Preparing, StateChanged,
       StateAfter, Starting, caller
<1>24. ASSUME Ready PROVE Shape'
  BY <1>0, <1>24 DEF Shape, InWait, Mine, TypeOK, Connection, Ready, StateChanged, StateAfter,
       Starting, caller
<1>25. ASSUME CancelDone PROVE Shape'
  BY <1>0, <1>25 DEF Shape, InWait, Mine, TypeOK, Connection, CancelDone, StateChanged,
       StateAfter, Starting, caller
<1>26. ASSUME NEW error \in Domains \cup {"none"}, Waiting(error) PROVE Shape'
  BY <1>0, <1>26 DEF Shape, InWait, Mine, TypeOK, Connection, Waiting, StateChanged, StateAfter,
       Starting, caller
<1>27. ASSUME NEW error \in Domains, Failed(error) PROVE Shape'
  BY <1>0, <1>27 DEF Shape, InWait, Mine, TypeOK, Connection, Failed, StateChanged, StateAfter,
       Starting, caller
<1>28. ASSUME NEW k \in 0..MaxBytes, NEW short \in BOOLEAN, NEW complete \in BOOLEAN,
     NEW error \in BOOLEAN, Receive(k, short, complete, error)
      PROVE  Shape'
  BY <1>0, <1>28 DEF Shape, InWait, Mine, TypeOK, Connection, Receive, caller, RxAppend
<1>29. ASSUME NEW error \in BOOLEAN, Sent(error) PROVE Shape'
  BY <1>0, <1>29 DEF Shape, InWait, Mine, TypeOK, Connection, Sent, caller
<1>30. ASSUME Reported PROVE Shape'
  BY <1>0, <1>30 DEF Shape, InWait, Mine, TypeOK, Connection, Reported, caller
<1>31. ASSUME VerifyStarts PROVE Shape'
  BY <1>0, <1>31 DEF Shape, InWait, Mine, TypeOK, Connection, VerifyStarts, Starting, caller
<1>32. ASSUME NEW v \in Given, VerifyEnds(v) PROVE Shape'
  BY <1>0, <1>32 DEF Shape, InWait, Mine, VerifyEnds, caller
<1>33. ASSUME Wake PROVE Shape'
  BY <1>0, <1>33 DEF Shape, InWait, Mine, Wake, caller
<1>34. ASSUME BlockReleases PROVE Shape'
  BY <1>0, <1>34 DEF Shape, InWait, Mine, BlockReleases, Release, caller
<1>35. ASSUME Fork PROVE Shape'
  <2>1. /\ UNCHANGED <<sh, fw, q, pc, goal>> /\ proc = 1 /\ proc' \in {1, 2}
        /\ pc \in {"none", "open", "closed"}
    BY <1>35 DEF Fork
  <2>2. fw.owner \in 0..2 /\ fw.owner <= 1 /\ (pc # "none" => fw.owner = 1)
    BY <1>0, <2>1 DEF TypeOK, Connection, Shape
  <2>3. pc # "none" => sh.live
    <3>1. /\ sh.refs \in Int /\ fw.recv \in Nat /\ fw.sends \in Nat
      BY <1>0 DEF TypeOK, Shared, Connection
    <3>2. QED BY <1>0, <2>1, <2>2, <3>1 DEF Counted, One, Mine
  <2>4. QED BY <1>0, <2>1, <2>2, <2>3 DEF Shape, InWait, Mine
<1>36. ASSUME FrameworkKills PROVE Shape'
  BY <1>0, <1>36 DEF Shape, InWait, Mine, Arms, FrameworkKills
<1>37. ASSUME TwinPolls PROVE Shape'
  BY <1>0, <1>37 DEF Shape, InWait, Mine, Arms, TwinPolls, caller
<1>38. ASSUME UNCHANGED vars PROVE Shape'
  BY <1>0, <1>38 DEF Shape, InWait, Mine, vars
<1> QED
  BY <1>1, <1>2, <1>3, <1>4, <1>5, <1>6, <1>7, <1>8, <1>9, <1>10, <1>11, <1>12, <1>13, <1>14,
       <1>15, <1>16, <1>17, <1>18, <1>19, <1>20, <1>21, <1>22, <1>23, <1>24, <1>25, <1>26, <1>27,
       <1>28, <1>29, <1>30, <1>31, <1>32, <1>33, <1>34, <1>35, <1>36, <1>37, <1>38
  DEF Next, Wait, Operation, Continue, State, Completion, Verify, Verdict, BlockEnd

\* Every step keeps the types.
LEMMA TypeStep == ASSUME IInv, [Next]_vars PROVE TypeOK'
<1>0. TypeOK /\ Ordered
  BY DEF IInv
<1>1. ASSUME WaitCheck PROVE TypeOK'
  BY <1>0, <1>1 DEF TypeOK, WaitCheck
<1>2. ASSUME WaitTick PROVE TypeOK'
  BY <1>0, <1>2 DEF TypeOK, WaitTick
<1>3. ASSUME WaitPoll PROVE TypeOK'
  BY <1>0, <1>3 DEF TypeOK, WaitPoll
<1>4. ASSUME DialForked PROVE TypeOK'
  BY <1>0, <1>4 DEF TypeOK, DialForked
<1>5. ASSUME DialStarts PROVE TypeOK'
  <2>1. sh' \in Shared
    BY <1>5, InitialTyped DEF DialStarts
  <2>2. proc \in 0..2 /\ fw' = [NoConnection EXCEPT !.owner = proc, !.state = "setup"]
    BY <1>0, <1>5 DEF TypeOK, DialStarts
  <2>3. fw' \in Connection
    BY <2>2, InitialTyped, ConnectionFields, Zenon
  <2>4. QED BY <1>0, <1>5, <2>1, <2>3 DEF TypeOK, DialStarts, Waits, Goals
<1>6. ASSUME NEW code \in {"TLS", "PROXY", "IO", "NOMEM", "CONNECT"}, DialFails(code)
      PROVE  TypeOK'
  BY <1>0, <1>6 DEF TypeOK, DialFails
<1>7. ASSUME ReadStarts PROVE TypeOK'
  <2>1. sh' \in Shared
    BY <1>0, <1>7, ArmTyped DEF TypeOK, ReadStarts
  <2>2. fw' \in Connection
    BY <1>0, <1>7, ArmTyped DEF TypeOK, ReadStarts
  <2>3. QED BY <1>0, <1>7, <2>1, <2>2 DEF TypeOK, ReadStarts, Waits, Goals
<1>8. ASSUME WriteStarts PROVE TypeOK'
  <2> DEFINE s == [sh EXCEPT !.sends_pending = @ + 1, !.refs = @ + 1]
  <2>1. sh.sends_pending + 1 \in Int /\ sh.refs + 1 \in Int
    BY <1>0 DEF TypeOK, Shared
  <2>2. s \in Shared
    BY <1>0, <2>1, SharedFields, Zenon DEF TypeOK
  <2> HIDE DEF s
  <2>3. sh' \in {sh, s}
    BY <1>8 DEF WriteStarts, s
  <2>4. QED BY <1>0, <1>8, <2>2, <2>3 DEF TypeOK, WriteStarts, Ends, Goals
<1>9. ASSUME NEW wait \in BOOLEAN, Readable(wait) PROVE TypeOK'
  <2>1. sh' \in Shared
    BY <1>0, <1>9, ArmTyped DEF TypeOK, Readable
  <2>2. fw' \in Connection
    BY <1>0, <1>9, ArmTyped DEF TypeOK, Readable
  <2>3. QED BY <1>0, <1>9, <2>1, <2>2 DEF TypeOK, Readable, Ends, Goals
<1>10. ASSUME Close PROVE TypeOK'
  <2>1. TRUE \in BOOLEAN
    BY <1>0, <1>10 DEF TypeOK, Shared, Connection, Domains
  <2>2. fw' \in Connection
    BY <1>0, <1>10, <2>1, ConnectionFields, Zenon DEF TypeOK, Close, CancelFor
  <2>3. QED BY <1>0, <1>10, <2>2 DEF TypeOK, Close, CancelFor, Waits, Goals
<1>11. ASSUME Destroy PROVE TypeOK'
  <2>1. TRUE \in BOOLEAN
    BY <1>0, <1>11 DEF TypeOK, Shared, Connection, Domains
  <2>2. fw' \in Connection
    BY <1>0, <1>11, <2>1, ConnectionFields, Zenon DEF TypeOK, Destroy, CancelFor
  <2>3. QED BY <1>0, <1>11, <2>2 DEF TypeOK, Destroy, CancelFor, Waits, Goals
<1>12. ASSUME DialSettled PROVE TypeOK'
  <2>1. TRUE \in BOOLEAN
    BY <1>0, <1>12 DEF TypeOK, Shared, Connection, Domains
  <2>2. fw' \in Connection
    BY <1>0, <1>12, <2>1, ConnectionFields, Zenon DEF TypeOK, DialSettled, CancelFor
  <2>3. QED BY <1>0, <1>12, <2>2 DEF TypeOK, DialSettled, CancelFor, Waits, Goals
<1>13. ASSUME ReportRetain PROVE TypeOK'
  <2>1. sh.refs + 1 \in Int
    BY <1>0, <1>13 DEF TypeOK, Shared, Connection, Domains
  <2>2. sh' \in Shared
    BY <1>0, <1>13, <2>1, SharedFields, Zenon DEF TypeOK, ReportRetain
  <2>3. QED BY <1>0, <1>13, <2>2 DEF TypeOK, ReportRetain
<1>14. ASSUME ReportAsk PROVE TypeOK'
  <2>1. TRUE \in BOOLEAN
    BY <1>0, <1>14 DEF TypeOK, Shared, Connection, Domains
  <2>2. fw' \in Connection
    BY <1>0, <1>14, <2>1, ConnectionFields, Zenon DEF TypeOK, ReportAsk
  <2>3. QED BY <1>0, <1>14, <2>2 DEF TypeOK, ReportAsk, Waits, Goals
<1>15. ASSUME DialOpened PROVE TypeOK'
  <2>1. sh' \in Shared
    BY <1>0, <1>15, ArmTyped DEF TypeOK, DialOpened
  <2>2. fw' \in Connection
    BY <1>0, <1>15, ArmTyped DEF TypeOK, DialOpened
  <2>3. QED BY <1>0, <1>15, <2>1, <2>2 DEF TypeOK, DialOpened, Ends, Goals
<1>16. ASSUME NEW n \in 1..MaxBytes, ReadEnds(n) PROVE TypeOK'
  <2> DEFINE take == Min({n, Len(sh.rx) - sh.rx_off})
             s == [sh EXCEPT !.rx_off = @ + take]
             r == SubSeq(sh.rx, sh.rx_off + 1, sh.rx_off + take)
  <2>1. sh \in Shared /\ fw \in Connection /\ got \in Seq(Nat) /\ n \in Nat
    BY <1>0 DEF TypeOK
  <2>2. take \in Nat /\ r \in Seq(Nat)
    BY <1>0, <2>1, TakeTyped DEF Ordered
  <2> HIDE DEF take
  <2>3. sh.rx_off + take \in Nat /\ got \o r \in Seq(Nat)
    BY <2>1, <2>2, ConcatProperties DEF Shared
  <2>4. s \in Shared
    BY <2>1, <2>3, SharedFields, Zenon
  <2> HIDE DEF s, r
  <2>5. ArmShared(s) \in Shared /\ ArmConnection(s, fw) \in Connection
    BY <2>1, <2>4, ArmTyped
  <2>6. /\ sh' \in {sh, ArmShared(s)} /\ fw' \in {fw, ArmConnection(s, fw)}
        /\ got' \in {got, got \o r}
    BY <1>16 DEF ReadEnds, take, s, r
  <2>7. QED BY <1>0, <1>16, <2>1, <2>3, <2>5, <2>6 DEF TypeOK, ReadEnds, Ends, Goals
<1>17. ASSUME WriteSends PROVE TypeOK'
  <2>1. fw.sends + 1 \in Nat
    BY <1>0, <1>17 DEF TypeOK, Shared, Connection, Domains
  <2>2. fw' \in Connection
    BY <1>0, <1>17, <2>1, ConnectionFields, Zenon DEF TypeOK, WriteSends
  <2>3. QED BY <1>0, <1>17, <2>2 DEF TypeOK, WriteSends, Waits, Goals
<1>18. ASSUME WriteEnds PROVE TypeOK'
  BY <1>0, <1>18 DEF TypeOK, WriteEnds, Ends, Goals
<1>19. ASSUME ReadablePolls PROVE TypeOK'
  BY <1>0, <1>19 DEF TypeOK, ReadablePolls
<1>20. ASSUME ReadableEnds PROVE TypeOK'
  BY <1>0, <1>20 DEF TypeOK, ReadableEnds, Ends, Goals
<1>21. ASSUME Cancelled PROVE TypeOK'
  BY <1>0, <1>21 DEF TypeOK, Cancelled, Goals
<1>22. ASSUME ReleaseStream PROVE TypeOK'
  <2>1. sh' \in Shared
    BY <1>0, <1>22, ReleaseTyped DEF TypeOK, ReleaseStream
  <2>2. QED BY <1>0, <1>22, <2>1 DEF TypeOK, ReleaseStream
<1>23. ASSUME Preparing PROVE TypeOK'
  <2>1. /\ StateAfter(sh, "preparing", "none") \in {"SETUP", "READY", "FAILED", "CANCELLED"}
        /\ (IF "none" = "none" THEN sh.nw_domain ELSE "none") \in Domains \cup {"none"}
    BY <1>0 DEF TypeOK, Shared, StateAfter, Domains
  <2>2. sh' \in Shared
    BY <1>0, <1>23, <2>1, SharedFields, Zenon DEF TypeOK, Preparing, StateChanged
  <2>3. fw' \in Connection
    BY <1>0, <1>23, ConnectionFields DEF TypeOK, Preparing
  <2>4. QED BY <1>0, <1>23, <2>2, <2>3 DEF TypeOK, Preparing, StateChanged, caller, Blocks
<1>24. ASSUME Ready PROVE TypeOK'
  <2>1. /\ StateAfter(sh, "ready", "none") \in {"SETUP", "READY", "FAILED", "CANCELLED"}
        /\ (IF "none" = "none" THEN sh.nw_domain ELSE "none") \in Domains \cup {"none"}
    BY <1>0 DEF TypeOK, Shared, StateAfter, Domains
  <2>2. sh' \in Shared
    BY <1>0, <1>24, <2>1, SharedFields, Zenon DEF TypeOK, Ready, StateChanged
  <2>3. fw' \in Connection
    BY <1>0, <1>24, ConnectionFields DEF TypeOK, Ready
  <2>4. QED BY <1>0, <1>24, <2>2, <2>3 DEF TypeOK, Ready, StateChanged, caller, Blocks
<1>25. ASSUME CancelDone PROVE TypeOK'
  <2>1. /\ StateAfter(sh, "cancelled", "none") \in {"SETUP", "READY", "FAILED", "CANCELLED"}
        /\ (IF "none" = "none" THEN sh.nw_domain ELSE "none") \in Domains \cup {"none"}
    BY <1>0 DEF TypeOK, Shared, StateAfter, Domains
  <2>2. sh' \in Shared
    BY <1>0, <1>25, <2>1, SharedFields, Zenon DEF TypeOK, CancelDone, StateChanged
  <2>3. fw' \in Connection
    BY <1>0, <1>25, ConnectionFields DEF TypeOK, CancelDone
  <2>4. QED BY <1>0, <1>25, <2>2, <2>3 DEF TypeOK, CancelDone, StateChanged, caller, Blocks
<1>26. ASSUME NEW error \in Domains \cup {"none"}, Waiting(error)
      PROVE  TypeOK'
  <2>1. /\ StateAfter(sh, "waiting", error) \in {"SETUP", "READY", "FAILED", "CANCELLED"}
        /\ (IF error = "none" THEN sh.nw_domain ELSE error) \in Domains \cup {"none"}
    BY <1>0 DEF TypeOK, Shared, StateAfter, Domains
  <2>2. sh' \in Shared
    BY <1>0, <1>26, <2>1, SharedFields, Zenon DEF TypeOK, Waiting, StateChanged
  <2>3. fw' \in Connection
    BY <1>0, <1>26, ConnectionFields DEF TypeOK, Waiting
  <2>4. QED BY <1>0, <1>26, <2>2, <2>3 DEF TypeOK, Waiting, StateChanged, caller, Blocks
<1>27. ASSUME NEW error \in Domains, Failed(error) PROVE TypeOK'
  <2>1. /\ StateAfter(sh, "failed", error) \in {"SETUP", "READY", "FAILED", "CANCELLED"}
        /\ (IF error = "none" THEN sh.nw_domain ELSE error) \in Domains \cup {"none"}
    BY <1>0 DEF TypeOK, Shared, StateAfter, Domains
  <2>2. sh' \in Shared
    BY <1>0, <1>27, <2>1, SharedFields, Zenon DEF TypeOK, Failed, StateChanged
  <2>3. fw' \in Connection
    BY <1>0, <1>27, ConnectionFields DEF TypeOK, Failed
  <2>4. QED BY <1>0, <1>27, <2>2, <2>3 DEF TypeOK, Failed, StateChanged, caller, Blocks
<1>28. ASSUME NEW k \in 0..MaxBytes, NEW short \in BOOLEAN, NEW complete \in BOOLEAN,
     NEW error \in BOOLEAN, Receive(k, short, complete, error)
      PROVE  TypeOK'
  <2> DEFINE s == IF k > 0 /\ ~short THEN RxAppend(sh, Content(k)) ELSE sh
  <2>1. s \in Shared
    BY <1>0, AppendTyped DEF TypeOK
  <2> HIDE DEF s
  <2>2. /\ (s.rx_failed \/ short \/ error) \in BOOLEAN /\ (s.rx_eof \/ complete) \in BOOLEAN
        /\ (IF error THEN "posix" ELSE s.nw_domain) \in Domains \cup {"none"}
        /\ fw.recv - 1 \in Nat /\ fw.sent + k \in Nat /\ (fw.fin \/ complete) \in BOOLEAN
    BY <1>0, <1>28, <2>1 DEF TypeOK, Shared, Connection, Domains, Receive
  <2>3. FALSE \in BOOLEAN
    OBVIOUS
  <2>4. sh' = [s EXCEPT !.rx_failed = @ \/ short \/ error,
                        !.nw_domain = IF error THEN "posix" ELSE @,
                        !.rx_eof = @ \/ complete, !.rx_pending = FALSE]
    BY <1>28 DEF Receive, s
  <2>5. sh' \in Shared
    BY <2>1, <2>2, <2>3, <2>4, SharedFields, Zenon
  <2>6. fw' \in Connection
    BY <1>0, <1>28, <2>2, ConnectionFields, Zenon DEF TypeOK, Receive
  <2>7. QED BY <1>0, <1>28, <2>5, <2>6 DEF TypeOK, Receive, caller, Blocks
<1>29. ASSUME NEW error \in BOOLEAN, Sent(error) PROVE TypeOK'
  <2>1. /\ sh.sends_pending - 1 \in Int /\ (sh.send_failed \/ error) \in BOOLEAN
        /\ (IF error THEN "posix" ELSE sh.nw_domain) \in Domains \cup {"none"}
        /\ fw.sends - 1 \in Nat
    BY <1>0, <1>29 DEF TypeOK, Shared, Connection, Domains, Sent
  <2>2. sh' \in Shared
    BY <1>0, <1>29, <2>1, SharedFields, Zenon DEF TypeOK, Sent
  <2>3. fw' \in Connection
    BY <1>0, <1>29, <2>1, ConnectionFields, Zenon DEF TypeOK, Sent
  <2>4. QED BY <1>0, <1>29, <2>2, <2>3 DEF TypeOK, Sent, caller, Blocks
<1>30. ASSUME Reported PROVE TypeOK'
  <2>1. sh' \in Shared
    BY <1>0, <1>30 DEF TypeOK, Reported, Shared
  <2>2. fw' \in Connection
    BY <1>0, <1>30 DEF TypeOK, Reported, Connection
  <2>3. QED BY <1>0, <1>30, <2>1, <2>2 DEF TypeOK, Reported, caller, Blocks
<1>31. ASSUME VerifyStarts PROVE TypeOK'
  BY <1>0, <1>31 DEF TypeOK, VerifyStarts, Starting, caller, Blocks
<1>32. ASSUME NEW v \in Given, VerifyEnds(v) PROVE TypeOK'
  <2>1. /\ (IF v # "OK" THEN v ELSE sh.verify_err) \in Verdicts
        /\ (IF v = "OK" THEN fw.state ELSE "refused") \in
             {"none", "setup", "refused", "ready", "failed", "cancelled"}
    BY <1>0, GivenTyped DEF TypeOK, Shared, Connection
  <2>2. TRUE \in BOOLEAN
    OBVIOUS
  <2>3. sh' \in Shared
    BY <1>0, <1>32, <2>1, <2>2, SharedFields, Zenon DEF TypeOK, VerifyEnds
  <2>4. fw' \in Connection
    BY <1>0, <1>32, <2>1, <2>2, ConnectionFields, Zenon DEF TypeOK, VerifyEnds
  <2>5. QED BY <1>0, <1>32, <2>3, <2>4 DEF TypeOK, VerifyEnds, caller, Blocks
<1>33. ASSUME Wake PROVE TypeOK'
  BY <1>0, <1>33 DEF TypeOK, Wake, caller, Blocks
<1>34. ASSUME BlockReleases PROVE TypeOK'
  <2>1. sh' \in Shared
    BY <1>0, <1>34, ReleaseTyped DEF TypeOK, BlockReleases
  <2>2. QED BY <1>0, <1>34, <2>1 DEF TypeOK, BlockReleases, caller, Blocks
<1>35. ASSUME Fork PROVE TypeOK'
  <2>1. /\ UNCHANGED <<sh, pipe, fw, q, pc, goal, then, rc, res, got, armed>>
        /\ proc' \in {proc, 2} /\ (twin' = twin \/ twin' = TRUE)
    BY <1>35 DEF Fork
  <2>2. twin' \in BOOLEAN
    BY <1>0, <2>1, Zenon DEF TypeOK
  <2>3. QED BY <1>0, <2>1, <2>2 DEF TypeOK
<1>36. ASSUME FrameworkKills PROVE TypeOK'
  BY <1>0, <1>36 DEF TypeOK, FrameworkKills
<1>37. ASSUME TwinPolls PROVE TypeOK'
  BY <1>0, <1>37 DEF TypeOK, TwinPolls, caller
<1>38. ASSUME UNCHANGED vars PROVE TypeOK'
  BY <1>0, <1>38 DEF TypeOK, vars
<1> QED
  BY <1>1, <1>2, <1>3, <1>4, <1>5, <1>6, <1>7, <1>8, <1>9, <1>10, <1>11, <1>12, <1>13, <1>14,
       <1>15, <1>16, <1>17, <1>18, <1>19, <1>20, <1>21, <1>22, <1>23, <1>24, <1>25, <1>26, <1>27,
       <1>28, <1>29, <1>30, <1>31, <1>32, <1>33, <1>34, <1>35, <1>36, <1>37, <1>38
  DEF Next, Wait, Operation, Continue, State, Completion, Verify, Verdict, BlockEnd

\* What is pending is what was asked for.
LEMMA PendingStep == ASSUME IInv, [Next]_vars PROVE Pending'
<1>0. TypeOK /\ Shape /\ Pending /\ Ordered
  BY DEF IInv
<1>1. ASSUME WaitCheck PROVE Pending'
  BY <1>0, <1>1 DEF Pending, WaitCheck
<1>2. ASSUME WaitTick PROVE Pending'
  BY <1>0, <1>2 DEF Pending, WaitTick
<1>3. ASSUME WaitPoll PROVE Pending'
  BY <1>0, <1>3 DEF Pending, WaitPoll
<1>4. ASSUME DialForked PROVE Pending'
  BY <1>0, <1>4 DEF Pending, DialForked
<1>5. ASSUME DialStarts PROVE Pending'
  BY <1>0, <1>5 DEF Pending, One, DialStarts, Fresh, NoShared, NoConnection, Waits
<1>6. ASSUME NEW code \in {"TLS", "PROXY", "IO", "NOMEM", "CONNECT"}, DialFails(code)
      PROVE  Pending'
  BY <1>0, <1>6 DEF Pending, DialFails
<1>7. ASSUME ReadStarts PROVE Pending'
  BY <1>0, <1>7 DEF Pending, One, ReadStarts, Waits, ArmShared, ArmConnection, Arms
<1>8. ASSUME WriteStarts PROVE Pending'
  <2>1. CASE sh.state # "READY"
    BY <1>0, <1>8, <2>1 DEF Pending, One, WriteStarts, Ends
  <2>2. CASE sh.state = "READY"
    <3>1. /\ sh'.sends_pending = sh.sends_pending + 1 /\ sh'.rx_pending = sh.rx_pending
          /\ sh.sends_pending \in Int /\ fw.sends \in Nat
      BY <1>0, <1>8, <2>2 DEF TypeOK, Shared, Connection, WriteStarts
    <3>2. pc = "open" /\ pc' = "send" /\ fw' = fw
      BY <1>8, <2>2 DEF WriteStarts
    <3>3. QED BY <1>0, <3>1, <3>2 DEF Pending, One
  <2>3. QED BY <2>1, <2>2
<1>9. ASSUME NEW wait \in BOOLEAN, Readable(wait) PROVE Pending'
  BY <1>0, <1>9 DEF Pending, One, Readable, Ends, ArmShared, ArmConnection, Arms
<1>10. ASSUME Close PROVE Pending'
  BY <1>0, <1>10 DEF Pending, One, TypeOK, Shared, Connection, Close, CancelFor, Waits
<1>11. ASSUME Destroy PROVE Pending'
  BY <1>0, <1>11 DEF Pending, One, TypeOK, Shared, Connection, Destroy, CancelFor, Waits
<1>12. ASSUME DialSettled PROVE Pending'
  BY <1>0, <1>12 DEF Pending, One, TypeOK, Shared, Connection, DialSettled, CancelFor, Waits
<1>13. ASSUME ReportRetain PROVE Pending'
  BY <1>0, <1>13 DEF Pending, ReportRetain
<1>14. ASSUME ReportAsk PROVE Pending'
  BY <1>0, <1>14 DEF Pending, ReportAsk, Waits
<1>15. ASSUME DialOpened PROVE Pending'
  BY <1>0, <1>15 DEF Pending, One, DialOpened, Ends, ArmShared, ArmConnection, Arms
<1>16. ASSUME NEW n \in 1..MaxBytes, ReadEnds(n) PROVE Pending'
  <2>1. pc = "after" /\ goal = "rx" /\ pc' = "open" /\ q' = q /\ proc' = proc
    BY <1>16 DEF ReadEnds, Ends
  <2>2. CASE sh' = sh /\ fw' = fw
    BY <1>0, <2>1, <2>2 DEF Pending, One, TypeOK, Shared
  <2>3. ASSUME NEW take \in Nat, NEW s \in Shared, s = [sh EXCEPT !.rx_off = @ + take],
               sh' = ArmShared(s), fw' = ArmConnection(s, fw)
        PROVE  Pending'
    <3>1. /\ (sh'.rx_pending <=> sh.rx_pending \/ Arms(s)) /\ sh'.sends_pending = sh.sends_pending
          /\ fw'.recv = fw.recv + One(Arms(s)) /\ fw'.sends = fw.sends
          /\ (Arms(s) => ~sh.rx_pending)
      BY <1>0, <2>3, ArmChanges DEF TypeOK, Shared, Arms
    <3>2. QED BY <1>0, <2>1, <3>1 DEF Pending, One, TypeOK, Shared
  <2>4. QED BY <1>0, <1>16, <2>2, <2>3, ReadTaken
<1>17. ASSUME WriteSends PROVE Pending'
  BY <1>0, <1>17 DEF Pending, One, TypeOK, Shared, WriteSends, Waits
<1>18. ASSUME WriteEnds PROVE Pending'
  BY <1>0, <1>18 DEF Pending, WriteEnds, Ends
<1>19. ASSUME ReadablePolls PROVE Pending'
  BY <1>0, <1>19 DEF Pending, ReadablePolls
<1>20. ASSUME ReadableEnds PROVE Pending'
  BY <1>0, <1>20 DEF Pending, ReadableEnds, Ends
<1>21. ASSUME Cancelled PROVE Pending'
  BY <1>0, <1>21 DEF Pending, Cancelled
<1>22. ASSUME ReleaseStream PROVE Pending'
  BY <1>0, <1>22 DEF Pending, ReleaseStream, Release
<1>23. ASSUME Preparing PROVE Pending'
  BY <1>0, <1>23 DEF Pending, Preparing, StateChanged, StateAfter, Starting, caller
<1>24. ASSUME Ready PROVE Pending'
  BY <1>0, <1>24 DEF Pending, Ready, StateChanged, StateAfter, Starting, caller
<1>25. ASSUME CancelDone PROVE Pending'
  BY <1>0, <1>25 DEF Pending, CancelDone, StateChanged, StateAfter, Starting, caller
<1>26. ASSUME NEW error \in Domains \cup {"none"}, Waiting(error)
      PROVE  Pending'
  BY <1>0, <1>26 DEF Pending, Waiting, StateChanged, StateAfter, Starting, caller
<1>27. ASSUME NEW error \in Domains, Failed(error) PROVE Pending'
  BY <1>0, <1>27 DEF Pending, Failed, StateChanged, StateAfter, Starting, caller
<1>28. ASSUME NEW k \in 0..MaxBytes, NEW short \in BOOLEAN, NEW complete \in BOOLEAN,
     NEW error \in BOOLEAN, Receive(k, short, complete, error)
      PROVE  Pending'
  BY <1>0, <1>28 DEF Pending, One, Receive, caller, RxAppend
<1>29. ASSUME NEW error \in BOOLEAN, Sent(error) PROVE Pending'
  BY <1>0, <1>29 DEF Pending, One, TypeOK, Shared, Connection, Sent, caller
<1>30. ASSUME Reported PROVE Pending'
  BY <1>0, <1>30 DEF Pending, Reported, caller
<1>31. ASSUME VerifyStarts PROVE Pending'
  BY <1>0, <1>31 DEF Pending, VerifyStarts, Starting, caller
<1>32. ASSUME NEW v \in Given, VerifyEnds(v) PROVE Pending'
  BY <1>0, <1>32 DEF Pending, VerifyEnds, caller
<1>33. ASSUME Wake PROVE Pending'
  BY <1>0, <1>33 DEF Pending, Wake, caller
<1>34. ASSUME BlockReleases PROVE Pending'
  BY <1>0, <1>34 DEF Pending, BlockReleases, Release, caller
<1>35. ASSUME Fork PROVE Pending'
  BY <1>0, <1>35 DEF Pending, Fork
<1>36. ASSUME FrameworkKills PROVE Pending'
  BY <1>0, <1>36 DEF Pending, FrameworkKills
<1>37. ASSUME TwinPolls PROVE Pending'
  BY <1>0, <1>37 DEF Pending, TwinPolls, caller
<1>38. ASSUME UNCHANGED vars PROVE Pending'
  BY <1>0, <1>38 DEF Pending, vars
<1> QED
  BY <1>1, <1>2, <1>3, <1>4, <1>5, <1>6, <1>7, <1>8, <1>9, <1>10, <1>11, <1>12, <1>13, <1>14,
       <1>15, <1>16, <1>17, <1>18, <1>19, <1>20, <1>21, <1>22, <1>23, <1>24, <1>25, <1>26, <1>27,
       <1>28, <1>29, <1>30, <1>31, <1>32, <1>33, <1>34, <1>35, <1>36, <1>37, <1>38
  DEF Next, Wait, Operation, Continue, State, Completion, Verify, Verdict, BlockEnd

\* Every reference taken is counted, and every one given back.
LEMMA CountedStep == ASSUME IInv, [Next]_vars PROVE Counted'
<1>0. TypeOK /\ Shape /\ Pending /\ Counted /\ Ordered
  BY DEF IInv
<1>1. sh.refs \in Int /\ fw.recv \in Nat /\ fw.sends \in Nat
  BY <1>0 DEF TypeOK, Shared, Connection
<1>2. ASSUME WaitCheck PROVE Counted'
  BY <1>0, <1>1, <1>2 DEF Counted, Mine, WaitCheck
<1>3. ASSUME WaitTick PROVE Counted'
  BY <1>0, <1>1, <1>3 DEF Counted, Mine, WaitTick
<1>4. ASSUME WaitPoll PROVE Counted'
  BY <1>0, <1>1, <1>4 DEF Counted, Mine, WaitPoll
<1>5. ASSUME DialForked PROVE Counted'
  BY <1>0, <1>1, <1>5 DEF Counted, Mine, DialForked
<1>6. ASSUME DialStarts PROVE Counted'
  BY <1>0, <1>1, <1>6 DEF Counted, One, Mine, Shape, DialStarts, Fresh, NoShared, NoConnection,
       Waits
<1>7. ASSUME NEW code \in {"TLS", "PROXY", "IO", "NOMEM", "CONNECT"}, DialFails(code)
      PROVE  Counted'
  BY <1>0, <1>1, <1>7 DEF Counted, Mine, DialFails
<1>8. ASSUME ReadStarts PROVE Counted'
  <2>1. /\ sh'.refs = sh.refs + One(Arms(sh)) /\ sh'.live = sh.live
        /\ fw'.owner = fw.owner /\ fw'.state = fw.state /\ fw'.recv = fw.recv + One(Arms(sh))
        /\ fw'.sends = fw.sends /\ fw'.report = fw.report
    BY <1>0, <1>8, ArmChanges DEF TypeOK, Shared, Connection, ReadStarts
  <2>2. QED BY <1>0, <1>1, <1>8, <2>1 DEF Counted, One, Mine, Shape, ReadStarts, Waits
<1>9. ASSUME WriteStarts PROVE Counted'
  <2>1. CASE sh.state # "READY"
    BY <1>0, <1>1, <1>9, <2>1 DEF Counted, One, Mine, Shape, WriteStarts, Ends
  <2>2. CASE sh.state = "READY"
    <3>1. sh'.refs = sh.refs + 1 /\ sh'.live = sh.live
      BY <1>0, <1>9, <2>2 DEF TypeOK, Shared, WriteStarts
    <3>2. pc' = "send"
      BY <1>9, <2>2 DEF WriteStarts
    <3>3. QED BY <1>0, <1>1, <1>9, <3>1, <3>2 DEF Counted, One, Mine, Shape, WriteStarts
  <2>3. QED BY <2>1, <2>2
<1>10. ASSUME NEW wait \in BOOLEAN, Readable(wait) PROVE Counted'
  <2>1. CASE sh' = sh /\ fw' = fw
    BY <1>0, <1>1, <1>10, <2>1 DEF Counted, One, Mine, Shape, Readable, Ends
  <2>2. CASE sh' = ArmShared(sh) /\ fw' = ArmConnection(sh, fw)
    <3>1. /\ sh'.refs = sh.refs + One(Arms(sh)) /\ sh'.live = sh.live
          /\ fw'.owner = fw.owner /\ fw'.state = fw.state /\ fw'.recv = fw.recv + One(Arms(sh))
          /\ fw'.sends = fw.sends /\ fw'.report = fw.report
      BY <1>0, <2>2, ArmChanges DEF TypeOK
    <3>2. QED BY <1>0, <1>1, <1>10, <3>1 DEF Counted, One, Mine, Shape, Readable, Ends
  <2>3. QED BY <1>10, <2>1, <2>2 DEF Readable
<1>11. ASSUME Close PROVE Counted'
  <2>1. /\ fw'.owner = fw.owner /\ fw'.state = fw.state /\ fw'.recv = fw.recv
        /\ fw'.sends = fw.sends /\ fw'.report = fw.report
    BY <1>0, <1>11 DEF TypeOK, Shared, Connection, Close, CancelFor
  <2>2. QED BY <1>0, <1>1, <1>11, <2>1 DEF Counted, One, Mine, Shape, Close, CancelFor, Waits
<1>12. ASSUME Destroy PROVE Counted'
  <2>1. /\ fw'.owner = fw.owner /\ fw'.state = fw.state /\ fw'.recv = fw.recv
        /\ fw'.sends = fw.sends /\ fw'.report = fw.report
    BY <1>0, <1>12 DEF TypeOK, Shared, Connection, Destroy, CancelFor
  <2>2. QED BY <1>0, <1>1, <1>12, <2>1 DEF Counted, One, Mine, Shape, Destroy, CancelFor, Waits
<1>13. ASSUME DialSettled PROVE Counted'
  <2>1. /\ fw'.owner = fw.owner /\ fw'.state = fw.state /\ fw'.recv = fw.recv
        /\ fw'.sends = fw.sends /\ fw'.report = fw.report
    BY <1>0, <1>13 DEF TypeOK, Shared, Connection, DialSettled, CancelFor
  <2>2. QED BY <1>0, <1>1, <1>13, <2>1 DEF Counted, One, Mine, Shape, DialSettled, CancelFor, Waits
<1>14. ASSUME ReportRetain PROVE Counted'
  BY <1>0, <1>1, <1>14 DEF Counted, One, Mine, ReportRetain
<1>15. ASSUME ReportAsk PROVE Counted'
  BY <1>0, <1>1, <1>15 DEF Counted, One, Mine, Shape, ReportAsk, Waits
<1>16. ASSUME DialOpened PROVE Counted'
  <2>1. /\ sh'.refs = sh.refs + One(Arms(sh)) /\ sh'.live = sh.live
        /\ fw'.owner = fw.owner /\ fw'.state = fw.state /\ fw'.recv = fw.recv + One(Arms(sh))
        /\ fw'.sends = fw.sends /\ fw'.report = fw.report
    BY <1>0, <1>16, ArmChanges DEF TypeOK, Shared, Connection, DialOpened
  <2>2. QED BY <1>0, <1>1, <1>16, <2>1 DEF Counted, One, Mine, Shape, DialOpened, Ends
<1>17. ASSUME NEW n \in 1..MaxBytes, ReadEnds(n) PROVE Counted'
  <2>1. pc = "after" /\ goal = "rx" /\ pc' = "open" /\ q' = q /\ proc' = proc
    BY <1>17 DEF ReadEnds, Ends
  <2>2. CASE sh' = sh /\ fw' = fw
    BY <1>0, <1>1, <2>1, <2>2 DEF Counted, One, Mine, Shape
  <2>3. ASSUME NEW take \in Nat, NEW s \in Shared, s = [sh EXCEPT !.rx_off = @ + take],
               sh' = ArmShared(s), fw' = ArmConnection(s, fw)
        PROVE  Counted'
    <3>1. /\ sh'.refs = sh.refs + One(Arms(s)) /\ sh'.live = sh.live
          /\ fw'.owner = fw.owner /\ fw'.state = fw.state /\ fw'.recv = fw.recv + One(Arms(s))
          /\ fw'.sends = fw.sends /\ fw'.report = fw.report
      BY <1>0, <2>3, ArmChanges DEF TypeOK, Shared
    <3>2. QED BY <1>0, <1>1, <2>1, <3>1 DEF Counted, One, Mine, Shape
  <2>4. QED BY <1>0, <1>17, <2>2, <2>3, ReadTaken
<1>18. ASSUME WriteSends PROVE Counted'
  <2>1. /\ fw'.owner = fw.owner /\ fw'.state = fw.state /\ fw'.recv = fw.recv
        /\ fw'.sends = fw.sends + 1 /\ fw'.report = fw.report
    BY <1>0, <1>18 DEF TypeOK, Shared, Connection, WriteSends
  <2>2. QED BY <1>0, <1>1, <1>18, <2>1 DEF Counted, One, Mine, Shape, WriteSends, Waits
<1>19. ASSUME WriteEnds PROVE Counted'
  BY <1>0, <1>1, <1>19 DEF Counted, Mine, WriteEnds, Ends
<1>20. ASSUME ReadablePolls PROVE Counted'
  BY <1>0, <1>1, <1>20 DEF Counted, Mine, ReadablePolls
<1>21. ASSUME ReadableEnds PROVE Counted'
  BY <1>0, <1>1, <1>21 DEF Counted, Mine, ReadableEnds, Ends
<1>22. ASSUME Cancelled PROVE Counted'
  BY <1>0, <1>1, <1>22 DEF Counted, Mine, Cancelled
<1>23. ASSUME ReleaseStream PROVE Counted'
  <2>1. /\ sh'.refs = sh.refs - 1 /\ (sh'.live <=> sh.refs > 1)
    BY <1>0, <1>23 DEF TypeOK, Shared, Connection, ReleaseStream, Release
  <2>2. QED BY <1>0, <1>1, <1>23, <2>1 DEF Counted, One, Mine, Shape, ReleaseStream
<1>24. ASSUME Preparing PROVE Counted'
  BY <1>0, <1>1, <1>24 DEF Counted, Mine, Preparing, StateChanged, StateAfter, Starting, caller
<1>25. ASSUME Ready PROVE Counted'
  BY <1>0, <1>1, <1>25 DEF Counted, Mine, Ready, StateChanged, StateAfter, Starting, caller
<1>26. ASSUME CancelDone PROVE Counted'
  <2>1. /\ sh'.refs = sh.refs /\ sh'.live = sh.live
        /\ fw'.owner = fw.owner /\ fw'.state = "cancelled" /\ fw'.recv = fw.recv
        /\ fw'.sends = fw.sends /\ fw'.report = fw.report
    BY <1>0, <1>26 DEF TypeOK, Shared, Connection, CancelDone, StateChanged
  <2>2. QED BY <1>0, <1>1, <1>26, <2>1 DEF Counted, One, Mine, Shape, CancelDone, StateChanged, Starting, caller
<1>27. ASSUME NEW error \in Domains \cup {"none"}, Waiting(error)
      PROVE  Counted'
  BY <1>0, <1>1, <1>27 DEF Counted, Mine, Waiting, StateChanged, StateAfter, Starting, caller
<1>28. ASSUME NEW error \in Domains, Failed(error) PROVE Counted'
  BY <1>0, <1>1, <1>28 DEF Counted, Mine, Failed, StateChanged, StateAfter, Starting, caller
<1>29. ASSUME NEW k \in 0..MaxBytes, NEW short \in BOOLEAN, NEW complete \in BOOLEAN,
     NEW error \in BOOLEAN, Receive(k, short, complete, error)
      PROVE  Counted'
  BY <1>0, <1>1, <1>29 DEF Counted, One, Mine, Receive, caller, RxAppend
<1>30. ASSUME NEW error \in BOOLEAN, Sent(error) PROVE Counted'
  <2>1. /\ sh'.refs = sh.refs /\ sh'.live = sh.live
        /\ fw'.owner = fw.owner /\ fw'.state = fw.state /\ fw'.recv = fw.recv
        /\ fw'.sends = fw.sends - 1 /\ fw'.report = fw.report
    BY <1>0, <1>30 DEF TypeOK, Shared, Connection, Sent
  <2>2. QED BY <1>0, <1>1, <1>30, <2>1 DEF Counted, One, Mine, Shape, Sent, caller
<1>31. ASSUME Reported PROVE Counted'
  <2>1. /\ sh'.refs = sh.refs /\ sh'.live = sh.live
        /\ fw'.owner = fw.owner /\ fw'.state = fw.state /\ fw'.recv = fw.recv
        /\ fw'.sends = fw.sends /\ fw'.report = FALSE
    BY <1>0, <1>31 DEF TypeOK, Shared, Connection, Reported
  <2>2. QED BY <1>0, <1>1, <1>31, <2>1 DEF Counted, One, Mine, Shape, Reported, caller
<1>32. ASSUME VerifyStarts PROVE Counted'
  BY <1>0, <1>1, <1>32 DEF Counted, Mine, VerifyStarts, Starting, caller
<1>33. ASSUME NEW v \in Given, VerifyEnds(v) PROVE Counted'
  BY <1>0, <1>1, <1>33 DEF Counted, One, Mine, Shape, VerifyEnds, caller
<1>34. ASSUME Wake PROVE Counted'
  BY <1>0, <1>1, <1>34 DEF Counted, Mine, Wake, caller
<1>35. ASSUME BlockReleases PROVE Counted'
  <2>1. /\ sh'.refs = sh.refs - 1 /\ (sh'.live <=> sh.refs > 1)
    BY <1>0, <1>35 DEF TypeOK, Shared, Connection, BlockReleases, Release
  <2>2. QED BY <1>0, <1>1, <1>35, <2>1 DEF Counted, One, Mine, Shape, BlockReleases, caller
<1>36. ASSUME Fork PROVE Counted'
  BY <1>0, <1>1, <1>36 DEF Counted, One, Mine, Shape, Fork
<1>37. ASSUME FrameworkKills PROVE Counted'
  BY <1>0, <1>37 DEF Counted, One, Mine, Shape, FrameworkKills
<1>38. ASSUME TwinPolls PROVE Counted'
  BY <1>0, <1>38 DEF Counted, One, Mine, Shape, TwinPolls, caller
<1>39. ASSUME UNCHANGED vars PROVE Counted'
  BY <1>0, <1>39 DEF Counted, Mine, vars
<1> QED
  BY <1>2, <1>3, <1>4, <1>5, <1>6, <1>7, <1>8, <1>9, <1>10, <1>11, <1>12, <1>13, <1>14, <1>15,
       <1>16, <1>17, <1>18, <1>19, <1>20, <1>21, <1>22, <1>23, <1>24, <1>25, <1>26, <1>27, <1>28,
       <1>29, <1>30, <1>31, <1>32, <1>33, <1>34, <1>35, <1>36, <1>37, <1>38, <1>39
  DEF Next, Wait, Operation, Continue, State, Completion, Verify, Verdict, BlockEnd

\* A stream with its caller has a receive outstanding or something to say.
LEMMA ArmedStep == ASSUME IInv, [Next]_vars PROVE Armed'
<1>0. TypeOK /\ Shape /\ Pending /\ Armed /\ Ordered
  BY DEF IInv
<1>1. ASSUME WaitCheck PROVE Armed'
  BY <1>0, <1>1 DEF Armed, Serving, InWait, Mine, WaitCheck
<1>2. ASSUME WaitTick PROVE Armed'
  BY <1>0, <1>2 DEF Armed, Serving, InWait, Mine, WaitTick
<1>3. ASSUME WaitPoll PROVE Armed'
  BY <1>0, <1>3 DEF Armed, Serving, InWait, Mine, WaitPoll
<1>4. ASSUME DialForked PROVE Armed'
  BY <1>0, <1>4 DEF Armed, Serving, InWait, Mine, DialForked
<1>5. ASSUME DialStarts PROVE Armed'
  BY <1>0, <1>5 DEF Armed, Serving, InWait, Mine, DialStarts, Fresh, NoShared, NoConnection,
       Waits
<1>6. ASSUME NEW code \in {"TLS", "PROXY", "IO", "NOMEM", "CONNECT"}, DialFails(code)
      PROVE  Armed'
  BY <1>0, <1>6 DEF Armed, Serving, InWait, Mine, DialFails
<1>7. ASSUME ReadStarts PROVE Armed'
  BY <1>0, <1>7 DEF Armed, Serving, InWait, Mine, ReadStarts, Waits, ArmShared, ArmConnection,
       Arms
<1>8. ASSUME WriteStarts PROVE Armed'
  BY <1>0, <1>8 DEF Armed, Serving, InWait, Mine, TypeOK, Shared, Pred, Dead, WriteStarts, Ends
<1>9. ASSUME NEW wait \in BOOLEAN, Readable(wait) PROVE Armed'
  BY <1>0, <1>9 DEF Armed, Serving, InWait, Mine, Readable, Ends, ArmShared, ArmConnection, Arms
<1>10. ASSUME Close PROVE Armed'
  BY <1>0, <1>10 DEF Armed, Serving, InWait, Mine, Close, CancelFor, Waits
<1>11. ASSUME Destroy PROVE Armed'
  BY <1>0, <1>11 DEF Armed, Serving, InWait, Mine, Destroy, CancelFor, Waits
<1>12. ASSUME DialSettled PROVE Armed'
  BY <1>0, <1>12 DEF Armed, Serving, InWait, Mine, DialSettled, CancelFor, Waits
<1>13. ASSUME ReportRetain PROVE Armed'
  BY <1>0, <1>13 DEF Armed, Serving, InWait, Mine, ReportRetain
<1>14. ASSUME ReportAsk PROVE Armed'
  BY <1>0, <1>14 DEF Armed, Serving, InWait, Mine, ReportAsk, Waits
<1>15. ASSUME DialOpened PROVE Armed'
  BY <1>0, <1>15 DEF Armed, Serving, InWait, Mine, TypeOK, Shared, Pred, Dead, DialOpened, Ends,
       ArmShared, ArmConnection, Arms
<1>16. ASSUME NEW n \in 1..MaxBytes, ReadEnds(n) PROVE Armed'
  BY <1>0, <1>16 DEF Armed, Serving, InWait, Mine, TypeOK, Shared, Pred, Dead, ReadEnds, Ends,
       ArmShared, ArmConnection, Arms
<1>17. ASSUME WriteSends PROVE Armed'
  BY <1>0, <1>17 DEF Armed, Serving, InWait, Mine, WriteSends, Waits
<1>18. ASSUME WriteEnds PROVE Armed'
  BY <1>0, <1>18 DEF Armed, Serving, InWait, Mine, WriteEnds, Ends
<1>19. ASSUME ReadablePolls PROVE Armed'
  BY <1>0, <1>19 DEF Armed, Serving, InWait, Mine, ReadablePolls
<1>20. ASSUME ReadableEnds PROVE Armed'
  BY <1>0, <1>20 DEF Armed, Serving, InWait, Mine, ReadableEnds, Ends
<1>21. ASSUME Cancelled PROVE Armed'
  BY <1>0, <1>21 DEF Armed, Serving, InWait, Mine, Cancelled
<1>22. ASSUME ReleaseStream PROVE Armed'
  BY <1>0, <1>22 DEF Armed, Serving, InWait, Mine, ReleaseStream, Release
<1>23. ASSUME Preparing PROVE Armed'
  <2>1. UNCHANGED <<pc, goal>> /\ sh' = [sh EXCEPT !.nw_domain = @, !.state = @]
    BY <1>23 DEF Preparing, StateChanged, StateAfter, caller
  <2>2. sh' = sh
    BY <1>0, <2>1 DEF TypeOK, Shared
  <2>3. QED BY <1>0, <2>1, <2>2 DEF Armed, Serving, InWait
<1>24. ASSUME Ready PROVE Armed'
  BY <1>0, <1>24 DEF Armed, Serving, InWait, Mine, TypeOK, Shared, Ready, StateChanged,
       StateAfter, Starting, caller
<1>25. ASSUME CancelDone PROVE Armed'
  BY <1>0, <1>25 DEF Armed, CancelDone, StateChanged, StateAfter, Starting, caller
<1>26. ASSUME NEW error \in Domains \cup {"none"}, Waiting(error) PROVE Armed'
  BY <1>0, <1>26 DEF Armed, Serving, InWait, Mine, TypeOK, Shared, Pred, Dead, Waiting,
       StateChanged, StateAfter, Starting, caller
<1>27. ASSUME NEW error \in Domains, Failed(error) PROVE Armed'
  BY <1>0, <1>27 DEF Armed, Failed, StateChanged, StateAfter, Starting, caller
<1>28. ASSUME NEW k \in 0..MaxBytes, NEW short \in BOOLEAN, NEW complete \in BOOLEAN,
     NEW error \in BOOLEAN, Receive(k, short, complete, error)
      PROVE  Armed'
  <2> DEFINE s == IF k > 0 /\ ~short THEN RxAppend(sh, Content(k)) ELSE sh
  <2>1. s \in Shared /\ s.state = sh.state /\ (k > 0 /\ ~short => s.rx_off < Len(s.rx))
    <3>1. CASE k > 0 /\ ~short
      <4>1. s = RxAppend(sh, Content(k))
        BY <3>1
      <4>2. sh \in Shared /\ fw \in Connection /\ sh.rx_off <= Len(sh.rx) /\ k \in Nat
        BY <1>0 DEF TypeOK, Ordered
      <4>3. s \in Shared
        BY <4>1, <4>2, AppendTyped
      <4>4. s.state = sh.state /\ Len(s.rx) - s.rx_off = Len(sh.rx) - sh.rx_off + k
        BY <4>1, <4>2, AppendChanges
      <4>5. s.rx_off < Len(s.rx)
        BY <3>1, <4>2, <4>3, <4>4 DEF Shared
      <4>6. QED BY <4>3, <4>4, <4>5
    <3>2. CASE ~(k > 0 /\ ~short)
      BY <1>0, <3>2 DEF TypeOK
    <3>3. QED BY <3>1, <3>2
  <2>2. sh' = [s EXCEPT !.rx_failed = @ \/ short \/ error,
                        !.nw_domain = IF error THEN "posix" ELSE @,
                        !.rx_eof = @ \/ complete, !.rx_pending = FALSE]
    BY <1>28 DEF Receive, s
  <2> HIDE DEF s
  <2>3. /\ sh'.state = sh.state /\ sh'.rx = s.rx /\ sh'.rx_off = s.rx_off
        /\ (sh'.rx_failed <=> s.rx_failed \/ short \/ error)
        /\ (sh'.rx_eof <=> s.rx_eof \/ complete)
    BY <2>1, <2>2 DEF Shared
  <2>4. k > 0 \/ complete \/ error
    BY <1>28 DEF Receive
  <2>5. Pred("rx", sh)'
    BY <2>1, <2>3, <2>4 DEF Pred, Shared
  <2>6. QED BY <1>0, <1>28, <2>3, <2>5 DEF Armed, Serving, InWait, Mine, Receive, caller
<1>29. ASSUME NEW error \in BOOLEAN, Sent(error) PROVE Armed'
  BY <1>0, <1>29 DEF Armed, Serving, InWait, Mine, TypeOK, Shared, Pred, Dead, Sent, caller
<1>30. ASSUME Reported PROVE Armed'
  BY <1>0, <1>30 DEF Armed, Serving, InWait, Mine, TypeOK, Shared, Pred, Dead, Reported, caller
<1>31. ASSUME VerifyStarts PROVE Armed'
  BY <1>0, <1>31 DEF Armed, Serving, InWait, Mine, VerifyStarts, Starting, caller
<1>32. ASSUME NEW v \in Given, VerifyEnds(v) PROVE Armed'
  BY <1>0, <1>32 DEF Armed, Serving, InWait, Mine, TypeOK, Shared, Pred, Dead, VerifyEnds,
       caller
<1>33. ASSUME Wake PROVE Armed'
  BY <1>0, <1>33 DEF Armed, Serving, InWait, Mine, Wake, caller
<1>34. ASSUME BlockReleases PROVE Armed'
  BY <1>0, <1>34 DEF Armed, Serving, InWait, Mine, TypeOK, Shared, Pred, Dead, BlockReleases,
       Release, caller
<1>35. ASSUME Fork PROVE Armed'
  BY <1>0, <1>35 DEF Armed, One, InWait, Mine, TypeOK, Shared, Connection, Pending, Shape,
       Serving, Pred, Dead, Fork
<1>36. ASSUME FrameworkKills PROVE Armed'
  BY <1>0, <1>36 DEF Armed, Serving, InWait, Mine, FrameworkKills
<1>37. ASSUME TwinPolls PROVE Armed'
  BY <1>0, <1>37 DEF Armed, Serving, InWait, Mine, TwinPolls, caller
<1>38. ASSUME UNCHANGED vars PROVE Armed'
  BY <1>0, <1>38 DEF Armed, Serving, InWait, Mine, vars
<1> QED
  BY <1>1, <1>2, <1>3, <1>4, <1>5, <1>6, <1>7, <1>8, <1>9, <1>10, <1>11, <1>12, <1>13, <1>14,
       <1>15, <1>16, <1>17, <1>18, <1>19, <1>20, <1>21, <1>22, <1>23, <1>24, <1>25, <1>26, <1>27,
       <1>28, <1>29, <1>30, <1>31, <1>32, <1>33, <1>34, <1>35, <1>36, <1>37, <1>38
  DEF Next, Wait, Operation, Continue, State, Completion, Verify, Verdict, BlockEnd

\* A caller about to sleep has its byte, or the block that will write it.
LEMMA AwakeStep == ASSUME IInv, [Next]_vars PROVE Awake'
<1>0. TypeOK /\ Shape /\ Pending /\ Awake
  BY DEF IInv
<1>1. ASSUME WaitCheck PROVE Awake'
  BY <1>0, <1>1 DEF Awake, WaitCheck
<1>2. ASSUME WaitTick PROVE Awake'
  BY <1>0, <1>2 DEF Awake, WaitTick
<1>3. ASSUME WaitPoll PROVE Awake'
  BY <1>0, <1>3 DEF Awake, WaitPoll
<1>4. ASSUME DialForked PROVE Awake'
  BY <1>0, <1>4 DEF Awake, DialForked
<1>5. ASSUME DialStarts PROVE Awake'
  BY <1>0, <1>5 DEF Awake, DialStarts, Fresh, NoShared, NoConnection, Waits
<1>6. ASSUME NEW code \in {"TLS", "PROXY", "IO", "NOMEM", "CONNECT"}, DialFails(code)
      PROVE  Awake'
  BY <1>0, <1>6 DEF Awake, DialFails
<1>7. ASSUME ReadStarts PROVE Awake'
  BY <1>0, <1>7 DEF Awake, ReadStarts, Waits, ArmShared, ArmConnection, Arms
<1>8. ASSUME WriteStarts PROVE Awake'
  BY <1>0, <1>8 DEF Awake, WriteStarts, Ends
<1>9. ASSUME NEW wait \in BOOLEAN, Readable(wait) PROVE Awake'
  BY <1>0, <1>9 DEF Awake, TypeOK, Shared, Pred, Dead, Readable, Ends, ArmShared, ArmConnection,
       Arms
<1>10. ASSUME Close PROVE Awake'
  BY <1>0, <1>10 DEF Awake, Close, CancelFor, Waits
<1>11. ASSUME Destroy PROVE Awake'
  BY <1>0, <1>11 DEF Awake, Destroy, CancelFor, Waits
<1>12. ASSUME DialSettled PROVE Awake'
  BY <1>0, <1>12 DEF Awake, DialSettled, CancelFor, Waits
<1>13. ASSUME ReportRetain PROVE Awake'
  BY <1>0, <1>13 DEF Awake, ReportRetain
<1>14. ASSUME ReportAsk PROVE Awake'
  BY <1>0, <1>14 DEF Awake, ReportAsk, Waits
<1>15. ASSUME DialOpened PROVE Awake'
  BY <1>0, <1>15 DEF Awake, DialOpened, Ends, ArmShared, ArmConnection, Arms
<1>16. ASSUME NEW n \in 1..MaxBytes, ReadEnds(n) PROVE Awake'
  BY <1>0, <1>16 DEF Awake, ReadEnds, Ends, ArmShared, ArmConnection, Arms
<1>17. ASSUME WriteSends PROVE Awake'
  BY <1>0, <1>17 DEF Awake, WriteSends, Waits
<1>18. ASSUME WriteEnds PROVE Awake'
  BY <1>0, <1>18 DEF Awake, WriteEnds, Ends
<1>19. ASSUME ReadablePolls PROVE Awake'
  BY <1>0, <1>19 DEF Awake, ReadablePolls
<1>20. ASSUME ReadableEnds PROVE Awake'
  BY <1>0, <1>20 DEF Awake, ReadableEnds, Ends
<1>21. ASSUME Cancelled PROVE Awake'
  BY <1>0, <1>21 DEF Awake, Cancelled
<1>22. ASSUME ReleaseStream PROVE Awake'
  BY <1>0, <1>22 DEF Awake, ReleaseStream, Release
<1>23. ASSUME Preparing PROVE Awake'
  BY <1>0, <1>23 DEF Awake, Preparing, StateChanged, StateAfter, Starting, caller
<1>24. ASSUME Ready PROVE Awake'
  BY <1>0, <1>24 DEF Awake, Ready, StateChanged, StateAfter, Starting, caller
<1>25. ASSUME CancelDone PROVE Awake'
  BY <1>0, <1>25 DEF Awake, CancelDone, StateChanged, StateAfter, Starting, caller
<1>26. ASSUME NEW error \in Domains \cup {"none"}, Waiting(error) PROVE Awake'
  BY <1>0, <1>26 DEF Awake, Waiting, StateChanged, StateAfter, Starting, caller
<1>27. ASSUME NEW error \in Domains, Failed(error) PROVE Awake'
  BY <1>0, <1>27 DEF Awake, Failed, StateChanged, StateAfter, Starting, caller
<1>28. ASSUME NEW k \in 0..MaxBytes, NEW short \in BOOLEAN, NEW complete \in BOOLEAN,
     NEW error \in BOOLEAN, Receive(k, short, complete, error)
      PROVE  Awake'
  BY <1>0, <1>28 DEF Awake, Receive, caller, RxAppend
<1>29. ASSUME NEW error \in BOOLEAN, Sent(error) PROVE Awake'
  BY <1>0, <1>29 DEF Awake, Sent, caller
<1>30. ASSUME Reported PROVE Awake'
  BY <1>0, <1>30 DEF Awake, Reported, caller
<1>31. ASSUME VerifyStarts PROVE Awake'
  BY <1>0, <1>31 DEF Awake, VerifyStarts, Starting, caller
<1>32. ASSUME NEW v \in Given, VerifyEnds(v) PROVE Awake'
  BY <1>0, <1>32 DEF Awake, TypeOK, Shared, Pred, Dead, VerifyEnds, caller
<1>33. ASSUME Wake PROVE Awake'
  BY <1>0, <1>33 DEF Awake, Wake, caller
<1>34. ASSUME BlockReleases PROVE Awake'
  BY <1>0, <1>34 DEF Awake, TypeOK, Shared, Pred, Dead, BlockReleases, Release, caller
<1>35. ASSUME Fork PROVE Awake'
  BY <1>0, <1>35 DEF Awake, Fork
<1>36. ASSUME FrameworkKills PROVE Awake'
  BY <1>0, <1>36 DEF Awake, FrameworkKills
<1>37. ASSUME TwinPolls PROVE Awake'
  BY <1>0, <1>37 DEF Awake, TwinPolls, caller
<1>38. ASSUME UNCHANGED vars PROVE Awake'
  BY <1>0, <1>38 DEF Awake, vars
<1> QED
  BY <1>1, <1>2, <1>3, <1>4, <1>5, <1>6, <1>7, <1>8, <1>9, <1>10, <1>11, <1>12, <1>13, <1>14,
       <1>15, <1>16, <1>17, <1>18, <1>19, <1>20, <1>21, <1>22, <1>23, <1>24, <1>25, <1>26, <1>27,
       <1>28, <1>29, <1>30, <1>31, <1>32, <1>33, <1>34, <1>35, <1>36, <1>37, <1>38
  DEF Next, Wait, Operation, Continue, State, Completion, Verify, Verdict, BlockEnd

\* The bytes stay in the peer's order.
LEMMA OrderedStep == ASSUME IInv, [Next]_vars PROVE Ordered'
<1>0. TypeOK /\ Shape /\ Pending /\ Ordered
  BY DEF IInv
<1>1. ASSUME WaitCheck PROVE Ordered'
  BY <1>0, <1>1 DEF Ordered, WaitCheck
<1>2. ASSUME WaitTick PROVE Ordered'
  BY <1>0, <1>2 DEF Ordered, WaitTick
<1>3. ASSUME WaitPoll PROVE Ordered'
  BY <1>0, <1>3 DEF Ordered, WaitPoll
<1>4. ASSUME DialForked PROVE Ordered'
  BY <1>0, <1>4 DEF Ordered, DialForked
<1>5. ASSUME DialStarts PROVE Ordered'
  BY <1>0, <1>5 DEF Ordered, DialStarts, Fresh, NoShared, NoConnection, Waits
<1>6. ASSUME NEW code \in {"TLS", "PROXY", "IO", "NOMEM", "CONNECT"}, DialFails(code)
      PROVE  Ordered'
  BY <1>0, <1>6 DEF Ordered, DialFails
<1>7. ASSUME ReadStarts PROVE Ordered'
  BY <1>0, <1>7 DEF Ordered, ReadStarts, Waits, ArmShared, ArmConnection, Arms
<1>8. ASSUME WriteStarts PROVE Ordered'
  <2>1. /\ sh'.rx = sh.rx /\ sh'.rx_off = sh.rx_off /\ sh'.rx_eof = sh.rx_eof
        /\ sh'.rx_failed = sh.rx_failed /\ sh'.rx_pending = sh.rx_pending
    <3>1. CASE sh.state = "READY"
      BY <1>0, <1>8, <3>1 DEF TypeOK, Shared, WriteStarts
    <3>2. CASE sh.state # "READY"
      BY <1>8, <3>2 DEF WriteStarts
    <3>3. QED BY <3>1, <3>2
  <2>2. fw' = fw /\ got' = got /\ pc' # "none" /\ res' # "EOF"
    BY <1>8 DEF WriteStarts, Ends
  <2>3. QED BY <1>0, <2>1, <2>2 DEF Ordered
<1>9. ASSUME NEW wait \in BOOLEAN, Readable(wait) PROVE Ordered'
  BY <1>0, <1>9 DEF Ordered, Readable, Ends, ArmShared, ArmConnection, Arms
<1>10. ASSUME Close PROVE Ordered'
  <2>1. sh' = sh /\ got' = got /\ pc' # "none" /\ res' # "EOF" /\ fw' \in {fw, [fw EXCEPT !.cancel = TRUE]}
    BY <1>10 DEF Close, CancelFor, Waits
  <2>2. fw'.sent = fw.sent /\ fw'.fin = fw.fin
    BY <1>0, <2>1 DEF TypeOK, Connection
  <2>3. QED BY <1>0, <2>1, <2>2 DEF Ordered
<1>11. ASSUME Destroy PROVE Ordered'
  <2>1. sh' = sh /\ got' = got /\ pc' # "none" /\ res' # "EOF" /\ fw' \in {fw, [fw EXCEPT !.cancel = TRUE]}
    BY <1>11 DEF Destroy, CancelFor, Waits
  <2>2. fw'.sent = fw.sent /\ fw'.fin = fw.fin
    BY <1>0, <2>1 DEF TypeOK, Connection
  <2>3. QED BY <1>0, <2>1, <2>2 DEF Ordered
<1>12. ASSUME DialSettled PROVE Ordered'
  <2>1. /\ sh' = sh /\ got' = got /\ pc' # "none" /\ fw' \in {fw, [fw EXCEPT !.cancel = TRUE]}
        /\ res' = res \/ res' # "EOF"
    <3>1. sh.verify_err # "EOF" /\ rc \in {"OK", "CANCELLED", "TIMEOUT"}
      BY <1>0 DEF TypeOK, Shared, Verdicts
    <3>2. QED BY <1>12, <3>1 DEF DialSettled, CancelFor, Waits, FailureError
  <2>2. fw'.sent = fw.sent /\ fw'.fin = fw.fin
    BY <1>0, <2>1 DEF TypeOK, Connection
  <2>3. QED BY <1>0, <2>1, <2>2 DEF Ordered
<1>13. ASSUME ReportRetain PROVE Ordered'
  BY <1>0, <1>13 DEF Ordered, ReportRetain
<1>14. ASSUME ReportAsk PROVE Ordered'
  BY <1>0, <1>14 DEF Ordered, ReportAsk, Waits
<1>15. ASSUME DialOpened PROVE Ordered'
  BY <1>0, <1>15 DEF Ordered, DialOpened, Ends, ArmShared, ArmConnection, Arms
<1>16. ASSUME NEW n \in 1..MaxBytes, ReadEnds(n) PROVE Ordered'
  <2>1. CASE sh' = sh /\ fw' = fw /\ got' = got /\ (rc = "OK" => sh.rx_off = Len(sh.rx))
    <3>1. pc' = "open" /\ rc \in {"OK", "CANCELLED", "TIMEOUT"}
          /\ res' \in {"DATA", IF rc # "OK" THEN rc ELSE IF sh.rx_eof THEN "EOF" ELSE "IO"}
      BY <1>0, <1>16 DEF TypeOK, ReadEnds, Ends
    <3>2. QED BY <1>0, <2>1, <3>1 DEF Ordered
  <2>2. ASSUME NEW take \in Nat, NEW s, s \in Shared, NEW r \in Seq(Nat),
               s = [sh EXCEPT !.rx_off = @ + take], s.rx_off <= Len(s.rx),
               Len(r) = take, \A i \in 1..take : r[i] = sh.rx[sh.rx_off + i],
               got' = got \o r, sh' = ArmShared(s), fw' = ArmConnection(s, fw),
               res' = "DATA", pc' = "open"
        PROVE  Ordered'
    <3>1. /\ sh'.rx = sh.rx /\ sh'.rx_off = sh.rx_off + take
          /\ sh'.rx_failed = sh.rx_failed /\ sh'.rx_eof = sh.rx_eof
          /\ (sh'.rx_pending <=> sh.rx_pending \/ Arms(s))
          /\ (Arms(s) => ~sh.rx_eof /\ ~sh.rx_failed)
          /\ fw'.sent = fw.sent /\ fw'.fin = fw.fin
      BY <1>0, <2>2, ArmChanges DEF TypeOK, Shared, Arms
    <3>2. /\ sh.rx \in Seq(Nat) /\ sh.rx_off \in Nat /\ got \in Seq(Nat) /\ fw.sent \in Nat
          /\ Len(sh.rx) \in Nat /\ Len(got) \in Nat /\ sh.rx_off + take <= Len(sh.rx)
      <4>1. sh.rx \in Seq(Nat) /\ sh.rx_off \in Nat /\ got \in Seq(Nat) /\ fw.sent \in Nat
        BY <1>0 DEF TypeOK, Shared, Connection
      <4>2. sh.rx_off + take <= Len(sh.rx)
        BY <1>0, <2>2 DEF TypeOK, Shared
      <4>3. QED BY <4>1, <4>2
    <3>3. /\ Len(got') = Len(got) + take
          /\ \A i \in 1..Len(got) + take :
               got'[i] = IF i <= Len(got) THEN got[i] ELSE r[i - Len(got)]
      <4>1. /\ Len(got \o r) = Len(got) + Len(r)
            /\ \A i \in 1..Len(got) + Len(r) :
                 (got \o r)[i] = IF i <= Len(got) THEN got[i] ELSE r[i - Len(got)]
        BY <3>2, ConcatProperties
      <4>2. Len(r) = take /\ got' = got \o r
        BY <2>2
      <4>3. QED BY <4>1, <4>2
    <3>4. /\ \A i \in 1..Len(got) : got[i] = i
          /\ \A i \in sh.rx_off + 1..Len(sh.rx) : sh.rx[i] = Len(got) - sh.rx_off + i
          /\ ~sh.rx_failed => Len(got) + Len(sh.rx) - sh.rx_off = fw.sent
          /\ (sh.rx_eof => fw.fin) /\ (sh.rx_eof \/ sh.rx_failed => ~sh.rx_pending)
      BY <1>0 DEF Ordered
    <3>5. ASSUME NEW i \in 1..Len(got') PROVE got'[i] = i
      <4>1. CASE i <= Len(got)
        <5>1. i \in 1..Len(got) /\ i \in 1..Len(got) + take
          BY <3>2, <3>3, <4>1
        <5>2. QED BY <3>3, <3>4, <4>1, <5>1
      <4>2. CASE i > Len(got)
        <5>1. i - Len(got) \in 1..take /\ i \in 1..Len(got) + take /\ ~(i <= Len(got))
          BY <3>2, <3>3, <4>2
        <5>2. got'[i] = r[i - Len(got)]
          BY <3>3, <5>1
        <5>3. r[i - Len(got)] = sh.rx[sh.rx_off + (i - Len(got))]
          BY <2>2, <5>1
        <5>4. sh.rx_off + (i - Len(got)) \in sh.rx_off + 1..Len(sh.rx)
          <6>1. /\ sh.rx_off \in Nat /\ Len(sh.rx) \in Nat /\ Len(got) \in Nat /\ i \in Nat
                /\ sh.rx_off + take <= Len(sh.rx) /\ i - Len(got) \in 1..take
            BY <3>2, <3>3, <5>1
          <6>2. sh.rx_off \in Int /\ Len(sh.rx) \in Int /\ take \in Int /\ i - Len(got) \in Int
            BY <6>1
          <6>3. QED BY <6>1, <6>2, PlaceInRange, Zenon
        <5>5. sh.rx[sh.rx_off + (i - Len(got))] = Len(got) - sh.rx_off + (sh.rx_off + (i - Len(got)))
          BY <3>4, <5>4
        <5>6. i \in Int /\ Len(got) \in Int /\ sh.rx_off \in Int
          BY <3>2, <3>3
        <5>7. Len(got) - sh.rx_off + (sh.rx_off + (i - Len(got))) = i
          BY <5>6
        <5>8. QED BY <5>2, <5>3, <5>5, <5>7, Zenon
      <4>3. QED BY <3>2, <3>3, <4>1, <4>2
    <3>6. \A i \in sh'.rx_off + 1..Len(sh'.rx) : sh'.rx[i] = Len(got') - sh'.rx_off + i
      <4>1. ASSUME NEW i, i \in sh'.rx_off + 1..Len(sh'.rx)
            PROVE  sh'.rx[i] = Len(got') - sh'.rx_off + i
        <5>1. i \in sh.rx_off + 1..Len(sh.rx)
          BY <3>1, <3>2, <4>1
        <5>2. sh.rx[i] = Len(got) - sh.rx_off + i
          BY <3>4, <5>1
        <5>3. Len(got') - sh'.rx_off + i = Len(got) - sh.rx_off + i
          BY <3>1, <3>2, <3>3, <5>1
        <5>4. QED BY <3>1, <5>2, <5>3
      <4>2. QED BY <4>1
    <3>7. ~sh'.rx_failed => Len(got') + Len(sh'.rx) - sh'.rx_off = fw'.sent
      BY <3>1, <3>2, <3>3, <3>4
    <3>8. sh'.rx_off <= Len(sh'.rx) /\ pc' = "open" /\ res' = "DATA"
      BY <2>2, <3>1, <3>2
    <3>9. QED BY <3>1, <3>4, <3>5, <3>6, <3>7, <3>8 DEF Ordered
  <2>3. pc' = "open"
    BY <1>16 DEF ReadEnds, Ends
  <2>4. QED BY <1>0, <1>16, <2>1, <2>2, <2>3, ReadTaken
<1>17. ASSUME WriteSends PROVE Ordered'
  BY <1>0, <1>17 DEF Ordered, WriteSends, Waits
<1>18. ASSUME WriteEnds PROVE Ordered'
  BY <1>0, <1>18 DEF Ordered, TypeOK, Shared, WriteEnds, Ends
<1>19. ASSUME ReadablePolls PROVE Ordered'
  BY <1>0, <1>19 DEF Ordered, ReadablePolls
<1>20. ASSUME ReadableEnds PROVE Ordered'
  BY <1>0, <1>20 DEF Ordered, ReadableEnds, Ends
<1>21. ASSUME Cancelled PROVE Ordered'
  BY <1>0, <1>21 DEF Ordered, Cancelled
<1>22. ASSUME ReleaseStream PROVE Ordered'
  BY <1>0, <1>22 DEF Ordered, ReleaseStream, Release
<1>23. ASSUME Preparing PROVE Ordered'
  BY <1>0, <1>23 DEF Ordered, Preparing, StateChanged, StateAfter, Starting, caller
<1>24. ASSUME Ready PROVE Ordered'
  BY <1>0, <1>24 DEF Ordered, Ready, StateChanged, StateAfter, Starting, caller
<1>25. ASSUME CancelDone PROVE Ordered'
  BY <1>0, <1>25 DEF Ordered, CancelDone, StateChanged, StateAfter, Starting, caller
<1>26. ASSUME NEW error \in Domains \cup {"none"}, Waiting(error)
      PROVE  Ordered'
  BY <1>0, <1>26 DEF Ordered, Waiting, StateChanged, StateAfter, Starting, caller
<1>27. ASSUME NEW error \in Domains, Failed(error) PROVE Ordered'
  BY <1>0, <1>27 DEF Ordered, Failed, StateChanged, StateAfter, Starting, caller
<1>28. ASSUME NEW k \in 0..MaxBytes, NEW short \in BOOLEAN, NEW complete \in BOOLEAN,
     NEW error \in BOOLEAN, Receive(k, short, complete, error)
      PROVE  Ordered'
  <2> DEFINE s == IF k > 0 /\ ~short THEN RxAppend(sh, Content(k)) ELSE sh
  <2>1. sh \in Shared /\ fw \in Connection /\ sh.rx_off <= Len(sh.rx) /\ k \in Nat
    BY <1>0 DEF TypeOK, Ordered
  <2>2. sh' = [s EXCEPT !.rx_failed = @ \/ short \/ error,
                        !.nw_domain = IF error THEN "posix" ELSE @,
                        !.rx_eof = @ \/ complete, !.rx_pending = FALSE]
    BY <1>28 DEF Receive, s
  <2>3. /\ fw'.sent = fw.sent + k /\ (fw'.fin <=> fw.fin \/ complete) /\ got' = got
        /\ pc' = pc /\ res' = res /\ fw.recv > 0
    BY <1>28, <2>1 DEF Receive, caller, Connection
  <2>4. ~sh.rx_eof /\ ~sh.rx_failed /\ res # "EOF"
    BY <1>0, <2>3 DEF Ordered, Pending, One
  <2>5. /\ sh.rx \in Seq(Nat) /\ sh.rx_off \in Nat /\ fw.sent \in Nat /\ Len(sh.rx) \in Nat
        /\ got \in Seq(Nat) /\ Len(got) \in Nat
    BY <1>0, <2>1 DEF TypeOK, Shared, Connection
  <2>6. CASE k > 0 /\ ~short
    <3>1. s = RxAppend(sh, Content(k))
      BY <2>6
    <3>2. s \in Shared
      BY <2>1, <3>1, AppendTyped
    <3>3. /\ ~s.rx_eof /\ ~s.rx_failed
          /\ Len(s.rx) - s.rx_off = Len(sh.rx) - sh.rx_off + k
          /\ \A i \in s.rx_off + 1..Len(s.rx) :
               LET j == i - s.rx_off + sh.rx_off
               IN  s.rx[i] = IF j <= Len(sh.rx) THEN sh.rx[j] ELSE fw.sent + j - Len(sh.rx)
      BY <2>1, <2>4, <3>1, AppendChanges
    <3> HIDE DEF s
    <3>4. /\ sh'.rx = s.rx /\ sh'.rx_off = s.rx_off /\ (sh'.rx_eof <=> complete)
          /\ ~sh'.rx_pending /\ (sh'.rx_failed <=> error)
          /\ s.rx_off \in Nat /\ Len(s.rx) \in Nat
      BY <2>2, <2>6, <3>2, <3>3 DEF Shared
    <3>5. /\ \A i \in 1..Len(got) : got[i] = i
          /\ \A i \in sh.rx_off + 1..Len(sh.rx) : sh.rx[i] = Len(got) - sh.rx_off + i
          /\ Len(got) + Len(sh.rx) - sh.rx_off = fw.sent
          /\ (sh.rx_eof => fw.fin) /\ (pc = "none" => got = <<>>)
          /\ sh.rx_off <= Len(sh.rx)
      BY <1>0, <2>4 DEF Ordered
    <3>6. \A i \in s.rx_off + 1..Len(s.rx) : s.rx[i] = Len(got) - s.rx_off + i
      <4>1. /\ sh.rx_off \in Nat /\ Len(sh.rx) \in Nat /\ Len(got) \in Nat /\ fw.sent \in Nat
            /\ s.rx_off \in Nat /\ Len(s.rx) \in Nat
        BY <2>5, <3>4
      <4>2. \A i \in s.rx_off + 1..Len(s.rx) :
              s.rx[i] = IF i - s.rx_off + sh.rx_off <= Len(sh.rx)
                        THEN sh.rx[i - s.rx_off + sh.rx_off]
                        ELSE fw.sent + (i - s.rx_off + sh.rx_off) - Len(sh.rx)
        BY <3>3
      <4>3. /\ \A i \in sh.rx_off + 1..Len(sh.rx) : sh.rx[i] = Len(got) - sh.rx_off + i
            /\ Len(got) + Len(sh.rx) - sh.rx_off = fw.sent
        BY <3>5
      <4>4. QED BY <4>1, <4>2, <4>3, Continued
    <3>7. Len(got) + Len(s.rx) - s.rx_off = fw.sent + k
      <4>1. \A g, a, o, b, p, t \in Int : b - p = a - o + k /\ g + a - o = t => g + b - p = t + k
        BY <2>1
      <4>2. /\ Len(got) \in Int /\ Len(sh.rx) \in Int /\ sh.rx_off \in Int /\ Len(s.rx) \in Int
            /\ s.rx_off \in Int /\ fw.sent \in Int
        BY <2>5, <3>4
      <4>3. /\ Len(s.rx) - s.rx_off = Len(sh.rx) - sh.rx_off + k
            /\ Len(got) + Len(sh.rx) - sh.rx_off = fw.sent
        BY <3>3, <3>5
      <4>4. QED BY <4>1, <4>2, <4>3
    <3>8. s.rx_off <= Len(s.rx)
      BY <2>1, <2>5, <3>3, <3>4, <3>5
    <3>9. QED BY <2>3, <2>4, <3>4, <3>5, <3>6, <3>7, <3>8 DEF Ordered
  <2>7. CASE ~(k > 0 /\ ~short)
    <3>1. /\ sh'.rx = sh.rx /\ sh'.rx_off = sh.rx_off /\ (sh'.rx_eof <=> complete)
          /\ ~sh'.rx_pending /\ (sh'.rx_failed <=> short \/ error)
      BY <2>1, <2>2, <2>4, <2>7 DEF Shared
    <3>2. short \/ k = 0
      BY <2>1, <2>7
    <3>3. QED BY <1>0, <2>3, <2>4, <2>5, <3>1, <3>2 DEF Ordered
  <2>8. QED BY <2>6, <2>7
<1>29. ASSUME NEW error \in BOOLEAN, Sent(error) PROVE Ordered'
  BY <1>0, <1>29 DEF Ordered, Sent, caller
<1>30. ASSUME Reported PROVE Ordered'
  BY <1>0, <1>30 DEF Ordered, Reported, caller
<1>31. ASSUME VerifyStarts PROVE Ordered'
  BY <1>0, <1>31 DEF Ordered, VerifyStarts, Starting, caller
<1>32. ASSUME NEW v \in Given, VerifyEnds(v) PROVE Ordered'
  BY <1>0, <1>32 DEF Ordered, VerifyEnds, caller
<1>33. ASSUME Wake PROVE Ordered'
  BY <1>0, <1>33 DEF Ordered, Wake, caller
<1>34. ASSUME BlockReleases PROVE Ordered'
  BY <1>0, <1>34 DEF Ordered, BlockReleases, Release, caller
<1>35. ASSUME Fork PROVE Ordered'
  BY <1>0, <1>35 DEF Ordered, Fork
<1>36. ASSUME FrameworkKills PROVE Ordered'
  BY <1>0, <1>36 DEF Ordered, FrameworkKills
<1>37. ASSUME TwinPolls PROVE Ordered'
  BY <1>0, <1>37 DEF Ordered, TwinPolls, caller
<1>38. ASSUME UNCHANGED vars PROVE Ordered'
  BY <1>0, <1>38 DEF Ordered, vars
<1> QED
  BY <1>1, <1>2, <1>3, <1>4, <1>5, <1>6, <1>7, <1>8, <1>9, <1>10, <1>11, <1>12, <1>13, <1>14,
       <1>15, <1>16, <1>17, <1>18, <1>19, <1>20, <1>21, <1>22, <1>23, <1>24, <1>25, <1>26, <1>27,
       <1>28, <1>29, <1>30, <1>31, <1>32, <1>33, <1>34, <1>35, <1>36, <1>37, <1>38
  DEF Next, Wait, Operation, Continue, State, Completion, Verify, Verdict, BlockEnd

\* Only a framework call kills the child, and it stays dead.
LEMMA KilledStep == ASSUME IInv, [Next]_vars PROVE KilledByUse'
<1>0. TypeOK /\ Shape /\ Pending /\ Armed /\ KilledByUse
  BY DEF IInv
<1>1. ASSUME FrameworkKills PROVE KilledByUse'
  <2>1. CASE pc = "send"
    <3>1. sh.sends_pending = fw.sends + 1 /\ fw.sends \in Nat
      BY <1>0, <2>1 DEF Pending, One, TypeOK, Connection
    <3>2. sh' = sh /\ sh.sends_pending > 0
      BY <1>1, <3>1 DEF FrameworkKills
    <3>3. QED BY <3>2 DEF KilledByUse
  <2>2. CASE pc = "open" /\ Arms(sh)
    <3>1. sh' = sh /\ Pred("rx", sh)
      BY <1>0, <1>1, <2>2 DEF FrameworkKills, Armed, Serving, Arms
    <3>2. Len(sh.rx) > sh.rx_off
      BY <2>2, <3>1 DEF Arms, Pred, Dead
    <3>3. QED BY <3>1, <3>2 DEF KilledByUse
  <2>3. QED BY <1>1, <2>1, <2>2 DEF FrameworkKills
<1>2. ASSUME ~FrameworkKills PROVE pc' = "killed" => pc = "killed" /\ sh' = sh
  <2>1. pc = "killed" => ~Mine
    BY <1>0 DEF Shape
  <2>2. CASE Wait
    BY <2>2 DEF Wait, WaitCheck, WaitTick, WaitPoll
  <2>3. CASE Operation
    BY <1>2, <2>3 DEF Operation, DialForked, DialStarts, DialFails, ReadStarts, WriteStarts,
       Readable, Close, Destroy, CancelFor, Waits, Ends
  <2>4. CASE Continue
    BY <2>4 DEF Continue, DialSettled, ReportRetain, ReportAsk, DialOpened, ReadEnds, WriteSends,
       WriteEnds, ReadablePolls, ReadableEnds, Cancelled, ReleaseStream, CancelFor, Waits, Ends
  <2>5. CASE State
    BY <2>1, <2>5 DEF State, Preparing, Ready, CancelDone, Waiting, Failed, Starting, StateChanged,
       caller
  <2>6. CASE Completion
    <3>1. ASSUME NEW k \in 0..MaxBytes, NEW short \in BOOLEAN, NEW complete \in BOOLEAN,
                 NEW error \in BOOLEAN, Receive(k, short, complete, error)
          PROVE  Mine /\ UNCHANGED caller
      BY <3>1 DEF Receive
    <3>2. ASSUME NEW error \in BOOLEAN, Sent(error) PROVE Mine /\ UNCHANGED caller
      BY <3>2 DEF Sent
    <3>3. Mine /\ UNCHANGED caller
      BY <2>6, <3>1, <3>2 DEF Completion, Reported
    <3>4. QED BY <2>1, <3>3 DEF caller
  <2>7. CASE Verify \/ BlockEnd
    BY <2>1, <2>7 DEF Verify, VerifyStarts, Verdict, VerifyEnds, Starting, BlockEnd, Wake,
       BlockReleases, caller
  <2>8. CASE Fork \/ TwinPolls \/ UNCHANGED vars
    BY <2>8 DEF Fork, TwinPolls, caller, vars
  <2>9. QED BY <2>2, <2>3, <2>4, <2>5, <2>6, <2>7, <2>8 DEF Next
<1>3. QED BY <1>0, <1>1, <1>2 DEF KilledByUse

-----------------------------------------------------------------------------
LEMMA IInvInit == Init => IInv
<1> SUFFICES ASSUME Init PROVE IInv
  OBVIOUS
<1>1. TypeOK
  <2>1. sh \in Shared /\ fw \in Connection
    BY InitialTyped DEF Init
  <2>2. got \in Seq(Nat)
    BY DEF Init
  <2>3. pc = "none" /\ goal \in Goals /\ q \in Blocks /\ then = "none" /\ rc = "OK" /\ pipe = FALSE
    BY DEF Init, Goals, Blocks
  <2>4. proc \in 1..2 /\ armed \in 0..2
    BY DEF Init
  <2>5. twin = FALSE /\ FALSE \in BOOLEAN
    BY DEF Init
  <2>6. QED BY <2>1, <2>2, <2>3, <2>4, <2>5 DEF TypeOK
<1>2. Counted
  BY DEF Init, Counted, Mine, NoConnection
<1>3. Shape
  BY DEF Init, Shape, Mine, InWait, NoConnection
<1>4. Pending
  BY DEF Init, Pending, One, NoShared, NoConnection
<1>5. Armed /\ Awake
  BY DEF Init, Armed, Serving, Awake, InWait, Mine, NoConnection
<1>6. Ordered
  BY DEF Init, Ordered, NoShared, NoConnection
<1>7. KilledByUse
  BY DEF Init, KilledByUse
<1>8. QED BY <1>1, <1>2, <1>3, <1>4, <1>5, <1>6, <1>7 DEF IInv

LEMMA IInvNext == IInv /\ [Next]_vars => IInv'
  BY ShapeStep, TypeStep, PendingStep, CountedStep, ArmedStep, AwakeStep, OrderedStep,
     KilledStep DEF IInv

\* The types, the count of references and what the two threads may assume of
\* each other hold in every reachable state, for any number of bytes and of
\* outstanding sends.
THEOREM Inductive == Spec => []IInv
<1>1. Init => IInv
  BY IInvInit
<1>2. IInv /\ [Next]_vars => IInv'
  BY IInvNext
<1>3. QED BY <1>1, <1>2, PTL DEF Spec

\* shared_free() runs when nobody is left to touch sh: each of those the
\* property names accounts for a reference, the verify block, which has none,
\* for the connection's.
THEOREM NothingTouchedAfterFree == Spec => []NoUseAfterFree
<1>1. IInv => NoUseAfterFree
  <2> SUFFICES ASSUME IInv,
                      \/ pc \notin {"none", "gone"}
                      \/ Mine /\ (\/ q # "idle" \/ fw.recv > 0 \/ fw.sends > 0 \/ fw.report
                                  \/ fw.state \notin {"none", "cancelled"})
               PROVE  sh.live
    BY DEF NoUseAfterFree
  <2>1. /\ fw.recv \in Nat /\ fw.sends \in Nat /\ q \in Blocks
        /\ sh.refs \in Int /\ fw.report \in BOOLEAN
    BY DEF IInv, TypeOK, Shared, Connection
  <2>2. CASE Mine
    <3>1. q \in {"verify", "wake"} => fw.state \notin {"none", "cancelled"}
      BY DEF IInv, Shape
    <3>2. sh.refs > 0
      BY <2>1, <2>2, <3>1 DEF IInv, Counted, One, Blocks
    <3>3. QED BY <2>2, <3>2 DEF IInv, Counted
  <2>3. CASE ~Mine
    BY <2>3 DEF IInv, Shape
  <2>4. QED BY <2>2, <2>3
<1>2. QED BY <1>1, Inductive, PTL

\* wait_for() and readable() cannot sleep through the change they wait for.
THEOREM NoChangeSleptThrough == Spec => []NoLostWakeUp
<1>1. IInv => NoLostWakeUp
  BY DEF IInv, Awake, NoLostWakeUp
<1>2. QED BY <1>1, Inductive, PTL

\* read() hands out the peer's bytes in order, and reports the end when all
\* of them are handed out.
THEOREM BytesInOrder == Spec => []ReadInOrder
<1>1. IInv => ReadInOrder
  <2> SUFFICES ASSUME IInv PROVE ReadInOrder
    OBVIOUS
  <2>1. \A i \in 1..Len(got) : got[i] = i
    BY DEF IInv, Ordered
  <2>2. ASSUME res = "EOF" PROVE fw.fin
    BY <2>2 DEF IInv, Ordered
  <2>3. ASSUME res = "EOF", ~sh.rx_failed PROVE Len(got) = fw.sent
    <3>1. Len(got) \in Nat /\ Len(sh.rx) \in Nat /\ fw.sent \in Nat /\ sh.rx_off \in Nat
      BY DEF IInv, TypeOK, Shared, Connection
    <3>2. sh.rx_off = Len(sh.rx) /\ Len(got) + Len(sh.rx) - sh.rx_off = fw.sent
      BY <2>3 DEF IInv, Ordered
    <3>3. QED BY <3>1, <3>2
  <2>4. QED BY <2>1, <2>2, <2>3 DEF ReadInOrder
<1>2. QED BY <1>1, Inductive, PTL

\* A stream with its caller notices that the peer closes: a receive is
\* outstanding, or readable() says so already.
THEOREM CloseIsNoticed == Spec => []CloseNoticed
<1>1. IInv => CloseNoticed
  BY DEF IInv, Armed, Serving, Pending, One, CloseNoticed
<1>2. QED BY <1>1, Inductive, PTL

\* What kills a forked child is to use the stream: not its close, not its
\* release, and no probe or read of an idle one.
THEOREM ChildDiesOfUseOnly == Spec => []KilledByUse
<1>1. IInv => KilledByUse
  BY DEF IInv
<1>2. QED BY <1>1, Inductive, PTL
=============================================================================
