--------------------------------- MODULE Nw ---------------------------------
(***************************************************************************)
(* The macOS TLS backend (zuh_tls_nw.c): a stream over an nw_connection_t. *)
(* Two threads run here.  The caller's, which waits only in wait_for(), by *)
(* polling a pipe, and the connection's serial dispatch queue, on which    *)
(* Network.framework runs one block after another.  They share `sh`, under *)
(* its mutex: a section that holds it is one step, and what a block does   *)
(* after it (wake(), shared_release()) is a step each, so that the caller  *)
(* may run between them.  sh is counted: one reference for the stream, one *)
(* for the connection, dropped by the cancelled event, and one for each    *)
(* outstanding receive, send or report.                                    *)
(*                                                                         *)
(* A fork copies sh, shares the pipe and leaves the queue behind: a call   *)
(* of Network.framework in the child is SIGILL.  Behaviours follow the     *)
(* process that opened the stream, whose child may poll the same pipe, or  *)
(* the child, whatever it does with the stream it inherited.               *)
(***************************************************************************)
EXTENDS Integers, Sequences, FiniteSetsExt

CONSTANTS
  Cfgs,       \* nw_trust_cfg values, see CheckTrust
  Certs,      \* what servers present: [root, name]
  MaxBytes,   \* bound: bytes the peer sends
  MaxSends    \* bound: sends outstanding at once

ASSUME NwAssumption == MaxBytes \in Nat /\ MaxSends \in Nat

VARIABLES
  sh,     \* nw_shared; `live` until shared_free()
  pipe,   \* a byte is in the pipe
  fw,     \* Network.framework's side of the connection (external)
  q,      \* what the block on the queue has still to do
  pc,     \* where the caller is
  goal,   \* the predicate it waits for
  then,   \* what asked for the cancelled state: close, destroy, a failed dial
  rc,     \* what wait_for() returned
  res,    \* how the last operation of the stream ended
  got,    \* the bytes read() has handed out
  proc,   \* the running process: 1, or 2 in the forked child
  armed,  \* g_guard's owner_pid, 0 while g_armed is 0
  twin    \* a child that inherited the stream polls its pipe too

vars == <<sh, pipe, fw, q, pc, goal, then, rc, res, got, proc, armed, twin>>
caller == <<pc, goal, then, rc, res, got, proc, armed, twin>>

Domains  == {"dns", "tls", "posix"}
Verdicts == {"OK", "TLS", "TLS_CERT", "TLS_HOSTNAME"}
Goals    == {"none", "settled", "report", "rx", "sent", "cancelled"}
Blocks   == {"idle", "verify", "wake", "wake_release", "release"}
-----------------------------------------------------------------------------
(***************************************************************************)
(* The verify block's decision.  cfg.ca_file and cfg.ca_extra are "none",  *)
(* "unreadable" or a CA; a certificate has the CA its chain ends in and    *)
(* whether it is for the name asked for.                                   *)
(***************************************************************************)
\* SecTrustEvaluateWithError() under anchors that replace or join the system's
SecTrustEvaluate(cert, anchors, only, check_host) ==
  /\ cert.root \in anchors \cup (IF only THEN {} ELSE {"system"})
  /\ check_host => cert.name

\* evaluate_under_policy(), first with the name and then without it
Evaluated(cert, cfg, anchors, only) ==
  CASE SecTrustEvaluate(cert, anchors, only, cfg.verify_hostname) -> "OK"
    [] ~SecTrustEvaluate(cert, anchors, only, cfg.verify_hostname)
       /\ cfg.verify_hostname /\ SecTrustEvaluate(cert, anchors, only, FALSE) -> "TLS_HOSTNAME"
    [] OTHER -> "TLS_CERT"

CheckTrust(cert, cfg) ==
  LET only    == cfg.source_file /\ cfg.ca_file # "none"
      files   == (IF only THEN {cfg.ca_file} ELSE {}) \cup ({cfg.ca_extra} \ {"none"})
  IN  CASE "unreadable" \in files -> "TLS"
        [] "unreadable" \notin files /\ ~cfg.verify_peer -> "OK"
        [] OTHER -> Evaluated(cert, cfg, files, only)

Given == {CheckTrust(cert, cfg) : cert \in Certs, cfg \in Cfgs}

\* failure_error(): the class a connection that did not become ready deserves;
\* eauth stands for the code by which the framework reports a proxy's 407
FailureError(s, via_proxy, eauth) ==
  CASE s.verify_err # "OK"                                   -> s.verify_err
    [] s.verify_err = "OK" /\ s.nw_domain = "dns"            -> "DNS"
    [] s.verify_err = "OK" /\ s.nw_domain = "tls"            -> "TLS_HANDSHAKE"
    [] s.verify_err = "OK" /\ s.nw_domain \notin {"dns", "tls"} ->
         IF ~via_proxy THEN "CONNECT" ELSE IF eauth THEN "PROXY_AUTH" ELSE "PROXY"
-----------------------------------------------------------------------------
(***************************************************************************)
(* The shared state.                                                       *)
(***************************************************************************)
NoShared ==
  [live |-> FALSE, refs |-> 0, state |-> "SETUP", nw_domain |-> "none", rx |-> <<>>, rx_off |-> 0,
   rx_pending |-> FALSE, rx_eof |-> FALSE, rx_failed |-> FALSE, sends_pending |-> 0,
   send_failed |-> FALSE, verify_ran |-> FALSE, verify_err |-> "OK", report_done |-> FALSE]

NoConnection ==
  [owner |-> 0, state |-> "none", cancel |-> FALSE, verified |-> FALSE,
   recv |-> 0, sends |-> 0, report |-> FALSE, sent |-> 0, fin |-> FALSE]

\* shared_release()
Release(s) == [s EXCEPT !.refs = @ - 1, !.live = s.refs > 1]

\* Faulty: a buffer of which something was read starts again.
RxAppendEarly(s, data) ==
  IF s.rx_off > 0 THEN [s EXCEPT !.rx = data, !.rx_off = 0] ELSE [s EXCEPT !.rx = @ \o data]

\* rx_append(): a buffer read to its end starts again
RxAppend(s, data) ==
  IF s.rx_off > 0 /\ s.rx_off = Len(s.rx)
  THEN [s EXCEPT !.rx = data, !.rx_off = 0]
  ELSE [s EXCEPT !.rx = @ \o data]

Dead(s) == s.state \in {"FAILED", "CANCELLED"}

\* pred_rx(), pred_sent(), pred_settled(), pred_cancelled(), pred_report()
Pred(g, s) ==
  CASE g = "rx"        -> Len(s.rx) > s.rx_off \/ s.rx_eof \/ s.rx_failed \/ Dead(s)
    [] g = "sent"      -> s.sends_pending = 0 \/ s.send_failed \/ Dead(s)
    [] g = "settled"   -> s.state # "SETUP"
    [] g = "cancelled" -> s.state = "CANCELLED"
    [] g = "report"    -> s.report_done

\* arm_receive_locked(): whether it asks for a receive, and what that changes
Arms(s) == ~s.rx_pending /\ ~s.rx_eof /\ ~s.rx_failed /\ s.state = "READY"
ArmShared(s) == IF Arms(s) THEN [s EXCEPT !.rx_pending = TRUE, !.refs = @ + 1] ELSE s
ArmConnection(s, f) == IF Arms(s) THEN [f EXCEPT !.recv = @ + 1] ELSE f
-----------------------------------------------------------------------------
Init ==
  /\ sh = NoShared /\ pipe = FALSE /\ fw = NoConnection /\ q = "idle"
  /\ pc = "none" /\ goal = "none" /\ then = "none" /\ rc = "OK"
  /\ res = "none" /\ got = <<>>
  /\ proc = 1 /\ armed = 0 /\ twin = FALSE

\* The caller's next steps: back to its caller, or into wait_for()
Ends(r)  == pc' = "open" /\ res' = r /\ goal' = "none" /\ rc' = "OK"
Waits(g) == pc' = "check" /\ goal' = g
Mine     == fw.owner = proc
-----------------------------------------------------------------------------
(***************************************************************************)
(* zuh_tls_dial().                                                         *)
(***************************************************************************)
\* Faulty: the connection's reference is forgotten.
FreshOfStream == [NoShared EXCEPT !.live = TRUE, !.refs = 1]

Fresh == [NoShared EXCEPT !.live = TRUE, !.refs = 2]   \* the stream's, the connection's

\* A forked child of a process that has used Network.framework is refused.
DialForked ==
  /\ pc = "none" /\ armed \notin {0, proc}
  /\ res' = "FORK"
  /\ UNCHANGED <<sh, pipe, fw, q, pc, goal, then, rc, got, proc, armed, twin>>

\* The configuration, the proxy API, the pipe, memory; or, with the guard
\* armed, nw_connection_create(), after which shared_free() has run.
DialFails(code) ==
  /\ pc = "none" /\ armed \in {0, proc}
  /\ res' = code
  /\ armed' = IF code = "CONNECT" THEN proc ELSE armed
  /\ UNCHANGED <<sh, pipe, fw, q, pc, goal, then, rc, got, proc, twin>>

DialStarts ==
  /\ pc = "none" /\ armed \in {0, proc}
  /\ armed' = proc /\ sh' = Fresh /\ res' = "none"
  /\ fw' = [NoConnection EXCEPT !.owner = proc, !.state = "setup"]
  /\ Waits("settled")
  /\ UNCHANGED <<pipe, q, then, rc, got, proc, twin>>

\* nw_cancel_and_settle(): the wait is bounded by a second and has no tick.
CancelFor(what) ==
  /\ fw' = [fw EXCEPT !.cancel = TRUE]
  /\ then' = what /\ Waits("cancelled")

DialSettled ==
  /\ pc = "after" /\ goal = "settled"
  /\ IF rc = "OK" /\ sh.state = "READY"
     THEN pc' = "retain" /\ UNCHANGED <<fw, goal, then, res>>
     ELSE /\ \E via_proxy, eauth \in BOOLEAN :
               res' = CASE rc = "OK"        -> FailureError(sh, via_proxy, eauth)
                        [] rc = "TIMEOUT"   -> IF sh.verify_ran THEN "TIMEOUT_TLS" ELSE "TIMEOUT"
                        [] rc = "CANCELLED" -> "CANCELLED"
          /\ CancelFor("destroy")
  /\ UNCHANGED <<sh, pipe, q, rc, got, proc, armed, twin>>

\* record_phases(): a reference, the request, a wait of at most 250 ms
ReportRetain ==
  /\ pc = "retain"
  /\ sh' = [sh EXCEPT !.refs = @ + 1] /\ pc' = "report"
  /\ UNCHANGED <<pipe, fw, q, goal, then, rc, res, got, proc, armed, twin>>

ReportAsk ==
  /\ pc = "report"
  /\ fw' = [fw EXCEPT !.report = TRUE] /\ Waits("report")
  /\ UNCHANGED <<sh, pipe, q, then, rc, res, got, proc, armed, twin>>

DialOpened ==
  /\ pc = "after" /\ goal = "report"
  /\ sh' = ArmShared(sh) /\ fw' = ArmConnection(sh, fw)
  /\ Ends("OPEN")
  /\ UNCHANGED <<pipe, q, then, got, proc, armed, twin>>
-----------------------------------------------------------------------------
(***************************************************************************)
(* wait_for(): the predicate under the mutex, the tick, the deadline, the  *)
(* poll of one slice.                                                      *)
(***************************************************************************)
WaitCheck ==
  /\ pc = "check"
  /\ IF Pred(goal, sh) THEN pc' = "after" /\ rc' = "OK" ELSE pc' = "tick" /\ rc' = rc
  /\ UNCHANGED <<sh, pipe, fw, q, goal, then, res, got, proc, armed, twin>>

\* Faulty: the pipe is drained before it is polled.
WaitTickDrains ==
  /\ pc = "tick"
  /\ \/ pc' = "poll" /\ pipe' = FALSE /\ UNCHANGED rc
     \/ goal # "cancelled" /\ pc' = "after" /\ rc' = "CANCELLED" /\ UNCHANGED pipe
     \/ pc' = "after" /\ rc' = "TIMEOUT" /\ UNCHANGED pipe
  /\ UNCHANGED <<sh, fw, q, goal, then, res, got, proc, armed, twin>>

WaitTick ==
  /\ pc = "tick"
  /\ \/ pc' = "poll" /\ UNCHANGED rc
     \/ goal # "cancelled" /\ pc' = "after" /\ rc' = "CANCELLED"
     \/ pc' = "after" /\ rc' = "TIMEOUT"
  /\ UNCHANGED <<sh, pipe, fw, q, goal, then, res, got, proc, armed, twin>>

\* poll() finds the byte, and drain() takes it, or the slice is over.
WaitPoll ==
  /\ pc = "poll"
  /\ pipe' = FALSE /\ pc' = "check"
  /\ UNCHANGED <<sh, fw, q, goal, then, rc, res, got, proc, armed, twin>>
-----------------------------------------------------------------------------
(***************************************************************************)
(* The stream's operations.  Only close and destroy ask whose process it   *)
(* is; read, write and readable do the same in a forked child, until they  *)
(* call Network.framework.                                                 *)
(***************************************************************************)
\* libdispatch ends a child that asks for a receive, from read() or
\* readable(), or for a send.
FrameworkKills ==
  /\ ~Mine
  /\ pc = "send" \/ (pc = "open" /\ Arms(sh))
  /\ pc' = "killed"
  /\ UNCHANGED <<sh, pipe, fw, q, goal, then, rc, res, got, proc, armed, twin>>

ReadStarts ==
  /\ pc = "open" /\ (Arms(sh) => Mine)
  /\ sh' = ArmShared(sh) /\ fw' = ArmConnection(sh, fw)
  /\ Waits("rx") /\ res' = "none"
  /\ UNCHANGED <<pipe, q, then, rc, got, proc, armed, twin>>

\* Faulty: read() does not ask for the next bytes once it has some.
ReadEndsIdle(n) ==
  /\ pc = "after" /\ goal = "rx"
  /\ LET take == Min({n, Len(sh.rx) - sh.rx_off})
     IN  IF rc = "OK" /\ take > 0
         THEN /\ got' = got \o SubSeq(sh.rx, sh.rx_off + 1, sh.rx_off + take)
              /\ sh' = [sh EXCEPT !.rx_off = @ + take]
              /\ Ends("DATA")
         ELSE /\ Ends(IF rc # "OK" THEN rc ELSE IF sh.rx_eof THEN "EOF" ELSE "IO")
              /\ UNCHANGED <<sh, got>>
  /\ UNCHANGED <<pipe, fw, q, then, proc, armed, twin>>

\* What is buffered goes first, then the end, then the failure.
ReadEnds(n) ==
  /\ pc = "after" /\ goal = "rx"
  /\ LET take == Min({n, Len(sh.rx) - sh.rx_off})
         s    == [sh EXCEPT !.rx_off = @ + take]
     IN  IF rc = "OK" /\ take > 0
         THEN /\ got' = got \o SubSeq(sh.rx, sh.rx_off + 1, sh.rx_off + take)
              /\ sh' = ArmShared(s) /\ fw' = ArmConnection(s, fw)
              /\ Ends("DATA")
         ELSE /\ Ends(IF rc # "OK" THEN rc ELSE IF sh.rx_eof THEN "EOF" ELSE "IO")
              /\ UNCHANGED <<sh, fw, got>>
  /\ UNCHANGED <<pipe, q, then, proc, armed, twin>>

WriteStarts ==
  /\ pc = "open" /\ fw.sends < MaxSends
  /\ IF sh.state # "READY"
     THEN Ends("IO") /\ UNCHANGED sh
     ELSE /\ sh' = [sh EXCEPT !.sends_pending = @ + 1, !.refs = @ + 1]
          /\ pc' = "send" /\ res' = "none" /\ UNCHANGED <<goal, rc>>
  /\ UNCHANGED <<pipe, fw, q, then, got, proc, armed, twin>>

WriteSends ==
  /\ pc = "send" /\ Mine
  /\ fw' = [fw EXCEPT !.sends = @ + 1] /\ Waits("sent")
  /\ UNCHANGED <<sh, pipe, q, then, rc, res, got, proc, armed, twin>>

WriteEnds ==
  /\ pc = "after" /\ goal = "sent"
  /\ Ends(CASE rc # "OK" -> rc
            [] rc = "OK" /\ (sh.send_failed \/ sh.state # "READY") -> "IO"
            [] OTHER -> "WROTE")
  /\ UNCHANGED <<sh, pipe, fw, q, then, got, proc, armed, twin>>

Readable(wait) ==
  /\ pc = "open" /\ (Arms(sh) => Mine)
  /\ sh' = ArmShared(sh) /\ fw' = ArmConnection(sh, fw)
  /\ IF wait /\ ~Pred("rx", sh) THEN pc' = "rpoll" /\ res' = "none" /\ UNCHANGED <<goal, rc>>
                                ELSE Ends(IF Pred("rx", sh) THEN "STALE" ELSE "QUIET")
  /\ UNCHANGED <<pipe, q, then, got, proc, armed, twin>>

ReadablePolls ==
  /\ pc = "rpoll" /\ pipe' = FALSE /\ pc' = "rcheck"
  /\ UNCHANGED <<sh, fw, q, goal, then, rc, res, got, proc, armed, twin>>

ReadableEnds ==
  /\ pc = "rcheck" /\ Ends(IF Pred("rx", sh) THEN "STALE" ELSE "QUIET")
  /\ UNCHANGED <<sh, pipe, fw, q, then, got, proc, armed, twin>>

\* nw_stream_close(): nothing in a forked child
Close ==
  /\ pc = "open" /\ res' = "none"
  /\ IF Mine THEN CancelFor("close")
             ELSE pc' = "closed" /\ UNCHANGED <<fw, goal, then>>
  /\ UNCHANGED <<sh, pipe, q, rc, got, proc, armed, twin>>

\* Faulty: without the question whose process it is.
DestroyAnyway ==
  /\ pc \in {"open", "closed"} /\ res' = "none"
  /\ IF Mine THEN CancelFor("destroy")
             ELSE pc' = "killed" /\ UNCHANGED <<fw, goal, then>>
  /\ UNCHANGED <<sh, pipe, q, rc, got, proc, armed, twin>>

\* nw_impl_free(): a forked child leaks all of it
Destroy ==
  /\ pc \in {"open", "closed"} /\ res' = "none"
  /\ IF Mine THEN CancelFor("destroy")
             ELSE pc' = "gone" /\ UNCHANGED <<fw, goal, then>>
  /\ UNCHANGED <<sh, pipe, q, rc, got, proc, armed, twin>>

Cancelled ==
  /\ pc = "after" /\ goal = "cancelled"
  /\ pc' = (IF then = "close" THEN "closed" ELSE "release")
  /\ goal' = "none" /\ then' = "none" /\ rc' = "OK"
  /\ UNCHANGED <<sh, pipe, fw, q, res, got, proc, armed, twin>>

\* nw_release(), dispatch_release(), shared_release()
ReleaseStream ==
  /\ pc = "release"
  /\ sh' = Release(sh) /\ pc' = "gone"
  /\ UNCHANGED <<pipe, fw, q, goal, then, rc, res, got, proc, armed, twin>>

\* R forks while none of its threads is in the backend.  The behaviour goes on
\* as the child, or as the parent of a child that has the stream too.
Fork ==
  /\ pc \in {"none", "open", "closed"} /\ proc = 1
  /\ \/ proc' = 2 /\ UNCHANGED twin
     \/ pc # "none" /\ twin' = TRUE /\ UNCHANGED proc
  /\ UNCHANGED <<sh, pipe, fw, q, pc, goal, then, rc, res, got, armed>>

\* The child's wait_for() or readable() drains the pipe that is its parent's.
TwinPolls ==
  /\ twin /\ pipe
  /\ pipe' = FALSE
  /\ UNCHANGED <<sh, fw, q, caller>>
-----------------------------------------------------------------------------
(***************************************************************************)
(* The queue.  A block starts when the one before has ended.               *)
(***************************************************************************)
Starting == q = "idle" /\ Mine /\ fw.state \notin {"none", "cancelled"}

\* The verify block reads sh->trust without a reference of its own.
VerifyStarts ==
  /\ Starting /\ fw.state = "setup" /\ ~fw.verified
  /\ q' = "verify"
  /\ UNCHANGED <<sh, pipe, fw, caller>>

VerifyEnds(v) ==
  /\ q = "verify" /\ Mine /\ q' = "idle"
  /\ sh' = [sh EXCEPT !.verify_ran = TRUE, !.verify_err = IF v # "OK" THEN v ELSE @]
  /\ fw' = [fw EXCEPT !.verified = TRUE, !.state = IF v = "OK" THEN @ ELSE "refused"]
  /\ UNCHANGED <<pipe, caller>>

\* The state-changed handler; domain is "none" when it is given no error.
StateAfter(s, state, error) ==
  CASE state = "ready"     -> IF s.state = "SETUP" THEN "READY" ELSE s.state
    [] state = "waiting"   -> IF error # "none" /\ s.state = "SETUP" THEN "FAILED" ELSE s.state
    [] state = "failed"    -> IF s.state # "CANCELLED" THEN "FAILED" ELSE s.state
    [] state = "cancelled" -> "CANCELLED"
    [] state = "preparing" -> s.state

\* Faulty: the cancelled event keeps the connection's reference.
StateChangedKeeps(state, error) ==
  /\ sh' = [sh EXCEPT !.nw_domain = IF error = "none" THEN @ ELSE error,
                      !.state = StateAfter(sh, state, error)]
  /\ q' = "wake"
  /\ UNCHANGED <<pipe, caller>>

StateChanged(state, error) ==
  /\ sh' = [sh EXCEPT !.nw_domain = IF error = "none" THEN @ ELSE error,
                      !.state = StateAfter(sh, state, error)]
  /\ q' = IF state = "cancelled" THEN "wake_release" ELSE "wake"
  /\ UNCHANGED <<pipe, caller>>

Preparing ==
  /\ Starting /\ fw.state = "setup" /\ ~fw.verified /\ ~fw.cancel
  /\ StateChanged("preparing", "none") /\ UNCHANGED fw

Ready ==
  /\ Starting /\ fw.state = "setup" /\ fw.verified
  /\ StateChanged("ready", "none") /\ fw' = [fw EXCEPT !.state = "ready"]

Waiting(error) ==
  /\ Starting /\ fw.state \in {"setup", "refused"} /\ ~fw.cancel
  /\ fw.state = "refused" => error = "tls"
  /\ StateChanged("waiting", error) /\ UNCHANGED fw

Failed(error) ==
  /\ Starting /\ fw.state \in {"setup", "refused", "ready"}
  /\ fw.state = "refused" => error = "tls"
  /\ fw.state = "ready" => error = "posix"
  /\ StateChanged("failed", error) /\ fw' = [fw EXCEPT !.state = "failed"]

CancelDone ==
  /\ Starting /\ fw.cancel
  /\ StateChanged("cancelled", "none") /\ fw' = [fw EXCEPT !.state = "cancelled"]

\* The receive's completion: content, and the peer's end or an error.  Memory
\* may be short for the content.  Outstanding ones also end after a cancel.
Content(k) == [i \in 1..k |-> fw.sent + i]

Receive(k, short, complete, error) ==
  /\ q = "idle" /\ Mine /\ fw.recv > 0
  /\ k > 0 => fw.state = "ready" /\ fw.sent + k <= MaxBytes
  /\ complete => fw.state = "ready" /\ ~error
  /\ short => k > 0
  /\ k > 0 \/ complete \/ error
  /\ LET s == IF k > 0 /\ ~short THEN RxAppend(sh, Content(k)) ELSE sh
     IN  sh' = [s EXCEPT !.rx_failed = @ \/ short \/ error,
                         !.nw_domain = IF error THEN "posix" ELSE @,
                         !.rx_eof = @ \/ complete, !.rx_pending = FALSE]
  /\ fw' = [fw EXCEPT !.recv = @ - 1, !.sent = @ + k, !.fin = @ \/ complete]
  /\ q' = "wake_release"
  /\ UNCHANGED <<pipe, caller>>

Sent(error) ==
  /\ q = "idle" /\ Mine /\ fw.sends > 0
  /\ ~error => fw.state = "ready"
  /\ sh' = [sh EXCEPT !.sends_pending = @ - 1, !.send_failed = @ \/ error,
                      !.nw_domain = IF error THEN "posix" ELSE @]
  /\ fw' = [fw EXCEPT !.sends = @ - 1]
  /\ q' = "wake_release"
  /\ UNCHANGED <<pipe, caller>>

Reported ==
  /\ q = "idle" /\ Mine /\ fw.report
  /\ sh' = [sh EXCEPT !.report_done = TRUE] /\ fw' = [fw EXCEPT !.report = FALSE]
  /\ q' = "wake_release"
  /\ UNCHANGED <<pipe, caller>>

\* wake(), after the mutex and before the reference is given back
Wake ==
  /\ q \in {"wake", "wake_release"} /\ Mine
  /\ pipe' = TRUE /\ q' = IF q = "wake" THEN "idle" ELSE "release"
  /\ UNCHANGED <<sh, fw, caller>>

BlockReleases ==
  /\ q = "release" /\ Mine
  /\ sh' = Release(sh) /\ q' = "idle"
  /\ UNCHANGED <<pipe, fw, caller>>
-----------------------------------------------------------------------------
Wait == WaitCheck \/ WaitTick \/ WaitPoll

Operation ==
  \/ DialForked \/ DialStarts \/ \E code \in {"TLS", "PROXY", "IO", "NOMEM", "CONNECT"} : DialFails(code)
  \/ ReadStarts \/ WriteStarts \/ \E wait \in BOOLEAN : Readable(wait)
  \/ Close \/ Destroy \/ FrameworkKills

Continue ==
  \/ DialSettled \/ ReportRetain \/ ReportAsk \/ DialOpened
  \/ \E n \in 1..MaxBytes : ReadEnds(n)
  \/ WriteSends \/ WriteEnds \/ ReadablePolls \/ ReadableEnds
  \/ Cancelled \/ ReleaseStream

State ==
  \/ Preparing \/ Ready \/ CancelDone
  \/ \E error \in Domains \cup {"none"} : Waiting(error)
  \/ \E error \in Domains : Failed(error)

Completion ==
  \/ \E k \in 0..MaxBytes, short, complete, error \in BOOLEAN : Receive(k, short, complete, error)
  \/ \E error \in BOOLEAN : Sent(error)
  \/ Reported

\* How what was asked of a connection ends when it is cancelled
Aborted == fw.cancel /\ (Receive(0, FALSE, FALSE, TRUE) \/ Sent(TRUE) \/ Reported)

Verdict  == \E v \in Given : VerifyEnds(v)
Verify   == VerifyStarts \/ Verdict
BlockEnd == Wake \/ BlockReleases

Next == Wait \/ Operation \/ Continue \/ State \/ Completion \/ Verify \/ BlockEnd \/ Fork \/ TwinPolls

\* The caller's thread and the queue are scheduled, and Network.framework ends
\* what it was asked for once the connection is cancelled.
Fairness ==
  /\ WF_vars(Wait \/ Continue) /\ WF_vars(BlockEnd \/ Verdict)
  /\ WF_vars(Aborted) /\ WF_vars(CancelDone)

Spec == Init /\ [][Next]_vars /\ Fairness
-----------------------------------------------------------------------------
Shared ==
  [live : BOOLEAN, refs : Int, state : {"SETUP", "READY", "FAILED", "CANCELLED"},
   nw_domain : Domains \cup {"none"}, rx : Seq(Nat), rx_off : Nat, rx_pending : BOOLEAN,
   rx_eof : BOOLEAN, rx_failed : BOOLEAN, sends_pending : Int, send_failed : BOOLEAN,
   verify_ran : BOOLEAN, verify_err : Verdicts, report_done : BOOLEAN]

Connection ==
  [owner : 0..2, state : {"none", "setup", "refused", "ready", "failed", "cancelled"},
   cancel : BOOLEAN, verified : BOOLEAN, recv : Nat, sends : Nat, report : BOOLEAN,
   sent : Nat, fin : BOOLEAN]

TypeOK ==
  /\ sh \in Shared /\ fw \in Connection /\ pipe \in BOOLEAN /\ q \in Blocks
  /\ pc \in {"none", "open", "closed", "gone", "check", "tick", "poll", "after", "retain", "report",
             "send", "rpoll", "rcheck", "release", "killed"}
  /\ goal \in Goals /\ then \in {"none", "close", "destroy"} /\ rc \in {"OK", "CANCELLED", "TIMEOUT"}
  /\ got \in Seq(Nat) /\ proc \in 1..2 /\ armed \in 0..2 /\ twin \in BOOLEAN

One(b) == IF b THEN 1 ELSE 0

\* The count of sh is the number of those who may still touch it: the stream,
\* the connection until its cancelled event, each outstanding receive, send
\* and report, and a block that has yet to give its reference back.
Counted ==
  Mine =>
    /\ sh.refs = One(pc \notin {"none", "gone"}) + One(fw.state \notin {"none", "cancelled"})
                  + fw.recv + fw.sends + One(fw.report)
                  + One(q \in {"wake_release", "release"}) + One(pc \in {"report", "send"})
    /\ sh.live <=> sh.refs > 0

\* Where the caller and the queue can be: in a child the caller waits for bytes
\* only, never frees sh, and has no receive to ask for once it waits; a block
\* that holds no reference runs before the cancelled event.
InWait == pc \in {"check", "tick", "poll", "after"}
Shape ==
  /\ pc = "none" <=> fw.owner = 0
  /\ pc = "none" => fw = NoConnection /\ q = "idle"
  /\ fw.owner <= proc
  /\ ~Mine => pc \notin {"retain", "report", "release"} /\ (pc # "none" => sh.live)
  /\ ~Mine /\ InWait => goal = "rx" /\ ~Arms(sh)
  /\ pc = "killed" => ~Mine
  /\ InWait => goal # "none"
  /\ pc \in {"retain", "report"} => goal = "settled"
  /\ goal = "settled" => ~fw.report
  /\ q = "verify" => fw.state = "setup"
  /\ q = "wake" => fw.state \notin {"none", "cancelled"}

\* What was asked of the framework is what sh says is pending.
Pending ==
  /\ fw.recv = One(sh.rx_pending)
  /\ pc # "killed" => sh.sends_pending = fw.sends + One(pc = "send")

\* A stream its caller has been given is past the setup, and a receive is
\* outstanding or there is something to read.
Serving == pc \in {"open", "send", "rpoll", "rcheck"} \/ (InWait /\ goal \in {"rx", "sent"})
Armed ==
  /\ Serving \/ pc \in {"retain", "report"} \/ (InWait /\ goal = "report") => sh.state # "SETUP"
  /\ Serving /\ sh.state = "READY" => sh.rx_pending \/ Pred("rx", sh)

\* From the moment it has found its predicate false, the caller cannot miss
\* the change, unless a child takes the byte.
Awake ==
  ~twin =>
    /\ pc \in {"tick", "poll"} /\ Pred(goal, sh) => pipe \/ q \in {"wake", "wake_release"}
    /\ pc = "rpoll" /\ Pred("rx", sh) => pipe \/ q \in {"wake", "wake_release"}

\* What is buffered continues what was handed out, and nothing was received
\* that is in neither unless the receiving failed; after the end, or a failure,
\* no receive is outstanding.
Ordered ==
  /\ pc = "none" => got = <<>>
  /\ sh.rx_off <= Len(sh.rx)
  /\ \A i \in 1..Len(got) : got[i] = i
  /\ \A i \in sh.rx_off + 1..Len(sh.rx) : sh.rx[i] = Len(got) - sh.rx_off + i
  /\ ~sh.rx_failed => Len(got) + Len(sh.rx) - sh.rx_off = fw.sent
  /\ sh.rx_eof => fw.fin
  /\ sh.rx_eof \/ sh.rx_failed => ~sh.rx_pending
  /\ res = "EOF" => sh.rx_eof /\ (~sh.rx_failed => sh.rx_off = Len(sh.rx))

\* A child that inherited the stream may probe, read, close and free it and
\* live: what kills it is to write, or to read or probe on top of bytes that
\* its parent had received and not read, which is when a receive is asked for.
KilledByUse ==
  pc = "killed" => sh.sends_pending > 0 \/ Len(sh.rx) > sh.rx_off

IInv == TypeOK /\ Counted /\ Shape /\ Pending /\ Armed /\ Awake /\ Ordered /\ KilledByUse

\* Neither thread touches sh after shared_free(): not the caller between the
\* dial and its own release, in a forked child or not, not a block, the verify
\* block included, which holds no reference, and not one Network.framework has
\* still to run.
NoUseAfterFree ==
  \/ pc \notin {"none", "gone"}
  \/ Mine /\ (\/ q # "idle" \/ fw.recv > 0 \/ fw.sends > 0 \/ fw.report
              \/ fw.state \notin {"none", "cancelled"})
  => sh.live

\* A caller asleep in poll() whose predicate holds has a byte in the pipe, or
\* the block that made it hold is about to write one.  Only a child that polls
\* the same pipe can take it; the caller then looks again after its slice.
NoLostWakeUp ==
  ~twin =>
    /\ pc = "poll" /\ Pred(goal, sh) => pipe \/ q \in {"wake", "wake_release"}
    /\ pc = "rpoll" /\ Pred("rx", sh) => pipe \/ q \in {"wake", "wake_release"}

\* What read() hands out is what the peer sent, in its order, and it reports
\* the end only when the peer ended and everything before the end was handed
\* out, although the queue fills the buffer while the caller empties it.
ReadInOrder ==
  /\ \A i \in 1..Len(got) : got[i] = i
  /\ res = "EOF" => fw.fin /\ (~sh.rx_failed => Len(got) = fw.sent)

\* While the stream is with its caller, idle in the pool perhaps, a receive is
\* outstanding or readable() already says "do not reuse".
CloseNoticed ==
  pc = "open" /\ Mine /\ sh.state = "READY" => fw.recv > 0 \/ Pred("rx", sh)

\* Not so: design.md has the guard fire before any Network.framework call in a
\* forked child, but read, write and readable do not ask.
ChildNeverCalls == pc # "killed"

\* Once the stream is freed, the last block frees sh.
FreedAtLast == (pc = "gone" /\ Mine) ~> ~sh.live
=============================================================================
