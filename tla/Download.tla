------------------------------ MODULE Download ------------------------------
(***************************************************************************)
(* Downloads to a file (zuh_sink.c, the file sink; init.c, the end of a    *)
(* request that has one): the body goes to a temporary file beside the     *)
(* destination, which only the rename at the end replaces.  Several R      *)
(* processes may download to one path, a callback of a download may run    *)
(* another, and a process may die at any step, after which another with    *)
(* its pid may find what it left.                                          *)
(***************************************************************************)
EXTENDS Integers, Sequences, SequencesExt, FiniteSetsExt

CONSTANTS
  Procs,        \* processes
  Pid,          \* Pid[p]: zuh_pid_current() in p
  N,            \* downloads in all: a bound
  Depth,        \* downloads at once in one process: a bound
  Pieces,       \* of a body
  MaxAttempts   \* names tried: 100 in the code

ASSUME DownloadAssumption ==
  /\ N \in Nat /\ Depth \in Nat /\ Pieces \in Nat \ {0} /\ MaxAttempts \in Nat \ {0}
  /\ \A p, o \in Procs : Pid[p] \in Nat \ {0} /\ (p # o => Pid[p] # Pid[o])

VARIABLES
  dir,      \* the directory: which file each name is
  running,  \* the downloads of each process, the innermost last
  dl        \* the sinks

vars == <<dir, running, dl>>

Downloads == 1..N
Absent    == 0     \* no file of that name
Old       == -1    \* the destination's previous content
Left      == -2    \* a file somebody else left under a temporary name

Dest  == <<0, 0>>
Temps == {Pid[p] : p \in Procs} \X (0..MaxAttempts - 1)
Names == {Dest} \cup Temps
-----------------------------------------------------------------------------
\* pc, the attempt, fp is open, pieces written, those on disk, and how it ended
Fresh == [pc |-> "new", pid |-> 0, attempt |-> 0, fp |-> FALSE, written |-> 0, disk |-> 0, code |-> "none"]

Tmp(d) == <<dl[d].pid, dl[d].attempt>>

Init ==
  /\ dir \in [Names -> {Absent, Old, Left}]
  /\ dir[Dest] \in {Absent, Old} /\ \A n \in Temps : dir[n] \in {Absent, Left}
  /\ running = [p \in Procs |-> <<>>]
  /\ dl = [d \in Downloads |-> Fresh]

\* The download a process is working on
Runs(p, d) == running[p] # <<>> /\ d = Last(running[p])

Goes(d, s) == dl' = [dl EXCEPT ![d] = s]

\* zuh_sink_free(), and the request returns
Returns(p, d, code) ==
  /\ Goes(d, [Fresh EXCEPT !.pc = "done", !.code = code, !.disk = dl[d].disk])
  /\ running' = [running EXCEPT ![p] = Front(@)]

\* A request with a path, from the top level or from a callback of another
Start(p) ==
  /\ Len(running[p]) < Depth /\ (running[p] # <<>> => dl[Last(running[p])].pc = "open")
  /\ \E d \in Downloads :
       /\ d = Min({e \in Downloads : dl[e].pc = "new"} \cup {N}) /\ dl[d].pc = "new"
       /\ Goes(d, [Fresh EXCEPT !.pc = "naming", !.pid = Pid[p]])
       /\ running' = [running EXCEPT ![p] = Append(@, d)]
  /\ UNCHANGED dir

\* Faulty: the name is opened whether it is taken or not.
CreateTruncates(p, d) ==
  /\ Runs(p, d) /\ dl[d].pc = "naming"
  /\ dir' = [dir EXCEPT ![Tmp(d)] = d]
  /\ Goes(d, [dl[d] EXCEPT !.pc = "open", !.fp = TRUE]) /\ UNCHANGED running

\* zuh_sink_file(): O_EXCL, one name after another; anything else that is
\* wrong, fdopen() included, fails and leaves no file.
Create(p, d) ==
  /\ Runs(p, d) /\ dl[d].pc = "naming"
  /\ \/ /\ dir[Tmp(d)] = Absent
        /\ dir' = [dir EXCEPT ![Tmp(d)] = d]
        /\ Goes(d, [dl[d] EXCEPT !.pc = "open", !.fp = TRUE]) /\ UNCHANGED running
     \/ /\ dir[Tmp(d)] # Absent /\ dl[d].attempt + 1 < MaxAttempts
        /\ Goes(d, [dl[d] EXCEPT !.attempt = @ + 1]) /\ UNCHANGED <<dir, running>>
     \/ /\ dir[Tmp(d)] = Absent \/ dl[d].attempt + 1 = MaxAttempts
        /\ Returns(p, d, "IO") /\ UNCHANGED dir

\* file_write(): into stdio's buffer, of which any part may reach the disk.
Write(p, d) ==
  /\ Runs(p, d) /\ dl[d].pc = "open" /\ dl[d].written < Pieces
  /\ \E disk \in dl[d].disk..(dl[d].written + 1) :
       Goes(d, [dl[d] EXCEPT !.written = @ + 1, !.disk = disk])
  /\ UNCHANGED <<dir, running>>

\* The engine is through: a whole body, or any failure, a short write included
Performed(p, d) ==
  /\ Runs(p, d) /\ dl[d].pc = "open"
  /\ \/ dl[d].written = Pieces /\ Goes(d, [dl[d] EXCEPT !.pc = "flush"])
     \/ Goes(d, [dl[d] EXCEPT !.pc = "abort"])
  /\ UNCHANGED <<dir, running>>

\* Faulty: the file is renamed with the tail still in its buffer.
FlushLate(p, d) ==
  /\ Runs(p, d) /\ dl[d].pc = "flush"
  /\ Goes(d, [dl[d] EXCEPT !.pc = "rename"])
  /\ UNCHANGED <<dir, running>>

\* file_finish(): fflush() and fclose(), both always
Flush(p, d) ==
  /\ Runs(p, d) /\ dl[d].pc = "flush"
  /\ \/ Goes(d, [dl[d] EXCEPT !.pc = "rename", !.fp = FALSE, !.disk = dl[d].written])
     \/ Goes(d, [dl[d] EXCEPT !.pc = "again", !.fp = FALSE])
  /\ UNCHANGED <<dir, running>>

\* Faulty: the previous file is removed before the rename.
RenameRemovesFirst(p, d) ==
  /\ Runs(p, d) /\ dl[d].pc = "rename"
  /\ \/ /\ dir[Tmp(d)] # Absent
        /\ dir' = [dir EXCEPT ![Dest] = dir[Tmp(d)], ![Tmp(d)] = Absent]
        /\ Goes(d, [dl[d] EXCEPT !.pc = "free", !.code = "OK"])
     \/ dir' = [dir EXCEPT ![Dest] = Absent] /\ Goes(d, [dl[d] EXCEPT !.pc = "again"])
  /\ UNCHANGED running

\* rename(), which replaces in one step or fails
Rename(p, d) ==
  /\ Runs(p, d) /\ dl[d].pc = "rename"
  /\ \/ /\ dir[Tmp(d)] # Absent
        /\ dir' = [dir EXCEPT ![Dest] = dir[Tmp(d)], ![Tmp(d)] = Absent]
        /\ Goes(d, [dl[d] EXCEPT !.pc = "free", !.code = "OK"])
     \/ UNCHANGED dir /\ Goes(d, [dl[d] EXCEPT !.pc = "again"])
  /\ UNCHANGED running

\* Faulty: nothing is removed once the file has been closed.
CleanupOpen(d) == IF dl[d].fp THEN dir' = [dir EXCEPT ![Tmp(d)] = Absent] ELSE UNCHANGED dir

\* file_cleanup(): remove() takes whatever has the name.
Cleanup(d) == IF dl[d].code # "OK" THEN dir' = [dir EXCEPT ![Tmp(d)] = Absent] ELSE UNCHANGED dir

\* zuh_sink_abort(): once behind a jump, twice behind a failed request, the
\* second time behind a failed finish as well
Abort(p, d) ==
  /\ Runs(p, d) /\ dl[d].pc \in {"abort", "again"}
  /\ Cleanup(d)
  /\ \E next \in IF dl[d].pc = "abort" THEN {"again", "free"} ELSE {"free"} :
       Goes(d, [dl[d] EXCEPT !.pc = next, !.fp = FALSE])
  /\ UNCHANGED running

\* zuh_sink_free(): file_destroy() cleans up once more.
Free(p, d) ==
  /\ Runs(p, d) /\ dl[d].pc = "free"
  /\ Cleanup(d)
  /\ Returns(p, d, IF dl[d].code = "OK" THEN "OK" ELSE "IO")

\* The process dies; nothing of it runs any more.
Crash(p) ==
  /\ running[p] # <<>>
  /\ dl' = [d \in Downloads |->
              IF ~Contains(running[p], d) THEN dl[d]
              ELSE [Fresh EXCEPT !.pc = "done", !.code = "crashed", !.disk = dl[d].disk]]
  /\ running' = [running EXCEPT ![p] = <<>>]
  /\ UNCHANGED dir

Next ==
  \E p \in Procs :
    \/ Start(p) \/ Crash(p)
    \/ \E d \in Downloads :
         \/ Create(p, d) \/ Write(p, d) \/ Performed(p, d)
         \/ Flush(p, d) \/ Rename(p, d) \/ Abort(p, d) \/ Free(p, d)

Spec == Init /\ [][Next]_vars
-----------------------------------------------------------------------------
Working == {"naming", "open", "flush", "rename", "abort", "again", "free"}

TypeOK ==
  /\ dir \in [Names -> {Absent, Old, Left} \cup Downloads]
  /\ running \in [Procs -> Seq(Downloads)]
  /\ dl \in [Downloads ->
       [pc : Working \cup {"new", "done"}, pid : Nat, attempt : 0..MaxAttempts - 1, fp : BOOLEAN,
        written : 0..Pieces, disk : 0..Pieces, code : {"none", "OK", "IO", "crashed"}]]

\* A download that is not over runs in one place of one process, and those
\* below the innermost are where a callback runs.
Nested ==
  /\ \A p \in Procs : \A i \in DOMAIN running[p] :
       /\ dl[running[p][i]].pc \in Working /\ dl[running[p][i]].pid = Pid[p]
       /\ i < Len(running[p]) => dl[running[p][i]].pc = "open"
       /\ \A j \in DOMAIN running[p] : running[p][i] = running[p][j] => i = j
  /\ \A d \in Downloads : dl[d].pc \in Working =>
       \E p \in Procs : \E i \in DOMAIN running[p] : running[p][i] = d

\* A download has its file under its name until the rename, or until it has
\* been removed, when nobody else has put one there.
Holding ==
  \A d \in Downloads :
    /\ dl[d].pc \in {"open", "flush", "rename", "abort"} => dir[Tmp(d)] = d
    /\ dl[d].pc \in {"again", "free"} /\ dl[d].code # "OK" => dir[Tmp(d)] \in {d, Absent}
    /\ dl[d].pc = "free" /\ dl[d].code = "OK" => dir[Tmp(d)] # d
    /\ dl[d].pc \in Working \ {"free"} => dl[d].code = "none"

\* A temporary file is a running download's, or was left by a crash.
Placed ==
  \A n \in Temps : dir[n] \in Downloads =>
    \/ dl[dir[n]].pc = "done" /\ dl[dir[n]].code = "crashed"
    \/ dl[dir[n]].pc \in Working \ {"naming"} /\ Tmp(dir[n]) = n

\* What is renamed, and what has been, is on the disk as a whole.
Whole ==
  /\ dir[Dest] # Left
  /\ dir[Dest] \in Downloads => dl[dir[Dest]].pc \in {"free", "done"} /\ dl[dir[Dest]].disk = Pieces
  /\ \A d \in Downloads :
       /\ dl[d].pc = "flush" => dl[d].written = Pieces
       /\ dl[d].pc = "rename" => dl[d].disk = Pieces

IInv == TypeOK /\ Nested /\ Holding /\ Placed /\ Whole

\* The destination is what it was or one complete body, at every moment at
\* which a process may die or another program may read it.
DestinationWhole ==
  dir[Dest] \in {Absent, Old} \/ (dir[Dest] \in Downloads /\ dl[dir[Dest]].disk = Pieces)

\* Only a download that succeeds changes the destination, and what it puts
\* there is its own body: one that fails, or dies, leaves it alone.
ReplacedBySuccess ==
  [][dir'[Dest] # dir[Dest] =>
       \E d \in Downloads : dir'[Dest] = d /\ dl[d].code # "OK" /\ dl'[d].code = "OK"]_vars

\* A request that ends leaves no temporary file, whichever step failed.
NoLitter ==
  \A d \in Downloads : dl[d].pc = "done" /\ dl[d].code # "crashed" =>
    \A n \in Temps : dir[n] # d

\* A temporary name that is taken, by another process, by the download this
\* one runs inside, or by a file somebody left, is not written, moved or
\* removed, although the names can be foreseen and cleaning up goes by name.
OthersAlone ==
  [][\A n \in Temps : dir[n] # Absent /\ dir'[n] # dir[n] =>
       /\ dir[n] \in Downloads /\ dl'[dir[n]] # dl[dir[n]]
       /\ dir'[n] = Absent]_vars
=============================================================================
