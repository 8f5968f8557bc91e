------------------------------- MODULE Sandbox -------------------------------
(***************************************************************************)
(* One sandboxed process and the thread of the worker that waits for it:   *)
(* SubprocessSandbox.run on the bootstrap module, or run_generated_tests   *)
(* on pytest.  The process that either starts leads a session of its own,  *)
(* and what it starts in turn (a JVM, executors) belongs to the group: no  *)
(* process is modelled that leaves it by a session of its own.             *)
(*                                                                         *)
(* communicate() returns once every writer of the pipes is gone, so a      *)
(* member of the group counts for as long as it is attached to them.       *)
(* SIGKILL is modelled as immediate, SIGTERM as a request.                 *)
(***************************************************************************)
CONSTANTS
    Members,  \* the processes that the leader may start
    Nothing

VARIABLES
    kind,     \* "pipeline" for SubprocessSandbox.run, "tests" for pytest
    thread,   \* what the thread waits for, or "returned"
    leader,   \* how far the leader has come: "works", "writes", "wrote", "ended"
    member,   \* of each member: "none", "attached", "detached" or "ended"
    asked,    \* the members that were sent SIGTERM
    file,     \* result.json: Nothing, "torn", "ok" or "error"
    exit,     \* the exit code of the leader: Nothing, "zero" or "other"
    timedOut, \* the wall-clock limit passed
    ok        \* the verdict that is returned, Nothing before it

group == <<leader, member, file, exit>>
sandbox == <<kind, thread, leader, member, asked, file, exit, timedOut, ok>>

Alive == {p \in Members : member[p] \in {"attached", "detached"}}
Attached == {p \in Members : member[p] = "attached"}

SandboxInit ==
    /\ kind \in {"pipeline", "tests"}
    /\ thread = "communicate"
    /\ leader = "works"
    /\ member = [p \in Members |-> "none"]
    /\ asked = {}
    /\ file = Nothing
    /\ exit = Nothing
    /\ timedOut = FALSE
    /\ ok = Nothing

-----------------------------------------------------------------------------
\* The group

\* A process may redirect its output, and is detached from the pipes then.  A
\* leader that SIGTERM does not end at once starts nothing any more: it has no
\* handler, so that only the kernel can keep it.
Starts(p) ==
    /\ leader = "works" /\ member[p] = "none"
    /\ thread = "communicate"
    /\ \E how \in {"attached", "detached"} : member' = [member EXCEPT ![p] = how]
    /\ UNCHANGED <<kind, thread, leader, asked, file, exit, timedOut, ok>>

Ends(p) ==
    /\ p \in Alive
    /\ member' = [member EXCEPT ![p] = "ended"]
    /\ UNCHANGED <<kind, thread, leader, asked, file, exit, timedOut, ok>>

\* main() of the bootstrap reports what it ran, an exception or not.
ReportBegins ==
    /\ kind = "pipeline" /\ leader = "works"
    /\ leader' = "writes" /\ file' = "torn"
    /\ UNCHANGED <<kind, thread, member, asked, exit, timedOut, ok>>

ReportEnds ==
    /\ leader = "writes"
    /\ leader' = "wrote" /\ file' \in {"ok", "error"}
    /\ UNCHANGED <<kind, thread, member, asked, exit, timedOut, ok>>

\* The leader exits, or dies of SIGTERM, of a limit or of the memory killer.
LeaderEnds ==
    /\ leader # "ended"
    /\ leader' = "ended"
    /\ exit' \in {"zero", "other"}
    /\ exit' = "zero" /\ kind = "pipeline" => file = "ok"
    /\ UNCHANGED <<kind, thread, member, asked, file, timedOut, ok>>

-----------------------------------------------------------------------------
\* The thread

\* A process killed before it could report has left no file, or a torn one.
Verdict == IF kind = "pipeline" THEN file = "ok" ELSE exit = "zero"

\* communicate(timeout) reaches the end of both pipes in time.
Answers ==
    /\ thread = "communicate"
    /\ leader = "ended" /\ Attached = {}
    /\ thread' = "returned" /\ ok' = Verdict
    /\ UNCHANGED <<kind, group, asked, timedOut>>

\* Mutation: SIGTERM is sent to the child only.
TimesOutOfLeader ==
    /\ thread = "communicate"
    /\ timedOut' = TRUE
    /\ thread' = "terminate"
    /\ UNCHANGED <<kind, group, asked, ok>>

\* The first signal of _terminate_group; subprocess.run kills its child at once.
TimesOut ==
    /\ thread = "communicate"
    /\ timedOut' = TRUE
    /\ \/ /\ kind = "pipeline"
          /\ asked' = Alive
          /\ thread' = "terminate"
          /\ UNCHANGED <<group, ok>>
       \/ /\ kind = "tests"
          /\ leader' = "ended" /\ ok' = FALSE
          /\ exit' = IF leader = "ended" THEN exit ELSE "other"
          /\ thread' = "returned"
          /\ UNCHANGED <<member, asked, file>>
    /\ UNCHANGED kind

\* wait(timeout=5) returns: nothing else is sent to the group.
Terminated ==
    /\ thread = "terminate" /\ leader = "ended"
    /\ thread' = "drain"
    /\ UNCHANGED <<kind, group, asked, timedOut, ok>>

\* The leader outlives the five seconds, and the whole group is killed.
Kills ==
    /\ thread = "terminate" /\ leader # "ended"
    /\ leader' = "ended" /\ exit' = "other"
    /\ member' = [p \in Members |-> IF p \in Alive THEN "ended" ELSE member[p]]
    /\ thread' = "drain"
    /\ UNCHANGED <<kind, asked, file, timedOut, ok>>

\* communicate() again, for as long as it takes.
Drains ==
    /\ thread = "drain"
    /\ leader = "ended" /\ Attached = {}
    /\ thread' = "returned" /\ ok' = FALSE
    /\ UNCHANGED <<kind, group, asked, timedOut>>

Thread == Answers \/ TimesOut \/ Terminated \/ Kills \/ Drains

Group ==
    \/ \E p \in Members : Starts(p) \/ Ends(p)
    \/ ReportBegins \/ ReportEnds \/ LeaderEnds

SandboxNext == Thread \/ Group

SandboxSpec == SandboxInit /\ [][SandboxNext]_sandbox

\* The limit passes and the thread takes the steps that are open to it.  What
\* runs in the sandbox is not trusted and owes nothing: it may hang, and it may
\* survive SIGTERM.
FairSpec == SandboxSpec /\ WF_sandbox(Thread)

-----------------------------------------------------------------------------
\* Properties

\* "own process group, so the kill is total": when a pipeline is reported as
\* finished or as stopped, nothing runs on that inherited the pipes, as the JVM of
\* Spark does; after a timeout what is left was asked to end, leader or not, and
\* only what has detached itself can be; and a success is one that the leader
\* reported whole and in time.
ReturnedIsQuiet ==
    thread = "returned" /\ kind = "pipeline" =>
        /\ leader = "ended" /\ Attached = {}
        /\ timedOut => Alive \subseteq asked
        /\ ok => file = "ok" /\ ~timedOut

\* The second communicate() of a pipeline waits for what survives SIGTERM.
Held ==
    /\ thread = "drain" /\ kind = "pipeline"
    /\ Attached # {} /\ Attached \subseteq asked

\* The thread returns, whether the leader hangs, survives SIGTERM, dies without a
\* report or ends before the processes that it leaves behind; the one thing that
\* can keep it for good is a process that was asked to end, does not, and holds
\* the pipes of a leader that is gone.  A test suite never keeps it.
Returns == <>(thread = "returned") \/ <>[]Held
=============================================================================
