----------------------------- MODULE Supervision -----------------------------
(***************************************************************************)
(* The life of the process: the feed, content and backup runtimes, those   *)
(* who watch them, the HTTP server and its event streams.  background.rs,  *)
(* feeds/runtime.rs, content/worker/runtime.rs and production.rs,          *)
(* backups/runtime.rs, main.rs.                                            *)
(*                                                                         *)
(* A watcher waits for the first of its children to end, asks the others   *)
(* to stop, joins them, and reports one result: "background" watches the   *)
(* feed and content runtimes, "group" the background and the backups,      *)
(* "main" the group, the server and the signals of the operating system.   *)
(***************************************************************************)
EXTENDS Integers, Sequences

CONSTANTS Lanes,    \* lanes of the feed and of the content runtime
          MaxPanics \* bound on panics and errors

ASSUME SupervisionAssumption == MaxPanics \in Nat

VARIABLES
    stop,     \* the watch channels: who was asked to stop
    task,     \* the state of each runtime
    lane,     \* lanes that still run
    watcher,  \* pc, first child to end, whether that was expected, who is left to ask
    server,   \* the HTTP server
    stream,   \* whether an event stream is open
    signalled, \* whether the process received a signal
    panics    \* how many panics and errors happened

supervisionVars == <<stop, task, lane, watcher, server, stream, signalled, panics>>

Laned == {"feed", "content"}
Runtimes == Laned \cup {"backup"}
Watchers == {"background", "group", "main"}
Over == {"ok", "failed"}
Flags == Runtimes \cup {"background", "events"}

\* Mutants: the flag that tells an expected end is set last; the streams are kept.
StopUnflagged == <<"feed", "events", "content", "background">>
StopWithoutEvents == <<"background", "feed", "content">>

\* BackgroundRuntimeHandle::shutdown: its own flag first; the feed's handle
\* closes the event streams too.
StopBackground == <<"background", "feed", "events", "content">>

Fail == panics < MaxPanics /\ panics' = panics + 1

-------------------------------------------------------------------------------
(* The runtimes.                                                           *)

\* The database is ready: the lanes are spawned, or cannot be.
StartLanes(r) ==
    /\ task[r] = "starting" /\ ~stop[r]
    /\ \/ /\ task' = [task EXCEPT ![r] = "running"]
          /\ lane' = lane \cup ({r} \X Lanes)
          /\ UNCHANGED panics
       \/ /\ Fail
          /\ task' = [task EXCEPT ![r] = "failed"]
          /\ UNCHANGED lane
    /\ UNCHANGED <<stop, watcher, server, stream, signalled>>

\* A lane looks at the flag between two steps of its loop; or it panics.
LaneEnds(r, l) ==
    /\ <<r, l>> \in lane
    /\ IF stop[r] THEN UNCHANGED panics ELSE Fail
    /\ lane' = lane \ {<<r, l>>}
    /\ UNCHANGED <<stop, task, watcher, server, stream, signalled>>

\* The loop over the lanes: a stop, or the first lane that ends, which is an
\* error unless the runtime was asked to stop.
EndLoop(r) ==
    /\ task[r] \in {"starting", "running"}
    /\ \/ stop[r]
       \/ task[r] = "running" /\ \E l \in Lanes : <<r, l>> \notin lane
    /\ IF stop[r]
       THEN /\ task' = [task EXCEPT ![r] = IF @ = "running" THEN "stopping" ELSE "ok"]
            /\ UNCHANGED lane
       ELSE /\ task' = [task EXCEPT ![r] = "failed"]
            /\ lane' = lane \ ({r} \X Lanes)
    /\ UNCHANGED <<stop, watcher, server, stream, signalled, panics>>

\* The lanes are awaited for SHUTDOWN_WAIT and then aborted; the content
\* runtime closes the plugin runtime, which may fail.
Drained(r) ==
    /\ task[r] = "stopping"
    /\ lane' = lane \ ({r} \X Lanes)
    /\ \/ task' = [task EXCEPT ![r] = "ok"] /\ UNCHANGED panics
       \/ r = "content" /\ task' = [task EXCEPT ![r] = "failed"] /\ Fail
    /\ UNCHANGED <<stop, watcher, server, stream, signalled>>

BackupEnds ==
    /\ task["backup"] = "running"
    /\ \/ stop["backup"] /\ task' = [task EXCEPT !["backup"] = "ok"] /\ UNCHANGED panics
       \/ task' = [task EXCEPT !["backup"] = "failed"] /\ Fail
    /\ UNCHANGED <<stop, lane, watcher, server, stream, signalled>>

-------------------------------------------------------------------------------
(* The watchers.                                                           *)

WatcherIs(s, pc) == watcher[s].pc = pc
State(x) == IF x \in Watchers THEN watcher[x].pc ELSE IF x = "server" THEN server ELSE task[x]
Done(x) == State(x) \in Over

First(s, x, expected, ask) ==
    /\ watcher' = [watcher EXCEPT ![s] =
           [pc |-> "joining", first |-> x, expected |-> expected, ask |-> ask]]
    /\ UNCHANGED <<stop, task, lane, server, stream, signalled, panics>>

BackgroundFirst ==
    \E r \in Laned :
        /\ WatcherIs("background", "watching") /\ Done(r)
        /\ r = "content" => ~Done("feed")
        /\ First("background", r, stop["background"],
                 IF stop["background"] THEN <<>> ELSE StopBackground)

GroupFirst ==
    \E x \in {"background", "backup"} :
        /\ WatcherIs("group", "watching") /\ Done(x)
        /\ First("group", x, TRUE, IF x = "background" THEN <<"backup">> ELSE StopBackground)

\* coordinate_server_and_background_runtime
MainFirst ==
    \E x \in {"group", "server", "signal"} :
        /\ WatcherIs("main", "watching")
        /\ IF x = "signal" THEN signalled ELSE Done(x)
        /\ x \in {"server", "signal"} => ~Done("group")
        /\ x = "signal" => ~Done("server")
        /\ First("main", x, TRUE, Append(StopBackground, "backup"))

Ask(s) ==
    /\ watcher[s].ask # <<>>
    /\ stop' = [stop EXCEPT ![Head(watcher[s].ask)] = TRUE]
    /\ watcher' = [watcher EXCEPT ![s].ask = Tail(@)]
    /\ UNCHANGED <<task, lane, server, stream, signalled, panics>>

Joining(s) == WatcherIs(s, "joining") /\ watcher[s].ask = <<>>
Report(s, ok) ==
    /\ watcher' = [watcher EXCEPT ![s].pc = IF ok THEN "ok" ELSE "failed"]
    /\ UNCHANGED <<stop, task, lane, server, stream, signalled, panics>>

\* An end that nobody asked for is an error, whatever the runtime returned.
JoinBackground ==
    /\ Joining("background") /\ \A r \in Laned : Done(r)
    /\ Report("background", watcher["background"].expected /\ \A r \in Laned : task[r] = "ok")

JoinGroup ==
    /\ Joining("group") /\ Done("background") /\ Done("backup")
    /\ Report("group", State("background") = "ok" /\ task["backup"] = "ok")

\* After a signal the server is told to stop once the runtimes are joined, and
\* after the end of a runtime at once.
TellServer ==
    /\ Joining("main") /\ watcher["main"].first # "server" /\ Done("group")
    /\ server = "serving"
    /\ server' = "draining"
    /\ UNCHANGED <<stop, task, lane, watcher, stream, signalled, panics>>

JoinMain ==
    /\ Joining("main") /\ Done("group") /\ Done("server")
    /\ Report("main", /\ watcher["main"].first # "group"
                      /\ server = "ok" /\ State("group") = "ok")

-------------------------------------------------------------------------------
(* The server and its clients.                                             *)

OpenStream ==
    /\ server = "serving" /\ ~stream /\ ~stop["events"]
    /\ stream' = TRUE
    /\ UNCHANGED <<stop, task, lane, watcher, server, signalled, panics>>

\* A reader that stays connected: only the hub ends its stream.
CloseStream ==
    /\ stream /\ stop["events"]
    /\ stream' = FALSE
    /\ UNCHANGED <<stop, task, lane, watcher, server, signalled, panics>>

\* A graceful shutdown waits for every response that is under way.
ServerEnds ==
    /\ \/ server = "draining" /\ ~stream /\ server' = "ok" /\ UNCHANGED panics
       \/ server \in {"serving", "draining"} /\ server' = "failed" /\ Fail
    /\ UNCHANGED <<stop, task, lane, watcher, stream, signalled>>

Signal ==
    /\ ~signalled
    /\ signalled' = TRUE
    /\ UNCHANGED <<stop, task, lane, watcher, server, stream, panics>>

-------------------------------------------------------------------------------
Watching == [pc |-> "watching", first |-> "none", expected |-> FALSE, ask |-> <<>>]

SupervisionInit ==
    /\ stop = [f \in Flags |-> FALSE]
    /\ task = [r \in Runtimes |-> IF r = "backup" THEN "running" ELSE "starting"]
    /\ lane = {}
    /\ watcher = [s \in Watchers |-> Watching]
    /\ server = "serving" /\ stream = FALSE
    /\ signalled = FALSE /\ panics = 0

RuntimeStep(r) ==
    \/ r \in Laned /\ (StartLanes(r) \/ EndLoop(r) \/ Drained(r) \/ \E l \in Lanes : LaneEnds(r, l))
    \/ r = "backup" /\ BackupEnds

WatcherStep ==
    \/ BackgroundFirst \/ GroupFirst \/ MainFirst
    \/ \E s \in Watchers : Ask(s)
    \/ JoinBackground \/ JoinGroup \/ TellServer \/ JoinMain

SupervisionNext ==
    \/ ~Done("main") /\ (\/ \E r \in Runtimes : RuntimeStep(r)
                         \/ WatcherStep \/ OpenStream \/ CloseStream \/ ServerEnds \/ Signal)
    \/ Done("main") /\ UNCHANGED supervisionVars

\* Tasks are polled: whoever was asked to stop gets to see it.  Nobody needs to
\* send a signal, open a stream or fail.
Quiet == UNCHANGED panics
SupervisionFairness ==
    /\ \A r \in Runtimes : WF_supervisionVars(Quiet /\ RuntimeStep(r))
    /\ WF_supervisionVars(WatcherStep)
    /\ WF_supervisionVars(CloseStream)
    /\ WF_supervisionVars(Quiet /\ ServerEnds)

SupervisionSpec == SupervisionInit /\ [][SupervisionNext]_supervisionVars /\ SupervisionFairness

-------------------------------------------------------------------------------
(* Every flag, task and watcher keeps its type.                            *)
SupervisionTypeOK ==
    /\ stop \in [Flags -> BOOLEAN]
    /\ task \in [Runtimes -> {"starting", "running", "stopping"} \cup Over]
    /\ lane \subseteq Laned \X Lanes
    /\ \A s \in Watchers : /\ watcher[s].pc \in {"watching", "joining"} \cup Over
                           /\ watcher[s].ask \in Seq(Flags)
    /\ server \in {"serving", "draining"} \cup Over
    /\ stream \in BOOLEAN /\ signalled \in BOOLEAN /\ panics \in 0..MaxPanics

(* The process reports success exactly if every runtime and the server     *)
(* ended as they were asked to: no failure is lost between the watchers,   *)
(* and a stop that was asked for is never reported as a failure, however   *)
(* signals, failures and the order of the ends fall together               *)
(* (background.rs, run; main.rs, coordinate_server_and_background_runtime). *)
ExitTellsFailures ==
    Done("main") =>
        (State("main") = "ok" <=> server = "ok" /\ \A r \in Runtimes : task[r] = "ok")

(* A signal, and the failure of any runtime or of the server, ends the     *)
(* process, though readers keep their event streams open (realtime.rs,     *)
(* shutdown: "so HTTP connections can drain").                             *)
ShutdownEnds ==
    (signalled \/ server = "failed" \/ \E r \in Runtimes : task[r] = "failed") ~> Done("main")
==============================================================================
