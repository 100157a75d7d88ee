---------------------------- MODULE StreamManager ---------------------------
(***************************************************************************)
(* One stream name in the controller: the web application's StreamService  *)
(* (wsgiapp/services/stream_service.py), the stream manager with its       *)
(* SourceProcessStream objects (stream_mngr.py), the watcher of each       *)
(* (process_mngr.py), the table of stream configurations and the source    *)
(* processes. Web requests run in greenlets, which switch where they block *)
(* only: in Popen, in Popen.wait and in a database statement. All database *)
(* statements go through a pool of one thread, first come first served.    *)
(*                                                                         *)
(* Every Stream is a slot for a stream object of that name together with   *)
(* its watcher, reused when nobody refers to it; so is every process. That *)
(* a process that was told to terminate does so in the end is what         *)
(* ProcWatcher shows. The controller may crash: rows and processes stay.   *)
(* The source is one of the three programs that a boot kills by name.      *)
(***************************************************************************)
EXTENDS Naturals

CONSTANTS
    Callers,    \* greenlets of web requests
    Streams,    \* slots for stream objects
    Procs,      \* slots for source processes
    MaxCrashes, \* bound: crashes of the controller
    None

ASSUME ManagerAssumption ==
    /\ None \notin Callers \cup Streams \cup Procs
    /\ MaxCrashes \in Nat

VARIABLES
    row,      \* the configuration is in the database
    txn,      \* the caller with a transaction open that adds the row
    mapped,   \* StreamService._stream_map[name]
    named,    \* the manager's _stream_map[name]
    ref,      \* stream objects that have a watcher (_proc_watcher)
    started,  \* watchers with _started set
    popen,    \* _popen of each watcher
    poll,     \* the process a watcher's polling greenlet is launching
    stray,    \* the same, for polling greenlets that were detached
    pc, obj,  \* where each caller is, and the stream it works on
    on,       \* the process it launches or waits for
    proc,     \* state of each process
    up,       \* "down", "loading" or "up": the controller
    crashes,  \* crashes so far
    raced,    \* history: start was called while another greenlet was in Popen
    failed,   \* history: a deletion failed to remove the row
    unsaved,  \* history: a new stream's row was not committed
    skipped   \* history: the row was not loaded

dbVars == <<row, txn>>
mapVars == <<mapped, named>>
watcherVars == <<ref, started, popen, poll, stray>>
callVars == <<pc, obj, on>>
lifeVars == <<up, crashes>>
faults == <<failed, unsaved, skipped>>
vars == <<dbVars, mapVars, watcherVars, callVars, lifeVars, proc, raced, faults>>

InPopen == {"new_launch", "load_launch", "re_launch"}
InWait == {"del_wait", "re_wait"}

TypeOK ==
    /\ row \in BOOLEAN /\ txn \in Callers \cup {None}
    /\ mapped \in Streams \cup {None} /\ named \in Streams \cup {None}
    /\ ref \subseteq Streams /\ started \subseteq Streams
    /\ popen \in [Streams -> Procs \cup {None}] /\ poll \in [Streams -> Procs \cup {None}]
    /\ stray \subseteq Streams \X Procs
    /\ pc \in [Callers -> {"idle", "create", "load", "del_row"} \cup InPopen \cup InWait]
    /\ obj \in [Callers -> Streams \cup {None}]
    /\ on \in [Callers -> Procs \cup {None}]
    /\ proc \in [Procs -> {"alive", "dying", "dead"}]
    /\ up \in {"down", "loading", "up"} /\ crashes \in 0..MaxCrashes
    /\ raced \in BOOLEAN
    /\ failed \in BOOLEAN /\ unsaved \in BOOLEAN /\ skipped \in BOOLEAN

Init ==
    /\ row \in BOOLEAN /\ txn = None
    /\ mapped = None /\ named = None
    /\ ref = {} /\ started = {} /\ stray = {}
    /\ popen = [s \in Streams |-> None] /\ poll = [s \in Streams |-> None]
    /\ pc = [c \in Callers |-> "idle"]
    /\ obj = [c \in Callers |-> None] /\ on = [c \in Callers |-> None]
    /\ proc = [p \in Procs |-> "dead"]
    /\ up = "down" /\ crashes = 0
    /\ raced = FALSE
    /\ failed = FALSE /\ unsaved = FALSE /\ skipped = FALSE

-----------------------------------------------------------------------------
(* Processes and watchers *)

Live == {p \in Procs : proc[p] \in {"alive", "dying"}}

\* Greenlets inside a call of s's watcher: callers, and polling greenlets that
\* launch a process.
Inside(s) == {d \in Callers : obj[d] = s}
Launching(s) == {x \in stray : x[1] = s} \cup (IF poll[s] = None THEN {} ELSE {<<s, poll[s]>>})
Busy(s) == Launching(s) # {} \/ \E d \in Inside(s) : pc[d] \in InPopen

\* Nobody else refers to the watcher when caller c leaves it and its stream
\* has let go of it.
Alone(s, c) == Inside(s) \subseteq {c} /\ Launching(s) = {}
Last(s, c) == s \notin ref /\ Alone(s, c)
FreeStreams == {s \in Streams \ ref : Alone(s, None)}

Referenced(p) ==
    \/ \E s \in Streams : popen[s] = p \/ poll[s] = p \/ <<s, p>> \in stray
    \/ \E c \in Callers : on[c] = p

\* The source exits, of its own accord or after a signal.
Exit(p) ==
    /\ p \in Live
    /\ proc' = [proc EXCEPT ![p] = "dead"]
    /\ UNCHANGED <<dbVars, mapVars, watcherVars, callVars, lifeVars, raced, faults>>

\* A slot nobody refers to is used again, always the same one.
FreeProcs == {p \in Procs \ Live : ~Referenced(p)}
Fork(p) ==
    /\ p \in FreeProcs /\ p = CHOOSE q \in FreeProcs : TRUE
    /\ proc' = [proc EXCEPT ![p] = "alive"]

\* SIGTERM, with SIGKILL to follow, or SIGKILL.
Ended(p) == IF p = None THEN proc ELSE [proc EXCEPT ![p] = IF @ = "alive" THEN "dying" ELSE @]

\* A call leaves s's watcher with process p. When that was the last reference
\* to the watcher, __del__ kills the process. (Variant: no finalizer.)
NotCollected(s, p, last) ==
    /\ proc' = proc
    /\ popen' = [popen EXCEPT ![s] = p]
Collect(s, p, last) ==
    /\ proc' = IF last THEN Ended(p) ELSE proc
    /\ popen' = [popen EXCEPT ![s] = IF last THEN None ELSE p]

\* The call of c on s's watcher returns.
Return(c) ==
    /\ pc' = [pc EXCEPT ![c] = "idle"]
    /\ obj' = [obj EXCEPT ![c] = None] /\ on' = [on EXCEPT ![c] = None]

Blocks(c, where, s, p) ==
    /\ pc' = [pc EXCEPT ![c] = where]
    /\ obj' = [obj EXCEPT ![c] = s] /\ on' = [on EXCEPT ![c] = p]

\* stop detaches the polling greenlet.
Detach(s) ==
    /\ started' = started \ {s}
    /\ stray' = IF s \in started THEN stray \cup Launching(s) ELSE stray
    /\ poll' = IF s \in started THEN [poll EXCEPT ![s] = None] ELSE poll

-----------------------------------------------------------------------------
(* new_stream *)

\* add_stream_conf inserts the row, inside the transaction of the request; it
\* raises if the row exists or another transaction is writing. (Variant: the
\* insertion is a transaction of its own.)
CanInsert == ~row /\ txn = None
NewInsertCommitted(c) ==
    /\ up = "up" /\ pc[c] = "idle" /\ CanInsert
    /\ row' = TRUE
    /\ pc' = [pc EXCEPT ![c] = "create"]
    /\ UNCHANGED <<txn, mapVars, watcherVars, obj, on, lifeVars, proc, raced, faults>>
NewInsert(c) ==
    /\ up = "up" /\ pc[c] = "idle" /\ CanInsert
    /\ txn' = c
    /\ pc' = [pc EXCEPT ![c] = "create"]
    /\ UNCHANGED <<row, mapVars, watcherVars, obj, on, lifeVars, proc, raced, faults>>

\* create_stream raises before the process is launched (the source type is
\* not registered, a parameter is invalid, the name exists): rolled back.
NewRejected(c) ==
    /\ pc[c] = "create"
    /\ txn' = None
    /\ pc' = [pc EXCEPT ![c] = "idle"]
    /\ UNCHANGED <<row, mapVars, watcherVars, obj, on, lifeVars, proc, raced, faults>>

\* A stream object takes the name, if that is free, and its new watcher is
\* started; spawn_watcher blocks in Popen.
Create(c, s, p, where) ==
    /\ named = None
    /\ s \in FreeStreams /\ s = CHOOSE r \in FreeStreams : TRUE
    /\ named' = s
    /\ Fork(p)
    /\ Blocks(c, where, s, p)
    /\ UNCHANGED <<dbVars, mapped, watcherVars, lifeVars, raced, faults>>

NewCreate(c, s, p) == pc[c] = "create" /\ Create(c, s, p, "new_launch")

\* The watcher is started and the stream in the maps.
Created(c) ==
    LET s == obj[c]
    IN  /\ ref' = ref \cup {s} /\ started' = started \cup {s}
        /\ popen' = [popen EXCEPT ![s] = on[c]]
        /\ mapped' = s
        /\ Return(c)

\* The commit is queued at once, ahead of any later statement.
NewLaunched(c) ==
    /\ pc[c] = "new_launch"
    /\ Created(c)
    /\ row' = TRUE /\ txn' = None
    /\ UNCHANGED <<named, poll, stray, lifeVars, proc, raced, faults>>

\* The commit raises: the row is not there, and nothing takes the stream out
\* of the maps or ends its process.
NewCommitFails(c) ==
    /\ pc[c] = "new_launch"
    /\ Created(c)
    /\ txn' = None
    /\ unsaved' = TRUE
    /\ UNCHANGED <<row, named, poll, stray, lifeVars, proc, raced, failed, skipped>>

\* Popen raises: the stream is destroyed and the transaction rolled back.
NewLaunchFails(c) ==
    /\ pc[c] = "new_launch"
    /\ proc' = [proc EXCEPT ![on[c]] = "dead"]
    /\ named' = None
    /\ txn' = None
    /\ Return(c)
    /\ UNCHANGED <<row, mapped, watcherVars, lifeVars, raced, faults>>

-----------------------------------------------------------------------------
(* del_stream *)

\* What BaseStream.destroy does after the stop: async_stop, if somebody has
\* started the watcher again, the watcher is let go and the name is free.
\* (Variant: the watcher is kept.)
DestroyedKept(c, s) ==
    /\ named' = None
    /\ Detach(s)
    /\ pc' = [pc EXCEPT ![c] = "del_row"]
    /\ obj' = [obj EXCEPT ![c] = None] /\ on' = [on EXCEPT ![c] = None]
    /\ UNCHANGED ref
Destroyed(c, s) ==
    /\ ref' = ref \ {s}
    /\ named' = None
    /\ Detach(s)
    /\ pc' = [pc EXCEPT ![c] = "del_row"]
    /\ obj' = [obj EXCEPT ![c] = None] /\ on' = [on EXCEPT ![c] = None]

Waits(s) == s \in started /\ popen[s] # None

\* The stream leaves the service's map and its source is told to terminate.
\* (Variant: the row is deleted before the stream is destroyed.)
DelCallRowFirst(c, s) ==
    /\ up = "up" /\ pc[c] = "idle" /\ mapped = s /\ Waits(s)
    /\ mapped' = None /\ row' = FALSE
    /\ proc' = Ended(popen[s])
    /\ Detach(s)
    /\ Blocks(c, "del_wait", s, popen[s])
    /\ UNCHANGED <<txn, named, ref, popen, lifeVars, raced, faults>>
DelCall(c, s) ==
    /\ up = "up" /\ pc[c] = "idle" /\ mapped = s /\ Waits(s)
    /\ mapped' = None
    /\ proc' = Ended(popen[s])
    /\ Detach(s)
    /\ Blocks(c, "del_wait", s, popen[s])
    /\ UNCHANGED <<dbVars, named, ref, popen, lifeVars, raced, faults>>

DelStopped(c) ==
    LET s == obj[c]
        left == IF popen[s] = on[c] THEN None ELSE popen[s]
    IN  /\ pc[c] = "del_wait" /\ on[c] \notin Live
        /\ Collect(s, left, s \in started \/ Alone(s, c))
        /\ Destroyed(c, s)
        /\ UNCHANGED <<dbVars, mapped, lifeVars, raced, faults>>

\* stop returns at once: there is no process at the moment, or a restart has
\* already stopped the watcher.
DelCallNoWait(c, s) ==
    /\ up = "up" /\ pc[c] = "idle" /\ mapped = s /\ ~Waits(s)
    /\ mapped' = None
    /\ Collect(s, popen[s], Alone(s, c))
    /\ Destroyed(c, s)
    /\ UNCHANGED <<dbVars, lifeVars, raced, faults>>

\* del_stream_conf and the commit. It raises if there is no row, and while
\* another request has written to the database and not committed (a new_stream
\* in Popen, a del_sender that waits for its process): then the row stays
\* although the stream is gone.
DelRow(c) ==
    /\ pc[c] = "del_row" /\ row /\ txn = None
    /\ row' = FALSE
    /\ pc' = [pc EXCEPT ![c] = "idle"]
    /\ UNCHANGED <<txn, mapVars, watcherVars, obj, on, lifeVars, proc, raced, faults>>

DelRowFails(c) ==
    /\ pc[c] = "del_row"
    /\ failed' = (failed \/ row)
    /\ pc' = [pc EXCEPT ![c] = "idle"]
    /\ UNCHANGED <<dbVars, mapVars, watcherVars, obj, on, lifeVars, proc, raced,
                   unsaved, skipped>>

-----------------------------------------------------------------------------
(* restart_stream *)

\* The process is told to terminate.
RestartCall(c, s) ==
    /\ up = "up" /\ pc[c] = "idle" /\ mapped = s /\ Waits(s)
    /\ proc' = Ended(popen[s])
    /\ Detach(s)
    /\ Blocks(c, "re_wait", s, popen[s])
    /\ UNCHANGED <<dbVars, mapVars, ref, popen, lifeVars, raced, faults>>

\* There is nothing to wait for: the watcher is started again right away,
\* unless it still has a process ("in Stopping").
RestartNoWait(c, s, p) ==
    /\ up = "up" /\ pc[c] = "idle" /\ mapped = s /\ ~Waits(s) /\ popen[s] = None
    /\ Fork(p)
    /\ Detach(s)
    /\ Blocks(c, "re_launch", s, p)
    /\ raced' = (raced \/ Busy(s))
    /\ UNCHANGED <<dbVars, mapVars, ref, popen, lifeVars, faults>>

\* The process has ended. The watcher is started again, unless the stream was
\* destroyed meanwhile, or somebody has started the watcher or left it another
\* process ("in Stopping").
StillThere(s) == s \in ref

RestartStopped(c, p) ==
    LET s == obj[c]
    IN  /\ pc[c] = "re_wait" /\ on[c] \notin Live
        /\ StillThere(s) /\ s \notin started /\ popen[s] \in {on[c], None}
        /\ popen' = [popen EXCEPT ![s] = None]
        /\ Fork(p)
        /\ Blocks(c, "re_launch", s, p)
        /\ raced' = (raced \/ Busy(s))
        /\ UNCHANGED <<dbVars, mapVars, ref, started, poll, stray, lifeVars, faults>>

RestartDropped(c) ==
    LET s == obj[c]
    IN  /\ pc[c] = "re_wait" /\ on[c] \notin Live
        /\ ~StillThere(s) \/ s \in started \/ popen[s] \notin {on[c], None}
        /\ Collect(s, IF popen[s] = on[c] THEN None ELSE popen[s], Last(s, c))
        /\ started' = IF Last(s, c) THEN started \ {s} ELSE started
        /\ Return(c)
        /\ UNCHANGED <<dbVars, mapVars, ref, poll, stray, lifeVars, raced, faults>>

\* The new process runs. If the stream has been destroyed, this call held the
\* last reference to the watcher, or another one does.
RestartLaunched(c) ==
    LET s == obj[c]
    IN  /\ pc[c] = "re_launch"
        /\ Collect(s, on[c], Last(s, c))
        /\ started' = IF Last(s, c) THEN started \ {s} ELSE started \cup {s}
        /\ stray' = stray \cup Launching(s) /\ poll' = [poll EXCEPT ![s] = None]
        /\ Return(c)
        /\ UNCHANGED <<dbVars, mapVars, ref, lifeVars, raced, faults>>

\* Popen raises: the stream stays, without a process. (A process that another
\* call has left is killed.)
RestartLaunchFails(c) ==
    LET s == obj[c]
    IN  /\ pc[c] = "re_launch"
        /\ proc' = [Ended(popen[s]) EXCEPT ![on[c]] = "dead"]
        /\ popen' = [popen EXCEPT ![s] = None]
        /\ Detach(s)
        /\ Return(c)
        /\ UNCHANGED <<dbVars, mapVars, ref, lifeVars, raced, faults>>

-----------------------------------------------------------------------------
(* The polling greenlet of a started watcher *)

PollExited(s) ==
    /\ s \in started /\ popen[s] # None /\ popen[s] \notin Live
    /\ popen' = [popen EXCEPT ![s] = None]
    /\ UNCHANGED <<dbVars, mapVars, ref, started, poll, stray, callVars, lifeVars,
                   proc, raced, faults>>

PollRestart(s, p) ==
    /\ s \in started /\ popen[s] = None /\ poll[s] = None
    /\ Fork(p)
    /\ poll' = [poll EXCEPT ![s] = p]
    /\ raced' = (raced \/ Busy(s))
    /\ UNCHANGED <<dbVars, mapVars, ref, started, popen, stray, callVars, lifeVars, faults>>

PollLaunched(s) ==
    /\ poll[s] # None
    /\ popen' = [popen EXCEPT ![s] = poll[s]]
    /\ poll' = [poll EXCEPT ![s] = None]
    /\ UNCHANGED <<dbVars, mapVars, ref, started, stray, callVars, lifeVars, proc,
                   raced, faults>>

\* Popen raises (the child is gone); tried again later.
PollLaunchFails(s) ==
    /\ poll[s] # None /\ poll[s] \notin Live
    /\ poll' = [poll EXCEPT ![s] = None]
    /\ UNCHANGED <<dbVars, mapVars, ref, started, popen, stray, callVars, lifeVars,
                   proc, raced, faults>>

\* A detached greenlet finishes its launch (or Popen raises), and may hold the
\* last reference.
StrayEnds(s, p, launched) ==
    LET last == s \notin ref /\ Inside(s) = {} /\ Launching(s) = {<<s, p>>}
    IN  /\ <<s, p>> \in stray /\ (launched \/ p \notin Live)
        /\ Collect(s, IF launched THEN p ELSE popen[s], last)
        /\ started' = IF last THEN started \ {s} ELSE started
        /\ stray' = stray \ {<<s, p>>}
        /\ UNCHANGED <<dbVars, mapVars, ref, poll, callVars, lifeVars, raced, faults>>

-----------------------------------------------------------------------------
(* Crash and boot *)

\* The controller dies: its memory and the open transaction are gone.
Forget ==
    /\ txn' = None
    /\ mapped' = None /\ named' = None
    /\ ref' = {} /\ started' = {} /\ stray' = {}
    /\ popen' = [s \in Streams |-> None] /\ poll' = [s \in Streams |-> None]
    /\ pc' = [c \in Callers |-> "idle"]
    /\ obj' = [c \in Callers |-> None] /\ on' = [c \in Callers |-> None]
    /\ up' = "down"

Crash ==
    /\ up # "down" /\ crashes < MaxCrashes
    /\ Forget
    /\ crashes' = crashes + 1
    /\ UNCHANGED <<row, proc, raced, faults>>

\* kill_all of the rtsp, proxy and file_live source programs: the module is
\* about a stream of these types (an ffmpeg source is not killed). (Variant: not
\* done.)
KillNone == proc
KillAll == [p \in Procs |-> IF proc[p] = "alive" THEN "dying" ELSE proc[p]]

\* on_application_created: what an earlier life has left is killed, and the
\* configured stream is created again if its source type is among those
\* registered in this life.
Boot(c, supported) ==
    /\ up = "down"
    /\ proc' = KillAll
    /\ up' = IF row /\ supported THEN "loading" ELSE "up"
    /\ pc' = IF row /\ supported THEN [pc EXCEPT ![c] = "load"] ELSE pc
    /\ raced' = FALSE
    /\ failed' = FALSE /\ unsaved' = FALSE /\ skipped' = (row /\ ~supported)
    /\ UNCHANGED <<dbVars, mapVars, watcherVars, obj, on, crashes>>

LoadCreate(c, s, p) == pc[c] = "load" /\ Create(c, s, p, "load_launch")

LoadLaunched(c) ==
    /\ pc[c] = "load_launch"
    /\ Created(c)
    /\ up' = "up"
    /\ UNCHANGED <<dbVars, named, poll, stray, crashes, proc, raced, faults>>

\* Popen raises and the application does not come up.
LoadFails(c) ==
    /\ pc[c] = "load_launch"
    /\ proc' = [proc EXCEPT ![on[c]] = "dead"]
    /\ Forget
    /\ UNCHANGED <<row, crashes, raced, faults>>

-----------------------------------------------------------------------------
\* A blocked call goes on.
CallStep(c) ==
    \/ NewRejected(c) \/ NewLaunched(c) \/ NewCommitFails(c) \/ NewLaunchFails(c)
    \/ DelStopped(c) \/ DelRow(c) \/ DelRowFails(c)
    \/ RestartDropped(c) \/ RestartLaunched(c) \/ RestartLaunchFails(c)
    \/ LoadLaunched(c) \/ LoadFails(c)
    \/ \E p \in Procs :
           \/ RestartStopped(c, p)
           \/ \E s \in Streams : NewCreate(c, s, p) \/ LoadCreate(c, s, p)

PollStep(s) ==
    \/ PollExited(s) \/ PollLaunched(s) \/ PollLaunchFails(s)
    \/ \E p \in Procs : PollRestart(s, p) \/ \E launched \in BOOLEAN : StrayEnds(s, p, launched)

Request(c) ==
    \/ NewInsert(c)
    \/ \E s \in Streams :
           \/ DelCall(c, s) \/ DelCallNoWait(c, s) \/ RestartCall(c, s)
           \/ \E p \in Procs : RestartNoWait(c, s, p)

Next ==
    \/ \E c \in Callers :
           CallStep(c) \/ Request(c) \/ \E supported \in BOOLEAN : Boot(c, supported)
    \/ \E s \in Streams : PollStep(s)
    \/ \E p \in Procs : Exit(p)
    \/ Crash

\* Greenlets that can go on do, and what was told to terminate does.
Fairness ==
    /\ \A c \in Callers : WF_vars(CallStep(c))
    /\ \A s \in Streams : WF_vars(PollStep(s))
    /\ \A p \in Procs : WF_vars(proc[p] = "dying" /\ Exit(p))

Spec == Init /\ [][Next]_vars /\ Fairness

-----------------------------------------------------------------------------
(* The inductive invariant *)

Deleting == {"del_wait", "del_row"}
Loading == {"load", "load_launch"}

\* Calls whose stream has the name.
Naming == {"new_launch", "load_launch", "del_wait"}

\* A call works on a stream and a process while it is blocked in Popen or in
\* wait; what it waits for was told to terminate.
CallInv ==
    \A c \in Callers :
        /\ obj[c] # None <=> pc[c] \in InPopen \cup InWait
        /\ on[c] # None <=> pc[c] \in InPopen \cup InWait
        /\ pc[c] \in InWait => proc[on[c]] # "alive"

\* The open transaction is that of the call that creates the stream, and it
\* adds the row; as long as no commit has failed, a stream in service or being
\* deleted has its row.
DbInv ==
    /\ \A c \in Callers : txn = c <=> pc[c] \in {"create", "new_launch"}
    /\ row => txn = None
    /\ ~unsaved =>
           /\ mapped # None => row
           /\ \A c \in Callers : pc[c] \in Deleting => row /\ mapped = None
           /\ \A c, d \in Callers : pc[c] \in Deleting /\ pc[d] \in Deleting => c = d

\* Nothing is known while the controller is down, and while it loads only the
\* loading greenlet runs.
Forgotten ==
    /\ mapped = None /\ named = None /\ ref = {} /\ started = {} /\ stray = {}
    /\ \A s \in Streams : popen[s] = None /\ poll[s] = None
    /\ \A c \in Callers : pc[c] = "idle"

LifeInv ==
    /\ up = "down" => Forgotten
    /\ \A c \in Callers : pc[c] \in Loading => up = "loading" /\ row
    /\ up = "loading" => /\ mapped = None
                         /\ \A c \in Callers : pc[c] \in Loading \cup {"idle"}
    /\ \A c, d \in Callers : pc[c] \in Loading /\ pc[d] \in Loading => c = d

\* Who has the name, and which stream still refers to its watcher.
NameInv ==
    /\ mapped # None => named = mapped
    /\ \A c \in Callers : pc[c] \in Naming => obj[c] = named /\ mapped = None
    /\ \A c, d \in Callers : pc[c] \in Naming /\ pc[d] \in Naming => c = d
    /\ named # None => mapped = named \/ \E c \in Callers : pc[c] \in Naming
    /\ \A s \in Streams :
           s \in ref <=> mapped = s \/ \E c \in Callers : pc[c] = "del_wait" /\ obj[c] = s

\* A watcher is polled, or used by one call, or by one detached greenlet, but
\* never by two of them. It has a process while it is polled or a call waits
\* for it, and none while one is launched.
WatcherOK(s) ==
    /\ s \in started => s \in ref /\ \A c \in Callers : obj[c] # s
    /\ poll[s] # None => s \in started /\ popen[s] = None
    /\ \A p \in Procs : <<s, p>> \in stray =>
           /\ s \notin ref /\ popen[s] = None
           /\ \A c \in Callers : obj[c] # s
           /\ \A q \in Procs : <<s, q>> \in stray => q = p
    /\ \A c \in Callers : obj[c] = s =>
           /\ popen[s] = IF pc[c] \in InWait THEN on[c] ELSE None
           /\ \A d \in Callers : obj[d] = s => d = c
    /\ popen[s] # None => s \in started \/ \E c \in Callers : obj[c] = s

WatcherInv == ~raced => \A s \in Streams : WatcherOK(s)

\* A running process is in a watcher, or somebody is launching it.
Owned(p) ==
    \/ \E s \in Streams : popen[s] = p \/ poll[s] = p \/ <<s, p>> \in stray
    \/ \E c \in Callers : on[c] = p /\ pc[c] \in InPopen

OwnInv == up # "down" /\ ~raced => \A p \in Procs : proc[p] = "alive" => Owned(p)

-----------------------------------------------------------------------------
(* Properties *)

(***************************************************************************)
(* A source process that runs is somebody's: a watcher that still exists   *)
(* has it or a greenlet is launching it, also when the stream was deleted  *)
(* during a restart or while its polling greenlet launched the process     *)
(* again. Only two launches at the same time lose one.                     *)
(***************************************************************************)
NoOrphan ==
    up # "down" /\ ~raced =>
        \A p \in Procs : proc[p] = "alive" =>
            \/ \E s \in Streams : /\ popen[s] = p \/ <<s, p>> \in Launching(s)
                                  /\ s \in ref \/ ~Alone(s, None)
            \/ \E c \in Callers : on[c] = p /\ pc[c] \in InPopen

(***************************************************************************)
(* One source at most serves the name: two would fight for its sockets. A  *)
(* second process may exist only after the first was told to terminate, or *)
(* when its stream is deleted and its launch ends in a kill.               *)
(***************************************************************************)
OneSource ==
    up # "down" /\ ~raced =>
        \A p, q \in Procs : proc[p] = "alive" /\ proc[q] = "alive" /\ p # q =>
            \E x \in {p, q} :
                \/ \E s \in Streams \ ref : <<s, x>> \in stray
                \/ \E c \in Callers : pc[c] = "re_launch" /\ on[c] = x /\ obj[c] \notin ref

(***************************************************************************)
(* The database and the running streams agree: every stream in service is  *)
(* configured unless a new_stream of this life could not commit its row,   *)
(* and a configured one is in service unless it is just being deleted, its *)
(* deletion failed in the database or its source type was not registered   *)
(* at boot. Otherwise a restart of the controller brings back exactly what *)
(* was there.                                                              *)
(***************************************************************************)
ConfAgrees ==
    up = "up" => /\ mapped # None => row \/ unsaved
                 /\ row /\ mapped = None =>
                        \/ failed \/ skipped
                        \/ \E c \in Callers : pc[c] \in {"del_wait", "del_row"}

(***************************************************************************)
(* "Stream already exists" fails neither a boot nor a request whose row    *)
(* was accepted, unless an earlier request could not commit and has left   *)
(* its stream behind: the name is free again before the row is.            *)
(***************************************************************************)
NameFree ==
    \A c \in Callers : /\ pc[c] = "load" => named = None
                       /\ pc[c] = "create" => named = None \/ unsaved

(***************************************************************************)
(* A deleted stream leaves nothing behind: as long as no stream has the    *)
(* name, all its processes come to an end, whatever the deletion met: a    *)
(* restart, a launch by the polling greenlet, a process that ignores       *)
(* SIGTERM. Exempt is what NoOrphan exempts: once two greenlets have been  *)
(* in Popen at the same time, one of their processes may stay.             *)
(***************************************************************************)
AllEnd == []<>(named # None \/ up # "up" \/ raced \/ Live = {})
=============================================================================
