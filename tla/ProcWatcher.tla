----------------------------- MODULE ProcWatcher ----------------------------
(***************************************************************************)
(* The controller's process watcher                                        *)
(* (controller/python/streamswitch/process_mngr.py): it launches a child   *)
(* process, restarts it when it exits, terminates it when it has aged, and *)
(* stops it. All of this runs in gevent greenlets, which switch only where *)
(* they block: in Popen (which waits for the child's exec), in Popen.wait  *)
(* and in sleep. Everything between two such points is one step here.      *)
(*                                                                         *)
(* A process is a slot that is free again once nobody refers to it; so is  *)
(* a polling greenlet. Return codes, times and counters are left out; the  *)
(* age check is a choice. The status callback is taken not to block.       *)
(***************************************************************************)
EXTENDS Naturals

CONSTANTS
    Callers,  \* greenlets that call start, stop and async_stop
    Procs,    \* slots for child processes
    Pollers,  \* slots for polling greenlets
    None,     \* no process, no greenlet
    Restart,  \* error_restart_interval > 0
    Aging     \* age_time > 0

ASSUME WatcherAssumption ==
    /\ None \notin Procs \cup Pollers
    /\ Callers \cap Pollers = {}
    /\ Restart \in BOOLEAN /\ Aging \in BOOLEAN

VARIABLES
    started,   \* _started
    popen,     \* _popen
    poller,    \* _poll_greenlet
    aged,      \* _has_aged
    proc,      \* state of each child process
    launch,    \* the process a greenlet is launching, inside Popen
    pc,        \* where each caller is
    target,    \* the process a caller's stop waits for
    green,     \* where each polling greenlet is
    reapers,   \* processes a _terminate_run greenlet waits for
    raced,     \* history: a call came while another greenlet was in Popen
    stopped    \* history: stop has returned, and nobody started since

vars == <<started, popen, poller, aged, proc, launch, pc, target, green,
          reapers, raced, stopped>>

Agents == Callers \cup Pollers
Live == {p \in Procs : proc[p] \in {"alive", "termed", "killed"}}

TypeOK ==
    /\ started \in BOOLEAN /\ popen \in Procs \cup {None} /\ poller \in Pollers \cup {None}
    /\ aged \in BOOLEAN
    /\ proc \in [Procs -> {"free", "alive", "termed", "killed", "dead"}]
    /\ launch \in [Agents -> Procs \cup {None}]
    /\ pc \in [Callers -> {"idle", "launching", "waiting", "killing"}]
    /\ target \in [Callers -> Procs \cup {None}]
    /\ green \in [Pollers -> {"exited", "ready", "launching", "asleep"}]
    /\ reapers \subseteq Procs
    /\ raced \in BOOLEAN /\ stopped \in BOOLEAN

Init ==
    /\ started = FALSE /\ popen = None /\ poller = None /\ aged = FALSE
    /\ proc = [p \in Procs |-> "free"]
    /\ launch = [a \in Agents |-> None]
    /\ pc = [c \in Callers |-> "idle"] /\ target = [c \in Callers |-> None]
    /\ green = [g \in Pollers |-> "exited"]
    /\ reapers = {} /\ raced = FALSE /\ stopped = FALSE

-----------------------------------------------------------------------------
(* Child processes *)

\* A child exits, of its own accord or after a signal.
Exit(p) ==
    /\ p \in Live
    /\ proc' = [proc EXCEPT ![p] = "dead"]
    /\ UNCHANGED <<started, popen, poller, aged, launch, pc, target, green, reapers,
                   raced, stopped>>

Referenced(p) ==
    \/ p = popen \/ p \in reapers
    \/ \E a \in Agents : launch[a] = p
    \/ \E c \in Callers : target[c] = p

Reap(p) ==
    /\ proc[p] = "dead" /\ ~Referenced(p)
    /\ proc' = [proc EXCEPT ![p] = "free"]
    /\ UNCHANGED <<started, popen, poller, aged, launch, pc, target, green, reapers,
                   raced, stopped>>

\* SIGTERM, which a child may ignore, and SIGKILL.
Terminated(p) == [proc EXCEPT ![p] = IF @ = "alive" THEN "termed" ELSE @]
Killed(p) == [proc EXCEPT ![p] = IF @ \in {"alive", "termed"} THEN "killed" ELSE @]

InPopen == {a \in Agents : launch[a] # None}

\* Popen forks and blocks until the child has executed its program.
Fork(a, p) ==
    /\ proc[p] = "free"
    /\ proc' = [proc EXCEPT ![p] = "alive"]
    /\ launch' = [launch EXCEPT ![a] = p]

-----------------------------------------------------------------------------
(* start *)

\* A started watcher, and one that is being stopped, is left alone.
StartAllowed == ~started /\ popen = None

StartCall(c, p) ==
    /\ pc[c] = "idle" /\ StartAllowed
    /\ Fork(c, p)
    /\ pc' = [pc EXCEPT ![c] = "launching"]
    /\ raced' = (raced \/ InPopen # {})
    /\ stopped' = FALSE
    /\ UNCHANGED <<started, popen, poller, aged, target, green, reapers>>

\* The child runs: start the polling greenlet g.
StartLaunched(c, g) ==
    /\ pc[c] = "launching" /\ green[g] = "exited" /\ g # poller
    /\ popen' = launch[c] /\ aged' = FALSE
    /\ launch' = [launch EXCEPT ![c] = None]
    /\ started' = TRUE
    /\ poller' = g /\ green' = [green EXCEPT ![g] = "ready"]
    /\ pc' = [pc EXCEPT ![c] = "idle"]
    /\ UNCHANGED <<proc, target, reapers, raced, stopped>>

\* Popen raises (the child is gone): what another start has left is undone.
StartFails(c) ==
    /\ pc[c] = "launching"
    /\ started' = FALSE /\ poller' = None
    /\ proc' = [p \in Procs |-> IF p = launch[c] THEN "dead"
                                ELSE IF p = popen THEN Killed(p)[p] ELSE proc[p]]
    /\ popen' = None
    /\ launch' = [launch EXCEPT ![c] = None]
    /\ pc' = [pc EXCEPT ![c] = "idle"]
    /\ UNCHANGED <<aged, target, green, reapers, raced, stopped>>

-----------------------------------------------------------------------------
(* stop and async_stop *)

\* Both detach the polling greenlet first; a watcher that is not started is
\* left alone.
Detach ==
    /\ started
    /\ started' = FALSE /\ poller' = None
    /\ raced' = (raced \/ InPopen # {})

\* stop sends SIGTERM to the process and waits for it.
StopCall(c) ==
    /\ pc[c] = "idle" /\ popen # None
    /\ Detach
    /\ proc' = Terminated(popen)
    /\ target' = [target EXCEPT ![c] = popen]
    /\ pc' = [pc EXCEPT ![c] = "waiting"]
    /\ UNCHANGED <<popen, aged, launch, green, reapers, stopped>>

\* There is no process at the moment: stop returns at once.
StopNoProcess(c) ==
    /\ pc[c] = "idle" /\ popen = None
    /\ Detach
    /\ stopped' = TRUE
    /\ UNCHANGED <<popen, aged, proc, launch, pc, target, green, reapers>>

\* The wait times out: kill. (Variant: give up.)
NotKilled(p) == proc
AfterTimeout(p) == Killed(p)

StopTimeout(c) ==
    /\ pc[c] = "waiting" /\ target[c] \in Live
    /\ proc' = AfterTimeout(target[c])
    /\ pc' = [pc EXCEPT ![c] = "killing"]
    /\ UNCHANGED <<started, popen, poller, aged, launch, target, green, reapers,
                   raced, stopped>>

\* The watcher's process after a stop of p, unless it was replaced. (Variant:
\* never reset.)
PopenKept(p) == popen
PopenAfterStop(p) == IF popen = p THEN None ELSE popen

\* The process has exited.
StopReturns(c) ==
    /\ pc[c] \in {"waiting", "killing"} /\ target[c] \notin Live
    /\ popen' = PopenAfterStop(target[c])
    /\ target' = [target EXCEPT ![c] = None]
    /\ pc' = [pc EXCEPT ![c] = "idle"]
    /\ stopped' = ~started
    /\ UNCHANGED <<started, poller, aged, proc, launch, green, reapers, raced>>

\* async_stop and destroy leave the waiting to a new greenlet. (Variant: to
\* nobody.)
ReapersKept == reapers
ReapersAfterAsync == IF popen = None THEN reapers ELSE reapers \cup {popen}

AsyncStop(c) ==
    /\ pc[c] = "idle"
    /\ Detach
    /\ proc' = IF popen = None THEN proc ELSE Terminated(popen)
    /\ reapers' = ReapersAfterAsync
    /\ popen' = None
    /\ stopped' = FALSE
    /\ UNCHANGED <<aged, launch, pc, target, green>>

\* _terminate_run
ReaperTimeout(p) ==
    /\ p \in reapers /\ proc[p] = "termed"
    /\ proc' = Killed(p)
    /\ UNCHANGED <<started, popen, poller, aged, launch, pc, target, green, reapers,
                   raced, stopped>>

ReaperReturns(p) ==
    /\ p \in reapers /\ p \notin Live
    /\ reapers' = reapers \ {p}
    /\ UNCHANGED <<started, popen, poller, aged, proc, launch, pc, target, green,
                   raced, stopped>>

-----------------------------------------------------------------------------
(* _polling_run *)

\* The greenlet is still the watcher's.
Attached(g) == started /\ poller = g

PollDetached(g) ==
    /\ green[g] = "ready" /\ ~Attached(g)
    /\ green' = [green EXCEPT ![g] = "exited"]
    /\ UNCHANGED <<started, popen, poller, aged, proc, launch, pc, target, reapers,
                   raced, stopped>>

\* No process: launch it again.
PollRestart(g, p) ==
    /\ green[g] = "ready" /\ Attached(g) /\ popen = None
    /\ Fork(g, p)
    /\ green' = [green EXCEPT ![g] = "launching"]
    /\ raced' = (raced \/ InPopen # {})
    /\ UNCHANGED <<started, popen, poller, aged, pc, target, reapers, stopped>>

PollLaunched(g) ==
    /\ green[g] = "launching"
    /\ popen' = launch[g] /\ aged' = FALSE
    /\ launch' = [launch EXCEPT ![g] = None]
    /\ green' = [green EXCEPT ![g] = "asleep"]
    /\ UNCHANGED <<started, poller, proc, pc, target, reapers, raced, stopped>>

\* Popen raises: tried again after the next sleep.
PollLaunchFails(g) ==
    /\ green[g] = "launching"
    /\ proc' = [proc EXCEPT ![launch[g]] = "dead"]
    /\ launch' = [launch EXCEPT ![g] = None]
    /\ green' = [green EXCEPT ![g] = "asleep"]
    /\ UNCHANGED <<started, popen, poller, aged, pc, target, reapers, raced, stopped>>

\* The process has exited: sleep and restart it, unless restarting is off.
\* (Variant: the greenlet ends in both cases.)
AfterExitEnd == "exited"
AfterExit == IF Restart THEN "asleep" ELSE "exited"

PollExited(g) ==
    /\ green[g] = "ready" /\ Attached(g)
    /\ popen # None /\ popen \notin Live
    /\ popen' = None
    /\ green' = [green EXCEPT ![g] = AfterExit]
    /\ UNCHANGED <<started, poller, aged, proc, launch, pc, target, reapers, raced, stopped>>

\* The process runs; one that has aged is terminated and, later, killed.
PollAlive(g) ==
    /\ green[g] = "ready" /\ Attached(g) /\ popen \in Live
    /\ \/ UNCHANGED <<proc, aged>>
       \/ Aging /\ ~aged /\ aged' = TRUE /\ proc' = Terminated(popen)
       \/ Aging /\ aged /\ proc' = Killed(popen) /\ UNCHANGED aged
    /\ green' = [green EXCEPT ![g] = "asleep"]
    /\ UNCHANGED <<started, popen, poller, launch, pc, target, reapers, raced, stopped>>

PollWakes(g) ==
    /\ green[g] = "asleep"
    /\ green' = [green EXCEPT ![g] = "ready"]
    /\ UNCHANGED <<started, popen, poller, aged, proc, launch, pc, target, reapers,
                   raced, stopped>>

-----------------------------------------------------------------------------
PollStep(g) ==
    \/ PollDetached(g) \/ PollLaunched(g) \/ PollLaunchFails(g)
    \/ PollExited(g) \/ PollAlive(g) \/ PollWakes(g)
    \/ \E p \in Procs : PollRestart(g, p)

StopStep(c) == StopTimeout(c) \/ StopReturns(c)

Next ==
    \/ \E p \in Procs : Exit(p) \/ Reap(p) \/ ReaperTimeout(p) \/ ReaperReturns(p)
    \/ \E c \in Callers :
           \/ \E p \in Procs : StartCall(c, p)
           \/ \E g \in Pollers : StartLaunched(c, g)
           \/ StartFails(c)
           \/ StopCall(c) \/ StopNoProcess(c) \/ AsyncStop(c) \/ StopStep(c)
    \/ \E g \in Pollers : PollStep(g)

\* The scheduler runs every greenlet that can run, waits time out, killed
\* children die and dead ones are forgotten.
Fairness ==
    /\ \A g \in Pollers : WF_vars(PollStep(g))
    /\ \A c \in Callers : WF_vars(StopStep(c))
    /\ \A p \in Procs : /\ WF_vars(proc[p] = "killed" /\ Exit(p))
                        /\ WF_vars(Reap(p) \/ ReaperTimeout(p) \/ ReaperReturns(p))

Spec == Init /\ [][Next]_vars
FairSpec == Spec /\ Fairness

-----------------------------------------------------------------------------
(* Properties *)

\* Who is responsible for a live child: the watcher, a stop that waits for
\* it, a _terminate_run greenlet or the greenlet that is launching it.
Responsible(p) ==
    \/ Referenced(p)
    \/ proc[p] = "killed"

(***************************************************************************)
(* A child process is leaked only if start, stop or async_stop is called   *)
(* while another greenlet is inside Popen: without that race every live    *)
(* child is the watcher's, or somebody is waiting for its end, and there   *)
(* is at most one that has not been told to terminate.                     *)
(***************************************************************************)
LeakOnlyInLaunch ==
    ~raced => /\ \A p \in Live : Responsible(p)
              /\ \A p, q \in Procs : proc[p] = "alive" /\ proc[q] = "alive" => p = q

(***************************************************************************)
(* "ProcWatcher in Stopping" is a passing state: a watcher that refuses to *)
(* start because it still has a process is being stopped by somebody.      *)
(***************************************************************************)
StoppingPasses ==
    ~raced /\ ~started /\ popen # None => \E c \in Callers : target[c] = popen

(***************************************************************************)
(* A started watcher is watched: its polling greenlet has not ended, or    *)
(* restarting is off and the process has exited.                           *)
(***************************************************************************)
StartedIsWatched ==
    started => /\ poller # None
               /\ green[poller] = "exited" => ~Restart

-----------------------------------------------------------------------------
(* The inductive invariant *)

\* Greenlets inside Popen and inside wait.
BlockedInv ==
    /\ \A c \in Callers : /\ pc[c] = "launching" <=> launch[c] # None
                          /\ pc[c] \in {"waiting", "killing"} <=> target[c] # None
    /\ \A g \in Pollers : green[g] = "launching" <=> launch[g] # None

\* Without a race one greenlet at most is inside Popen, and the watcher has no
\* other process then.
PopenInv ==
    ~raced =>
        /\ \A a, b \in Agents : launch[a] # None /\ launch[b] # None => a = b
        /\ InPopen # {} => popen = None
        /\ \A c \in Callers : launch[c] # None => ~started
        /\ \A g \in Pollers : launch[g] # None => Attached(g)

\* Without a race a child that has not been told to terminate is the started
\* watcher's, or is being launched.
AliveInv ==
    ~raced => \A p \in Procs : proc[p] = "alive" =>
                  (started /\ p = popen) \/ \E a \in Agents : launch[a] = p

WatcherInv ==
    /\ BlockedInv /\ PopenInv /\ AliveInv
    /\ LeakOnlyInLaunch /\ StoppingPasses /\ StartedIsWatched

-----------------------------------------------------------------------------
(* Liveness, and what the documentation says *)

(***************************************************************************)
(* stop returns, although a child may ignore SIGTERM.                      *)
(***************************************************************************)
StopEnds == \A c \in Callers : pc[c] = "waiting" ~> pc[c] = "idle"

(***************************************************************************)
(* A child that exited is launched again as long as the watcher is         *)
(* started.                                                                *)
(***************************************************************************)
Relaunched ==
    Restart /\ started /\ popen = None ~> popen # None \/ ~started \/ raced \/ InPopen # {}

(***************************************************************************)
(* What the docstring of stop says: after it has returned the process has  *)
(* been terminated. A stop that comes while the polling greenlet launches  *)
(* the process again breaks it.                                            *)
(***************************************************************************)
StopTerminates == stopped => Live \subseteq reapers
=============================================================================
