------------------------- MODULE ProcWatcher_proofs -------------------------
(***************************************************************************)
(* The safety properties of the process watcher, for any number of calling *)
(* greenlets, processes and polling greenlets. WatcherInv is inductive:    *)
(* PopenInv and AliveInv say who may be inside Popen and which child has   *)
(* not been told to terminate, as long as no call has raced with a launch. *)
(***************************************************************************)
EXTENDS ProcWatcher, TLAPS

LEMMA WatcherTypeStep == ASSUME TypeOK, [Next]_vars PROVE TypeOK'
<1> USE WatcherAssumption DEF TypeOK, Agents, Live
<1>1. ASSUME NEW p \in Procs, Exit(p) PROVE TypeOK'
  BY <1>1 DEF Exit
<1>2. ASSUME NEW p \in Procs, Reap(p) PROVE TypeOK'
  BY <1>2 DEF Reap
<1>3. ASSUME NEW p \in Procs, ReaperTimeout(p) PROVE TypeOK'
  BY <1>3 DEF ReaperTimeout, Killed
<1>4. ASSUME NEW p \in Procs, ReaperReturns(p) PROVE TypeOK'
  BY <1>4 DEF ReaperReturns
<1>5. ASSUME NEW c \in Callers, NEW p \in Procs, StartCall(c, p) PROVE TypeOK'
  BY <1>5 DEF StartCall, Fork, StartAllowed
<1>6. ASSUME NEW c \in Callers, NEW g \in Pollers, StartLaunched(c, g) PROVE TypeOK'
  BY <1>6 DEF StartLaunched
<1>7. ASSUME NEW c \in Callers, StartFails(c) PROVE TypeOK'
  BY <1>7 DEF StartFails, Killed
<1>8. ASSUME NEW c \in Callers, StopCall(c) PROVE TypeOK'
  BY <1>8 DEF StopCall, Detach, Terminated
<1>9. ASSUME NEW c \in Callers, StopNoProcess(c) PROVE TypeOK'
  BY <1>9 DEF StopNoProcess, Detach
<1>10. ASSUME NEW c \in Callers, AsyncStop(c) PROVE TypeOK'
  BY <1>10 DEF AsyncStop, Detach, Terminated, ReapersAfterAsync
<1>11. ASSUME NEW c \in Callers, StopTimeout(c) PROVE TypeOK'
  BY <1>11 DEF StopTimeout, AfterTimeout, Killed
<1>12. ASSUME NEW c \in Callers, StopReturns(c) PROVE TypeOK'
  BY <1>12 DEF StopReturns, PopenAfterStop
<1>13. ASSUME NEW g \in Pollers, PollDetached(g) PROVE TypeOK'
  BY <1>13 DEF PollDetached
<1>14. ASSUME NEW g \in Pollers, NEW p \in Procs, PollRestart(g, p) PROVE TypeOK'
  BY <1>14 DEF PollRestart, Fork
<1>15. ASSUME NEW g \in Pollers, PollLaunched(g) PROVE TypeOK'
  BY <1>15 DEF PollLaunched
<1>16. ASSUME NEW g \in Pollers, PollLaunchFails(g) PROVE TypeOK'
  BY <1>16 DEF PollLaunchFails
<1>17. ASSUME NEW g \in Pollers, PollExited(g) PROVE TypeOK'
  BY <1>17 DEF PollExited, AfterExit
<1>18. ASSUME NEW g \in Pollers, PollAlive(g) PROVE TypeOK'
  BY <1>18 DEF PollAlive, Terminated, Killed
<1>19. ASSUME NEW g \in Pollers, PollWakes(g) PROVE TypeOK'
  BY <1>19 DEF PollWakes
<1>20. CASE UNCHANGED vars
  BY <1>20 DEF vars
<1>21. QED
  BY <1>1, <1>2, <1>3, <1>4, <1>5, <1>6, <1>7, <1>8, <1>9, <1>10, <1>11, <1>12, <1>13, <1>14, <1>15, <1>16, <1>17, <1>18, <1>19, <1>20 DEF Next, PollStep, StopStep

\* Every step of every greenlet keeps the types.
THEOREM WatcherTypeCorrect == Spec => []TypeOK
<1>1. Init => TypeOK
  BY WatcherAssumption DEF Init, TypeOK, Agents
<1>2. QED
  BY <1>1, WatcherTypeStep, PTL DEF Spec

LEMMA WatcherInit == Init => WatcherInv
  BY DEF Init, WatcherInv, BlockedInv, PopenInv, AliveInv, LeakOnlyInLaunch,
         StoppingPasses, StartedIsWatched, InPopen, Agents, Live

LEMMA BlockedStep == ASSUME TypeOK, BlockedInv, [Next]_vars PROVE BlockedInv'
<1> USE WatcherAssumption DEF TypeOK, BlockedInv, Agents, Live
<1>1. ASSUME NEW p \in Procs, Exit(p) PROVE BlockedInv'
  BY <1>1 DEF Exit
<1>2. ASSUME NEW p \in Procs, Reap(p) PROVE BlockedInv'
  BY <1>2 DEF Reap
<1>3. ASSUME NEW p \in Procs, ReaperTimeout(p) PROVE BlockedInv'
  BY <1>3 DEF ReaperTimeout, Killed
<1>4. ASSUME NEW p \in Procs, ReaperReturns(p) PROVE BlockedInv'
  BY <1>4 DEF ReaperReturns
<1>5. ASSUME NEW c \in Callers, NEW p \in Procs, StartCall(c, p) PROVE BlockedInv'
  BY <1>5 DEF StartCall, Fork, StartAllowed
<1>6. ASSUME NEW c \in Callers, NEW g \in Pollers, StartLaunched(c, g) PROVE BlockedInv'
  BY <1>6 DEF StartLaunched
<1>7. ASSUME NEW c \in Callers, StartFails(c) PROVE BlockedInv'
  BY <1>7 DEF StartFails, Killed
<1>8. ASSUME NEW c \in Callers, StopCall(c) PROVE BlockedInv'
  BY <1>8 DEF StopCall, Detach, Terminated
<1>9. ASSUME NEW c \in Callers, StopNoProcess(c) PROVE BlockedInv'
  BY <1>9 DEF StopNoProcess, Detach
<1>10. ASSUME NEW c \in Callers, AsyncStop(c) PROVE BlockedInv'
  BY <1>10 DEF AsyncStop, Detach, Terminated, ReapersAfterAsync
<1>11. ASSUME NEW c \in Callers, StopTimeout(c) PROVE BlockedInv'
  BY <1>11 DEF StopTimeout, AfterTimeout, Killed
<1>12. ASSUME NEW c \in Callers, StopReturns(c) PROVE BlockedInv'
  BY <1>12 DEF StopReturns, PopenAfterStop
<1>13. ASSUME NEW g \in Pollers, PollDetached(g) PROVE BlockedInv'
  BY <1>13 DEF PollDetached
<1>14. ASSUME NEW g \in Pollers, NEW p \in Procs, PollRestart(g, p) PROVE BlockedInv'
  BY <1>14 DEF PollRestart, Fork
<1>15. ASSUME NEW g \in Pollers, PollLaunched(g) PROVE BlockedInv'
  BY <1>15 DEF PollLaunched
<1>16. ASSUME NEW g \in Pollers, PollLaunchFails(g) PROVE BlockedInv'
  BY <1>16 DEF PollLaunchFails
<1>17. ASSUME NEW g \in Pollers, PollExited(g) PROVE BlockedInv'
  BY <1>17 DEF PollExited, AfterExit
<1>18. ASSUME NEW g \in Pollers, PollAlive(g) PROVE BlockedInv'
  BY <1>18 DEF PollAlive, Terminated, Killed
<1>19. ASSUME NEW g \in Pollers, PollWakes(g) PROVE BlockedInv'
  BY <1>19 DEF PollWakes
<1>20. CASE UNCHANGED vars
  BY <1>20 DEF vars
<1>21. QED
  BY <1>1, <1>2, <1>3, <1>4, <1>5, <1>6, <1>7, <1>8, <1>9, <1>10, <1>11, <1>12, <1>13, <1>14, <1>15, <1>16, <1>17, <1>18, <1>19, <1>20 DEF Next, PollStep, StopStep

LEMMA PopenStep == ASSUME TypeOK, BlockedInv, PopenInv, [Next]_vars PROVE PopenInv'
<1> USE WatcherAssumption DEF TypeOK, BlockedInv, PopenInv, InPopen, Attached, Agents, Live
<1>1. ASSUME NEW p \in Procs, Exit(p) PROVE PopenInv'
  BY <1>1 DEF Exit
<1>2. ASSUME NEW p \in Procs, Reap(p) PROVE PopenInv'
  BY <1>2 DEF Reap
<1>3. ASSUME NEW p \in Procs, ReaperTimeout(p) PROVE PopenInv'
  BY <1>3 DEF ReaperTimeout, Killed
<1>4. ASSUME NEW p \in Procs, ReaperReturns(p) PROVE PopenInv'
  BY <1>4 DEF ReaperReturns
<1>5. ASSUME NEW c \in Callers, NEW p \in Procs, StartCall(c, p) PROVE PopenInv'
  BY <1>5 DEF StartCall, Fork, StartAllowed
<1>6. ASSUME NEW c \in Callers, NEW g \in Pollers, StartLaunched(c, g) PROVE PopenInv'
  BY <1>6 DEF StartLaunched
<1>7. ASSUME NEW c \in Callers, StartFails(c) PROVE PopenInv'
  BY <1>7 DEF StartFails, Killed
<1>8. ASSUME NEW c \in Callers, StopCall(c) PROVE PopenInv'
  BY <1>8 DEF StopCall, Detach, Terminated
<1>9. ASSUME NEW c \in Callers, StopNoProcess(c) PROVE PopenInv'
  BY <1>9 DEF StopNoProcess, Detach
<1>10. ASSUME NEW c \in Callers, AsyncStop(c) PROVE PopenInv'
  BY <1>10 DEF AsyncStop, Detach, Terminated, ReapersAfterAsync
<1>11. ASSUME NEW c \in Callers, StopTimeout(c) PROVE PopenInv'
  BY <1>11 DEF StopTimeout, AfterTimeout, Killed
<1>12. ASSUME NEW c \in Callers, StopReturns(c) PROVE PopenInv'
  BY <1>12 DEF StopReturns, PopenAfterStop
<1>13. ASSUME NEW g \in Pollers, PollDetached(g) PROVE PopenInv'
  BY <1>13 DEF PollDetached
<1>14. ASSUME NEW g \in Pollers, NEW p \in Procs, PollRestart(g, p) PROVE PopenInv'
  BY <1>14 DEF PollRestart, Fork
<1>15. ASSUME NEW g \in Pollers, PollLaunched(g) PROVE PopenInv'
  BY <1>15 DEF PollLaunched
<1>16. ASSUME NEW g \in Pollers, PollLaunchFails(g) PROVE PopenInv'
  BY <1>16 DEF PollLaunchFails
<1>17. ASSUME NEW g \in Pollers, PollExited(g) PROVE PopenInv'
  BY <1>17 DEF PollExited, AfterExit
<1>18. ASSUME NEW g \in Pollers, PollAlive(g) PROVE PopenInv'
  BY <1>18 DEF PollAlive, Terminated, Killed
<1>19. ASSUME NEW g \in Pollers, PollWakes(g) PROVE PopenInv'
  BY <1>19 DEF PollWakes
<1>20. CASE UNCHANGED vars
  BY <1>20 DEF vars
<1>21. QED
  BY <1>1, <1>2, <1>3, <1>4, <1>5, <1>6, <1>7, <1>8, <1>9, <1>10, <1>11, <1>12, <1>13, <1>14, <1>15, <1>16, <1>17, <1>18, <1>19, <1>20 DEF Next, PollStep, StopStep

LEMMA AliveStep ==
    ASSUME TypeOK, BlockedInv, PopenInv, AliveInv, [Next]_vars PROVE AliveInv'
<1> USE WatcherAssumption
    DEF TypeOK, BlockedInv, PopenInv, AliveInv, InPopen, Attached, Agents, Live
<1>1. ASSUME NEW p \in Procs, Exit(p) PROVE AliveInv'
  BY <1>1 DEF Exit
<1>2. ASSUME NEW p \in Procs, Reap(p) PROVE AliveInv'
  BY <1>2 DEF Reap
<1>3. ASSUME NEW p \in Procs, ReaperTimeout(p) PROVE AliveInv'
  BY <1>3 DEF ReaperTimeout, Killed
<1>4. ASSUME NEW p \in Procs, ReaperReturns(p) PROVE AliveInv'
  BY <1>4 DEF ReaperReturns
<1>5. ASSUME NEW c \in Callers, NEW p \in Procs, StartCall(c, p) PROVE AliveInv'
  BY <1>5 DEF StartCall, Fork, StartAllowed
<1>6. ASSUME NEW c \in Callers, NEW g \in Pollers, StartLaunched(c, g) PROVE AliveInv'
  BY <1>6 DEF StartLaunched
<1>7. ASSUME NEW c \in Callers, StartFails(c) PROVE AliveInv'
  BY <1>7 DEF StartFails, Killed
<1>8. ASSUME NEW c \in Callers, StopCall(c) PROVE AliveInv'
  BY <1>8 DEF StopCall, Detach, Terminated
<1>9. ASSUME NEW c \in Callers, StopNoProcess(c) PROVE AliveInv'
  BY <1>9 DEF StopNoProcess, Detach
<1>10. ASSUME NEW c \in Callers, AsyncStop(c) PROVE AliveInv'
  BY <1>10 DEF AsyncStop, Detach, Terminated, ReapersAfterAsync
<1>11. ASSUME NEW c \in Callers, StopTimeout(c) PROVE AliveInv'
  BY <1>11 DEF StopTimeout, AfterTimeout, Killed
<1>12. ASSUME NEW c \in Callers, StopReturns(c) PROVE AliveInv'
  BY <1>12 DEF StopReturns, PopenAfterStop
<1>13. ASSUME NEW g \in Pollers, PollDetached(g) PROVE AliveInv'
  BY <1>13 DEF PollDetached
<1>14. ASSUME NEW g \in Pollers, NEW p \in Procs, PollRestart(g, p) PROVE AliveInv'
  BY <1>14 DEF PollRestart, Fork
<1>15. ASSUME NEW g \in Pollers, PollLaunched(g) PROVE AliveInv'
  BY <1>15 DEF PollLaunched
<1>16. ASSUME NEW g \in Pollers, PollLaunchFails(g) PROVE AliveInv'
  BY <1>16 DEF PollLaunchFails
<1>17. ASSUME NEW g \in Pollers, PollExited(g) PROVE AliveInv'
  BY <1>17 DEF PollExited, AfterExit
<1>18. ASSUME NEW g \in Pollers, PollAlive(g) PROVE AliveInv'
  BY <1>18 DEF PollAlive, Terminated, Killed
<1>19. ASSUME NEW g \in Pollers, PollWakes(g) PROVE AliveInv'
  BY <1>19 DEF PollWakes
<1>20. CASE UNCHANGED vars
  BY <1>20 DEF vars
<1>21. QED
  BY <1>1, <1>2, <1>3, <1>4, <1>5, <1>6, <1>7, <1>8, <1>9, <1>10, <1>11, <1>12, <1>13, <1>14, <1>15, <1>16, <1>17, <1>18, <1>19, <1>20 DEF Next, PollStep, StopStep

\* Every live child has somebody responsible.
Owned == ~raced => \A p \in Live : Responsible(p)

LEMMA OwnedStep ==
    ASSUME TypeOK, BlockedInv, PopenInv, Owned, [Next]_vars PROVE Owned'
<1> USE WatcherAssumption
    DEF TypeOK, BlockedInv, PopenInv, Owned, Responsible, Referenced, InPopen, Attached,
        Agents, Live
<1>1. ASSUME NEW p \in Procs, Exit(p) PROVE Owned'
  BY <1>1 DEF Exit
<1>2. ASSUME NEW p \in Procs, Reap(p) PROVE Owned'
  BY <1>2 DEF Reap
<1>3. ASSUME NEW p \in Procs, ReaperTimeout(p) PROVE Owned'
  BY <1>3 DEF ReaperTimeout, Killed
<1>4. ASSUME NEW p \in Procs, ReaperReturns(p) PROVE Owned'
  BY <1>4 DEF ReaperReturns
<1>5. ASSUME NEW c \in Callers, NEW p \in Procs, StartCall(c, p) PROVE Owned'
  BY <1>5 DEF StartCall, Fork, StartAllowed
<1>6. ASSUME NEW c \in Callers, NEW g \in Pollers, StartLaunched(c, g) PROVE Owned'
  BY <1>6 DEF StartLaunched
<1>7. ASSUME NEW c \in Callers, StartFails(c) PROVE Owned'
  BY <1>7 DEF StartFails, Killed
<1>8. ASSUME NEW c \in Callers, StopCall(c) PROVE Owned'
  BY <1>8 DEF StopCall, Detach, Terminated
<1>9. ASSUME NEW c \in Callers, StopNoProcess(c) PROVE Owned'
  BY <1>9 DEF StopNoProcess, Detach
<1>10. ASSUME NEW c \in Callers, AsyncStop(c) PROVE Owned'
  BY <1>10 DEF AsyncStop, Detach, Terminated, ReapersAfterAsync
<1>11. ASSUME NEW c \in Callers, StopTimeout(c) PROVE Owned'
  BY <1>11 DEF StopTimeout, AfterTimeout, Killed
<1>12. ASSUME NEW c \in Callers, StopReturns(c) PROVE Owned'
  BY <1>12 DEF StopReturns, PopenAfterStop
<1>13. ASSUME NEW g \in Pollers, PollDetached(g) PROVE Owned'
  BY <1>13 DEF PollDetached
<1>14. ASSUME NEW g \in Pollers, NEW p \in Procs, PollRestart(g, p) PROVE Owned'
  BY <1>14 DEF PollRestart, Fork
<1>15. ASSUME NEW g \in Pollers, PollLaunched(g) PROVE Owned'
  BY <1>15 DEF PollLaunched
<1>16. ASSUME NEW g \in Pollers, PollLaunchFails(g) PROVE Owned'
  BY <1>16 DEF PollLaunchFails
<1>17. ASSUME NEW g \in Pollers, PollExited(g) PROVE Owned'
  BY <1>17 DEF PollExited, AfterExit
<1>18. ASSUME NEW g \in Pollers, PollAlive(g) PROVE Owned'
  BY <1>18 DEF PollAlive, Terminated, Killed
<1>19. ASSUME NEW g \in Pollers, PollWakes(g) PROVE Owned'
  BY <1>19 DEF PollWakes
<1>20. CASE UNCHANGED vars
  BY <1>20 DEF vars
<1>21. QED
  BY <1>1, <1>2, <1>3, <1>4, <1>5, <1>6, <1>7, <1>8, <1>9, <1>10, <1>11, <1>12, <1>13, <1>14, <1>15, <1>16, <1>17, <1>18, <1>19, <1>20 DEF Next, PollStep, StopStep

LEMMA StoppingStep ==
    ASSUME TypeOK, BlockedInv, PopenInv, StoppingPasses, [Next]_vars PROVE StoppingPasses'
<1> USE WatcherAssumption
    DEF TypeOK, BlockedInv, PopenInv, StoppingPasses, InPopen, Attached, Agents, Live
<1>1. ASSUME NEW p \in Procs, Exit(p) PROVE StoppingPasses'
  BY <1>1 DEF Exit
<1>2. ASSUME NEW p \in Procs, Reap(p) PROVE StoppingPasses'
  BY <1>2 DEF Reap
<1>3. ASSUME NEW p \in Procs, ReaperTimeout(p) PROVE StoppingPasses'
  BY <1>3 DEF ReaperTimeout, Killed
<1>4. ASSUME NEW p \in Procs, ReaperReturns(p) PROVE StoppingPasses'
  BY <1>4 DEF ReaperReturns
<1>5. ASSUME NEW c \in Callers, NEW p \in Procs, StartCall(c, p) PROVE StoppingPasses'
  BY <1>5 DEF StartCall, Fork, StartAllowed
<1>6. ASSUME NEW c \in Callers, NEW g \in Pollers, StartLaunched(c, g) PROVE StoppingPasses'
  BY <1>6 DEF StartLaunched
<1>7. ASSUME NEW c \in Callers, StartFails(c) PROVE StoppingPasses'
  BY <1>7 DEF StartFails, Killed
<1>8. ASSUME NEW c \in Callers, StopCall(c) PROVE StoppingPasses'
  BY <1>8 DEF StopCall, Detach, Terminated
<1>9. ASSUME NEW c \in Callers, StopNoProcess(c) PROVE StoppingPasses'
  BY <1>9 DEF StopNoProcess, Detach
<1>10. ASSUME NEW c \in Callers, AsyncStop(c) PROVE StoppingPasses'
  BY <1>10 DEF AsyncStop, Detach, Terminated, ReapersAfterAsync
<1>11. ASSUME NEW c \in Callers, StopTimeout(c) PROVE StoppingPasses'
  BY <1>11 DEF StopTimeout, AfterTimeout, Killed
<1>12. ASSUME NEW c \in Callers, StopReturns(c) PROVE StoppingPasses'
  BY <1>12 DEF StopReturns, PopenAfterStop
<1>13. ASSUME NEW g \in Pollers, PollDetached(g) PROVE StoppingPasses'
  BY <1>13 DEF PollDetached
<1>14. ASSUME NEW g \in Pollers, NEW p \in Procs, PollRestart(g, p) PROVE StoppingPasses'
  BY <1>14 DEF PollRestart, Fork
<1>15. ASSUME NEW g \in Pollers, PollLaunched(g) PROVE StoppingPasses'
  BY <1>15 DEF PollLaunched
<1>16. ASSUME NEW g \in Pollers, PollLaunchFails(g) PROVE StoppingPasses'
  BY <1>16 DEF PollLaunchFails
<1>17. ASSUME NEW g \in Pollers, PollExited(g) PROVE StoppingPasses'
  BY <1>17 DEF PollExited, AfterExit
<1>18. ASSUME NEW g \in Pollers, PollAlive(g) PROVE StoppingPasses'
  BY <1>18 DEF PollAlive, Terminated, Killed
<1>19. ASSUME NEW g \in Pollers, PollWakes(g) PROVE StoppingPasses'
  BY <1>19 DEF PollWakes
<1>20. CASE UNCHANGED vars
  BY <1>20 DEF vars
<1>21. QED
  BY <1>1, <1>2, <1>3, <1>4, <1>5, <1>6, <1>7, <1>8, <1>9, <1>10, <1>11, <1>12, <1>13, <1>14, <1>15, <1>16, <1>17, <1>18, <1>19, <1>20 DEF Next, PollStep, StopStep

LEMMA WatchedStep ==
    ASSUME TypeOK, StartedIsWatched, [Next]_vars PROVE StartedIsWatched'
<1> USE WatcherAssumption DEF TypeOK, StartedIsWatched, Attached, Agents, Live
<1>1. ASSUME NEW p \in Procs, Exit(p) PROVE StartedIsWatched'
  BY <1>1 DEF Exit
<1>2. ASSUME NEW p \in Procs, Reap(p) PROVE StartedIsWatched'
  BY <1>2 DEF Reap
<1>3. ASSUME NEW p \in Procs, ReaperTimeout(p) PROVE StartedIsWatched'
  BY <1>3 DEF ReaperTimeout, Killed
<1>4. ASSUME NEW p \in Procs, ReaperReturns(p) PROVE StartedIsWatched'
  BY <1>4 DEF ReaperReturns
<1>5. ASSUME NEW c \in Callers, NEW p \in Procs, StartCall(c, p) PROVE StartedIsWatched'
  BY <1>5 DEF StartCall, Fork, StartAllowed
<1>6. ASSUME NEW c \in Callers, NEW g \in Pollers, StartLaunched(c, g) PROVE StartedIsWatched'
  BY <1>6 DEF StartLaunched
<1>7. ASSUME NEW c \in Callers, StartFails(c) PROVE StartedIsWatched'
  BY <1>7 DEF StartFails, Killed
<1>8. ASSUME NEW c \in Callers, StopCall(c) PROVE StartedIsWatched'
  BY <1>8 DEF StopCall, Detach, Terminated
<1>9. ASSUME NEW c \in Callers, StopNoProcess(c) PROVE StartedIsWatched'
  BY <1>9 DEF StopNoProcess, Detach
<1>10. ASSUME NEW c \in Callers, AsyncStop(c) PROVE StartedIsWatched'
  BY <1>10 DEF AsyncStop, Detach, Terminated, ReapersAfterAsync
<1>11. ASSUME NEW c \in Callers, StopTimeout(c) PROVE StartedIsWatched'
  BY <1>11 DEF StopTimeout, AfterTimeout, Killed
<1>12. ASSUME NEW c \in Callers, StopReturns(c) PROVE StartedIsWatched'
  BY <1>12 DEF StopReturns, PopenAfterStop
<1>13. ASSUME NEW g \in Pollers, PollDetached(g) PROVE StartedIsWatched'
  BY <1>13 DEF PollDetached
<1>14. ASSUME NEW g \in Pollers, NEW p \in Procs, PollRestart(g, p) PROVE StartedIsWatched'
  BY <1>14 DEF PollRestart, Fork
<1>15. ASSUME NEW g \in Pollers, PollLaunched(g) PROVE StartedIsWatched'
  BY <1>15 DEF PollLaunched
<1>16. ASSUME NEW g \in Pollers, PollLaunchFails(g) PROVE StartedIsWatched'
  BY <1>16 DEF PollLaunchFails
<1>17. ASSUME NEW g \in Pollers, PollExited(g) PROVE StartedIsWatched'
  BY <1>17 DEF PollExited, AfterExit
<1>18. ASSUME NEW g \in Pollers, PollAlive(g) PROVE StartedIsWatched'
  BY <1>18 DEF PollAlive, Terminated, Killed
<1>19. ASSUME NEW g \in Pollers, PollWakes(g) PROVE StartedIsWatched'
  BY <1>19 DEF PollWakes
<1>20. CASE UNCHANGED vars
  BY <1>20 DEF vars
<1>21. QED
  BY <1>1, <1>2, <1>3, <1>4, <1>5, <1>6, <1>7, <1>8, <1>9, <1>10, <1>11, <1>12, <1>13, <1>14, <1>15, <1>16, <1>17, <1>18, <1>19, <1>20 DEF Next, PollStep, StopStep

\* The invariant holds in every run of the watcher's greenlets.
THEOREM WatcherInvariant == Spec => []WatcherInv
<1>1. TypeOK /\ TypeOK' /\ WatcherInv /\ [Next]_vars => WatcherInv'
  <2> SUFFICES ASSUME TypeOK, TypeOK', WatcherInv, [Next]_vars PROVE WatcherInv'
    OBVIOUS
  <2>1. BlockedInv' /\ PopenInv' /\ AliveInv' /\ StoppingPasses' /\ StartedIsWatched'
    BY BlockedStep, PopenStep, AliveStep, StoppingStep, WatchedStep DEF WatcherInv
  <2>2. Owned'
    <3>1. Owned
      BY DEF WatcherInv, LeakOnlyInLaunch, Owned
    <3>2. QED
      BY <3>1, OwnedStep DEF WatcherInv
  <2>3. ~raced' => \A p, q \in Procs : proc'[p] = "alive" /\ proc'[q] = "alive" => p = q
    BY <2>1, WatcherAssumption DEF AliveInv, PopenInv, InPopen, Agents, TypeOK
  <2>4. LeakOnlyInLaunch'
    BY <2>2, <2>3 DEF LeakOnlyInLaunch, Owned
  <2>5. QED
    BY <2>1, <2>4 DEF WatcherInv
<1>2. QED
  BY WatcherInit, WatcherTypeCorrect, <1>1, PTL DEF Spec

\* Children are leaked only by a call that races with a launch.
THEOREM WatcherLeakOnlyInLaunch == Spec => []LeakOnlyInLaunch
  BY WatcherInvariant, PTL DEF WatcherInv

\* Without such a race a watcher that refuses to start is being stopped.
THEOREM WatcherStoppingPasses == Spec => []StoppingPasses
  BY WatcherInvariant, PTL DEF WatcherInv

\* A started watcher has a polling greenlet, even after races.
THEOREM WatcherStartedIsWatched == Spec => []StartedIsWatched
  BY WatcherInvariant, PTL DEF WatcherInv
=============================================================================
