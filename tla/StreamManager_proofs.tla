------------------------ MODULE StreamManager_proofs ------------------------
(***************************************************************************)
(* Proofs about StreamManager, for any number of web requests, stream      *)
(* objects, processes and crashes.                                         *)
(***************************************************************************)
EXTENDS StreamManager, TLAPS

-----------------------------------------------------------------------------
(* The operators the actions are made of *)

LEMMA NoneApart == None \notin Callers /\ None \notin Streams /\ None \notin Procs
  BY ManagerAssumption

LEMMA ForkEffect ==
    ASSUME NEW p, Fork(p)
    PROVE  /\ p \in Procs /\ proc[p] \notin {"alive", "dying"} /\ ~Referenced(p)
           /\ proc' = [proc EXCEPT ![p] = "alive"]
  BY DEF Fork, FreeProcs, Live

\* Who launches a process for s's watcher.
LEMMA LaunchingIs ==
    ASSUME TypeOK, NEW s \in Streams, NEW x
    PROVE  x \in Launching(s) <=> \E p \in Procs : x = <<s, p>> /\ (<<s, p>> \in stray \/ poll[s] = p)
<1>1. poll[s] \in Procs \cup {None} /\ stray \subseteq Streams \X Procs
  BY DEF TypeOK
<1>2. x \in {y \in stray : y[1] = s} <=> \E p \in Procs : x = <<s, p>> /\ <<s, p>> \in stray
  <2>1. ASSUME x \in stray, x[1] = s PROVE \E p \in Procs : x = <<s, p>> /\ <<s, p>> \in stray
    <3>1. PICK t \in Streams, p \in Procs : x = <<t, p>>
      BY <1>1, <2>1
    <3>2. t = s
      BY <2>1, <3>1
    <3>3. QED
      BY <2>1, <3>1, <3>2
  <2>2. ASSUME NEW p \in Procs, x = <<s, p>>, <<s, p>> \in stray PROVE x \in stray /\ x[1] = s
    BY <2>2
  <2>3. QED
    BY <2>1, <2>2
<1>3. CASE poll[s] = None
  BY <1>2, <1>3, NoneApart DEF Launching
<1>4. CASE poll[s] # None
  BY <1>1, <1>2, <1>4 DEF Launching
<1>5. QED
  BY <1>3, <1>4

LEMMA LaunchingType ==
    ASSUME TypeOK, NEW s \in Streams
    PROVE  Launching(s) \subseteq Streams \X Procs
<1>1. ASSUME NEW x \in Launching(s) PROVE x \in Streams \X Procs
  <2>1. PICK p \in Procs : x = <<s, p>>
    BY LaunchingIs
  <2>2. QED
    BY <2>1
<1>2. QED
  BY <1>1

LEMMA LaunchingNone ==
    ASSUME TypeOK, NEW s \in Streams
    PROVE  Launching(s) = {} <=> poll[s] = None /\ \A p \in Procs : <<s, p>> \notin stray
<1>1. poll[s] \in Procs \cup {None}
  BY DEF TypeOK
<1>2. QED
  BY <1>1, LaunchingIs, NoneApart

ProcState == {"alive", "dying", "dead"}
Where == {"idle", "create", "load", "del_row"} \cup InPopen \cup InWait

LEMMA EndedType ==
    ASSUME TypeOK, NEW p \in Procs \cup {None}
    PROVE  Ended(p) \in [Procs -> ProcState]
  BY NoneApart DEF TypeOK, Ended, ProcState

LEMMA CollectType ==
    ASSUME TypeOK, NEW s \in Streams, NEW p \in Procs \cup {None}, NEW last, Collect(s, p, last)
    PROVE  proc' \in [Procs -> ProcState] /\ popen' \in [Streams -> Procs \cup {None}]
  BY EndedType DEF TypeOK, Collect, ProcState

LEMMA DetachType ==
    ASSUME TypeOK, NEW s \in Streams, Detach(s)
    PROVE  /\ started' \subseteq Streams /\ stray' \subseteq Streams \X Procs
           /\ poll' \in [Streams -> Procs \cup {None}]
  BY LaunchingType DEF TypeOK, Detach

LEMMA ReturnType ==
    ASSUME TypeOK, NEW c \in Callers, Return(c)
    PROVE  /\ pc' \in [Callers -> Where]
           /\ obj' \in [Callers -> Streams \cup {None}] /\ on' \in [Callers -> Procs \cup {None}]
  BY DEF TypeOK, Return, Where

LEMMA BlocksType ==
    ASSUME TypeOK, NEW c \in Callers, NEW s \in Streams, NEW p \in Procs \cup {None},
           NEW where \in InPopen \cup InWait, Blocks(c, where, s, p)
    PROVE  /\ pc' \in [Callers -> Where]
           /\ obj' \in [Callers -> Streams \cup {None}] /\ on' \in [Callers -> Procs \cup {None}]
  BY DEF TypeOK, Blocks, Where
-----------------------------------------------------------------------------
(* Type correctness *)

\* TypeOK in two parts: what the calls and the database have, and the rest.
CallTypes ==
    /\ row \in BOOLEAN /\ txn \in Callers \cup {None}
    /\ pc \in [Callers -> Where]
    /\ obj \in [Callers -> Streams \cup {None}] /\ on \in [Callers -> Procs \cup {None}]
    /\ raced \in BOOLEAN
    /\ failed \in BOOLEAN /\ unsaved \in BOOLEAN /\ skipped \in BOOLEAN
WatcherTypes ==
    /\ mapped \in Streams \cup {None} /\ named \in Streams \cup {None}
    /\ ref \subseteq Streams /\ started \subseteq Streams
    /\ popen \in [Streams -> Procs \cup {None}] /\ poll \in [Streams -> Procs \cup {None}]
    /\ stray \subseteq Streams \X Procs
    /\ proc \in [Procs -> ProcState]
    /\ up \in {"down", "loading", "up"} /\ crashes \in 0..MaxCrashes

LEMMA TypeParts == TypeOK <=> CallTypes /\ WatcherTypes
  BY DEF TypeOK, CallTypes, WatcherTypes, Where, ProcState

LEMMA TypeParts2 == TypeOK' <=> CallTypes' /\ WatcherTypes'
  BY DEF TypeOK, CallTypes, WatcherTypes, Where, ProcState

\* A call that is inside a watcher works on a stream and a process.
LEMMA InsideType ==
    ASSUME TypeOK, CallInv, NEW c \in Callers, pc[c] \in InPopen \cup InWait
    PROVE  obj[c] \in Streams /\ on[c] \in Procs
  BY DEF TypeOK, CallInv

LEMMA InitType == Init => TypeOK
<1> SUFFICES ASSUME Init PROVE CallTypes /\ WatcherTypes
  BY TypeParts
<1>1. /\ row \in BOOLEAN /\ raced \in BOOLEAN
      /\ failed \in BOOLEAN /\ unsaved \in BOOLEAN /\ skipped \in BOOLEAN
  BY Zenon DEF Init
<1>2. QED
  BY <1>1, ManagerAssumption DEF Init, CallTypes, WatcherTypes, Where, ProcState

LEMMA CallStepType == ASSUME TypeOK, CallInv, NEW c \in Callers, CallStep(c) PROVE TypeOK'
<1> USE NoneApart
<1>0. CallTypes /\ WatcherTypes
  BY TypeParts
<1> SUFFICES CallTypes' /\ WatcherTypes'
  BY TypeParts2
<1> USE DEF dbVars, mapVars, watcherVars, callVars, lifeVars, faults
<1>1. CASE NewRejected(c) \/ DelRow(c) \/ DelRowFails(c)
  <2>1. row' \in BOOLEAN /\ failed' \in BOOLEAN /\ raced' \in BOOLEAN
    BY <1>0, <1>1 DEF NewRejected, DelRow, DelRowFails, CallTypes
  <2>2. QED
    BY <1>0, <1>1, <2>1 DEF NewRejected, DelRow, DelRowFails, CallTypes, WatcherTypes, Where
<1>2. CASE NewLaunched(c) \/ NewCommitFails(c) \/ LoadLaunched(c)
  <2>1. obj[c] \in Streams /\ on[c] \in Procs
    BY <1>2, InsideType DEF NewLaunched, NewCommitFails, LoadLaunched, InPopen
  <2>2. Return(c)
    BY <1>2 DEF NewLaunched, NewCommitFails, LoadLaunched, Created
  <2>3. /\ row' \in BOOLEAN /\ txn' \in Callers \cup {None} /\ raced' \in BOOLEAN
        /\ failed' \in BOOLEAN /\ unsaved' \in BOOLEAN /\ skipped' \in BOOLEAN
    BY <1>0, <1>2 DEF NewLaunched, NewCommitFails, LoadLaunched, CallTypes
  <2>4. CallTypes'
    BY <2>2, <2>3, ReturnType DEF CallTypes
  <2>5. WatcherTypes'
    BY <1>0, <1>2, <2>1 DEF NewLaunched, NewCommitFails, LoadLaunched, Created, WatcherTypes
  <2>6. QED
    BY <2>4, <2>5
<1>3. CASE NewLaunchFails(c)
  <2>1. Return(c) /\ on[c] \in Procs
    BY <1>3, InsideType DEF NewLaunchFails, InPopen
  <2>2. CallTypes'
    BY <1>0, <1>3, <2>1, ReturnType DEF NewLaunchFails, CallTypes
  <2>3. WatcherTypes'
    BY <1>0, <1>3, <2>1 DEF NewLaunchFails, WatcherTypes, ProcState
  <2>4. QED
    BY <2>2, <2>3
<1>4. CASE DelStopped(c)
  <2> DEFINE s == obj[c]
             left == IF popen[s] = on[c] THEN None ELSE popen[s]
  <2>1. s \in Streams /\ on[c] \in Procs
    BY <1>4, InsideType DEF DelStopped, InWait
  <2>2. left \in Procs \cup {None}
    BY <1>0, <2>1 DEF WatcherTypes
  <2>3. Collect(s, left, s \in started \/ Alone(s, c)) /\ Destroyed(c, s)
    BY <1>4 DEF DelStopped
  <2>4. proc' \in [Procs -> ProcState] /\ popen' \in [Streams -> Procs \cup {None}]
    <3> HIDE DEF left
    <3>1. QED
      BY <2>1, <2>2, <2>3, CollectType
  <2>5. /\ started' \subseteq Streams /\ stray' \subseteq Streams \X Procs
        /\ poll' \in [Streams -> Procs \cup {None}]
    BY <2>1, <2>3, DetachType DEF Destroyed
  <2>6. CallTypes'
    BY <1>0, <1>4, <2>1 DEF DelStopped, Destroyed, CallTypes, Where
  <2>7. WatcherTypes'
    BY <1>0, <1>4, <2>1, <2>4, <2>5 DEF DelStopped, Destroyed, WatcherTypes
  <2>8. QED
    BY <2>6, <2>7
<1>5. CASE RestartDropped(c)
  <2> DEFINE s == obj[c]
             left == IF popen[s] = on[c] THEN None ELSE popen[s]
  <2>1. s \in Streams /\ on[c] \in Procs
    BY <1>5, InsideType DEF RestartDropped, InWait
  <2>2. left \in Procs \cup {None}
    BY <1>0, <2>1 DEF WatcherTypes
  <2>3. Collect(s, left, Last(s, c)) /\ Return(c)
    BY <1>5 DEF RestartDropped
  <2>4. proc' \in [Procs -> ProcState] /\ popen' \in [Streams -> Procs \cup {None}]
    <3> HIDE DEF left
    <3>1. QED
      BY <2>1, <2>2, <2>3, CollectType
  <2>5. CallTypes'
    BY <1>0, <1>5, <2>3, ReturnType DEF RestartDropped, CallTypes
  <2>6. WatcherTypes'
    BY <1>0, <1>5, <2>4 DEF RestartDropped, WatcherTypes
  <2>7. QED
    BY <2>5, <2>6
<1>6. CASE RestartLaunched(c)
  <2> DEFINE s == obj[c]
  <2>1. s \in Streams /\ on[c] \in Procs
    BY <1>6, InsideType DEF RestartLaunched, InPopen
  <2>2. Collect(s, on[c], Last(s, c)) /\ Return(c)
    BY <1>6 DEF RestartLaunched
  <2>3. proc' \in [Procs -> ProcState] /\ popen' \in [Streams -> Procs \cup {None}]
    BY <2>1, <2>2, CollectType
  <2>4. CallTypes'
    BY <1>0, <1>6, <2>2, ReturnType DEF RestartLaunched, CallTypes
  <2>5. WatcherTypes'
    BY <1>0, <1>6, <2>1, <2>3, LaunchingType DEF RestartLaunched, WatcherTypes
  <2>6. QED
    BY <2>4, <2>5
<1>7. CASE RestartLaunchFails(c)
  <2> DEFINE s == obj[c]
  <2>1. s \in Streams /\ on[c] \in Procs /\ popen[s] \in Procs \cup {None}
    BY <1>0, <1>7, InsideType DEF RestartLaunchFails, InPopen, WatcherTypes
  <2>2. Detach(s) /\ Return(c)
    BY <1>7 DEF RestartLaunchFails
  <2>3. proc' \in [Procs -> ProcState]
    BY <1>7, <2>1, EndedType DEF RestartLaunchFails, ProcState
  <2>4. CallTypes'
    BY <1>0, <1>7, <2>2, ReturnType DEF RestartLaunchFails, CallTypes
  <2>5. WatcherTypes'
    BY <1>0, <1>7, <2>1, <2>2, <2>3, DetachType DEF RestartLaunchFails, WatcherTypes
  <2>6. QED
    BY <2>4, <2>5
<1>8. CASE LoadFails(c)
  <2>1. CallTypes'
    BY <1>0, <1>8 DEF LoadFails, Forget, CallTypes, Where
  <2>2. WatcherTypes'
    BY <1>0, <1>8 DEF LoadFails, Forget, WatcherTypes, ProcState
  <2>3. QED
    BY <2>1, <2>2
<1>9. ASSUME NEW p \in Procs, RestartStopped(c, p) PROVE CallTypes' /\ WatcherTypes'
  <2>1. obj[c] \in Streams
    BY <1>9, InsideType DEF RestartStopped, InWait
  <2>2. raced' \in BOOLEAN
    BY <1>0, <1>9 DEF RestartStopped, CallTypes
  <2>3. Blocks(c, "re_launch", obj[c], p) /\ Fork(p)
    BY <1>9 DEF RestartStopped
  <2>4. CallTypes'
    BY <1>0, <1>9, <2>1, <2>2, <2>3, BlocksType DEF RestartStopped, CallTypes, InPopen
  <2>5. WatcherTypes'
    BY <1>0, <1>9, <2>3, ForkEffect DEF RestartStopped, WatcherTypes, ProcState
  <2>6. QED
    BY <2>4, <2>5
<1>10. ASSUME NEW p \in Procs, NEW s \in Streams, NEW where \in InPopen, Create(c, s, p, where)
       PROVE  CallTypes' /\ WatcherTypes'
  <2>1. Blocks(c, where, s, p) /\ Fork(p)
    BY <1>10 DEF Create
  <2>2. CallTypes'
    BY <1>0, <1>10, <2>1, BlocksType DEF Create, CallTypes
  <2>3. WatcherTypes'
    BY <1>0, <1>10, <2>1, ForkEffect DEF Create, WatcherTypes, ProcState
  <2>4. QED
    BY <2>2, <2>3
<1>11. QED
  BY <1>1, <1>2, <1>3, <1>4, <1>5, <1>6, <1>7, <1>8, <1>9, <1>10
     DEF CallStep, NewCreate, LoadCreate, InPopen
LEMMA RequestType == ASSUME TypeOK, NEW c \in Callers, Request(c) PROVE TypeOK'
<1> USE NoneApart
<1>0. CallTypes /\ WatcherTypes
  BY TypeParts
<1> SUFFICES CallTypes' /\ WatcherTypes'
  BY TypeParts2
<1> USE DEF dbVars, mapVars, watcherVars, callVars, lifeVars, faults
<1>1. CASE NewInsert(c)
  BY <1>0, <1>1 DEF NewInsert, CallTypes, WatcherTypes, Where
<1>2. ASSUME NEW s \in Streams, NEW where \in InWait, popen[s] \in Procs \cup {None},
             Detach(s), Blocks(c, where, s, popen[s]), proc' = Ended(popen[s]),
             mapped' \in {mapped, None}, UNCHANGED <<dbVars, named, ref, popen, lifeVars, raced, faults>>
      PROVE  CallTypes' /\ WatcherTypes'
  <2>1. CallTypes'
    BY <1>0, <1>2, BlocksType DEF CallTypes
  <2>2. WatcherTypes'
    BY <1>0, <1>2, DetachType, EndedType DEF WatcherTypes
  <2>3. QED
    BY <2>1, <2>2
<1>3. ASSUME NEW s \in Streams, DelCall(c, s) \/ RestartCall(c, s) PROVE CallTypes' /\ WatcherTypes'
  <2>1. popen[s] \in Procs \cup {None}
    BY <1>0 DEF WatcherTypes
  <2>2. CASE DelCall(c, s)
    BY <1>2, <2>1, <2>2 DEF DelCall, InWait
  <2>3. CASE RestartCall(c, s)
    BY <1>2, <2>1, <2>3 DEF RestartCall, InWait
  <2>4. QED
    BY <1>3, <2>2, <2>3
<1>4. ASSUME NEW s \in Streams, DelCallNoWait(c, s) PROVE CallTypes' /\ WatcherTypes'
  <2>1. popen[s] \in Procs \cup {None}
    BY <1>0 DEF WatcherTypes
  <2>2. Collect(s, popen[s], Alone(s, c)) /\ Detach(s)
    BY <1>4 DEF DelCallNoWait, Destroyed
  <2>3. CallTypes'
    BY <1>0, <1>4 DEF DelCallNoWait, Destroyed, CallTypes, Where
  <2>4. WatcherTypes'
    BY <1>0, <1>4, <2>1, <2>2, CollectType, DetachType DEF DelCallNoWait, Destroyed, WatcherTypes
  <2>5. QED
    BY <2>3, <2>4
<1>5. ASSUME NEW s \in Streams, NEW p \in Procs, RestartNoWait(c, s, p) PROVE CallTypes' /\ WatcherTypes'
  <2>1. Fork(p) /\ Detach(s) /\ Blocks(c, "re_launch", s, p)
    BY <1>5 DEF RestartNoWait
  <2>2. raced' \in BOOLEAN
    BY <1>0, <1>5 DEF RestartNoWait, CallTypes
  <2>3. CallTypes'
    BY <1>0, <1>5, <2>1, <2>2, BlocksType DEF RestartNoWait, CallTypes, InPopen
  <2>4. WatcherTypes'
    BY <1>0, <1>5, <2>1, DetachType, ForkEffect DEF RestartNoWait, WatcherTypes, ProcState
  <2>5. QED
    BY <2>3, <2>4
<1>6. QED
  BY <1>1, <1>3, <1>4, <1>5 DEF Request

LEMMA PollStepType == ASSUME TypeOK, NEW s \in Streams, PollStep(s) PROVE TypeOK'
<1> USE NoneApart
<1>0. CallTypes /\ WatcherTypes
  BY TypeParts
<1> SUFFICES CallTypes' /\ WatcherTypes'
  BY TypeParts2
<1> USE DEF dbVars, mapVars, watcherVars, callVars, lifeVars, faults
<1>1. CASE PollExited(s) \/ PollLaunched(s) \/ PollLaunchFails(s)
  BY <1>0, <1>1 DEF PollExited, PollLaunched, PollLaunchFails, CallTypes, WatcherTypes
<1>2. ASSUME NEW p \in Procs, PollRestart(s, p) PROVE CallTypes' /\ WatcherTypes'
  <2>1. raced' \in BOOLEAN /\ Fork(p)
    BY <1>0, <1>2 DEF PollRestart, CallTypes
  <2>2. CallTypes'
    BY <1>0, <1>2, <2>1 DEF PollRestart, CallTypes
  <2>3. WatcherTypes'
    BY <1>0, <1>2, <2>1, ForkEffect DEF PollRestart, WatcherTypes, ProcState
  <2>4. QED
    BY <2>2, <2>3
<1>3. ASSUME NEW p \in Procs, NEW launched \in BOOLEAN, StrayEnds(s, p, launched)
      PROVE  CallTypes' /\ WatcherTypes'
  <2> DEFINE last == s \notin ref /\ Inside(s) = {} /\ Launching(s) = {<<s, p>>}
             left == IF launched THEN p ELSE popen[s]
  <2>1. left \in Procs \cup {None}
    BY <1>0 DEF WatcherTypes
  <2>2. Collect(s, left, last)
    BY <1>3 DEF StrayEnds
  <2>3. proc' \in [Procs -> ProcState] /\ popen' \in [Streams -> Procs \cup {None}]
    <3> HIDE DEF left, last
    <3>1. QED
      BY <2>1, <2>2, CollectType
  <2>4. CallTypes'
    BY <1>0, <1>3 DEF StrayEnds, CallTypes
  <2>5. WatcherTypes'
    BY <1>0, <1>3, <2>3 DEF StrayEnds, WatcherTypes
  <2>6. QED
    BY <2>4, <2>5
<1>4. QED
  BY <1>1, <1>2, <1>3 DEF PollStep

LEMMA OtherStepType ==
    ASSUME TypeOK, (\E c \in Callers, b \in BOOLEAN : Boot(c, b)) \/ (\E p \in Procs : Exit(p)) \/ Crash
    PROVE  TypeOK'
<1>0. CallTypes /\ WatcherTypes
  BY TypeParts
<1> SUFFICES CallTypes' /\ WatcherTypes'
  BY TypeParts2
<1> USE DEF dbVars, mapVars, watcherVars, callVars, lifeVars, faults
<1>1. ASSUME NEW c \in Callers, NEW b \in BOOLEAN, Boot(c, b) PROVE CallTypes' /\ WatcherTypes'
  <2>1. /\ raced' \in BOOLEAN
        /\ failed' \in BOOLEAN /\ unsaved' \in BOOLEAN /\ skipped' \in BOOLEAN
    BY <1>0, <1>1 DEF Boot, CallTypes
  <2>2. CallTypes'
    BY <1>0, <1>1, <2>1 DEF Boot, CallTypes, Where
  <2>3. WatcherTypes'
    BY <1>0, <1>1 DEF Boot, KillAll, WatcherTypes, ProcState
  <2>4. QED
    BY <2>2, <2>3
<1>2. ASSUME NEW p \in Procs, Exit(p) PROVE CallTypes' /\ WatcherTypes'
  BY <1>0, <1>2 DEF Exit, CallTypes, WatcherTypes, ProcState
<1>3. CASE Crash
  <2>1. CallTypes'
    BY <1>0, <1>3 DEF Crash, Forget, CallTypes, Where
  <2>2. WatcherTypes'
    BY <1>0, <1>3, ManagerAssumption DEF Crash, Forget, WatcherTypes
  <2>3. QED
    BY <2>1, <2>2
<1>4. QED
  BY <1>1, <1>2, <1>3
-----------------------------------------------------------------------------
(* The calls, the database and the name *)

ControlInv == CallInv /\ DbInv /\ LifeInv /\ NameInv /\ ConfAgrees

\* What is told to terminate does not come to life.
LEMMA EndedAlive ==
    ASSUME TypeOK, NEW p \in Procs \cup {None}, NEW q \in Procs
    PROVE  /\ Ended(p)[q] = "alive" => proc[q] = "alive" /\ q # p
           /\ q # p => Ended(p)[q] = proc[q]
  BY NoneApart DEF TypeOK, Ended

LEMMA DatabaseControl ==
    ASSUME TypeOK, ControlInv, NEW c \in Callers,
           NewInsert(c) \/ NewRejected(c) \/ DelRow(c) \/ DelRowFails(c)
    PROVE  ControlInv'
<1> USE NoneApart
<1> USE DEF ControlInv, Where, InPopen, InWait, Deleting, Loading, Naming,
        dbVars, mapVars, watcherVars, callVars, lifeVars, faults
<1>1. CASE NewInsert(c)
  BY <1>1 DEF NewInsert, CanInsert, TypeOK, CallInv, DbInv, LifeInv, NameInv, ConfAgrees, Forgotten
<1>2. CASE NewRejected(c)
  BY <1>2 DEF NewRejected, TypeOK, CallInv, DbInv, LifeInv, NameInv, ConfAgrees, Forgotten
<1>3. CASE DelRow(c)
  BY <1>3 DEF DelRow, TypeOK, CallInv, DbInv, LifeInv, NameInv, ConfAgrees, Forgotten
<1>4. CASE DelRowFails(c)
  BY <1>4 DEF DelRowFails, TypeOK, CallInv, DbInv, LifeInv, NameInv, ConfAgrees, Forgotten
<1>5. QED
  BY <1>1, <1>2, <1>3, <1>4
\* A process slot that is used again is nobody's.
LEMMA ForkAlive ==
    ASSUME TypeOK, NEW p \in Procs, Fork(p)
    PROVE  /\ \A q \in Procs : proc'[q] = IF q = p THEN "alive" ELSE proc[q]
           /\ \A c \in Callers : on[c] # p
           /\ \A s \in Streams : popen[s] # p /\ poll[s] # p /\ <<s, p>> \notin stray
<1>1. ~Referenced(p) /\ proc' = [proc EXCEPT ![p] = "alive"]
  BY ForkEffect
<1>2. \A q \in Procs : proc'[q] = IF q = p THEN "alive" ELSE proc[q]
  BY <1>1 DEF TypeOK
<1>3. QED
  BY <1>1, <1>2 DEF Referenced

LEMMA CreateControl ==
    ASSUME TypeOK, ControlInv, NEW c \in Callers, NEW s \in Streams, NEW p \in Procs,
           NewCreate(c, s, p) \/ LoadCreate(c, s, p)
    PROVE  ControlInv'
<1> USE NoneApart
<1> USE DEF ControlInv, Where, InPopen, InWait, Deleting, Loading, Naming,
        dbVars, mapVars, watcherVars, callVars, lifeVars, faults
<1>1. Fork(p) /\ s \notin ref
  BY DEF NewCreate, LoadCreate, Create, FreeStreams
<1>2. /\ \A q \in Procs : proc'[q] = IF q = p THEN "alive" ELSE proc[q]
      /\ \A d \in Callers : on[d] # p
  BY <1>1, ForkAlive
<1>3. CASE NewCreate(c, s, p)
  <2>1. /\ Blocks(c, "new_launch", s, p) /\ named = None /\ named' = s
        /\ UNCHANGED <<row, txn, mapped, ref, up, faults>> /\ pc[c] = "create"
    BY <1>3 DEF NewCreate, Create
  <2>2. CallInv'
    BY <1>2, <2>1 DEF Blocks, TypeOK, CallInv
  <2>3. DbInv'
    BY <2>1 DEF Blocks, TypeOK, DbInv
  <2>4. LifeInv'
    BY <2>1 DEF Blocks, TypeOK, LifeInv, Forgotten
  <2>5. NameInv'
    BY <1>1, <2>1 DEF Blocks, TypeOK, CallInv, NameInv
  <2>6. ConfAgrees'
    BY <2>1 DEF Blocks, TypeOK, ConfAgrees
  <2>7. QED
    BY <2>2, <2>3, <2>4, <2>5, <2>6
<1>4. CASE LoadCreate(c, s, p)
  <2>1. /\ Blocks(c, "load_launch", s, p) /\ named = None /\ named' = s
        /\ UNCHANGED <<row, txn, mapped, ref, up, faults>> /\ pc[c] = "load"
    BY <1>4 DEF LoadCreate, Create
  <2>2. CallInv'
    BY <1>2, <2>1 DEF Blocks, TypeOK, CallInv
  <2>3. DbInv'
    BY <2>1 DEF Blocks, TypeOK, DbInv
  <2>4. LifeInv'
    BY <2>1 DEF Blocks, TypeOK, LifeInv, Forgotten
  <2>5. NameInv'
    BY <1>1, <2>1 DEF Blocks, TypeOK, CallInv, NameInv
  <2>6. ConfAgrees'
    BY <2>1 DEF Blocks, TypeOK, ConfAgrees
  <2>7. QED
    BY <2>2, <2>3, <2>4, <2>5, <2>6
<1>5. QED
  BY <1>3, <1>4

LEMMA LaunchedControl ==
    ASSUME TypeOK, ControlInv, NEW c \in Callers,
           \/ NewLaunched(c) \/ NewCommitFails(c) \/ NewLaunchFails(c)
           \/ LoadLaunched(c) \/ LoadFails(c)
    PROVE  ControlInv'
<1> USE NoneApart
<1> USE DEF ControlInv, Where, InPopen, InWait, Deleting, Loading, Naming,
        dbVars, mapVars, watcherVars, callVars, lifeVars, faults
<1>1. CASE NewLaunched(c)
  BY <1>1 DEF NewLaunched, Created, Return, TypeOK, CallInv, DbInv, LifeInv, NameInv, ConfAgrees, Forgotten
<1>2. CASE NewLaunchFails(c)
  BY <1>2 DEF NewLaunchFails, Return, TypeOK, CallInv, DbInv, LifeInv, NameInv, ConfAgrees, Forgotten
<1>3. CASE LoadLaunched(c)
  BY <1>3 DEF LoadLaunched, Created, Return, TypeOK, CallInv, DbInv, LifeInv, NameInv, ConfAgrees, Forgotten
<1>4. CASE LoadFails(c)
  BY <1>4 DEF LoadFails, Forget, TypeOK, CallInv, DbInv, LifeInv, NameInv, ConfAgrees, Forgotten
<1>5. CASE NewCommitFails(c)
  BY <1>5 DEF NewCommitFails, Created, Return, TypeOK, CallInv, DbInv, LifeInv, NameInv, ConfAgrees, Forgotten
<1>6. QED
  BY <1>1, <1>2, <1>3, <1>4, <1>5

LEMMA DeleteControl ==
    ASSUME TypeOK, ControlInv, NEW c \in Callers,
           DelStopped(c) \/ \E s \in Streams : DelCall(c, s) \/ DelCallNoWait(c, s)
    PROVE  ControlInv'
<1> USE NoneApart
<1> USE DEF ControlInv, Where, InPopen, InWait, Deleting, Loading, Naming,
        dbVars, mapVars, watcherVars, callVars, lifeVars, faults
<1>1. ASSUME NEW s \in Streams, DelCall(c, s) PROVE ControlInv'
  <2>1. popen[s] \in Procs
    BY <1>1 DEF DelCall, Waits, TypeOK
  <2>2. \A q \in Procs : proc'[q] = "alive" => proc[q] = "alive" /\ q # popen[s]
    BY <1>1, <2>1, EndedAlive DEF DelCall
  <2>3. QED
    BY <1>1, <2>1, <2>2 DEF DelCall, Blocks, TypeOK, CallInv, DbInv, LifeInv, NameInv, ConfAgrees, Forgotten
<1>2. ASSUME NEW s \in Streams, NEW q \in Procs \cup {None}, NEW last, Collect(s, q, last)
      PROVE  \A r \in Procs : proc'[r] = "alive" => proc[r] = "alive"
  BY <1>2, EndedAlive DEF Collect
<1>3. ASSUME NEW s \in Streams, DelCallNoWait(c, s) PROVE ControlInv'
  <2>1. \A r \in Procs : proc'[r] = "alive" => proc[r] = "alive"
    BY <1>2, <1>3 DEF DelCallNoWait, TypeOK
  <2>2. QED
    BY <1>3, <2>1 DEF DelCallNoWait, Destroyed, TypeOK, CallInv, DbInv, LifeInv, NameInv, ConfAgrees, Forgotten
<1>4. CASE DelStopped(c)
  <2>0. obj[c] \in Streams
    BY <1>4, InsideType DEF DelStopped
  <2>1. \A r \in Procs : proc'[r] = "alive" => proc[r] = "alive"
    <3> DEFINE left == IF popen[obj[c]] = on[c] THEN None ELSE popen[obj[c]]
    <3>1. left \in Procs \cup {None}
      BY <2>0 DEF TypeOK
    <3>2. Collect(obj[c], left, obj[c] \in started \/ Alone(obj[c], c))
      BY <1>4 DEF DelStopped
    <3> HIDE DEF left
    <3>3. QED
      BY <1>2, <2>0, <3>1, <3>2
  <2>2. QED
    BY <1>4, <2>0, <2>1 DEF DelStopped, Destroyed, TypeOK, CallInv, DbInv, LifeInv, NameInv, ConfAgrees, Forgotten
<1>5. QED
  BY <1>1, <1>3, <1>4
\* A restart changes neither the database nor who has the name.
LEMMA RestartKeeps ==
    ASSUME TypeOK, ControlInv, NEW c \in Callers, NEW w \in {"idle", "re_wait", "re_launch"},
           NEW s \in Streams \cup {None}, NEW p \in Procs \cup {None},
           up = "up" \/ pc[c] \in {"re_wait", "re_launch"},
           pc[c] \in {"idle", "re_wait", "re_launch"},
           Blocks(c, w, s, p), s # None <=> w # "idle", p # None <=> w # "idle",
           \A q \in Procs : proc'[q] = "alive" =>
               \/ proc[q] = "alive" /\ ~(w = "re_wait" /\ q = p)
               \/ w # "re_wait" /\ \A d \in Callers : on[d] # q,
           UNCHANGED <<row, txn, mapped, named, ref, up, faults>>
    PROVE  ControlInv'
<1> USE NoneApart
<1> USE DEF ControlInv, Where, InPopen, InWait, Deleting, Loading, Naming,
        dbVars, mapVars, watcherVars, callVars, lifeVars, faults
<1>1. up = "up"
  BY DEF TypeOK, LifeInv, Forgotten
<1>2. CallInv'
  BY DEF Blocks, TypeOK, CallInv
<1>3. DbInv'
  BY DEF Blocks, TypeOK, DbInv
<1>4. LifeInv'
  BY <1>1 DEF Blocks, TypeOK, LifeInv
<1>5. NameInv'
  BY DEF Blocks, TypeOK, NameInv
<1>6. ConfAgrees'
  BY DEF Blocks, TypeOK, ConfAgrees
<1>7. QED
  BY <1>2, <1>3, <1>4, <1>5, <1>6

LEMMA CollectAlive ==
    ASSUME TypeOK, NEW s \in Streams, NEW p \in Procs \cup {None}, NEW last, Collect(s, p, last)
    PROVE  \A q \in Procs : proc'[q] = "alive" => proc[q] = "alive" /\ ~(last /\ q = p)
  BY EndedAlive DEF Collect

LEMMA RestartControl ==
    ASSUME TypeOK, ControlInv, NEW c \in Callers,
           \/ RestartDropped(c) \/ RestartLaunched(c) \/ RestartLaunchFails(c)
           \/ \E p \in Procs : RestartStopped(c, p)
           \/ \E s \in Streams : \/ RestartCall(c, s)
                                \/ \E p \in Procs : RestartNoWait(c, s, p)
    PROVE  ControlInv'
<1> USE NoneApart
<1> USE DEF dbVars, mapVars, lifeVars
<1>1. ASSUME NEW s \in Streams, RestartCall(c, s) PROVE ControlInv'
  <2>1. popen[s] \in Procs /\ Blocks(c, "re_wait", s, popen[s])
    BY <1>1 DEF RestartCall, Waits, TypeOK
  <2>2. \A q \in Procs : proc'[q] = "alive" => proc[q] = "alive" /\ q # popen[s]
    BY <1>1, <2>1, EndedAlive DEF RestartCall
  <2>3. /\ up = "up" /\ pc[c] = "idle"
        /\ UNCHANGED <<row, txn, mapped, named, ref, up, faults>>
    BY <1>1 DEF RestartCall
  <2>4. QED
    BY <2>1, <2>2, <2>3, RestartKeeps
<1>2. ASSUME NEW s \in Streams, NEW p \in Procs, Fork(p), Blocks(c, "re_launch", s, p),
             (up = "up" /\ pc[c] = "idle") \/ pc[c] = "re_wait",
             UNCHANGED <<row, txn, mapped, named, ref, up, faults>>
      PROVE  ControlInv'
  <2>1. /\ \A q \in Procs : proc'[q] = IF q = p THEN "alive" ELSE proc[q]
        /\ \A d \in Callers : on[d] # p
    BY <1>2, ForkAlive
  <2>2. QED
    BY <1>2, <2>1, RestartKeeps
<1>3. ASSUME NEW s \in Streams, NEW p \in Procs, RestartNoWait(c, s, p) PROVE ControlInv'
  BY <1>2, <1>3 DEF RestartNoWait
<1>4. ASSUME NEW p \in Procs, RestartStopped(c, p) PROVE ControlInv'
  <2>1. obj[c] \in Streams
    BY <1>4, InsideType DEF RestartStopped, InWait, ControlInv
  <2>2. QED
    BY <1>2, <1>4, <2>1 DEF RestartStopped
<1>5. ASSUME Return(c), pc[c] \in {"re_wait", "re_launch"},
             \A q \in Procs : proc'[q] = "alive" => proc[q] = "alive",
             UNCHANGED <<row, txn, mapped, named, ref, up, faults>>
      PROVE  ControlInv'
  <2>1. Blocks(c, "idle", None, None)
    BY <1>5 DEF Return, Blocks
  <2>2. QED
    BY <1>5, <2>1, RestartKeeps
<1>6. CASE RestartDropped(c)
  <2> DEFINE left == IF popen[obj[c]] = on[c] THEN None ELSE popen[obj[c]]
  <2>1. obj[c] \in Streams /\ left \in Procs \cup {None}
    BY <1>6, InsideType DEF RestartDropped, InWait, TypeOK, ControlInv
  <2>2. Collect(obj[c], left, Last(obj[c], c))
    BY <1>6 DEF RestartDropped
  <2>3. \A q \in Procs : proc'[q] = "alive" => proc[q] = "alive"
    <3> HIDE DEF left
    <3>1. QED
      BY <2>1, <2>2, CollectAlive
  <2>4. QED
    BY <1>5, <1>6, <2>3 DEF RestartDropped
<1>7. CASE RestartLaunched(c)
  <2>1. obj[c] \in Streams /\ on[c] \in Procs
    BY <1>7, InsideType DEF RestartLaunched, InPopen, ControlInv
  <2>2. \A q \in Procs : proc'[q] = "alive" => proc[q] = "alive"
    BY <1>7, <2>1, CollectAlive DEF RestartLaunched
  <2>3. QED
    BY <1>5, <1>7, <2>2 DEF RestartLaunched
<1>8. CASE RestartLaunchFails(c)
  <2>1. obj[c] \in Streams /\ on[c] \in Procs /\ popen[obj[c]] \in Procs \cup {None}
    BY <1>8, InsideType DEF RestartLaunchFails, InPopen, TypeOK, ControlInv
  <2>2. \A q \in Procs : proc'[q] = "alive" => proc[q] = "alive"
    BY <1>8, <2>1, EndedAlive, EndedType DEF RestartLaunchFails
  <2>3. QED
    BY <1>5, <1>8, <2>2 DEF RestartLaunchFails
<1>9. QED
  BY <1>1, <1>3, <1>4, <1>6, <1>7, <1>8

LEMMA PollControl ==
    ASSUME TypeOK, ControlInv, \/ \E s \in Streams : PollStep(s)
                               \/ \E p \in Procs : Exit(p)
                               \/ UNCHANGED vars
    PROVE  ControlInv'
<1> USE NoneApart
<1> USE DEF dbVars, mapVars, lifeVars, callVars, faults
<1>1. ASSUME UNCHANGED <<row, txn, mapped, named, ref, pc, obj, on, up, faults>>,
             up # "down" \/ UNCHANGED <<started, popen, poll, stray>>,
             \A q \in Procs : proc'[q] = "alive" =>
                 proc[q] = "alive" \/ \A d \in Callers : on[d] # q
      PROVE  ControlInv'
  <2>1. CallInv'
    BY <1>1 DEF TypeOK, CallInv, ControlInv
  <2>2. DbInv' /\ NameInv' /\ ConfAgrees'
    BY <1>1 DEF ControlInv, DbInv, NameInv, ConfAgrees
  <2>3. LifeInv'
    BY <1>1 DEF ControlInv, LifeInv, Forgotten
  <2>4. QED
    BY <2>1, <2>2, <2>3 DEF ControlInv
<1>2. ASSUME NEW s \in Streams, PollStep(s) PROVE ControlInv'
  <2>1. UNCHANGED <<row, txn, mapped, named, ref, pc, obj, on, up, faults>>
    BY <1>2 DEF PollStep, PollExited, PollLaunched, PollLaunchFails, PollRestart, StrayEnds
  <2>2. up # "down"
    BY <1>2 DEF PollStep, PollExited, PollLaunched, PollLaunchFails, PollRestart, StrayEnds,
                ControlInv, LifeInv, Forgotten
  <2>3. \A q \in Procs : proc'[q] = "alive" => proc[q] = "alive" \/ \A d \in Callers : on[d] # q
    <3>1. CASE PollExited(s) \/ PollLaunched(s) \/ PollLaunchFails(s)
      BY <3>1 DEF PollExited, PollLaunched, PollLaunchFails
    <3>2. ASSUME NEW p \in Procs, PollRestart(s, p)
          PROVE  \A q \in Procs : proc'[q] = "alive" => proc[q] = "alive" \/ \A d \in Callers : on[d] # q
      BY <3>2, ForkAlive DEF PollRestart
    <3>3. ASSUME NEW p \in Procs, NEW launched \in BOOLEAN, StrayEnds(s, p, launched)
          PROVE  \A q \in Procs : proc'[q] = "alive" => proc[q] = "alive"
      <4> DEFINE left == IF launched THEN p ELSE popen[s]
                 last == s \notin ref /\ Inside(s) = {} /\ Launching(s) = {<<s, p>>}
      <4>1. left \in Procs \cup {None} /\ Collect(s, left, last)
        BY <3>3 DEF StrayEnds, TypeOK
      <4> HIDE DEF left, last
      <4>2. QED
        BY <4>1, CollectAlive
    <3>4. QED
      BY <1>2, <3>1, <3>2, <3>3 DEF PollStep
  <2>4. QED
    BY <1>1, <2>1, <2>2, <2>3
<1>3. ASSUME NEW p \in Procs, Exit(p) PROVE ControlInv'
  BY <1>1, <1>3 DEF Exit, watcherVars, TypeOK
<1>4. CASE UNCHANGED vars
  BY <1>1, <1>4 DEF vars, watcherVars
<1>5. QED
  BY <1>2, <1>3, <1>4

LEMMA LifeControl ==
    ASSUME TypeOK, ControlInv, Crash \/ \E c \in Callers, b \in BOOLEAN : Boot(c, b)
    PROVE  ControlInv'
<1> USE NoneApart
<1> USE DEF ControlInv, Where, InPopen, InWait, Deleting, Loading, Naming,
        dbVars, mapVars, watcherVars, callVars, lifeVars, faults
<1>1. CASE Crash
  BY <1>1 DEF Crash, Forget, TypeOK, CallInv, DbInv, LifeInv, NameInv, ConfAgrees, Forgotten
<1>2. ASSUME NEW c \in Callers, NEW b \in BOOLEAN, Boot(c, b) PROVE ControlInv'
  BY <1>2 DEF Boot, TypeOK, CallInv, DbInv, LifeInv, NameInv, ConfAgrees, Forgotten
<1>3. QED
  BY <1>1, <1>2
-----------------------------------------------------------------------------
(* Watchers and processes *)

\* The step does not concern stream t, its watcher and the calls inside it.
Same(t) ==
    /\ t \in ref' <=> t \in ref
    /\ t \in started' <=> t \in started
    /\ popen'[t] = popen[t] /\ poll'[t] = poll[t]
    /\ \A p \in Procs : <<t, p>> \in stray' <=> <<t, p>> \in stray
    /\ \A d \in Callers : /\ obj'[d] = t <=> obj[d] = t
                          /\ obj[d] = t => pc'[d] = pc[d] /\ on'[d] = on[d]

\* Process q is in s's watcher or being launched for it.
OwnedBy(q, s) ==
    \/ popen[s] = q \/ poll[s] = q \/ <<s, q>> \in stray
    \/ \E c \in Callers : obj[c] = s /\ on[c] = q /\ pc[c] \in InPopen

LEMMA OwnedIs ==
    ASSUME TypeOK, CallInv, NEW q \in Procs
    PROVE  Owned(q) <=> \E s \in Streams : OwnedBy(q, s)
  BY NoneApart DEF TypeOK, CallInv, Owned, OwnedBy

LEMMA SameKeeps ==
    ASSUME NEW t \in Streams, Same(t)
    PROVE  /\ WatcherOK(t) => WatcherOK(t)'
           /\ \A q \in Procs : OwnedBy(q, t)' <=> OwnedBy(q, t)
<1>1. WatcherOK(t) => WatcherOK(t)'
  BY DEF Same, WatcherOK
<1>2. \A q \in Procs : OwnedBy(q, t)' <=> OwnedBy(q, t)
  BY DEF Same, OwnedBy
<1>3. QED
  BY <1>1, <1>2

\* A step that concerns one stream at most.
LEMMA OneStream ==
    ASSUME TypeOK, TypeOK', CallInv, CallInv', WatcherInv, OwnInv, up # "down", ~raced,
           NEW s \in Streams,
           \A t \in Streams \ {s} : Same(t),
           WatcherOK(s)',
           \A q \in Procs : proc'[q] = "alive" =>
               OwnedBy(q, s)' \/ (proc[q] = "alive" /\ ~OwnedBy(q, s))
    PROVE  WatcherInv' /\ OwnInv'
<1>1. \A t \in Streams : WatcherOK(t)'
  BY SameKeeps DEF WatcherInv
<1>2. ASSUME NEW q \in Procs, proc'[q] = "alive" PROVE Owned(q)'
  <2>1. CASE OwnedBy(q, s)'
    BY <2>1, OwnedIs DEF Owned, OwnedBy
  <2>2. CASE proc[q] = "alive" /\ ~OwnedBy(q, s)
    <3>1. PICK t \in Streams : OwnedBy(q, t)
      BY <2>2, OwnedIs DEF OwnInv
    <3>2. OwnedBy(q, t)'
      BY <2>2, <3>1, SameKeeps
    <3>3. QED
      BY <3>2 DEF Owned, OwnedBy
  <2>3. QED
    BY <1>2, <2>1, <2>2
<1>3. QED
  BY <1>1, <1>2 DEF WatcherInv, OwnInv

LEMMA NoStream ==
    ASSUME TypeOK, CallInv, WatcherInv, OwnInv, up # "down", ~raced,
           \A t \in Streams : Same(t),
           \A q \in Procs : proc'[q] = "alive" => proc[q] = "alive"
    PROVE  WatcherInv' /\ OwnInv'
<1>1. \A t \in Streams : WatcherOK(t)'
  BY SameKeeps DEF WatcherInv
<1>2. ASSUME NEW q \in Procs, proc'[q] = "alive" PROVE Owned(q)'
  <2>1. PICK t \in Streams : OwnedBy(q, t)
    BY <1>2, OwnedIs DEF OwnInv
  <2>2. OwnedBy(q, t)'
    BY <2>1, SameKeeps
  <2>3. QED
    BY <2>2 DEF Owned, OwnedBy
<1>3. QED
  BY <1>1, <1>2 DEF WatcherInv, OwnInv

LEMMA DetachEffect ==
    ASSUME TypeOK, NEW s \in Streams, Detach(s)
    PROVE  /\ \A t \in Streams : t \in started' <=> t \in started /\ t # s
           /\ \A t \in Streams \ {s} : poll'[t] = poll[t]
           /\ \A t \in Streams \ {s}, p \in Procs : <<t, p>> \in stray' <=> <<t, p>> \in stray
           /\ poll'[s] = IF s \in started THEN None ELSE poll[s]
           /\ \A p \in Procs : <<s, p>> \in stray' <=>
                  <<s, p>> \in stray \/ (s \in started /\ poll[s] = p)
<1>1. \A t \in Streams : t \in started' <=> t \in started /\ t # s
  BY DEF Detach
<1>2. poll'[s] = IF s \in started THEN None ELSE poll[s]
  BY DEF Detach, TypeOK
<1>3. \A t \in Streams \ {s} : poll'[t] = poll[t]
  BY DEF Detach, TypeOK
<1>4. ASSUME NEW t \in Streams, NEW p \in Procs
      PROVE  <<t, p>> \in stray' <=> <<t, p>> \in stray \/ (t = s /\ s \in started /\ poll[s] = p)
  <2>1. <<t, p>> \in Launching(s) <=> t = s /\ (<<s, p>> \in stray \/ poll[s] = p)
    <3>1. <<t, p>> \in Launching(s) <=>
              \E q \in Procs : <<t, p>> = <<s, q>> /\ (<<s, q>> \in stray \/ poll[s] = q)
      BY LaunchingIs
    <3>2. QED
      BY <3>1
  <2>2. stray' = IF s \in started THEN stray \cup Launching(s) ELSE stray
    BY DEF Detach
  <2>3. QED
    BY <2>1, <2>2
<1>5. QED
  BY <1>1, <1>2, <1>3, <1>4
\* Calls outside watchers.
LEMMA DatabaseWatchers ==
    ASSUME TypeOK, TypeOK', ControlInv, ControlInv', WatcherInv, OwnInv, ~raced,
           NEW c \in Callers,
           NewInsert(c) \/ NewRejected(c) \/ DelRow(c) \/ DelRowFails(c)
    PROVE  WatcherInv' /\ OwnInv'
<1> USE NoneApart
<1> USE DEF InPopen, InWait, dbVars, mapVars, watcherVars, callVars, lifeVars, faults
<1>1. up # "down"
  BY DEF NewInsert, NewRejected, DelRow, DelRowFails, ControlInv, LifeInv, Forgotten
<1>2. obj[c] = None
  BY DEF NewInsert, NewRejected, DelRow, DelRowFails, ControlInv, CallInv
<1>3. /\ UNCHANGED <<ref, started, popen, poll, stray, obj, on, proc>>
      /\ \A d \in Callers \ {c} : pc'[d] = pc[d]
  BY DEF NewInsert, NewRejected, DelRow, DelRowFails, TypeOK
<1>4. ASSUME NEW t \in Streams PROVE Same(t)
  BY <1>2, <1>3 DEF Same
<1>5. QED
  BY <1>1, <1>3, <1>4, NoStream DEF ControlInv

LEMMA CreateWatchers ==
    ASSUME TypeOK, TypeOK', ControlInv, ControlInv', WatcherInv, OwnInv, ~raced,
           NEW c \in Callers, NEW s \in Streams, NEW p \in Procs,
           NewCreate(c, s, p) \/ LoadCreate(c, s, p)
    PROVE  WatcherInv' /\ OwnInv'
<1> USE NoneApart
<1> USE DEF InPopen, InWait, dbVars, mapVars, watcherVars, callVars, lifeVars, faults
<1>1. PICK where \in {"new_launch", "load_launch"} : Create(c, s, p, where)
  BY DEF NewCreate, LoadCreate
<1>2. up # "down" /\ obj[c] = None
  BY DEF NewCreate, LoadCreate, ControlInv, LifeInv, Forgotten, CallInv
<1>3. Fork(p) /\ s \notin ref /\ Launching(s) = {} /\ \A d \in Callers : obj[d] # s
  BY <1>1 DEF Create, FreeStreams, Alone, Inside
<1>4. /\ UNCHANGED <<ref, started, popen, poll, stray>>
      /\ pc' = [pc EXCEPT ![c] = where] /\ obj' = [obj EXCEPT ![c] = s] /\ on' = [on EXCEPT ![c] = p]
  BY <1>1 DEF Create, Blocks
<1>5. \A t \in Streams \ {s} : Same(t)
  BY <1>2, <1>4 DEF Same, TypeOK
<1>6. poll[s] = None /\ popen[s] = None /\ s \notin started /\ \A q \in Procs : <<s, q>> \notin stray
  BY <1>3, LaunchingNone DEF WatcherInv, WatcherOK
<1>7. WatcherOK(s)'
  BY <1>3, <1>4, <1>6 DEF WatcherOK, TypeOK
<1>8. \A q \in Procs : proc'[q] = "alive" => OwnedBy(q, s)' \/ (proc[q] = "alive" /\ ~OwnedBy(q, s))
  <2>1. OwnedBy(p, s)'
    BY <1>4 DEF OwnedBy, TypeOK
  <2>2. \A q \in Procs \ {p} : proc'[q] = proc[q] /\ ~OwnedBy(q, s)
    BY <1>3, <1>6, ForkAlive DEF OwnedBy
  <2>3. QED
    BY <2>1, <2>2
<1>9. QED
  BY <1>2, <1>5, <1>7, <1>8, OneStream DEF ControlInv

\* What a call inside s's watcher knows of it.
LEMMA InsideAlone ==
    ASSUME TypeOK, ControlInv, WatcherInv, ~raced, NEW c \in Callers, pc[c] \in InPopen \cup InWait
    PROVE  /\ up # "down" /\ obj[c] \in Streams /\ on[c] \in Procs
           /\ obj[c] \notin started /\ poll[obj[c]] = None
           /\ \A q \in Procs : <<obj[c], q>> \notin stray
           /\ \A d \in Callers : obj[d] = obj[c] => d = c
           /\ popen[obj[c]] = IF pc[c] \in InWait THEN on[c] ELSE None
           /\ Launching(obj[c]) = {} /\ Inside(obj[c]) = {c}
<1> USE NoneApart
<1>1. obj[c] \in Streams /\ on[c] \in Procs
  BY InsideType DEF ControlInv
<1>2. up # "down"
  BY DEF ControlInv, LifeInv, Forgotten, InPopen, InWait
<1>3. WatcherOK(obj[c])
  BY <1>1 DEF WatcherInv
<1>4. /\ obj[c] \notin started /\ poll[obj[c]] = None
      /\ \A q \in Procs : <<obj[c], q>> \notin stray
      /\ \A d \in Callers : obj[d] = obj[c] => d = c
      /\ popen[obj[c]] = IF pc[c] \in InWait THEN on[c] ELSE None
  BY <1>3 DEF WatcherOK
<1>5. Launching(obj[c]) = {}
  BY <1>1, <1>4, LaunchingNone
<1>6. Inside(obj[c]) = {c}
  BY <1>4 DEF Inside
<1>7. QED
  BY <1>1, <1>2, <1>4, <1>5, <1>6

\* ... and which processes are owned there.
LEMMA InsideOwns ==
    ASSUME TypeOK, ControlInv, WatcherInv, ~raced, NEW c \in Callers, pc[c] \in InPopen \cup InWait,
           NEW q \in Procs, OwnedBy(q, obj[c])
    PROVE  q = on[c]
  BY InsideAlone, NoneApart DEF OwnedBy, InPopen, InWait

\* The call leaves the watcher, which has process p then, or none.
LEMMA ReturnWatchers ==
    ASSUME TypeOK, TypeOK', ControlInv, ControlInv', WatcherInv, OwnInv, ~raced,
           NEW c \in Callers, pc[c] \in InPopen \cup InWait,
           NEW w, obj' = [obj EXCEPT ![c] = None], on' = [on EXCEPT ![c] = None],
           pc' = [pc EXCEPT ![c] = w],
           \A t \in Streams \ {obj[c]} : (t \in ref' <=> t \in ref) /\ (t \in started' <=> t \in started),
           UNCHANGED <<poll, stray>>,
           NEW p \in Procs \cup {None}, popen' = [popen EXCEPT ![obj[c]] = p],
           obj[c] \in started' => obj[c] \in ref',
           p # None => p = on[c] /\ obj[c] \in started',
           \A q \in Procs : proc'[q] = "alive" => proc[q] = "alive",
           proc'[on[c]] = "alive" => p = on[c]
    PROVE  WatcherInv' /\ OwnInv'
<1> USE NoneApart
<1>0. PICK s \in Streams : s = obj[c]
  BY InsideAlone
<1>1. /\ up # "down" /\ s \in Streams /\ poll[s] = None
      /\ \A q \in Procs : <<s, q>> \notin stray
      /\ \A d \in Callers : obj[d] = s => d = c
  BY <1>0, InsideAlone
<1>2. \A t \in Streams \ {s} : Same(t)
  BY <1>0, <1>1 DEF Same, TypeOK
<1>3. \A d \in Callers : obj'[d] # s
  BY <1>0, <1>1 DEF TypeOK
<1>4. popen'[s] = p /\ poll'[s] = None /\ \A q \in Procs : <<s, q>> \notin stray'
  BY <1>0, <1>1 DEF TypeOK
<1>5. WatcherOK(s)'
  BY <1>0, <1>3, <1>4 DEF WatcherOK
<1>6. ASSUME NEW q \in Procs, proc'[q] = "alive" PROVE OwnedBy(q, s)' \/ (proc[q] = "alive" /\ ~OwnedBy(q, s))
  <2>1. CASE OwnedBy(q, s)
    BY <1>0, <1>4, <1>6, <2>1, InsideOwns DEF OwnedBy
  <2>2. CASE ~OwnedBy(q, s)
    BY <1>6, <2>2
  <2>3. QED
    BY <2>1, <2>2
<1>7. QED
  BY <1>1, <1>2, <1>5, <1>6, OneStream DEF ControlInv
LEMMA LaunchedWatchers ==
    ASSUME TypeOK, TypeOK', ControlInv, ControlInv', WatcherInv, OwnInv, ~raced,
           NEW c \in Callers, NewLaunched(c) \/ NewCommitFails(c) \/ LoadLaunched(c) \/ NewLaunchFails(c)
    PROVE  WatcherInv' /\ OwnInv'
<1> USE NoneApart
<1> USE DEF InPopen, InWait, dbVars, mapVars, watcherVars, callVars, lifeVars, faults
<1>1. pc[c] \in InPopen
  BY DEF NewLaunched, NewCommitFails, LoadLaunched, NewLaunchFails
<1>2. obj[c] \in Streams /\ on[c] \in Procs /\ obj[c] \notin started /\ popen[obj[c]] = None
  BY <1>1, InsideAlone
<1>3. CASE NewLaunched(c) \/ NewCommitFails(c) \/ LoadLaunched(c)
  <2>1. Created(c) /\ UNCHANGED <<poll, stray, proc>>
    BY <1>3 DEF NewLaunched, NewCommitFails, LoadLaunched
  <2>2. QED
    BY <1>1, <1>2, <2>1, ReturnWatchers DEF Created, Return
<1>4. CASE NewLaunchFails(c)
  <2>1. Return(c) /\ UNCHANGED <<ref, started, poll, stray>>
    BY <1>4 DEF NewLaunchFails
  <2>2. popen' = [popen EXCEPT ![obj[c]] = None]
    BY <1>2, <1>4 DEF NewLaunchFails, TypeOK
  <2>3. \A q \in Procs : proc'[q] = "alive" => proc[q] = "alive" /\ q # on[c]
    BY <1>2, <1>4 DEF NewLaunchFails, TypeOK
  <2>4. QED
    BY <1>1, <1>2, <2>1, <2>2, <2>3, ReturnWatchers DEF Return
<1>5. QED
  BY <1>3, <1>4

\* The process waited for has ended, and nobody has left another one.
LEMMA WaitedWatchers ==
    ASSUME TypeOK, TypeOK', ControlInv, ControlInv', WatcherInv, OwnInv, ~raced,
           NEW c \in Callers, DelStopped(c) \/ RestartDropped(c)
    PROVE  WatcherInv' /\ OwnInv'
<1> USE NoneApart
<1> USE DEF InPopen, InWait, dbVars, mapVars, watcherVars, callVars, lifeVars, faults
<1>1. pc[c] \in InWait /\ proc[on[c]] # "alive"
  BY DEF DelStopped, RestartDropped, ControlInv, CallInv
<1>2. /\ obj[c] \in Streams /\ on[c] \in Procs /\ obj[c] \notin started
      /\ popen[obj[c]] = on[c]
  BY <1>1, InsideAlone
<1>3. proc' = proc /\ popen' = [popen EXCEPT ![obj[c]] = None]
  BY <1>2 DEF DelStopped, RestartDropped, Collect, Ended
<1>4. CASE DelStopped(c)
  <2>1. ref' = ref \ {obj[c]} /\ Detach(obj[c])
    BY <1>4 DEF DelStopped, Destroyed
  <2>2. started' = started /\ UNCHANGED <<poll, stray>>
    BY <1>2, <2>1 DEF Detach
  <2>3. /\ obj' = [obj EXCEPT ![c] = None] /\ on' = [on EXCEPT ![c] = None]
        /\ pc' = [pc EXCEPT ![c] = "del_row"]
    BY <1>4 DEF DelStopped, Destroyed
  <2>4. QED
    BY <1>1, <1>2, <1>3, <2>1, <2>2, <2>3, ReturnWatchers
<1>5. CASE RestartDropped(c)
  <2>1. started' = started /\ UNCHANGED <<ref, poll, stray>> /\ Return(c)
    BY <1>2, <1>5 DEF RestartDropped
  <2>2. QED
    BY <1>1, <1>2, <1>3, <2>1, ReturnWatchers DEF Return
<1>6. QED
  BY <1>4, <1>5

LEMMA RelaunchedWatchers ==
    ASSUME TypeOK, TypeOK', ControlInv, ControlInv', WatcherInv, OwnInv, ~raced,
           NEW c \in Callers, RestartLaunched(c) \/ RestartLaunchFails(c)
    PROVE  WatcherInv' /\ OwnInv'
<1> USE NoneApart
<1> USE DEF InPopen, InWait, dbVars, mapVars, watcherVars, callVars, lifeVars, faults
<1>1. pc[c] \in InPopen
  BY DEF RestartLaunched, RestartLaunchFails
<1>2. /\ obj[c] \in Streams /\ on[c] \in Procs /\ obj[c] \notin started
      /\ popen[obj[c]] = None /\ poll[obj[c]] = None
      /\ Launching(obj[c]) = {} /\ Inside(obj[c]) = {c}
  BY <1>1, InsideAlone
<1>3. CASE RestartLaunched(c)
  <2>1. Last(obj[c], c) <=> obj[c] \notin ref
    BY <1>2 DEF Last, Alone
  <2>2. UNCHANGED <<poll, stray, ref>> /\ Return(c)
    BY <1>2, <1>3 DEF RestartLaunched, TypeOK
  <2>3. CASE obj[c] \in ref
    <3>1. popen' = [popen EXCEPT ![obj[c]] = on[c]] /\ proc' = proc /\ started' = started \cup {obj[c]}
      BY <1>3, <2>1, <2>3 DEF RestartLaunched, Collect
    <3>2. QED
      BY <1>1, <1>2, <2>2, <2>3, <3>1, ReturnWatchers DEF Return
  <2>4. CASE obj[c] \notin ref
    <3>1. popen' = [popen EXCEPT ![obj[c]] = None] /\ proc' = Ended(on[c]) /\ started' = started \ {obj[c]}
      BY <1>3, <2>1, <2>4 DEF RestartLaunched, Collect
    <3>2. \A q \in Procs : proc'[q] = "alive" => proc[q] = "alive" /\ q # on[c]
      BY <1>2, <3>1, EndedAlive
    <3>3. QED
      BY <1>1, <1>2, <2>2, <2>4, <3>1, <3>2, ReturnWatchers DEF Return
  <2>5. QED
    BY <2>3, <2>4
<1>4. CASE RestartLaunchFails(c)
  <2>1. UNCHANGED <<ref, poll, stray>> /\ started' = started /\ Return(c)
    BY <1>2, <1>4 DEF RestartLaunchFails, Detach
  <2>2. proc' = [proc EXCEPT ![on[c]] = "dead"] /\ popen' = [popen EXCEPT ![obj[c]] = None]
    BY <1>2, <1>4 DEF RestartLaunchFails, Ended
  <2>3. \A q \in Procs : proc'[q] = "alive" => proc[q] = "alive" /\ q # on[c]
    BY <1>2, <2>2 DEF TypeOK
  <2>4. QED
    BY <1>1, <1>2, <2>1, <2>2, <2>3, ReturnWatchers DEF Return
<1>5. QED
  BY <1>3, <1>4

\* A call tells a watcher's process to terminate and waits for it.
LEMMA WaitWatchers ==
    ASSUME TypeOK, TypeOK', ControlInv, ControlInv', WatcherInv, OwnInv, ~raced,
           NEW c \in Callers, NEW s \in Streams, DelCall(c, s) \/ RestartCall(c, s)
    PROVE  WatcherInv' /\ OwnInv'
<1> USE NoneApart
<1> USE DEF InPopen, InWait, dbVars, mapVars, watcherVars, callVars, lifeVars, faults
<1>1. PICK w \in InWait : Blocks(c, w, s, popen[s])
  BY DEF DelCall, RestartCall
<1>2. /\ up = "up" /\ obj[c] = None /\ s \in started /\ popen[s] \in Procs
      /\ UNCHANGED <<ref, popen>> /\ Detach(s) /\ proc' = Ended(popen[s])
  BY DEF DelCall, RestartCall, Waits, ControlInv, CallInv, TypeOK
<1>3. /\ pc' = [pc EXCEPT ![c] = w] /\ obj' = [obj EXCEPT ![c] = s]
      /\ on' = [on EXCEPT ![c] = popen[s]]
  BY <1>1 DEF Blocks
<1>4. /\ s \in ref /\ poll[s] = None /\ \A q \in Procs : <<s, q>> \notin stray
      /\ \A d \in Callers : obj[d] # s
  BY <1>2 DEF WatcherInv, WatcherOK
<1>5. \A t \in Streams \ {s} : Same(t)
  BY <1>2, <1>3, DetachEffect DEF Same, TypeOK
<1>6. /\ s \notin started' /\ poll'[s] = None /\ \A q \in Procs : <<s, q>> \notin stray'
  BY <1>2, <1>4, DetachEffect
<1>7. WatcherOK(s)'
  BY <1>2, <1>3, <1>4, <1>6 DEF WatcherOK, TypeOK
<1>8. \A q \in Procs : proc'[q] = "alive" => OwnedBy(q, s)' \/ (proc[q] = "alive" /\ ~OwnedBy(q, s))
  BY <1>2, <1>4, EndedAlive DEF OwnedBy
<1>9. QED
  BY <1>2, <1>5, <1>7, <1>8, OneStream DEF ControlInv
\* A stream is deleted whose watcher is stopped or about to launch a process.
LEMMA DeleteWatchers ==
    ASSUME TypeOK, TypeOK', ControlInv, ControlInv', WatcherInv, OwnInv, ~raced,
           NEW c \in Callers, NEW s \in Streams, DelCallNoWait(c, s)
    PROVE  WatcherInv' /\ OwnInv'
<1> USE NoneApart
<1> USE DEF InPopen, InWait, dbVars, mapVars, watcherVars, callVars, lifeVars, faults
<1>1. up = "up" /\ obj[c] = None /\ s \in ref /\ WatcherOK(s)
  BY DEF DelCallNoWait, ControlInv, CallInv, NameInv, WatcherInv
<1>2. Detach(s) /\ ref' = ref \ {s} /\ Collect(s, popen[s], Alone(s, c)) /\ ~Waits(s)
  BY DEF DelCallNoWait, Destroyed
<1>3. /\ pc' = [pc EXCEPT ![c] = "del_row"] /\ obj' = obj /\ on' = on
  BY <1>1 DEF DelCallNoWait, Destroyed, TypeOK, ControlInv, CallInv
<1>4. popen' = popen /\ proc' = proc
  <2>1. popen[s] # None => s \notin started /\ ~Alone(s, c)
    BY <1>1, <1>2 DEF WatcherOK, Waits, Alone, Inside
  <2>2. CASE popen[s] = None
    BY <1>2, <2>2 DEF Collect, Ended, TypeOK
  <2>3. CASE popen[s] # None
    BY <1>2, <2>1, <2>3 DEF Collect, TypeOK
  <2>4. QED
    BY <2>2, <2>3
<1>5. \A t \in Streams \ {s} : Same(t)
  BY <1>1, <1>2, <1>3, <1>4, DetachEffect DEF Same, TypeOK
<1>6. /\ s \notin started' /\ poll'[s] = None /\ \A q \in Procs : <<s, q>> \notin stray
      /\ \A q \in Procs : <<s, q>> \in stray' <=> poll[s] = q
  <2>1. poll[s] # None => s \in started
    BY <1>1 DEF WatcherOK
  <2>2. \A q \in Procs : <<s, q>> \notin stray
    BY <1>1 DEF WatcherOK
  <2>3. QED
    BY <1>2, <2>1, <2>2, DetachEffect
<1>7. popen[s] # None => s \notin started
  BY <1>2 DEF Waits
<1>8. WatcherOK(s)'
  <2>1. \A d \in Callers \ {c} : pc'[d] = pc[d]
    BY <1>3 DEF TypeOK
  <2>2. QED
    BY <1>1, <1>2, <1>3, <1>4, <1>6, <1>7, <2>1 DEF WatcherOK
<1>9. \A q \in Procs : proc'[q] = "alive" => OwnedBy(q, s)' \/ (proc[q] = "alive" /\ ~OwnedBy(q, s))
  <2>1. \A d \in Callers \ {c} : pc'[d] = pc[d]
    BY <1>3 DEF TypeOK
  <2>2. QED
    BY <1>1, <1>3, <1>4, <1>6, <2>1 DEF OwnedBy
<1>10. QED
  BY <1>1, <1>5, <1>8, <1>9, OneStream DEF ControlInv

\* restart_stream launches a process in a watcher that has none.
LEMMA RelaunchWatchers ==
    ASSUME TypeOK, TypeOK', ControlInv, ControlInv', WatcherInv, OwnInv, ~raced, ~raced',
           NEW c \in Callers, NEW p \in Procs,
           RestartStopped(c, p) \/ \E s \in Streams : RestartNoWait(c, s, p)
    PROVE  WatcherInv' /\ OwnInv'
<1> USE NoneApart
<1> USE DEF InPopen, InWait, dbVars, mapVars, watcherVars, callVars, lifeVars, faults
<1>1. ASSUME NEW s \in Streams, obj[c] \in {None, s}, up # "down", Fork(p),
             Blocks(c, "re_launch", s, p),
             s \notin started' /\ poll'[s] = None /\ popen'[s] = None,
             \A q \in Procs : <<s, q>> \notin stray',
             \A d \in Callers \ {c} : obj[d] # s,
             \A q \in Procs : OwnedBy(q, s) => proc[q] # "alive",
             \A t \in Streams \ {s} :
                 /\ t \in started' <=> t \in started
                 /\ popen'[t] = popen[t] /\ poll'[t] = poll[t]
                 /\ \A q \in Procs : <<t, q>> \in stray' <=> <<t, q>> \in stray,
             ref' = ref
      PROVE  WatcherInv' /\ OwnInv'
  <2>1. /\ pc' = [pc EXCEPT ![c] = "re_launch"] /\ obj' = [obj EXCEPT ![c] = s]
        /\ on' = [on EXCEPT ![c] = p]
    BY <1>1 DEF Blocks
  <2>2. \A t \in Streams \ {s} : Same(t)
    BY <1>1, <2>1 DEF Same, TypeOK
  <2>3. WatcherOK(s)'
    BY <1>1, <2>1 DEF WatcherOK, TypeOK
  <2>4. OwnedBy(p, s)'
    BY <2>1 DEF OwnedBy, TypeOK
  <2>5. \A q \in Procs : proc'[q] = "alive" => OwnedBy(q, s)' \/ (proc[q] = "alive" /\ ~OwnedBy(q, s))
    BY <1>1, <2>4, ForkAlive
  <2>6. QED
    BY <1>1, <2>2, <2>3, <2>5, OneStream DEF ControlInv
<1>2. CASE RestartStopped(c, p)
  <2>1. pc[c] \in InWait /\ proc[on[c]] # "alive"
    BY <1>2 DEF RestartStopped, ControlInv, CallInv
  <2>2. PICK s \in Streams : s = obj[c]
    BY <2>1, InsideAlone
  <2>3. /\ up # "down" /\ s \notin started /\ poll[s] = None /\ \A q \in Procs : <<s, q>> \notin stray
        /\ \A d \in Callers : obj[d] = s => d = c
    BY <2>1, <2>2, InsideAlone
  <2>4. \A q \in Procs : OwnedBy(q, s) => proc[q] # "alive"
    BY <2>1, <2>2, InsideOwns
  <2>5. /\ UNCHANGED <<ref, started, poll, stray>> /\ Fork(p) /\ Blocks(c, "re_launch", s, p)
        /\ popen' = [popen EXCEPT ![s] = None]
    BY <1>2, <2>2 DEF RestartStopped
  <2>6. /\ popen'[s] = None /\ \A t \in Streams \ {s} : popen'[t] = popen[t]
    BY <2>5 DEF TypeOK
  <2>7. QED
    BY <1>1, <2>2, <2>3, <2>4, <2>5, <2>6
<1>3. ASSUME NEW s \in Streams, RestartNoWait(c, s, p) PROVE WatcherInv' /\ OwnInv'
  <2>1. /\ up = "up" /\ obj[c] = None /\ popen[s] = None /\ ~Busy(s) /\ Fork(p) /\ Detach(s)
        /\ Blocks(c, "re_launch", s, p) /\ UNCHANGED <<ref, popen>>
    BY <1>3 DEF RestartNoWait, ControlInv, CallInv
  <2>2. poll[s] = None /\ \A q \in Procs : <<s, q>> \notin stray
    BY <2>1, LaunchingNone DEF Busy
  <2>3. \A d \in Callers : obj[d] # s
    <3>1. \A d \in Callers : obj[d] = s => pc[d] \in InWait
      BY <2>1 DEF Busy, Inside, ControlInv, CallInv
    <3>2. \A d \in Callers : obj[d] = s => popen[s] = on[d] /\ on[d] # None
      BY <3>1 DEF WatcherInv, WatcherOK, ControlInv, CallInv
    <3>3. QED
      BY <2>1, <3>2
  <2>4. \A q \in Procs : ~OwnedBy(q, s)
    BY <2>1, <2>2, <2>3 DEF OwnedBy
  <2>5. QED
    BY <1>1, <2>1, <2>2, <2>3, <2>4, DetachEffect
<1>4. QED
  BY <1>2, <1>3

LEMMA PollWatchers ==
    ASSUME TypeOK, TypeOK', ControlInv, ControlInv', WatcherInv, OwnInv, ~raced,
           NEW s \in Streams,
           \/ PollExited(s) \/ PollLaunched(s) \/ PollLaunchFails(s)
           \/ \E p \in Procs : PollRestart(s, p)
    PROVE  WatcherInv' /\ OwnInv'
<1> USE NoneApart
<1> USE DEF InPopen, InWait, dbVars, mapVars, watcherVars, callVars, lifeVars, faults
<1>1. WatcherOK(s) /\ (poll[s] # None => s \in started)
  BY DEF WatcherInv, WatcherOK
<1>2. /\ UNCHANGED <<ref, started, stray, pc, obj, on>>
      /\ \A t \in Streams \ {s} : popen'[t] = popen[t] /\ poll'[t] = poll[t]
  BY DEF PollExited, PollLaunched, PollLaunchFails, PollRestart, TypeOK
<1>3. up # "down" /\ s \in started
  BY <1>1 DEF PollExited, PollLaunched, PollLaunchFails, PollRestart, ControlInv, LifeInv, Forgotten
<1>4. \A t \in Streams \ {s} : Same(t)
  BY <1>2 DEF Same
<1>5. \A d \in Callers : obj[d] # s
  BY <1>1, <1>3 DEF WatcherOK
<1>6. \A q \in Procs : <<s, q>> \notin stray
  BY <1>1, <1>3 DEF WatcherOK
<1>7. CASE PollExited(s)
  <2>1. popen'[s] = None /\ poll'[s] = poll[s] /\ proc' = proc /\ popen[s] \notin Live
    BY <1>7 DEF PollExited, TypeOK
  <2>2. WatcherOK(s)'
    BY <1>1, <1>2, <1>3, <1>5, <1>6, <2>1 DEF WatcherOK
  <2>3. \A q \in Procs : proc'[q] = "alive" => OwnedBy(q, s)' \/ (proc[q] = "alive" /\ ~OwnedBy(q, s))
    BY <1>2, <1>5, <1>6, <2>1 DEF OwnedBy, Live
  <2>4. QED
    BY <1>3, <1>4, <2>2, <2>3, OneStream DEF ControlInv
<1>8. CASE PollLaunched(s)
  <2>1. /\ popen'[s] = poll[s] /\ poll'[s] = None /\ proc' = proc /\ popen[s] = None
    BY <1>1, <1>8 DEF PollLaunched, TypeOK, WatcherOK
  <2>2. WatcherOK(s)'
    BY <1>1, <1>2, <1>3, <1>5, <1>6, <2>1 DEF WatcherOK
  <2>3. \A q \in Procs : proc'[q] = "alive" => OwnedBy(q, s)' \/ (proc[q] = "alive" /\ ~OwnedBy(q, s))
    BY <1>2, <1>5, <1>6, <2>1 DEF OwnedBy
  <2>4. QED
    BY <1>3, <1>4, <2>2, <2>3, OneStream DEF ControlInv
<1>9. CASE PollLaunchFails(s)
  <2>1. popen'[s] = popen[s] /\ poll'[s] = None /\ proc' = proc /\ poll[s] \notin Live
    BY <1>9 DEF PollLaunchFails, TypeOK
  <2>2. WatcherOK(s)'
    BY <1>1, <1>2, <1>3, <1>5, <1>6, <2>1 DEF WatcherOK
  <2>3. \A q \in Procs : proc'[q] = "alive" => OwnedBy(q, s)' \/ (proc[q] = "alive" /\ ~OwnedBy(q, s))
    BY <1>2, <1>5, <1>6, <2>1 DEF OwnedBy, Live
  <2>4. QED
    BY <1>3, <1>4, <2>2, <2>3, OneStream DEF ControlInv
<1>10. ASSUME NEW p \in Procs, PollRestart(s, p) PROVE WatcherInv' /\ OwnInv'
  <2>1. popen'[s] = None /\ poll'[s] = p /\ popen[s] = None /\ poll[s] = None /\ Fork(p)
    BY <1>10 DEF PollRestart, TypeOK
  <2>2. WatcherOK(s)'
    BY <1>1, <1>2, <1>3, <1>5, <1>6, <2>1 DEF WatcherOK
  <2>3. \A q \in Procs : proc'[q] = "alive" => OwnedBy(q, s)' \/ (proc[q] = "alive" /\ ~OwnedBy(q, s))
    BY <1>2, <1>5, <1>6, <2>1, ForkAlive DEF OwnedBy
  <2>4. QED
    BY <1>3, <1>4, <2>2, <2>3, OneStream DEF ControlInv
<1>11. QED
  BY <1>7, <1>8, <1>9, <1>10

\* A detached greenlet holds the last reference, and its process is killed.
LEMMA StrayWatchers ==
    ASSUME TypeOK, TypeOK', ControlInv, ControlInv', WatcherInv, OwnInv, ~raced,
           NEW s \in Streams, NEW p \in Procs, NEW launched \in BOOLEAN, StrayEnds(s, p, launched)
    PROVE  WatcherInv' /\ OwnInv'
<1> USE NoneApart
<1> USE DEF InPopen, InWait, dbVars, mapVars, watcherVars, callVars, lifeVars, faults
<1>1. /\ <<s, p>> \in stray /\ stray' = stray \ {<<s, p>>} /\ (launched \/ p \notin Live)
      /\ UNCHANGED <<ref, poll, pc, obj, on>>
  BY DEF StrayEnds
<1>2. /\ s \notin ref /\ s \notin started /\ popen[s] = None /\ poll[s] = None
      /\ \A d \in Callers : obj[d] # s
      /\ \A q \in Procs : <<s, q>> \in stray <=> q = p
  BY <1>1 DEF WatcherInv, WatcherOK
<1>3. up # "down"
  BY <1>1 DEF ControlInv, LifeInv, Forgotten
<1>4. Launching(s) = {<<s, p>>}
  <2>1. ASSUME NEW x PROVE x \in Launching(s) <=> x = <<s, p>>
    <3>1. x \in Launching(s) <=> \E q \in Procs : x = <<s, q>> /\ (<<s, q>> \in stray \/ poll[s] = q)
      BY LaunchingIs
    <3>2. QED
      BY <1>2, <3>1
  <2>2. QED
    BY <2>1
<1>5. Inside(s) = {}
  BY <1>2 DEF Inside
<1>6. /\ proc' = IF launched THEN Ended(p) ELSE proc
      /\ popen' = [popen EXCEPT ![s] = None] /\ started' = started \ {s}
  BY <1>2, <1>4, <1>5 DEF StrayEnds, Collect, Ended
<1>7. \A q \in Procs : proc'[q] = "alive" => proc[q] = "alive" /\ q # p
  BY <1>1, <1>6, EndedAlive DEF Live
<1>8. /\ popen'[s] = None /\ \A t \in Streams \ {s} : popen'[t] = popen[t]
      /\ \A q \in Procs : <<s, q>> \notin stray'
      /\ \A t \in Streams \ {s}, q \in Procs : <<t, q>> \in stray' <=> <<t, q>> \in stray
  BY <1>1, <1>2, <1>6 DEF TypeOK
<1>9. \A t \in Streams \ {s} : Same(t)
  BY <1>1, <1>6, <1>8 DEF Same
<1>10. WatcherOK(s)'
  BY <1>1, <1>2, <1>6, <1>8 DEF WatcherOK
<1>11. \A q \in Procs : proc'[q] = "alive" => OwnedBy(q, s)' \/ (proc[q] = "alive" /\ ~OwnedBy(q, s))
  BY <1>2, <1>7 DEF OwnedBy
<1>12. QED
  BY <1>3, <1>9, <1>10, <1>11, OneStream DEF ControlInv

LEMMA ExitWatchers ==
    ASSUME TypeOK, TypeOK', ControlInv, ControlInv', WatcherInv, OwnInv, ~raced,
           NEW p \in Procs, Exit(p)
    PROVE  WatcherInv' /\ OwnInv'
<1> USE NoneApart
<1> USE DEF InPopen, InWait, dbVars, mapVars, watcherVars, callVars, lifeVars, faults
<1>1. UNCHANGED <<ref, started, popen, poll, stray, pc, obj, on, up>>
  BY DEF Exit
<1>2. \A q \in Procs : proc'[q] = "alive" => proc[q] = "alive"
  BY DEF Exit, TypeOK
<1>3. \A t \in Streams : Same(t)
  BY <1>1 DEF Same
<1>4. CASE up # "down"
  BY <1>2, <1>3, <1>4, NoStream DEF ControlInv
<1>5. CASE up = "down"
  BY <1>1, <1>3, <1>5, SameKeeps DEF WatcherInv, OwnInv
<1>6. QED
  BY <1>4, <1>5

\* The controller goes down, or comes up with no memory of its processes,
\* all of which have been told to terminate.
LEMMA LifeWatchers ==
    ASSUME TypeOK, TypeOK', ControlInv, ControlInv',
           Crash \/ \E c \in Callers : LoadFails(c) \/ \E b \in BOOLEAN : Boot(c, b)
    PROVE  WatcherInv' /\ OwnInv'
<1> USE NoneApart
<1> USE DEF InPopen, InWait, dbVars, mapVars, watcherVars, callVars, lifeVars, faults
<1>1. CASE Crash \/ \E c \in Callers : LoadFails(c)
  <2>1. up' = "down"
    BY <1>1 DEF Crash, LoadFails, Forget
  <2>2. Forgotten'
    BY <2>1 DEF ControlInv, LifeInv
  <2>3. \A c \in Callers : obj'[c] = None
    BY <2>2 DEF Forgotten, ControlInv, CallInv
  <2>4. WatcherInv'
    BY <2>2, <2>3 DEF Forgotten, WatcherInv, WatcherOK
  <2>5. QED
    BY <2>1, <2>4 DEF OwnInv
<1>2. ASSUME NEW c \in Callers, NEW b \in BOOLEAN, Boot(c, b) PROVE WatcherInv' /\ OwnInv'
  <2>1. Forgotten /\ UNCHANGED <<ref, started, popen, poll, stray, obj>> /\ proc' = KillAll
    BY <1>2 DEF Boot, ControlInv, LifeInv
  <2>2. \A d \in Callers : obj'[d] = None
    BY <2>1 DEF Forgotten, ControlInv, CallInv
  <2>3. WatcherInv'
    BY <2>1, <2>2 DEF Forgotten, WatcherInv, WatcherOK
  <2>4. \A q \in Procs : proc'[q] # "alive"
    BY <2>1 DEF KillAll
  <2>5. QED
    BY <2>3, <2>4 DEF OwnInv
<1>3. QED
  BY <1>1, <1>2
-----------------------------------------------------------------------------
(* The theorems *)

ManagerInv == TypeOK /\ ControlInv /\ WatcherInv /\ OwnInv

LEMMA ManagerInit == Init => ManagerInv
<1> SUFFICES ASSUME Init PROVE ManagerInv
  OBVIOUS
<1> USE NoneApart
<1>1. TypeOK
  BY InitType
<1>2. ControlInv
  BY DEF Init, ControlInv, CallInv, DbInv, LifeInv, Forgotten, NameInv, ConfAgrees,
         InPopen, InWait, Deleting, Loading, Naming
<1>3. WatcherInv /\ OwnInv
  BY DEF Init, WatcherInv, WatcherOK, OwnInv
<1>4. QED
  BY <1>1, <1>2, <1>3 DEF ManagerInv

\* Every step of the calls, the polling greenlets, the processes and the
\* controller's life preserves the control part ...
LEMMA ControlStep == ASSUME ManagerInv, [Next]_vars PROVE TypeOK' /\ ControlInv'
<1> USE DEF ManagerInv
<1>1. ASSUME NEW c \in Callers, CallStep(c) PROVE TypeOK' /\ ControlInv'
  <2>1. TypeOK'
    BY <1>1, CallStepType DEF ControlInv
  <2>2. ControlInv'
    BY <1>1, DatabaseControl, CreateControl, LaunchedControl, DeleteControl, RestartControl DEF CallStep
  <2>3. QED
    BY <2>1, <2>2
<1>2. ASSUME NEW c \in Callers, Request(c) PROVE TypeOK' /\ ControlInv'
  <2>1. TypeOK'
    BY <1>2, RequestType
  <2>2. ControlInv'
    BY <1>2, DatabaseControl, DeleteControl, RestartControl DEF Request
  <2>3. QED
    BY <2>1, <2>2
<1>3. CASE (\E s \in Streams : PollStep(s)) \/ (\E p \in Procs : Exit(p)) \/ UNCHANGED vars
  <2>1. TypeOK'
    <3>1. CASE UNCHANGED vars
      BY <3>1 DEF vars, dbVars, mapVars, watcherVars, callVars, lifeVars, faults, TypeOK
    <3>2. QED
      BY <1>3, <3>1, PollStepType, OtherStepType
  <2>2. QED
    BY <1>3, <2>1, PollControl
<1>4. CASE Crash \/ \E c \in Callers, b \in BOOLEAN : Boot(c, b)
  BY <1>4, OtherStepType, LifeControl
<1>5. QED
  BY <1>1, <1>2, <1>3, <1>4 DEF Next

\* ... and the part about watchers and processes.
LEMMA WatcherStep ==
    ASSUME ManagerInv, TypeOK', ControlInv', [Next]_vars PROVE WatcherInv' /\ OwnInv'
<1> USE DEF ManagerInv
<1>1. CASE Crash \/ \E c \in Callers : LoadFails(c) \/ \E b \in BOOLEAN : Boot(c, b)
  BY <1>1, LifeWatchers
<1>2. ASSUME ~raced', NEW c \in Callers, CallStep(c), ~LoadFails(c) PROVE WatcherInv' /\ OwnInv'
  <2>1. ~raced
    BY <1>2 DEF CallStep, NewRejected, NewLaunched, NewCommitFails, NewLaunchFails, DelStopped, DelRow, DelRowFails,
                RestartDropped, RestartLaunched, RestartLaunchFails, LoadLaunched, RestartStopped,
                NewCreate, LoadCreate, Create
  <2>2. QED
    BY <1>2, <2>1, DatabaseWatchers, CreateWatchers, LaunchedWatchers, WaitedWatchers,
       RelaunchedWatchers, RelaunchWatchers DEF CallStep
<1>3. ASSUME ~raced', NEW c \in Callers, Request(c) PROVE WatcherInv' /\ OwnInv'
  <2>1. ~raced
    BY <1>3 DEF Request, NewInsert, DelCall, DelCallNoWait, RestartCall, RestartNoWait
  <2>2. QED
    BY <1>3, <2>1, DatabaseWatchers, WaitWatchers, DeleteWatchers, RelaunchWatchers DEF Request
<1>4. ASSUME ~raced', NEW s \in Streams, PollStep(s) PROVE WatcherInv' /\ OwnInv'
  <2>1. ~raced
    BY <1>4 DEF PollStep, PollExited, PollLaunched, PollLaunchFails, PollRestart, StrayEnds
  <2>2. QED
    BY <1>4, <2>1, PollWatchers, StrayWatchers DEF PollStep
<1>5. ASSUME ~raced', NEW p \in Procs, Exit(p) PROVE WatcherInv' /\ OwnInv'
  BY <1>5, ExitWatchers DEF Exit
<1>6. CASE UNCHANGED vars
  BY <1>6 DEF vars, watcherVars, callVars, lifeVars, faults, WatcherInv, WatcherOK, OwnInv, Owned
<1>7. CASE raced'
  BY <1>7 DEF WatcherInv, OwnInv
<1>8. QED
  BY <1>1, <1>2, <1>3, <1>4, <1>5, <1>6, <1>7 DEF Next

(***************************************************************************)
(* ManagerInv is an inductive invariant: of the controller's memory, of    *)
(* the database and of the processes together, across crashes and boots.   *)
(***************************************************************************)
THEOREM ManagerInvariant == Spec => []ManagerInv
<1>1. ManagerInv /\ [Next]_vars => ManagerInv'
  <2> SUFFICES ASSUME ManagerInv, [Next]_vars PROVE ManagerInv'
    OBVIOUS
  <2>1. TypeOK' /\ ControlInv'
    BY ControlStep
  <2>2. WatcherInv' /\ OwnInv'
    BY <2>1, WatcherStep
  <2>3. QED
    BY <2>1, <2>2 DEF ManagerInv
<1>2. QED
  BY ManagerInit, <1>1, PTL DEF Spec

(***************************************************************************)
(* What the variables of the controller can hold.                          *)
(***************************************************************************)
THEOREM ManagerTypeCorrect == Spec => []TypeOK
<1>1. ManagerInv => TypeOK
  BY DEF ManagerInv
<1>2. QED
  BY <1>1, ManagerInvariant, PTL

(***************************************************************************)
(* The database and the running streams agree in every life of the         *)
(* controller, but for what a failed commit or an unregistered source type *)
(* explains.                                                               *)
(***************************************************************************)
THEOREM ManagerConfAgrees == Spec => []ConfAgrees
<1>1. ManagerInv => ConfAgrees
  BY DEF ManagerInv, ControlInv
<1>2. QED
  BY <1>1, ManagerInvariant, PTL

(***************************************************************************)
(* A boot finds the name free, and so does a request whose row was         *)
(* accepted unless an earlier one could not commit.                        *)
(***************************************************************************)
THEOREM ManagerNameFree == Spec => []NameFree
<1>1. ManagerInv => NameFree
  <2> SUFFICES ASSUME ManagerInv, NEW c \in Callers,
                      pc[c] = "load" \/ (pc[c] = "create" /\ ~unsaved)
               PROVE  named = None
    BY DEF NameFree
  <2> USE NoneApart DEF ManagerInv, ControlInv
  <2>1. mapped = None
    BY DEF DbInv, LifeInv, Loading
  <2>2. \A d \in Callers : pc[d] \notin Naming
    BY DEF DbInv, LifeInv, Loading, Naming, Deleting
  <2>3. QED
    BY <2>1, <2>2 DEF NameInv
<1>2. QED
  BY <1>1, ManagerInvariant, PTL

(***************************************************************************)
(* As long as no two launches have met in one watcher, a running process   *)
(* belongs to a watcher that still exists or is being launched: neither    *)
(* del_stream during a restart nor a crash leaves one behind.              *)
(***************************************************************************)
THEOREM ManagerNoOrphan == Spec => []NoOrphan
<1>1. ManagerInv => NoOrphan
  <2> SUFFICES ASSUME ManagerInv, up # "down", ~raced, NEW p \in Procs, proc[p] = "alive"
               PROVE  \/ \E s \in Streams : /\ popen[s] = p \/ <<s, p>> \in Launching(s)
                                            /\ s \in ref \/ ~Alone(s, None)
                      \/ \E c \in Callers : on[c] = p /\ pc[c] \in InPopen
    BY DEF NoOrphan
  <2> USE NoneApart DEF ManagerInv
  <2>1. CASE \E c \in Callers : on[c] = p /\ pc[c] \in InPopen
    BY <2>1
  <2>2. ASSUME NEW s \in Streams, popen[s] = p PROVE s \in ref \/ ~Alone(s, None)
    BY <2>2 DEF WatcherInv, WatcherOK, Alone, Inside
  <2>3. ASSUME NEW s \in Streams, poll[s] = p \/ <<s, p>> \in stray
        PROVE  <<s, p>> \in Launching(s) /\ ~Alone(s, None)
    BY <2>3, LaunchingIs DEF Alone
  <2>4. QED
    BY <2>1, <2>2, <2>3 DEF OwnInv, Owned
<1>2. QED
  BY <1>1, ManagerInvariant, PTL

(***************************************************************************)
(* ... and one source at most serves the name: a second running process    *)
(* belongs to a deleted stream and is killed when its launch is over.      *)
(***************************************************************************)
THEOREM ManagerOneSource == Spec => []OneSource
<1>1. ManagerInv => OneSource
  <2> SUFFICES ASSUME ManagerInv, up # "down", ~raced, NEW p \in Procs, NEW q \in Procs,
                      proc[p] = "alive", proc[q] = "alive",
                      \A x \in {p, q} :
                          /\ \A s \in Streams \ ref : <<s, x>> \notin stray
                          /\ \A c \in Callers : ~(pc[c] = "re_launch" /\ on[c] = x /\ obj[c] \notin ref)
               PROVE  p = q
    BY DEF OneSource
  <2> USE NoneApart DEF ManagerInv
  <2>1. ASSUME NEW x \in {p, q} PROVE named \in Streams /\ OwnedBy(x, named)
    <3>1. x \in Procs /\ proc[x] = "alive"
      OBVIOUS
    <3>2. PICK s \in Streams : OwnedBy(x, s)
      BY <3>1, OwnedIs DEF OwnInv, ControlInv
    <3>3. WatcherOK(s)
      BY DEF WatcherInv
    <3>4. \A t \in Streams : t \in ref => t = named
      BY DEF ControlInv, NameInv, Naming
    <3>5. CASE popen[s] = x
      <4>1. s \in started
        BY <3>1, <3>3, <3>5 DEF WatcherOK, ControlInv, CallInv
      <4>2. QED
        BY <3>2, <3>3, <3>4, <4>1 DEF WatcherOK
    <3>6. CASE poll[s] = x
      BY <3>1, <3>2, <3>3, <3>4, <3>6 DEF WatcherOK
    <3>7. CASE <<s, x>> \in stray
      BY <3>1, <3>3, <3>7 DEF WatcherOK
    <3>8. ASSUME NEW c \in Callers, obj[c] = s, on[c] = x, pc[c] \in InPopen
          PROVE  named \in Streams /\ OwnedBy(x, named)
      BY <3>2, <3>4, <3>8 DEF InPopen, ControlInv, NameInv, Naming
    <3>9. QED
      BY <3>2, <3>5, <3>6, <3>7, <3>8 DEF OwnedBy
  <2>2. WatcherOK(named)
    BY <2>1 DEF WatcherInv
  <2>3. QED
    BY <2>1, <2>2 DEF WatcherOK, OwnedBy, InPopen, InWait
<1>2. QED
  BY <1>1, ManagerInvariant, PTL
=============================================================================
