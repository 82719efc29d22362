--------------------------- MODULE Recorder_proofs ---------------------------
(* What the recorder specification guarantees for any cameras, volumes,     *)
(* threads and bounds: its types, and what holds while no two threads have  *)
(* been inside the service together.                                        *)
EXTENDS Recorder, TLAPS, FiniteSetTheorems

Waiting == {"drop_wait", "assign_wait", "halt_wait", "restart_wait"}

-----------------------------------------------------------------------------
(* The inductive invariant *)

\* The local variables of a thread hold what its program counter calls for.
LocalsOK(t) ==
    /\ pc[t] \in {"drop", "drop_wait"} => want[t] \in [Cameras -> Streams \cup {None}]
    /\ pc[t] \in {"build", "assign", "assign_wait"} =>
         /\ want[t] \in [Cameras -> (Streams \X Volumes) \cup {None}]
         /\ \A c \in todo[t] : want[t][c] # None
    /\ pc[t] \in {"assign", "assign_wait"} => cam[t] \in Cameras /\ want[t][cam[t]] # None
    /\ pc[t] \in Waiting \cup {"backoff"} => cur[t] \in Recs
    /\ pc[t] \in {"check", "backoff"} => t = Sup

TypeInv == TypeOK /\ \A t \in Threads : LocalsOK(t)

\* r is the recorder registered for its camera.
Owned(r) == obj[r].cam \in Cameras /\ reg[obj[r].cam] = r

OneBusy == \A t, u \in Threads : Busy(t) /\ Busy(u) => t = u

Named == \A c \in Cameras : reg[c] # None => obj[reg[c]].cam = c

\* A running ffmpeg is the registered recorder's, or somebody waits for its end.
Reachable ==
    \A r \in Recs : Running(r) =>
        Owned(r) \/ \E t \in Threads : pc[t] \in Waiting /\ cur[t] = r

\* What a thread waits for has been told to end; its camera's entry still holds
\* it, or has been emptied.
Awaited ==
    \A t \in Threads : pc[t] \in Waiting =>
        /\ obj[cur[t]].proc \in {"dying", "exited"}
        /\ obj[cur[t]].cam \in Cameras
        /\ reg[obj[cur[t]].cam] \in {cur[t], None}

\* An entry about to be overwritten has no ffmpeg left.
Replaced ==
    \A t \in Threads :
        /\ pc[t] = "assign_wait" => cur[t] = reg[cam[t]]
        /\ pc[t] = "assign" => reg[cam[t]] = None \/ ~Running(reg[cam[t]])

\* The recorders the supervisor still has to check, and those a shutdown still
\* has to stop, are registered ones.
Listed ==
    \A t \in Threads :
        /\ pc[t] \in {"check", "backoff", "halt", "halt_wait"} =>
             \A r \in held[t] : Owned(r)
        /\ pc[t] = "backoff" => Owned(cur[t])

\* During a shutdown what still runs is listed or awaited; after it, nothing is
\* registered.
Halting ==
    /\ \A t \in Threads : pc[t] \in {"halt", "halt_wait"} =>
         \A c \in Cameras : reg[c] # None /\ Running(reg[c]) =>
             reg[c] \in held[t] \/ (pc[t] = "halt_wait" /\ cur[t] = reg[c])
    /\ stopping => \A t \in Threads : Busy(t) => pc[t] \in {"halt", "halt_wait"}
    /\ stopping /\ (\A t \in Threads : ~Busy(t)) => \A c \in Cameras : reg[c] = None

\* Nobody extends a window between the read and the write of sync().
Ripe ==
    \A t \in Threads : pc[t] = "expire" =>
        \A c \in todo[t] : row[c].record /\ row[c].until = "past"

Unlost == \A c \in Cameras : lost[c] = 0

AloneInv ==
    /\ OneBusy /\ Named /\ Reachable /\ Awaited /\ Replaced
    /\ Listed /\ Halting /\ Ripe /\ Unlost

IInv == TypeInv /\ (~overlap => AloneInv)

-----------------------------------------------------------------------------
(* Types *)

\* What the actions do to the recorders and to the camera table stays well typed.
LEMMA ObjectUpdates ==
    ASSUME NEW o \in [Recs -> Objects], NEW r \in Recs
    PROVE  /\ \A p \in Procs : [o EXCEPT ![r].proc = p] \in [Recs -> Objects]
           /\ [o EXCEPT ![r].proc = IF @ = "alive" THEN "dying" ELSE @] \in [Recs -> Objects]
           /\ [o EXCEPT ![r].backoff = 1] \in [Recs -> Objects]
           /\ [o EXCEPT ![r].proc = "alive",
                        ![r].backoff = IF 2 * @ > BackoffCap THEN BackoffCap ELSE 2 * @]
                \in [Recs -> Objects]
<1>1. ASSUME NEW x \in Objects
      PROVE  /\ \A p \in Procs : [x EXCEPT !.proc = p] \in Objects
             /\ \A b \in 1..BackoffCap : [x EXCEPT !.backoff = b] \in Objects
    BY DEF Objects
<1>2. \A p \in Procs : [o EXCEPT ![r].proc = p] \in [Recs -> Objects]
    BY <1>1
<1>3. [o EXCEPT ![r].proc = IF @ = "alive" THEN "dying" ELSE @] \in [Recs -> Objects]
    BY <1>2 DEF Objects, Procs
<1>4. \A b \in 1..BackoffCap : [o EXCEPT ![r].backoff = b] \in [Recs -> Objects]
    BY <1>1
<1>5. 1 \in 1..BackoffCap
    BY RecorderAssumption
<1>6. [o EXCEPT ![r].proc = "alive",
                ![r].backoff = IF 2 * @ > BackoffCap THEN BackoffCap ELSE 2 * @]
        \in [Recs -> Objects]
  <2> DEFINE b == IF 2 * o[r].backoff > BackoffCap THEN BackoffCap ELSE 2 * o[r].backoff
  <2>1. b \in 1..BackoffCap
      BY RecorderAssumption DEF Objects
  <2>2. [[o[r] EXCEPT !.proc = "alive"] EXCEPT !.backoff = b] \in Objects
      BY <1>1, <2>1 DEF Procs
  <2>3. QED
      BY <2>2 DEF Objects
<1>7. QED
    BY <1>2, <1>3, <1>4, <1>5, <1>6

\* The same for the edits of a row of the camera table.
LEMMA RowUpdates ==
    ASSUME NEW R \in [Cameras -> Rows], NEW c \in Cameras
    PROVE  /\ \A on \in BOOLEAN, until \in {"none", "open", "past"} :
                [R EXCEPT ![c] = [R[c] EXCEPT !.record = on, !.until = until]]
                    \in [Cameras -> Rows]
           /\ [R EXCEPT ![c].record = FALSE, ![c].until = "none"] \in [Cameras -> Rows]
           /\ [R EXCEPT ![c] = [R[c] EXCEPT !.live = ~@]] \in [Cameras -> Rows]
           /\ \A s \in Streams :
                [R EXCEPT ![c] = [R[c] EXCEPT !.stream = s]] \in [Cameras -> Rows]
           /\ [R EXCEPT ![c].until = "past"] \in [Cameras -> Rows]
<1>1. ASSUME NEW x \in Rows
      PROVE  /\ \A on \in BOOLEAN : [x EXCEPT !.record = on] \in Rows
             /\ \A until \in {"none", "open", "past"} : [x EXCEPT !.until = until] \in Rows
             /\ [x EXCEPT !.live = ~@] \in Rows
             /\ \A s \in Streams : [x EXCEPT !.stream = s] \in Rows
    BY DEF Rows
<1>2. \A x \in Rows : \A on \in BOOLEAN, until \in {"none", "open", "past"} :
        [x EXCEPT !.record = on, !.until = until] \in Rows
    BY DEF Rows
<1>3. QED
    BY <1>1, <1>2

\* stop() keeps the recorders well typed...
LEMMA BeginStopTypes ==
    ASSUME TypeInv, NEW t \in Threads, NEW r \in Recs, NEW waiting, NEW next,
           BeginStop(t, r, waiting, next)
    PROVE  obj' \in [Recs -> Objects]
BY ObjectUpdates DEF TypeInv, TypeOK, BeginStop

\* All that a call of BeginStop changes.
StopEffects(t, r, waiting, next) ==
    /\ \A x \in Recs : x # r => obj'[x] = obj[x]
    /\ obj'[r].cam = obj[r].cam
    /\ obj[r].proc = "none" => obj'[r].proc = "none" /\ pc'[t] = next /\ cur'[t] = None
    /\ obj[r].proc # "none" =>
         obj'[r].proc \in {"dying", "exited"} /\ pc'[t] = waiting /\ cur'[t] = r
    /\ \A u \in Threads : u # t => pc'[u] = pc[u] /\ cur'[u] = cur[u]

\* ...and changes no more than this.
LEMMA BeginStopEffects ==
    ASSUME TypeInv, NEW t \in Threads, NEW r \in Recs, NEW waiting, NEW next,
           BeginStop(t, r, waiting, next)
    PROVE  StopEffects(t, r, waiting, next)
BY DEF StopEffects, BeginStop, Goto, TypeInv, TypeOK, Objects, Procs

\* The types, with what each program counter promises of its thread's locals,
\* hold at start and are kept by every step.
LEMMA TypeInit == Init => TypeInv
<1> SUFFICES ASSUME Init PROVE TypeInv
    OBVIOUS
<1>1. row \in [Cameras -> Rows]
    BY RecorderAssumption DEF Init, Rows
<1>2. obj \in [Recs -> Objects]
    BY RecorderAssumption DEF Init, NewRecorder, Objects, Procs
<1>3. {edits, deaths, faults} \subseteq Nat
    BY DEF Init
<1>4. pc \in [Threads -> Labels]
    BY DEF Init, Labels
<1>5. want \in [Threads -> [Cameras -> {None} \cup Streams \cup (Streams \X Volumes)]]
    BY DEF Init, Nothing
<1>6. TypeOK
    BY <1>1, <1>2, <1>3, <1>4, <1>5, RecorderAssumption DEF Init, TypeOK, Nothing
<1>7. QED
    BY <1>6 DEF Init, TypeInv, LocalsOK, Waiting

\* Every step keeps the types.
LEMMA TypeStep == TypeInv /\ [Next]_vars => TypeInv'
<1> SUFFICES ASSUME TypeInv, [Next]_vars PROVE TypeInv'
    OBVIOUS
<1> USE RecorderAssumption
<1>1. ASSUME NEW t \in Threads, SyncBegin(t) PROVE TypeInv'
    BY <1>1 DEF SyncBegin, Goto, Expired, TypeInv, TypeOK, LocalsOK, Threads, Labels,
       Waiting, table, service, local, budget
<1>2. ASSUME NEW t \in Threads, SyncExpire(t) PROVE TypeInv'
  <2>1. PICK c \in todo[t] : row' = [row EXCEPT ![c].record = FALSE, ![c].until = "none"]
      BY <1>2 DEF SyncExpire
  <2>2. row' \in [Cameras -> Rows]
      BY <1>2, <2>1, RowUpdates, ZenonT(60) DEF TypeInv, TypeOK
  <2>3. QED
      BY <1>2, <2>2 DEF SyncExpire, TypeInv, TypeOK, LocalsOK, Threads, Labels, Waiting,
         table,
             service, local, budget
<1>3. ASSUME NEW t \in Threads, SyncRead(t) PROVE TypeInv'
    BY <1>3 DEF SyncRead, Goto, WantedNow, WantedRow, Registered, Rows, TypeInv, TypeOK,
       LocalsOK, Threads, Labels, Waiting, table, service, local, budget
<1>4. ASSUME NEW t \in Threads, SyncDrop(t) PROVE TypeInv'
  <2>1. PICK c \in todo[t] \cap Registered : BeginStop(t, reg[c], "drop_wait", "drop")
      BY <1>4 DEF SyncDrop
  <2>2. reg[c] \in Recs
      BY <2>1 DEF Registered, TypeInv, TypeOK
  <2>3. obj' \in [Recs -> Objects]
      BY <2>1, <2>2, BeginStopTypes
  <2>4. QED
      BY <1>4, <2>1, <2>2, <2>3 DEF SyncDrop, BeginStop, Goto, Registered, TypeInv,
         TypeOK, LocalsOK, Threads, Labels, Waiting, table,
             service, local, budget
<1>5. ASSUME NEW t \in Threads, SyncDropKeyError(t) PROVE TypeInv'
    BY <1>5 DEF SyncDropKeyError, Goto, Nothing, TypeInv, TypeOK, LocalsOK, Threads,
       Labels, Waiting, table, service, local, budget
<1>6. ASSUME NEW t \in Threads, SyncChoose(t) PROVE TypeInv'
    BY <1>6 DEF SyncChoose, Goto, TypeInv, TypeOK, LocalsOK, Threads, Labels, Waiting,
       table, service, local, budget
<1>7. ASSUME NEW t \in Threads, SyncKeep(t) PROVE TypeInv'
    BY <1>7 DEF SyncKeep, TypeInv, TypeOK, LocalsOK, Threads, Labels, Waiting, table,
       service, local, budget
<1>8. ASSUME NEW t \in Threads, SyncReplace(t) PROVE TypeInv'
  <2>1. PICK c \in todo[t] :
          /\ todo' = [todo EXCEPT ![t] = @ \ {c}]
          /\ cam' = [cam EXCEPT ![t] = c]
          /\ IF reg[c] = None
             THEN Goto(t, "assign") /\ UNCHANGED <<obj, cur>>
             ELSE BeginStop(t, reg[c], "assign_wait", "assign")
      BY <1>8 DEF SyncReplace
  <2>2. CASE reg[c] = None
      BY <1>8, <2>1, <2>2 DEF SyncReplace, Goto, TypeInv, TypeOK, LocalsOK, Threads,
         Labels, Waiting, table,
             service, local, budget
  <2>3. CASE reg[c] # None
    <3>1. c \in Cameras /\ reg[c] \in Recs
        BY <2>1, <2>3 DEF TypeInv, TypeOK
    <3>2. BeginStop(t, reg[c], "assign_wait", "assign")
        BY <2>1, <2>3
    <3>3. obj' \in [Recs -> Objects]
        BY <3>1, <3>2, BeginStopTypes
    <3>4. QED
        BY <1>8, <2>1, <3>1, <3>2, <3>3 DEF SyncReplace, BeginStop, Goto, TypeInv,
           TypeOK, LocalsOK, Threads, Labels, Waiting, table,
             service, local, budget
  <2>4. QED
      BY <2>2, <2>3
<1>9. ASSUME NEW t \in Threads, SyncAssign(t) PROVE TypeInv'
  <2>1. obj' \in [Recs -> Objects]
      BY <1>9, RecorderAssumption DEF TypeInv, TypeOK, SyncAssign, Free, LocalsOK,
         Objects, Procs
  <2>2. QED
      BY <1>9, <2>1 DEF SyncAssign, Goto, Free, TypeInv, TypeOK, LocalsOK, Threads,
         Labels, Waiting, table, service, local, budget
<1>10. ASSUME NEW t \in Threads, SyncEnd(t) PROVE TypeInv'
    BY <1>10 DEF SyncEnd, Goto, Registered, Nothing, TypeInv, TypeOK, LocalsOK, Threads,
       Labels, Waiting, table, service, local, budget
<1>11. ASSUME NEW t \in Threads, StopWaited(t) PROVE TypeInv'
  <2>1. pc[t] \in Waiting /\ cur[t] \in Recs
      BY <1>11 DEF StopWaited, AfterStop, TypeInv, LocalsOK, Waiting
  <2>2. obj' \in [Recs -> Objects]
      BY <1>11, <2>1, ObjectUpdates DEF StopWaited, TypeInv, TypeOK, Procs
  <2>3. lost' \in [Cameras -> Nat]
    <3>1. lost' = IF obj[cur[t]].proc = "alive"
                  THEN [lost EXCEPT ![obj[cur[t]].cam] = @ + 1] ELSE lost
        BY <1>11 DEF StopWaited
    <3>2. ASSUME NEW c PROVE [lost EXCEPT ![c] = @ + 1] \in [Cameras -> Nat]
      <4>1. lost \in [Cameras -> Nat]
          BY DEF TypeInv, TypeOK
      <4>2. CASE c \in Cameras
        <5>1. lost[c] + 1 \in Nat
            BY <4>1, <4>2
        <5>2. QED
            BY <4>1, <5>1
      <4>3. CASE c \notin Cameras
          BY <4>1, <4>3
      <4>4. QED
          BY <4>2, <4>3
    <3>3. QED
        BY <3>1, <3>2 DEF TypeInv, TypeOK
  <2>4. /\ pc' \in [Threads -> Labels]
        /\ pc'[t] \in {"drop", "assign", "halt", "idle"}
        /\ pc'[t] = "drop" => pc[t] = "drop_wait"
        /\ pc'[t] = "assign" => pc[t] = "assign_wait"
      BY <1>11, <2>1 DEF StopWaited, AfterStop, Goto, TypeInv, TypeOK, Waiting, Labels
  <2>5. /\ cur' = [cur EXCEPT ![t] = None]
        /\ \A u \in Threads \ {t} : pc'[u] = pc[u]
      BY <1>11 DEF StopWaited, Goto, TypeInv, TypeOK
  <2>6. UNCHANGED <<row, volume, reg, stopping, todo, want, cam, held,
                    edits, deaths, faults, overlap>>
      BY <1>11 DEF StopWaited, table, budget
  <2>7. TypeOK'
      BY <2>2, <2>3, <2>4, <2>5, <2>6 DEF TypeInv, TypeOK
  <2>8. ASSUME NEW u \in Threads PROVE LocalsOK(u)'
    <3>1. CASE u = t
        BY <2>1, <2>4, <2>5, <2>6, <3>1 DEF TypeInv, LocalsOK, Waiting
    <3>2. CASE u # t
        BY <2>5, <2>6, <3>2 DEF TypeInv, TypeOK, LocalsOK, Waiting
    <3>3. QED
        BY <3>1, <3>2
  <2>9. QED
      BY <2>7, <2>8 DEF TypeInv
<1>12. ASSUME SupTick PROVE TypeInv'
    BY <1>12 DEF SupTick, Goto, Enter, TypeInv, TypeOK, LocalsOK, Threads, Labels,
       Waiting, table, service, local, budget
<1>13. ASSUME SupExit PROVE TypeInv'
    BY <1>13 DEF SupExit, Goto, TypeInv, TypeOK, LocalsOK, Threads, Labels, Waiting,
       table, service, local, budget
<1>14. ASSUME CheckStart PROVE TypeInv'
  <2>1. obj' \in [Recs -> Objects]
    <3>1. PICK r \in held[Sup] : obj' = [obj EXCEPT ![r].proc = "alive"]
        BY <1>14 DEF CheckStart
    <3>2. QED
        BY <3>1, ObjectUpdates DEF TypeInv, TypeOK, Procs, Threads
  <2>2. QED
      BY <1>14, <2>1 DEF CheckStart, TypeInv, TypeOK, LocalsOK, Threads, Labels,
         Waiting, table,
             service, local, budget
<1>15. ASSUME CheckHealthy PROVE TypeInv'
  <2>1. obj' \in [Recs -> Objects]
    <3>1. PICK r \in held[Sup] : obj' = obj \/ obj' = [obj EXCEPT ![r].backoff = 1]
        BY <1>15 DEF CheckHealthy
    <3>2. [obj EXCEPT ![r].backoff = 1] \in [Recs -> Objects] /\ obj \in [Recs -> Objects]
        BY ObjectUpdates DEF TypeInv, TypeOK, Threads
    <3>3. QED
        BY <3>1, <3>2
  <2>2. QED
      BY <1>15, <2>1 DEF CheckHealthy, TypeInv, TypeOK, LocalsOK, Threads, Labels,
         Waiting, table,
             service, local, budget
<1>16. ASSUME CheckDied PROVE TypeInv'
  <2>1. obj' \in [Recs -> Objects]
    <3>1. PICK r \in held[Sup] : obj' = [obj EXCEPT ![r].proc = "none"]
        BY <1>16 DEF CheckDied
    <3>2. QED
        BY <3>1, ObjectUpdates DEF TypeInv, TypeOK, Procs, Threads
  <2>2. QED
      BY <1>16, <2>1 DEF CheckDied, Goto, TypeInv, TypeOK, LocalsOK, Threads, Labels,
         Waiting, table,
             service, local, budget
<1>17. ASSUME BackoffOver PROVE TypeInv'
  <2>1. obj' \in [Recs -> Objects]
      BY <1>17, ObjectUpdates, ZenonT(60) DEF TypeInv, TypeOK, BackoffOver, Procs, Threads,
         LocalsOK, Waiting
  <2>2. QED
      BY <1>17, <2>1 DEF BackoffOver, Goto, TypeInv, TypeOK, LocalsOK, Threads, Labels,
         Waiting, table, service, local, budget
<1>18. ASSUME SupFault PROVE TypeInv'
    BY <1>18 DEF SupFault, Goto, TypeInv, TypeOK, LocalsOK, Threads, Labels, Waiting,
       table, service, local, budget
<1>19. ASSUME SupWait PROVE TypeInv'
    BY <1>19 DEF SupWait, Goto, TypeInv, TypeOK, LocalsOK, Threads, Labels, Waiting,
       table, service, local, budget
<1>20. ASSUME NEW t \in Requests, NEW c \in Cameras, NEW on \in BOOLEAN,
             NEW until \in {"none", "open", row[c].until}, SetRecord(t, c, on, until)
       PROVE TypeInv'
  <2>1. until \in {"none", "open", "past"}
      BY DEF TypeInv, TypeOK, Rows
  <2>2. row' = [row EXCEPT ![c] = [row[c] EXCEPT !.record = on, !.until = until]]
      BY <1>20 DEF SetRecord, Edit
  <2>3. row' \in [Cameras -> Rows]
      BY <2>1, <2>2, RowUpdates DEF TypeInv, TypeOK
  <2>4. QED
      BY <1>20, <2>3 DEF SetRecord, Edit, Goto, Enter, TypeInv, TypeOK, LocalsOK,
         Threads, Labels, Waiting, table,
             service, local, budget
<1>21. ASSUME NEW t \in Requests, NEW c \in Cameras, SetLive(t, c) PROVE TypeInv'
  <2>1. row' \in [Cameras -> Rows]
      BY <1>21, RowUpdates DEF TypeInv, TypeOK, SetLive, Edit
  <2>2. QED
      BY <1>21, <2>1 DEF SetLive, Edit, Goto, Enter, TypeInv, TypeOK, LocalsOK, Threads,
         Labels, Waiting, table, service, local, budget
<1>22. ASSUME NEW t \in Requests, NEW c \in Cameras, NEW s \in Streams, SetStream(t, c, s)
       PROVE TypeInv'
  <2>1. row' \in [Cameras -> Rows]
      BY <1>22, RowUpdates DEF TypeInv, TypeOK, SetStream, Edit
  <2>2. QED
      BY <1>22, <2>1 DEF SetStream, Edit, Goto, Enter, TypeInv, TypeOK, LocalsOK,
         Threads, Labels, Waiting, table, service, local, budget
<1>23. ASSUME NEW t \in Requests, NEW c \in Cameras, Restart(t, c) PROVE TypeInv'
  <2>1. reg[c] \in Recs /\ t \in Threads
      BY <1>23 DEF Restart, TypeInv, TypeOK, Threads
  <2>2. obj' \in [Recs -> Objects]
      BY <1>23, <2>1, BeginStopTypes DEF Restart
  <2>3. QED
      BY <1>23, <2>1, <2>2 DEF Restart, BeginStop, Goto, Enter, TypeInv, TypeOK,
         LocalsOK, Threads, Labels, Waiting, table,
             service, local, budget
<1>24. ASSUME NEW t \in Requests, Shutdown(t) PROVE TypeInv'
    BY <1>24 DEF Shutdown, Registered, Goto, Enter, TypeInv, TypeOK, LocalsOK, Threads,
       Labels, Waiting, table, service, local, budget
<1>25. ASSUME NEW t \in Requests, HaltStop(t) PROVE TypeInv'
  <2>1. PICK r \in held[t] : BeginStop(t, r, "halt_wait", "halt")
      BY <1>25 DEF HaltStop
  <2>2. t \in Threads /\ r \in Recs
      BY <2>1 DEF TypeInv, TypeOK, Threads
  <2>3. obj' \in [Recs -> Objects]
      BY <2>1, <2>2, BeginStopTypes
  <2>4. QED
      BY <1>25, <2>1, <2>2, <2>3 DEF HaltStop, BeginStop, Goto, TypeInv, TypeOK,
         LocalsOK, Threads, Labels, Waiting, table,
             service, local, budget
<1>26. ASSUME NEW t \in Requests, HaltEnd(t) PROVE TypeInv'
    BY <1>26 DEF HaltEnd, Nothing, Goto, TypeInv, TypeOK, LocalsOK, Threads, Labels,
       Waiting, table, service, local, budget
<1>27. ASSUME NEW r \in Recs, FfmpegExits(r) PROVE TypeInv'
  <2>1. obj' \in [Recs -> Objects]
      BY <1>27, ObjectUpdates DEF TypeInv, TypeOK, FfmpegExits, Procs
  <2>2. QED
      BY <1>27, <2>1 DEF FfmpegExits, TypeInv, TypeOK, LocalsOK, Threads, Labels,
         Waiting, table, service, local, budget
<1>28. ASSUME NEW c \in Cameras, Elapse(c) PROVE TypeInv'
  <2>1. row' \in [Cameras -> Rows]
      BY <1>28, RowUpdates DEF TypeInv, TypeOK, Elapse
  <2>2. QED
      BY <1>28, <2>1 DEF Elapse, TypeInv, TypeOK, LocalsOK, Threads, Labels, Waiting,
         table, service, local, budget
<1>29. ASSUME NEW v \in Volumes, PoolMoves(v) PROVE TypeInv'
    BY <1>29 DEF PoolMoves, TypeInv, TypeOK, LocalsOK, Threads, Labels, Waiting, table,
       service, local, budget
<1>30. ASSUME UNCHANGED vars PROVE TypeInv'
    BY <1>30 DEF vars, TypeInv, TypeOK, LocalsOK, Threads, Labels, Waiting, table,
       service, local, budget
<1>31. QED
    BY <1>1, <1>2, <1>3, <1>4, <1>5, <1>6, <1>7, <1>8, <1>9, <1>10, <1>11, <1>12, <1>13,
       <1>14, <1>15, <1>16, <1>17, <1>18, <1>19, <1>20, <1>21, <1>22, <1>23, <1>24,
       <1>25, <1>26, <1>27, <1>28, <1>29, <1>30 DEF Next, Sync, Supervise, Request,
       Environment

-----------------------------------------------------------------------------
(* While no two threads have been inside the service together *)

\* Of a recorder thread's steps most only keep books: no recorder, no entry of the
\* table and nothing awaited changes.  Such a step keeps AloneInv if what it lists
\* to be expired or checked is right.
LEMMA Bookkeeping ==
    ASSUME TypeInv, AloneInv, NEW t \in Threads,
           UNCHANGED <<reg, obj, lost, stopping, cur>>,
           \A u \in Threads : u # t => ~Busy(u) /\ pc'[u] = pc[u],
           pc[t] \notin Waiting,
           pc'[t] \in {"idle", "exited", "sync", "expire", "drop", "build", "check"},
           stopping => ~Busy(t) /\ ~Busy(t)',
           Ripe',
           pc'[t] = "check" => \A r \in held'[t] : Owned(r)
    PROVE  AloneInv'
<1>1. \A u \in Threads : u # t => pc'[u] \in {"idle", "exited"}
    BY DEF Busy, TypeInv, TypeOK, Labels
<1>2. (OneBusy /\ Awaited /\ Replaced)'
    BY <1>1 DEF OneBusy, Busy, Awaited, Replaced, Waiting
<1>3. (Named /\ Unlost)'
    BY DEF AloneInv, Named, Unlost
<1>4. Reachable'
  <2>1. \A u \in Threads : pc[u] \notin Waiting
      BY DEF Busy, Waiting
  <2>2. QED
      BY <2>1 DEF AloneInv, Reachable, Owned, Running
<1>5. Listed'
    BY <1>1 DEF Listed, Owned
<1>6. Halting'
  <2>1. \A u \in Threads : pc'[u] \notin {"halt", "halt_wait"}
      BY <1>1
  <2>2. stopping => \A u \in Threads : ~Busy(u) /\ ~Busy(u)'
      BY <1>1 DEF Busy
  <2>3. QED
      BY <2>1, <2>2 DEF AloneInv, Halting
<1>7. QED
    BY <1>2, <1>3, <1>4, <1>5, <1>6 DEF AloneInv

\* Every step that brings no two threads together inside the service keeps the
\* nine facts of AloneInv; the steps that stop or start an ffmpeg conjunct by
\* conjunct.
LEMMA AloneStep ==
    TypeInv /\ TypeInv' /\ AloneInv /\ ~overlap' /\ [Next]_vars => AloneInv'
<1> SUFFICES ASSUME TypeInv, TypeInv', AloneInv, ~overlap', [Next]_vars PROVE AloneInv'
    OBVIOUS
<1> USE RecorderAssumption
<1>1. ASSUME NEW t \in Threads, SyncBegin(t) PROVE AloneInv'
  <2>1. \A u \in Threads : u # t => ~Busy(u) /\ pc'[u] = pc[u]
      BY <1>1 DEF SyncBegin, Goto, Busy, AloneInv, OneBusy, TypeInv, TypeOK
  <2>2. ~stopping
      BY <1>1 DEF SyncBegin, Busy, AloneInv, Halting
  <2>3. Ripe'
      BY <1>1, <2>1 DEF SyncBegin, Goto, Busy, AloneInv, Ripe, TypeInv, TypeOK, Expired, table
  <2>4. QED
      BY <1>1, <2>1, <2>2, <2>3, Bookkeeping
         DEF SyncBegin, Goto, service, TypeInv, TypeOK, Waiting
<1>2. ASSUME NEW t \in Threads, SyncExpire(t) PROVE AloneInv'
  <2>1. \A u \in Threads : u # t => ~Busy(u) /\ pc'[u] = pc[u]
      BY <1>2 DEF SyncExpire, Busy, AloneInv, OneBusy, TypeInv, TypeOK
  <2>2. ~stopping
      BY <1>2 DEF SyncExpire, Busy, AloneInv, Halting
  <2>3. Ripe'
      BY <1>2, <2>1 DEF SyncExpire, Busy, AloneInv, Ripe, TypeInv, TypeOK
  <2>4. QED
      BY <1>2, <2>1, <2>2, <2>3, Bookkeeping
         DEF SyncExpire, service, TypeInv, TypeOK, Waiting
<1>3. ASSUME NEW t \in Threads, SyncRead(t) PROVE AloneInv'
  <2>1. \A u \in Threads : u # t => ~Busy(u) /\ pc'[u] = pc[u]
      BY <1>3 DEF SyncRead, Goto, Busy, AloneInv, OneBusy, TypeInv, TypeOK
  <2>2. ~stopping
      BY <1>3 DEF SyncRead, Busy, AloneInv, Halting
  <2>3. Ripe'
      BY <1>3, <2>1 DEF SyncRead, Goto, Busy, AloneInv, Ripe, TypeInv, TypeOK
  <2>4. QED
      BY <1>3, <2>1, <2>2, <2>3, Bookkeeping
         DEF SyncRead, Goto, service, TypeInv, TypeOK, Waiting
<1>4. ASSUME NEW t \in Threads, SyncDrop(t) PROVE AloneInv'
  <2>a. \A u \in Threads : u # t => pc[u] \in {"idle", "exited"}
      BY <1>4 DEF SyncDrop, BeginStop, Goto, Registered, OneBusy, AloneInv, Busy,
         Threads, Labels, TypeInv, TypeOK
  <2>b. PICK c \in todo[t] \cap Registered :
          reg' = [reg EXCEPT ![c] = None] /\ BeginStop(t, reg[c], "drop_wait", "drop")
      BY <1>4 DEF SyncDrop
  <2>c. c \in Cameras /\ reg[c] \in Recs /\ obj[reg[c]].cam = c
      BY <2>b DEF Registered, AloneInv, Named, TypeInv, TypeOK
  <2>d. StopEffects(t, reg[c], "drop_wait", "drop")
      BY <2>b, <2>c, BeginStopEffects
  <2>1. Ripe'
      BY <1>4, <2>a DEF SyncDrop, BeginStop, Goto, Registered, AloneInv, Ripe, TypeInv,
         TypeOK, LocalsOK, Threads, table, service, local, budget
  <2>2. OneBusy'
      BY <1>4, <2>a DEF SyncDrop, BeginStop, Goto, Registered, AloneInv, OneBusy, Busy,
         TypeInv, TypeOK, LocalsOK, Threads, table, service, local, budget
  <2>3. Named'
      BY <1>4, <2>a DEF SyncDrop, BeginStop, Goto, Registered, AloneInv, Named, TypeInv,
         TypeOK, LocalsOK, Threads, table, service, local, budget
  <2>4. Reachable'
      BY <1>4, <2>a DEF SyncDrop, BeginStop, Goto, Registered, AloneInv, Reachable,
         Owned, Running, Waiting, Named, TypeInv, TypeOK, LocalsOK, Threads, table,
         service, local, budget
  <2>5. Awaited'
      <3>1. SUFFICES ASSUME NEW u \in Threads, pc'[u] \in Waiting
                     PROVE  /\ obj'[cur'[u]].proc \in {"dying", "exited"}
                            /\ obj'[cur'[u]].cam \in Cameras
                            /\ reg'[obj'[cur'[u]].cam] \in {cur'[u], None}
          BY DEF Awaited
      <3>2. u = t
          BY <2>a, <2>d, <3>1 DEF StopEffects, Waiting
      <3>3. /\ obj'[reg[c]].proc \in {"dying", "exited"}
            /\ cur'[t] = reg[c]
            /\ obj'[reg[c]].cam = c
          BY <2>c, <2>d, <3>1, <3>2 DEF StopEffects, Waiting
      <3>4. reg'[c] = None
          BY <2>b, <2>c DEF TypeInv, TypeOK
      <3> QED
          BY <2>c, <3>2, <3>3, <3>4
  <2>6. Replaced'
      BY <1>4, <2>a DEF SyncDrop, BeginStop, Goto, Registered, AloneInv, Replaced,
         Running, Awaited, Waiting, TypeInv, TypeOK, LocalsOK, Threads, table, service,
         local, budget
  <2>7. Listed'
      BY <2>a, <2>d DEF StopEffects, Listed
  <2>8. Halting'
      BY <1>4, <2>a DEF SyncDrop, BeginStop, Goto, Registered, AloneInv, Halting, Busy,
         Running, Named, Reachable, Owned, Waiting, TypeInv, TypeOK, LocalsOK, Threads,
         table, service, local, budget
  <2>9. Unlost'
      BY <1>4, <2>a DEF SyncDrop, BeginStop, Goto, Registered, AloneInv, Unlost,
         Awaited, Waiting, TypeInv, TypeOK, LocalsOK, Threads, table, service, local,
         budget
  <2>10. QED
      BY <2>1, <2>2, <2>3, <2>4, <2>5, <2>6, <2>7, <2>8, <2>9 DEF AloneInv
<1>5. ASSUME NEW t \in Threads, SyncDropKeyError(t) PROVE AloneInv'
  <2>1. \A u \in Threads : u # t => ~Busy(u) /\ pc'[u] = pc[u]
      BY <1>5 DEF SyncDropKeyError, Goto, Busy, AloneInv, OneBusy, TypeInv, TypeOK
  <2>2. ~stopping
      BY <1>5 DEF SyncDropKeyError, Busy, AloneInv, Halting
  <2>3. Ripe'
      BY <1>5, <2>1 DEF SyncDropKeyError, Goto, Busy, AloneInv, Ripe, TypeInv, TypeOK
  <2>4. QED
      BY <1>5, <2>1, <2>2, <2>3, Bookkeeping
         DEF SyncDropKeyError, Goto, service, TypeInv, TypeOK, Waiting
<1>6. ASSUME NEW t \in Threads, SyncChoose(t) PROVE AloneInv'
  <2>1. \A u \in Threads : u # t => ~Busy(u) /\ pc'[u] = pc[u]
      BY <1>6 DEF SyncChoose, Goto, Busy, AloneInv, OneBusy, TypeInv, TypeOK
  <2>2. ~stopping
      BY <1>6 DEF SyncChoose, Busy, AloneInv, Halting
  <2>3. Ripe'
      BY <1>6, <2>1 DEF SyncChoose, Goto, Busy, AloneInv, Ripe, TypeInv, TypeOK
  <2>4. QED
      BY <1>6, <2>1, <2>2, <2>3, Bookkeeping
         DEF SyncChoose, Goto, service, TypeInv, TypeOK, Waiting
<1>7. ASSUME NEW t \in Threads, SyncKeep(t) PROVE AloneInv'
  <2>1. \A u \in Threads : u # t => ~Busy(u) /\ pc'[u] = pc[u]
      BY <1>7 DEF SyncKeep, Busy, AloneInv, OneBusy, TypeInv, TypeOK
  <2>2. ~stopping
      BY <1>7 DEF SyncKeep, Busy, AloneInv, Halting
  <2>3. Ripe'
      BY <1>7, <2>1 DEF SyncKeep, Busy, AloneInv, Ripe, TypeInv, TypeOK
  <2>4. QED
      BY <1>7, <2>1, <2>2, <2>3, Bookkeeping
         DEF SyncKeep, service, TypeInv, TypeOK, Waiting
<1>8. ASSUME NEW t \in Threads, SyncReplace(t) PROVE AloneInv'
  <2>a. \A u \in Threads : u # t => pc[u] \in {"idle", "exited"}
      BY <1>8 DEF SyncReplace, BeginStop, Goto, OneBusy, AloneInv, Busy, Threads,
         Labels, TypeInv, TypeOK
  <2>b. PICK c \in todo[t] :
          /\ cam' = [cam EXCEPT ![t] = c] /\ UNCHANGED <<reg, stopping, held>>
          /\ IF reg[c] = None
             THEN Goto(t, "assign") /\ UNCHANGED <<obj, cur>>
             ELSE BeginStop(t, reg[c], "assign_wait", "assign")
      BY <1>8 DEF SyncReplace
  <2>c. c \in Cameras /\ cam'[t] = c /\ pc[t] = "build"
      BY <1>8, <2>b DEF SyncReplace, TypeInv, TypeOK
  <2>d. reg[c] # None =>
          /\ reg[c] \in Recs /\ obj[reg[c]].cam = c
          /\ StopEffects(t, reg[c], "assign_wait", "assign")
      BY <2>b, <2>c, BeginStopEffects DEF AloneInv, Named, TypeInv, TypeOK
  <2>e. reg[c] = None => obj' = obj /\ cur' = cur /\ pc' = [pc EXCEPT ![t] = "assign"]
      BY <2>b DEF Goto
  <2>1. Ripe'
      BY <1>8, <2>a DEF SyncReplace, BeginStop, Goto, AloneInv, Ripe, TypeInv, TypeOK,
         LocalsOK, Threads, table, service, local, budget
  <2>2. OneBusy'
      BY <1>8, <2>a DEF SyncReplace, BeginStop, Goto, AloneInv, OneBusy, Busy, TypeInv,
         TypeOK, LocalsOK, Threads, table, service, local, budget
  <2>3. Named'
    <3>1. \A x \in Cameras : reg[x] # None => reg[x] \in Recs /\ obj[reg[x]].cam = x
        BY DEF AloneInv, Named, TypeInv, TypeOK
    <3>2. \A x \in Recs : obj'[x].cam = obj[x].cam
        BY <2>d, <2>e DEF StopEffects
    <3>3. QED
        BY <2>b, <3>1, <3>2 DEF Named
  <2>4. Reachable'
    <3>1. CASE reg[c] = None
        BY <2>a, <2>b, <2>c, <2>e, <3>1 DEF AloneInv, Reachable, Owned, Running,
           Waiting, TypeInv, TypeOK
    <3>2. CASE reg[c] # None
        BY <2>a, <2>b, <2>c, <2>d, <3>2, ZenonT(60) DEF StopEffects, AloneInv, Reachable, Owned,
           Running, Waiting, TypeInv, TypeOK
    <3>3. QED
        BY <3>1, <3>2
  <2>5. Awaited'
    <3>1. ASSUME NEW u \in Threads, pc'[u] \in Waiting
          PROVE  u = t /\ reg[c] # None /\ cur'[t] = reg[c] /\ obj[reg[c]].proc # "none"
        BY <2>a, <2>c, <2>d, <2>e, <3>1, ZenonT(60) DEF StopEffects, Waiting, TypeInv, TypeOK
    <3>2. QED
        BY <2>b, <2>c, <2>d, <3>1 DEF StopEffects, Awaited
  <2>6. Replaced'
    <3>1. CASE reg[c] = None
        BY <2>a, <2>b, <2>c, <2>e, <3>1 DEF AloneInv, Replaced, Running, TypeInv, TypeOK
    <3>2. CASE reg[c] # None
        BY <2>a, <2>b, <2>c, <2>d, <3>2 DEF StopEffects, AloneInv, Replaced, Running,
           TypeInv, TypeOK
    <3>3. QED
        BY <3>1, <3>2
  <2>7. Listed'
    <3>1. \A u \in Threads : pc'[u] \in {"idle", "exited", "assign", "assign_wait"}
      <4>1. pc'[t] \in {"assign", "assign_wait"}
          BY <2>b DEF BeginStop, Goto, TypeInv, TypeOK
      <4>2. \A u \in Threads : u # t => pc'[u] = pc[u]
          BY <2>b DEF BeginStop, Goto, TypeInv, TypeOK
      <4>3. QED
          BY <2>a, <4>1, <4>2
    <3>2. QED
        BY <3>1 DEF Listed
  <2>8. Halting'
    <3>1. CASE reg[c] = None
        BY <2>a, <2>b, <2>c, <2>e, <3>1, ZenonT(60) DEF AloneInv, Halting, Busy, Running, TypeInv,
           TypeOK
    <3>2. CASE reg[c] # None
        BY <2>a, <2>b, <2>c, <2>d, <3>2 DEF StopEffects, AloneInv, Halting, Busy,
           Running, TypeInv, TypeOK
    <3>3. QED
        BY <3>1, <3>2
  <2>9. Unlost'
      BY <1>8, <2>a DEF SyncReplace, BeginStop, Goto, AloneInv, Unlost, Awaited,
         Waiting, TypeInv, TypeOK, LocalsOK, Threads, table, service, local, budget
  <2>10. QED
      BY <2>1, <2>2, <2>3, <2>4, <2>5, <2>6, <2>7, <2>8, <2>9 DEF AloneInv
<1>9. ASSUME NEW t \in Threads, SyncAssign(t) PROVE AloneInv'
  <2>a. \A u \in Threads : u # t => pc[u] \in {"idle", "exited"}
      BY <1>9 DEF SyncAssign, Goto, Free, InUse, OneBusy, AloneInv, Busy, Threads,
         Labels, TypeInv, TypeOK
  <2>b. PICK r \in Free :
          /\ obj' = [obj EXCEPT ![r] =
                        [cam |-> cam[t], stream |-> want[t][cam[t]][1],
                         base |-> want[t][cam[t]][2], proc |-> "none", backoff |-> 1]]
          /\ reg' = [reg EXCEPT ![cam[t]] = r]
      BY <1>9 DEF SyncAssign
  <2>c. /\ r \in Recs /\ ~Running(r) /\ \A x \in Cameras : reg[x] # r
        /\ cam[t] \in Cameras /\ pc[t] = "assign"
      BY <1>9, <2>b DEF SyncAssign, Free, InUse, TypeInv, LocalsOK
  <2>d. /\ obj'[r].cam = cam[t] /\ obj'[r].proc = "none"
        /\ \A x \in Recs : x # r => obj'[x] = obj[x]
        /\ reg'[cam[t]] = r /\ \A x \in Cameras : x # cam[t] => reg'[x] = reg[x]
      BY <2>b, <2>c DEF TypeInv, TypeOK
  <2>e. pc' = [pc EXCEPT ![t] = "build"] /\ cur' = cur
      BY <1>9 DEF SyncAssign, Goto
  <2>1. Ripe'
      BY <1>9, <2>a DEF SyncAssign, Goto, Free, InUse, AloneInv, Ripe, TypeInv, TypeOK,
         LocalsOK, Threads, table, service, local, budget
  <2>2. OneBusy'
      BY <1>9, <2>a DEF SyncAssign, Goto, Free, InUse, AloneInv, OneBusy, Busy, TypeInv,
         TypeOK, LocalsOK, Threads, table, service, local, budget
  <2>3. Named'
    <3>1. ASSUME NEW x \in Cameras, reg'[x] # None PROVE obj'[reg'[x]].cam = x
      <4>1. CASE x = cam[t]
          BY <2>d, <4>1
      <4>2. CASE x # cam[t]
        <5>1. reg'[x] = reg[x] /\ reg[x] \in Recs /\ reg[x] # r
            BY <2>c, <2>d, <3>1, <4>2 DEF TypeInv, TypeOK
        <5>2. QED
            BY <2>d, <3>1, <5>1 DEF AloneInv, Named
      <4>3. QED
          BY <4>1, <4>2
    <3>2. QED
        BY <3>1 DEF Named
  <2>4. Reachable'
    <3>1. ASSUME NEW x \in Recs, Running(x)' PROVE Owned(x)'
      <4>1. x # r /\ Running(x) /\ obj'[x] = obj[x]
          BY <2>d, <3>1 DEF Running
      <4>2. Owned(x)
          BY <2>a, <2>c, <4>1 DEF AloneInv, Reachable, Waiting
      <4>3. obj[x].cam # cam[t]
        <5>1. x # None
            OBVIOUS
        <5>2. obj[x].cam = cam[t] => reg[cam[t]] = x
            BY <4>2 DEF Owned
        <5>3. QED
            BY <2>c, <4>1, <5>1, <5>2 DEF AloneInv, Replaced
      <4>4. QED
          BY <2>d, <4>1, <4>2, <4>3 DEF Owned
    <3>2. QED
        BY <3>1 DEF Reachable
  <2>5. Awaited'
      BY <1>9, <2>a, ZenonT(60) DEF SyncAssign, Goto, Free, InUse, AloneInv, Awaited, Waiting,
         Owned, Running, TypeInv, TypeOK, LocalsOK, Threads, table, service, local,
         budget
  <2>6. Replaced'
      BY <1>9, <2>a DEF SyncAssign, Goto, Free, InUse, AloneInv, Replaced, Running,
         Awaited, Waiting, TypeInv, TypeOK, LocalsOK, Threads, table, service, local,
         budget
  <2>7. Listed'
      BY <1>9, <2>a DEF SyncAssign, Goto, Free, InUse, AloneInv, Listed, Owned, Named,
         Awaited, Waiting, TypeInv, TypeOK, LocalsOK, Threads, table, service, local,
         budget
  <2>8. Halting'
      BY <1>9, <2>a DEF SyncAssign, Goto, Free, InUse, AloneInv, Halting, Busy, Running,
         Named, Reachable, Owned, Waiting, TypeInv, TypeOK, LocalsOK, Threads, table,
         service, local, budget
  <2>9. Unlost'
      BY <1>9, <2>a DEF SyncAssign, Goto, Free, InUse, AloneInv, Unlost, Awaited,
         Waiting, TypeInv, TypeOK, LocalsOK, Threads, table, service, local, budget
  <2>10. QED
      BY <2>1, <2>2, <2>3, <2>4, <2>5, <2>6, <2>7, <2>8, <2>9 DEF AloneInv
<1>10. ASSUME NEW t \in Threads, SyncEnd(t) PROVE AloneInv'
  <2>1. \A u \in Threads : u # t => ~Busy(u) /\ pc'[u] = pc[u]
      BY <1>10 DEF SyncEnd, Goto, Busy, AloneInv, OneBusy, TypeInv, TypeOK
  <2>2. ~stopping
      BY <1>10 DEF SyncEnd, Busy, AloneInv, Halting
  <2>3. Ripe'
      BY <1>10, <2>1 DEF SyncEnd, Goto, Busy, AloneInv, Ripe, TypeInv, TypeOK
  <2>4. \A r \in held'[t] : Owned(r)
      BY <1>10 DEF SyncEnd, Registered, AloneInv, Named, Owned, TypeInv, TypeOK
  <2>5. QED
      BY <1>10, <2>1, <2>2, <2>3, <2>4, Bookkeeping
         DEF SyncEnd, Goto, service, TypeInv, TypeOK, Waiting
<1>11. ASSUME NEW t \in Threads, StopWaited(t) PROVE AloneInv'
  <2>a. \A u \in Threads : u # t => pc[u] \in {"idle", "exited"}
      BY <1>11 DEF StopWaited, Goto, AfterStop, OneBusy, AloneInv, Busy, Threads,
         Labels, TypeInv, TypeOK
  <2>1. Ripe'
      BY <1>11, <2>a DEF StopWaited, Goto, AfterStop, AloneInv, Ripe, TypeInv, TypeOK,
         LocalsOK, Threads, table, service, local, budget
  <2>2. OneBusy'
      BY <1>11, <2>a DEF StopWaited, Goto, AfterStop, AloneInv, OneBusy, Busy, TypeInv,
         TypeOK, LocalsOK, Threads, table, service, local, budget
  <2>3. Named'
      BY <1>11, <2>a DEF StopWaited, Goto, AfterStop, AloneInv, Named, TypeInv, TypeOK,
         LocalsOK, Threads, table, service, local, budget
  <2>4. Reachable'
      BY <1>11, <2>a DEF StopWaited, Goto, AfterStop, AloneInv, Reachable, Owned,
         Running, Waiting, Named, TypeInv, TypeOK, LocalsOK, Threads, table, service,
         local, budget
  <2>5. Awaited'
      BY <1>11, <2>a DEF StopWaited, Goto, AfterStop, AloneInv, Awaited, Waiting, Owned,
         Running, TypeInv, TypeOK, LocalsOK, Threads, table, service, local, budget
  <2>6. Replaced'
      BY <1>11, <2>a DEF StopWaited, Goto, AfterStop, AloneInv, Replaced, Running,
         Awaited, Waiting, TypeInv, TypeOK, LocalsOK, Threads, table, service, local,
         budget
  <2>7. Listed'
      BY <1>11, <2>a DEF StopWaited, Goto, AfterStop, AloneInv, Listed, Owned, Named,
         Awaited, Waiting, TypeInv, TypeOK, LocalsOK, Threads, table, service, local,
         budget
  <2>8. Halting'
      BY <1>11, <2>a DEF StopWaited, Goto, AfterStop, AloneInv, Halting, Busy, Running,
         Named, Reachable, Owned, Waiting, TypeInv, TypeOK, LocalsOK, Threads, table,
         service, local, budget
  <2>9. Unlost'
      BY <1>11, <2>a DEF StopWaited, Goto, AfterStop, AloneInv, Unlost, Awaited,
         Waiting, TypeInv, TypeOK, LocalsOK, Threads, table, service, local, budget
  <2>10. QED
      BY <2>1, <2>2, <2>3, <2>4, <2>5, <2>6, <2>7, <2>8, <2>9 DEF AloneInv
<1>12. ASSUME SupTick PROVE AloneInv'
  <2>1. \A u \in Threads : u # Sup => ~Busy(u) /\ pc'[u] = pc[u]
      BY <1>12 DEF SupTick, Goto, Enter, Threads, TypeInv, TypeOK
  <2>2. Ripe'
      BY <1>12, <2>1 DEF SupTick, Goto, Busy, AloneInv, Ripe, table, TypeInv, TypeOK
  <2>3. QED
      BY <1>12, <2>1, <2>2, Bookkeeping
         DEF SupTick, Goto, service, Busy, Threads, Waiting, TypeInv, TypeOK
<1>13. ASSUME SupExit PROVE AloneInv'
  <2>1. \A u \in Threads : pc'[u] \notin {"exited"} => pc'[u] = pc[u]
      BY <1>13 DEF SupExit, Goto, TypeInv, TypeOK
  <2>2. \A u \in Threads : Busy(u)' <=> Busy(u)
      BY <1>13 DEF SupExit, Goto, Busy, Threads, TypeInv, TypeOK
  <2>3. UNCHANGED <<reg, obj, lost, stopping, row, todo, cam, cur, held>>
      BY <1>13 DEF SupExit, service, table
  <2>4. (Ripe /\ Awaited /\ Replaced /\ Listed)'
      BY <2>1, <2>3 DEF AloneInv, Ripe, Awaited, Replaced, Listed, Owned, Running, Waiting
  <2>5. (OneBusy /\ Named /\ Unlost)'
      BY <2>2, <2>3 DEF AloneInv, OneBusy, Named, Unlost
  <2>6. Halting'
      BY <2>1, <2>2, <2>3 DEF AloneInv, Halting, Busy, Running
  <2>7. Reachable'
      BY <1>13, <2>3 DEF SupExit, Goto, AloneInv, Reachable, Owned, Running, Waiting, Threads,
         TypeInv, TypeOK
  <2>8. QED
      BY <2>4, <2>5, <2>6, <2>7 DEF AloneInv
<1>14. ASSUME CheckStart PROVE AloneInv'
  <2>a. \A u \in Threads : u # Sup => pc[u] \in {"idle", "exited"}
      BY <1>14 DEF CheckStart, OneBusy, AloneInv, Busy, Threads, Labels, TypeInv, TypeOK
  <2>b. PICK r \in held[Sup] : obj' = [obj EXCEPT ![r].proc = "alive"]
      BY <1>14 DEF CheckStart
  <2>c. r \in Recs /\ Owned(r) /\ pc[Sup] = "check" /\ UNCHANGED <<reg, pc, cur>>
      BY <1>14, <2>b DEF CheckStart, local, service, AloneInv, Listed, TypeInv, TypeOK,
         Threads
  <2>d. /\ \A x \in Recs : obj'[x].cam = obj[x].cam
        /\ \A x \in Recs : x # r => obj'[x].proc = obj[x].proc
      BY <2>b, <2>c DEF TypeInv, TypeOK, Objects
  <2>1. Ripe'
      BY <1>14, <2>a DEF CheckStart, AloneInv, Ripe, TypeInv, TypeOK, LocalsOK, Threads,
         table, service, local, budget
  <2>2. OneBusy'
      BY <1>14, <2>a DEF CheckStart, AloneInv, OneBusy, Busy, TypeInv, TypeOK, LocalsOK,
         Threads, table, service, local, budget
  <2>3. Named'
      BY <2>c, <2>d DEF AloneInv, Named, TypeInv, TypeOK
  <2>4. Reachable'
      BY <2>a, <2>c, <2>d DEF AloneInv, Reachable, Owned, Running, Waiting, Threads
  <2>5. Awaited'
      BY <1>14, <2>a DEF CheckStart, AloneInv, Awaited, Waiting, Owned, Running,
         TypeInv, TypeOK, LocalsOK, Threads, table, service, local, budget
  <2>6. Replaced'
      BY <1>14, <2>a DEF CheckStart, AloneInv, Replaced, Running, Awaited, Waiting,
         TypeInv, TypeOK, LocalsOK, Threads, table, service, local, budget
  <2>7. Listed'
      BY <1>14, <2>a DEF CheckStart, AloneInv, Listed, Owned, Named, Awaited, Waiting,
         TypeInv, TypeOK, LocalsOK, Threads, table, service, local, budget
  <2>8. Halting'
      BY <1>14, <2>a DEF CheckStart, AloneInv, Halting, Busy, Running, Named, Reachable,
         Owned, Waiting, TypeInv, TypeOK, LocalsOK, Threads, table, service, local,
         budget
  <2>9. Unlost'
      BY <1>14, <2>a DEF CheckStart, AloneInv, Unlost, Awaited, Waiting, TypeInv,
         TypeOK, LocalsOK, Threads, table, service, local, budget
  <2>10. QED
      BY <2>1, <2>2, <2>3, <2>4, <2>5, <2>6, <2>7, <2>8, <2>9 DEF AloneInv
<1>15. ASSUME CheckHealthy PROVE AloneInv'
  <2>a. \A u \in Threads : u # Sup => pc[u] \in {"idle", "exited"}
      BY <1>15 DEF CheckHealthy, OneBusy, AloneInv, Busy, Threads, Labels, TypeInv,
         TypeOK
  <2>b. PICK r \in held[Sup] : obj' = obj \/ obj' = [obj EXCEPT ![r].backoff = 1]
      BY <1>15 DEF CheckHealthy
  <2>c. r \in Recs /\ Owned(r) /\ pc[Sup] = "check" /\ UNCHANGED <<reg, pc, cur>>
      BY <1>15, <2>b DEF CheckHealthy, local, service, AloneInv, Listed, TypeInv,
         TypeOK, Threads
  <2>d. /\ \A x \in Recs : obj'[x].cam = obj[x].cam
        /\ \A x \in Recs : obj'[x].proc = obj[x].proc
    <3>1. CASE obj' = obj
        BY <3>1
    <3>2. CASE obj' = [obj EXCEPT ![r].backoff = 1]
        BY <2>c, <3>2 DEF TypeInv, TypeOK, Objects
    <3>3. QED
        BY <2>b, <3>1, <3>2
  <2>1. Ripe'
      BY <1>15, <2>a DEF CheckHealthy, AloneInv, Ripe, TypeInv, TypeOK, LocalsOK,
         Threads, table, service, local, budget
  <2>2. OneBusy'
      BY <1>15, <2>a DEF CheckHealthy, AloneInv, OneBusy, Busy, TypeInv, TypeOK,
         LocalsOK, Threads, table, service, local, budget
  <2>3. Named'
      BY <2>c, <2>d DEF AloneInv, Named, TypeInv, TypeOK
  <2>4. Reachable'
      BY <2>a, <2>c, <2>d DEF AloneInv, Reachable, Owned, Running, Waiting, Threads
  <2>5. Awaited'
      BY <1>15, <2>a DEF CheckHealthy, AloneInv, Awaited, Waiting, Owned, Running,
         TypeInv, TypeOK, LocalsOK, Threads, table, service, local, budget
  <2>6. Replaced'
      BY <1>15, <2>a DEF CheckHealthy, AloneInv, Replaced, Running, Awaited, Waiting,
         TypeInv, TypeOK, LocalsOK, Threads, table, service, local, budget
  <2>7. Listed'
      BY <1>15, <2>a DEF CheckHealthy, AloneInv, Listed, Owned, Named, Awaited, Waiting,
         TypeInv, TypeOK, LocalsOK, Threads, table, service, local, budget
  <2>8. Halting'
      BY <1>15, <2>a DEF CheckHealthy, AloneInv, Halting, Busy, Running, Named,
         Reachable, Owned, Waiting, TypeInv, TypeOK, LocalsOK, Threads, table, service,
         local, budget
  <2>9. Unlost'
      BY <1>15, <2>a DEF CheckHealthy, AloneInv, Unlost, Awaited, Waiting, TypeInv,
         TypeOK, LocalsOK, Threads, table, service, local, budget
  <2>10. QED
      BY <2>1, <2>2, <2>3, <2>4, <2>5, <2>6, <2>7, <2>8, <2>9 DEF AloneInv
<1>16. ASSUME CheckDied PROVE AloneInv'
  <2>1. \A u \in Threads : u # Sup => pc'[u] \in {"idle", "exited"}
      BY <1>16 DEF CheckDied, Goto, Busy, AloneInv, OneBusy, Threads, Labels, TypeInv, TypeOK
  <2>2. PICK r \in held[Sup] :
          /\ obj[r].proc = "exited" /\ obj' = [obj EXCEPT ![r].proc = "none"]
          /\ cur' = [cur EXCEPT ![Sup] = r]
          /\ held' = [held EXCEPT ![Sup] = @ \ {r}]
      BY <1>16 DEF CheckDied
  <2>3. Sup \in Threads /\ pc[Sup] = "check" /\ pc'[Sup] = "backoff"
      BY <1>16 DEF CheckDied, Goto, Threads, TypeInv, TypeOK
  <2>4. ~stopping /\ UNCHANGED <<reg, lost, stopping>>
      BY <1>16, <2>3 DEF CheckDied, Busy, AloneInv, Halting
  <2>5. /\ \A x \in Recs : obj'[x].cam = obj[x].cam
        /\ \A x \in Recs : Running(x)' => Running(x)
      BY <2>2 DEF Running, TypeInv, TypeOK, Objects
  <2>6. \A u \in Threads : pc[u] \notin Waiting
      BY <2>3 DEF AloneInv, OneBusy, Busy, Waiting
  <2>7. (Ripe /\ Awaited /\ Replaced)'
      BY <2>1, <2>3 DEF Ripe, Awaited, Replaced, Waiting
  <2>8. (OneBusy /\ Halting /\ Unlost)'
      BY <2>1, <2>3, <2>4 DEF AloneInv, OneBusy, Busy, Halting, Unlost
  <2>9. Named'
      BY <2>4, <2>5 DEF AloneInv, Named, TypeInv, TypeOK
  <2>10. Reachable'
      BY <2>4, <2>5, <2>6 DEF AloneInv, Reachable, Owned
  <2>11. Listed'
    <3>1. \A x \in held[Sup] : Owned(x)
        BY <2>3 DEF AloneInv, Listed
    <3>2. \A x \in held[Sup] : Owned(x)'
        BY <2>3, <2>4, <2>5, <3>1 DEF Owned, TypeInv, TypeOK
    <3>3. cur'[Sup] = r /\ held'[Sup] \subseteq held[Sup]
        BY <2>2, <2>3 DEF TypeInv, TypeOK
    <3>4. QED
        BY <2>1, <3>2, <3>3 DEF Listed
  <2>12. QED
      BY <2>7, <2>8, <2>9, <2>10, <2>11 DEF AloneInv
<1>17. ASSUME BackoffOver PROVE AloneInv'
  <2>a. \A u \in Threads : u # Sup => pc[u] \in {"idle", "exited"}
      BY <1>17 DEF BackoffOver, Goto, OneBusy, AloneInv, Busy, Threads, Labels, TypeInv,
         TypeOK
  <2>b. /\ cur[Sup] \in Recs /\ Owned(cur[Sup]) /\ pc[Sup] = "backoff" /\ UNCHANGED reg
        /\ \A t \in Threads : pc[t] \notin Waiting
      BY <1>17, <2>a DEF BackoffOver, AloneInv, Listed, TypeInv, LocalsOK, Threads,
         Waiting
  <2>c. /\ \A x \in Recs : obj'[x].cam = obj[x].cam
        /\ \A x \in Recs : x # cur[Sup] => obj'[x].proc = obj[x].proc
      BY <1>17, <2>b DEF BackoffOver, TypeInv, TypeOK, Objects
  <2>1. Ripe'
      BY <1>17, <2>a DEF BackoffOver, Goto, AloneInv, Ripe, TypeInv, TypeOK, LocalsOK,
         Threads, table, service, local, budget
  <2>2. OneBusy'
      BY <1>17, <2>a DEF BackoffOver, Goto, AloneInv, OneBusy, Busy, TypeInv, TypeOK,
         LocalsOK, Threads, table, service, local, budget
  <2>3. Named'
      BY <1>17, <2>a DEF BackoffOver, Goto, AloneInv, Named, TypeInv, TypeOK, LocalsOK,
         Threads, table, service, local, budget
  <2>4. Reachable'
      BY <2>b, <2>c DEF AloneInv, Reachable, Owned, Running
  <2>5. Awaited'
      BY <1>17, <2>a DEF BackoffOver, Goto, AloneInv, Awaited, Waiting, Owned, Running,
         TypeInv, TypeOK, LocalsOK, Threads, table, service, local, budget
  <2>6. Replaced'
      BY <1>17, <2>a DEF BackoffOver, Goto, AloneInv, Replaced, Running, Awaited,
         Waiting, TypeInv, TypeOK, LocalsOK, Threads, table, service, local, budget
  <2>7. Listed'
      BY <1>17, <2>a DEF BackoffOver, Goto, AloneInv, Listed, Owned, Named, Awaited,
         Waiting, TypeInv, TypeOK, LocalsOK, Threads, table, service, local, budget
  <2>8. Halting'
      BY <1>17, <2>a DEF BackoffOver, Goto, AloneInv, Halting, Busy, Running, Named,
         Reachable, Owned, Waiting, TypeInv, TypeOK, LocalsOK, Threads, table, service,
         local, budget
  <2>9. Unlost'
      BY <1>17, <2>a DEF BackoffOver, Goto, AloneInv, Unlost, Awaited, Waiting, TypeInv,
         TypeOK, LocalsOK, Threads, table, service, local, budget
  <2>10. QED
      BY <2>1, <2>2, <2>3, <2>4, <2>5, <2>6, <2>7, <2>8, <2>9 DEF AloneInv
<1>18. ASSUME SupFault PROVE AloneInv'
  <2>a. \A u \in Threads : u # Sup => pc[u] \in {"idle", "exited"}
      BY <1>18 DEF SupFault, Goto, OneBusy, AloneInv, Busy, Threads, Labels, TypeInv,
         TypeOK
  <2>1. Ripe'
      BY <1>18, <2>a DEF SupFault, Goto, AloneInv, Ripe, TypeInv, TypeOK, LocalsOK,
         Threads, table, service, local, budget
  <2>2. OneBusy'
      BY <1>18, <2>a DEF SupFault, Goto, AloneInv, OneBusy, Busy, TypeInv, TypeOK,
         LocalsOK, Threads, table, service, local, budget
  <2>3. Named'
      BY <1>18, <2>a DEF SupFault, Goto, AloneInv, Named, TypeInv, TypeOK, LocalsOK,
         Threads, table, service, local, budget
  <2>4. Reachable'
      BY <1>18, <2>a DEF SupFault, Goto, AloneInv, Reachable, Owned, Running, Waiting,
         Named, TypeInv, TypeOK, LocalsOK, Threads, table, service, local, budget
  <2>5. Awaited'
      BY <1>18, <2>a DEF SupFault, Goto, AloneInv, Awaited, Waiting, Owned, Running,
         TypeInv, TypeOK, LocalsOK, Threads, table, service, local, budget
  <2>6. Replaced'
      BY <1>18, <2>a DEF SupFault, Goto, AloneInv, Replaced, Running, Awaited, Waiting,
         TypeInv, TypeOK, LocalsOK, Threads, table, service, local, budget
  <2>7. Listed'
      BY <1>18, <2>a DEF SupFault, Goto, AloneInv, Listed, Owned, Named, Awaited,
         Waiting, TypeInv, TypeOK, LocalsOK, Threads, table, service, local, budget
  <2>8. Halting'
      BY <1>18, <2>a DEF SupFault, Goto, AloneInv, Halting, Busy, Running, Named,
         Reachable, Owned, Waiting, TypeInv, TypeOK, LocalsOK, Threads, table, service,
         local, budget
  <2>9. Unlost'
      BY <1>18, <2>a DEF SupFault, Goto, AloneInv, Unlost, Awaited, Waiting, TypeInv,
         TypeOK, LocalsOK, Threads, table, service, local, budget
  <2>10. QED
      BY <2>1, <2>2, <2>3, <2>4, <2>5, <2>6, <2>7, <2>8, <2>9 DEF AloneInv
<1>19. ASSUME SupWait PROVE AloneInv'
  <2>1. \A u \in Threads : u # Sup => ~Busy(u) /\ pc'[u] = pc[u]
      BY <1>19 DEF SupWait, Goto, Busy, AloneInv, OneBusy, Threads, TypeInv, TypeOK
  <2>2. Ripe'
      BY <1>19, <2>1 DEF SupWait, Goto, Busy, AloneInv, Ripe, table, TypeInv, TypeOK
  <2>3. QED
      BY <1>19, <2>1, <2>2, Bookkeeping
         DEF SupWait, Goto, service, Busy, Threads, Waiting, TypeInv, TypeOK, AloneInv, Halting
<1>20. ASSUME NEW t \in Requests, NEW c \in Cameras, NEW new, Edit(t, c, new)
       PROVE AloneInv'
  <2>1. \A u \in Threads : ~Busy(u)
      BY <1>20 DEF Edit, Enter, Busy
  <2>2. \A u \in Threads : pc'[u] \in {"idle", "exited", "sync"}
      BY <1>20, <2>1 DEF Edit, Goto, Busy, TypeInv, TypeOK
  <2>3. \A u \in Threads : u # t => ~Busy(u)'
      BY <1>20, <2>1 DEF Edit, Goto, Busy, TypeInv, TypeOK
  <2>4. ~stopping /\ UNCHANGED <<reg, obj, lost, stopping, cur, held>>
      BY <1>20 DEF Edit, service
  <2>5. \A r \in Recs : Running(r) => Owned(r)
      BY <2>1 DEF AloneInv, Reachable, Busy, Waiting
  <2>6. (Ripe /\ Awaited /\ Replaced /\ Listed)'
      BY <2>2 DEF Ripe, Awaited, Replaced, Listed, Waiting
  <2>7. (OneBusy /\ Halting)'
      BY <2>2, <2>3, <2>4 DEF OneBusy, Halting
  <2>8. (Named /\ Reachable /\ Unlost)'
      BY <2>4, <2>5 DEF AloneInv, Named, Reachable, Unlost, Owned, Running
  <2>9. QED
      BY <2>6, <2>7, <2>8 DEF AloneInv
<1>21. ASSUME NEW t \in Requests, NEW c \in Cameras, NEW on \in BOOLEAN,
              NEW until \in {"none", "open", row[c].until}, SetRecord(t, c, on, until)
       PROVE AloneInv'
    BY <1>20, <1>21 DEF SetRecord
<1>22. ASSUME NEW t \in Requests, NEW c \in Cameras,
              SetLive(t, c) \/ \E s \in Streams : SetStream(t, c, s)
       PROVE AloneInv'
    BY <1>20, <1>22 DEF SetLive, SetStream
<1>23. ASSUME NEW t \in Requests, NEW c \in Cameras, Restart(t, c) PROVE AloneInv'
  <2>a. \A u \in Threads : u # t => pc[u] \in {"idle", "exited"}
      BY <1>23 DEF Restart, BeginStop, Goto, Enter, OneBusy, AloneInv, Busy, Threads,
         Labels, TypeInv, TypeOK
  <2>b. /\ t \in Threads /\ reg[c] \in Recs /\ obj[reg[c]].cam = c
        /\ reg' = [reg EXCEPT ![c] = None]
      BY <1>23 DEF Restart, AloneInv, Named, TypeInv, TypeOK, Threads
  <2>c. StopEffects(t, reg[c], "restart_wait", "idle")
      BY <1>23, <2>b, BeginStopEffects DEF Restart
  <2>1. Ripe'
      BY <1>23, <2>a DEF Restart, BeginStop, Goto, Enter, AloneInv, Ripe, TypeInv,
         TypeOK, LocalsOK, Threads, table, service, local, budget
  <2>2. OneBusy'
      BY <1>23, <2>a DEF Restart, BeginStop, Goto, Enter, AloneInv, OneBusy, Busy,
         TypeInv, TypeOK, LocalsOK, Threads, table, service, local, budget
  <2>3. Named'
      BY <1>23, <2>a DEF Restart, BeginStop, Goto, Enter, AloneInv, Named, TypeInv,
         TypeOK, LocalsOK, Threads, table, service, local, budget
  <2>4. Reachable'
      BY <1>23, <2>a DEF Restart, BeginStop, Goto, Enter, AloneInv, Reachable, Owned,
         Running, Waiting, Named, TypeInv, TypeOK, LocalsOK, Threads, table, service,
         local, budget
  <2>5. Awaited'
      <3>1. SUFFICES ASSUME NEW u \in Threads, pc'[u] \in Waiting
                     PROVE  /\ obj'[cur'[u]].proc \in {"dying", "exited"}
                            /\ obj'[cur'[u]].cam \in Cameras
                            /\ reg'[obj'[cur'[u]].cam] \in {cur'[u], None}
          BY DEF Awaited
      <3>2. u = t
          BY <2>a, <2>c, <3>1 DEF StopEffects, Waiting
      <3>3. /\ obj'[reg[c]].proc \in {"dying", "exited"}
            /\ cur'[t] = reg[c]
            /\ obj'[reg[c]].cam = c
          BY <2>b, <2>c, <3>1, <3>2 DEF StopEffects, Waiting
      <3>4. reg'[c] = None
          BY <2>b DEF TypeInv, TypeOK
      <3> QED
          BY <2>b, <3>2, <3>3, <3>4
  <2>6. Replaced'
      BY <1>23, <2>a DEF Restart, BeginStop, Goto, Enter, AloneInv, Replaced, Running,
         Awaited, Waiting, TypeInv, TypeOK, LocalsOK, Threads, table, service, local,
         budget
  <2>7. Listed'
      BY <1>23, <2>a DEF Restart, BeginStop, Goto, Enter, AloneInv, Listed, Owned,
         Named, Awaited, Waiting, TypeInv, TypeOK, LocalsOK, Threads, table, service,
         local, budget
  <2>8. Halting'
      BY <1>23, <2>a DEF Restart, BeginStop, Goto, Enter, AloneInv, Halting, Busy,
         Running, Named, Reachable, Owned, Waiting, TypeInv, TypeOK, LocalsOK, Threads,
         table, service, local, budget
  <2>9. Unlost'
      BY <1>23, <2>a DEF Restart, BeginStop, Goto, Enter, AloneInv, Unlost, Awaited,
         Waiting, TypeInv, TypeOK, LocalsOK, Threads, table, service, local, budget
  <2>10. QED
      BY <2>1, <2>2, <2>3, <2>4, <2>5, <2>6, <2>7, <2>8, <2>9 DEF AloneInv
<1>24. ASSUME NEW t \in Requests, Shutdown(t) PROVE AloneInv'
  <2>a. \A u \in Threads : u # t => pc[u] \in {"idle", "exited"}
      BY <1>24 DEF Shutdown, Registered, Goto, Enter, OneBusy, AloneInv, Busy, Threads,
         Labels, TypeInv, TypeOK
  <2>1. Ripe'
      BY <1>24, <2>a DEF Shutdown, Registered, Goto, Enter, AloneInv, Ripe, TypeInv,
         TypeOK, LocalsOK, Threads, table, service, local, budget
  <2>2. OneBusy'
      BY <1>24, <2>a DEF Shutdown, Registered, Goto, Enter, AloneInv, OneBusy, Busy,
         TypeInv, TypeOK, LocalsOK, Threads, table, service, local, budget
  <2>3. Named'
      BY <1>24, <2>a DEF Shutdown, Registered, Goto, Enter, AloneInv, Named, TypeInv,
         TypeOK, LocalsOK, Threads, table, service, local, budget
  <2>4. Reachable'
      BY <1>24, <2>a DEF Shutdown, Registered, Goto, Enter, AloneInv, Reachable, Owned,
         Running, Waiting, Named, TypeInv, TypeOK, LocalsOK, Threads, table, service,
         local, budget
  <2>5. Awaited'
      BY <1>24, <2>a DEF Shutdown, Registered, Goto, Enter, AloneInv, Awaited, Waiting,
         Owned, Running, TypeInv, TypeOK, LocalsOK, Threads, table, service, local,
         budget
  <2>6. Replaced'
      BY <1>24, <2>a DEF Shutdown, Registered, Goto, Enter, AloneInv, Replaced, Running,
         Awaited, Waiting, TypeInv, TypeOK, LocalsOK, Threads, table, service, local,
         budget
  <2>7. Listed'
      BY <1>24, <2>a DEF Shutdown, Registered, Goto, Enter, AloneInv, Listed, Owned,
         Named, Awaited, Waiting, TypeInv, TypeOK, LocalsOK, Threads, table, service,
         local, budget
  <2>8. Halting'
      BY <1>24, <2>a DEF Shutdown, Registered, Goto, Enter, AloneInv, Halting, Busy,
         Running, Named, Reachable, Owned, Waiting, TypeInv, TypeOK, LocalsOK, Threads,
         table, service, local, budget
  <2>9. Unlost'
      BY <1>24, <2>a DEF Shutdown, Registered, Goto, Enter, AloneInv, Unlost, Awaited,
         Waiting, TypeInv, TypeOK, LocalsOK, Threads, table, service, local, budget
  <2>10. QED
      BY <2>1, <2>2, <2>3, <2>4, <2>5, <2>6, <2>7, <2>8, <2>9 DEF AloneInv
<1>25. ASSUME NEW t \in Requests, HaltStop(t) PROVE AloneInv'
  <2>a. \A u \in Threads : u # t => pc[u] \in {"idle", "exited"}
      BY <1>25 DEF HaltStop, BeginStop, Goto, OneBusy, AloneInv, Busy, Threads, Labels,
         TypeInv, TypeOK
  <2>b. PICK r \in held[t] : BeginStop(t, r, "halt_wait", "halt") /\ UNCHANGED reg
      BY <1>25 DEF HaltStop
  <2>c. t \in Threads /\ r \in Recs /\ Owned(r)
      BY <1>25, <2>b DEF HaltStop, AloneInv, Listed, TypeInv, TypeOK, Threads
  <2>d. StopEffects(t, r, "halt_wait", "halt")
      BY <2>b, <2>c, BeginStopEffects
  <2>1. Ripe'
      BY <1>25, <2>a DEF HaltStop, BeginStop, Goto, AloneInv, Ripe, TypeInv, TypeOK,
         LocalsOK, Threads, table, service, local, budget
  <2>2. OneBusy'
      BY <1>25, <2>a DEF HaltStop, BeginStop, Goto, AloneInv, OneBusy, Busy, TypeInv,
         TypeOK, LocalsOK, Threads, table, service, local, budget
  <2>3. Named'
      BY <1>25, <2>a DEF HaltStop, BeginStop, Goto, AloneInv, Named, TypeInv, TypeOK,
         LocalsOK, Threads, table, service, local, budget
  <2>4. Reachable'
      BY <1>25, <2>a DEF HaltStop, BeginStop, Goto, AloneInv, Reachable, Owned, Running,
         Waiting, Named, TypeInv, TypeOK, LocalsOK, Threads, table, service, local,
         budget
  <2>5. Awaited'
      BY <2>a, <2>b, <2>c, <2>d DEF StopEffects, Awaited, Owned, Waiting
  <2>6. Replaced'
      BY <1>25, <2>a DEF HaltStop, BeginStop, Goto, AloneInv, Replaced, Running,
         Awaited, Waiting, TypeInv, TypeOK, LocalsOK, Threads, table, service, local,
         budget
  <2>7. Listed'
      BY <1>25, <2>a DEF HaltStop, BeginStop, Goto, AloneInv, Listed, Owned, Named,
         Awaited, Waiting, TypeInv, TypeOK, LocalsOK, Threads, table, service, local,
         budget
  <2>8. Halting'
      BY <1>25, <2>a DEF HaltStop, BeginStop, Goto, AloneInv, Halting, Busy, Running,
         Named, Reachable, Owned, Waiting, TypeInv, TypeOK, LocalsOK, Threads, table,
         service, local, budget
  <2>9. Unlost'
      BY <1>25, <2>a DEF HaltStop, BeginStop, Goto, AloneInv, Unlost, Awaited, Waiting,
         TypeInv, TypeOK, LocalsOK, Threads, table, service, local, budget
  <2>10. QED
      BY <2>1, <2>2, <2>3, <2>4, <2>5, <2>6, <2>7, <2>8, <2>9 DEF AloneInv
<1>26. ASSUME NEW t \in Requests, HaltEnd(t) PROVE AloneInv'
  <2>a. \A u \in Threads : u # t => pc[u] \in {"idle", "exited"}
      BY <1>26 DEF HaltEnd, Nothing, Goto, OneBusy, AloneInv, Busy, Threads, Labels,
         TypeInv, TypeOK
  <2>b. \A r \in Recs : ~Running(r)
    <3>1. ASSUME NEW r \in Recs, Running(r) PROVE FALSE
      <4>1. Owned(r)
          BY <1>26, <2>a, <3>1 DEF HaltEnd, AloneInv, Reachable, Waiting
      <4>2. t \in Threads /\ pc[t] = "halt" /\ held[t] = {}
          BY <1>26 DEF HaltEnd, Threads
      <4>3. reg[obj[r].cam] # None
          BY <4>1, RecorderAssumption DEF Owned
      <4>4. QED
          BY <3>1, <4>1, <4>2, <4>3 DEF AloneInv, Halting, Owned
    <3>2. QED
        BY <3>1
  <2>1. Ripe'
      BY <1>26, <2>a DEF HaltEnd, Nothing, Goto, AloneInv, Ripe, TypeInv, TypeOK,
         LocalsOK, Threads, table, service, local, budget
  <2>2. OneBusy'
      BY <1>26, <2>a DEF HaltEnd, Nothing, Goto, AloneInv, OneBusy, Busy, TypeInv,
         TypeOK, LocalsOK, Threads, table, service, local, budget
  <2>3. Named'
      BY <1>26, <2>a DEF HaltEnd, Nothing, Goto, AloneInv, Named, TypeInv, TypeOK,
         LocalsOK, Threads, table, service, local, budget
  <2>4. Reachable'
      BY <1>26, <2>b DEF HaltEnd, Reachable, Running
  <2>5. Awaited'
      BY <1>26, <2>a DEF HaltEnd, Nothing, Goto, AloneInv, Awaited, Waiting, Owned,
         Running, TypeInv, TypeOK, LocalsOK, Threads, table, service, local, budget
  <2>6. Replaced'
      BY <1>26, <2>a DEF HaltEnd, Nothing, Goto, AloneInv, Replaced, Running, Awaited,
         Waiting, TypeInv, TypeOK, LocalsOK, Threads, table, service, local, budget
  <2>7. Listed'
      BY <1>26, <2>a DEF HaltEnd, Nothing, Goto, AloneInv, Listed, Owned, Named,
         Awaited, Waiting, TypeInv, TypeOK, LocalsOK, Threads, table, service, local,
         budget
  <2>8. Halting'
      BY <1>26, <2>a DEF HaltEnd, Nothing, Goto, AloneInv, Halting, Busy, Running,
         Named, Reachable, Owned, Waiting, TypeInv, TypeOK, LocalsOK, Threads, table,
         service, local, budget
  <2>9. Unlost'
      BY <1>26, <2>a DEF HaltEnd, Nothing, Goto, AloneInv, Unlost, Awaited, Waiting,
         TypeInv, TypeOK, LocalsOK, Threads, table, service, local, budget
  <2>10. QED
      BY <2>1, <2>2, <2>3, <2>4, <2>5, <2>6, <2>7, <2>8, <2>9 DEF AloneInv
<1>27. ASSUME NEW r \in Recs, FfmpegExits(r) PROVE AloneInv'
    BY <1>27 DEF FfmpegExits, AloneInv, Ripe, OneBusy, Named, Reachable, Awaited,
       Replaced, Listed, Halting, Unlost, Owned, Running, Busy, Waiting, TypeInv,
       TypeOK, LocalsOK, Threads, table, service, local, budget
<1>28. ASSUME NEW c \in Cameras, Elapse(c) PROVE AloneInv'
    BY <1>28 DEF Elapse, AloneInv, Ripe, OneBusy, Named, Reachable, Awaited, Replaced,
       Listed, Halting, Unlost, Owned, Running, Busy, Waiting, TypeInv, TypeOK,
       LocalsOK, Threads, table, service, local, budget
<1>29. ASSUME NEW v \in Volumes, PoolMoves(v) PROVE AloneInv'
    BY <1>29 DEF PoolMoves, AloneInv, Ripe, OneBusy, Named, Reachable, Awaited,
       Replaced, Listed, Halting, Unlost, Owned, Running, Busy, Waiting, TypeInv,
       TypeOK, LocalsOK, Threads, table, service, local, budget
<1>30. ASSUME UNCHANGED vars PROVE AloneInv'
    BY <1>30 DEF vars, AloneInv, Ripe, OneBusy, Named, Reachable, Awaited, Replaced,
       Listed, Halting, Unlost, Owned, Running, Busy, Waiting, TypeInv, TypeOK,
       LocalsOK, Threads, table, service, local, budget
<1>31. QED
    BY <1>1, <1>2, <1>3, <1>4, <1>5, <1>6, <1>7, <1>8, <1>9, <1>10, <1>11, <1>12, <1>13,
       <1>14, <1>15, <1>16, <1>17, <1>18, <1>19, <1>20, <1>21, <1>22, <1>23, <1>24,
       <1>25, <1>26, <1>27, <1>28, <1>29, <1>30 DEF Next, Sync, Supervise, Request,
       Environment

\* The inductive invariant: initially, step by step, always.
LEMMA IInvInit == Init => IInv
<1> SUFFICES ASSUME Init PROVE TypeInv /\ AloneInv
    BY DEF IInv
<1>1. TypeInv
    BY TypeInit
<1>2. /\ \A t \in Threads : pc[t] = "idle"
      /\ \A r \in Recs : ~Running(r)
      /\ \A c \in Cameras : reg[c] = None /\ lost[c] = 0
      /\ ~stopping
    BY DEF Init, NewRecorder, Running, Nothing
<1>3. QED
    BY <1>1, <1>2 DEF AloneInv, Ripe, OneBusy, Busy, Named, Reachable, Awaited, Replaced,
       Listed, Halting, Unlost, Waiting

\* The record of two threads having met is never erased.
LEMMA OverlapStays == TypeInv /\ [Next]_vars /\ overlap => overlap'
BY ZenonT(60) DEF TypeInv, TypeOK, Next, Sync, Supervise, Request, Environment, vars, Enter,
   SyncBegin, SyncExpire, SyncRead, SyncDrop, SyncDropKeyError, SyncChoose, SyncKeep,
   SyncReplace, SyncAssign, SyncEnd, StopWaited, SupTick, SupExit, CheckStart,
   CheckHealthy, CheckDied, BackoffOver, SupFault, SupWait, SetRecord, SetLive, SetStream,
   Edit, Restart, Shutdown, HaltStop, HaltEnd, FfmpegExits, Elapse, PoolMoves

\* A step keeps the inductive invariant.
LEMMA IInvStep == IInv /\ [Next]_vars => IInv'
BY TypeStep, AloneStep, OverlapStays DEF IInv

\* While no two threads have been inside the service together, every recorder in
\* the table is its camera's, and every running ffmpeg is in the table or awaited.
THEOREM Inductive == Spec => []IInv
BY IInvInit, IInvStep, PTL DEF Spec

-----------------------------------------------------------------------------
(* The properties the model-checking run states *)

\* Every variable keeps its type: in particular no recorder's delay ever leaves
\* 1..MAX_BACKOFF, and no entry of the table names a recorder that is not one.
THEOREM Types == Spec => []TypeOK
<1>1. IInv => TypeOK
    BY DEF IInv, TypeInv
<1>2. QED
    BY <1>1, Inductive, PTL

\* While no two threads have met inside the service, the supervisor or a later
\* stop() can reach every running ffmpeg.
THEOREM NoOrphan == Spec => []NoOrphanAlone
<1>1. IInv => NoOrphanAlone
    BY DEF IInv, AloneInv, Reachable, Owned, Waiting, NoOrphanAlone, AfterStop
<1>2. QED
    BY <1>1, Inductive, PTL

\* All running ffmpegs of a camera are one and the same.
LEMMA OneRunning ==
    ASSUME TypeInv, AloneInv, NEW c \in Cameras,
           NEW r \in Recs, Running(r), obj[r].cam = c,
           NEW s \in Recs, Running(s), obj[s].cam = c
    PROVE  r = s
<1>1. ASSUME NEW t \in Threads, pc[t] \in Waiting
      PROVE  Busy(t)
    BY <1>1 DEF Waiting, Busy
<1>2. CASE \E t \in Threads : pc[t] \in Waiting /\ cur[t] = r
  <2>1. PICK t \in Threads : pc[t] \in Waiting /\ cur[t] = r
      BY <1>2
  <2>2. reg[c] \in {r, None}
      BY <2>1 DEF AloneInv, Awaited
  <2>3. Owned(s) => s = r
      BY <2>2, RecorderAssumption DEF Owned
  <2>4. ASSUME NEW u \in Threads, pc[u] \in Waiting, cur[u] = s
        PROVE  s = r
      BY <1>1, <2>1, <2>4 DEF AloneInv, OneBusy
  <2>5. QED
      BY <2>3, <2>4 DEF AloneInv, Reachable
<1>3. CASE Owned(r)
  <2>1. reg[c] = r
      BY <1>3 DEF Owned
  <2>2. Owned(s) => s = r
      BY <2>1 DEF Owned
  <2>3. ASSUME NEW u \in Threads, pc[u] \in Waiting, cur[u] = s
        PROVE  s = r
      BY <2>1, <2>3, RecorderAssumption DEF AloneInv, Awaited
  <2>4. QED
      BY <2>2, <2>3 DEF AloneInv, Reachable
<1>4. QED
    BY <1>2, <1>3 DEF AloneInv, Reachable

\* Until two threads meet inside the service, a camera has one writer at most,
\* the ffmpeg that is being stopped included.
THEOREM OneFfmpeg == Spec => []OneFfmpegAlone
<1>1. IInv => OneFfmpegAlone
  <2> SUFFICES ASSUME TypeInv, AloneInv, NEW c \in Cameras
               PROVE  Writers(c) <= 1
      BY DEF IInv, OneFfmpegAlone
  <2> DEFINE S == {r \in Recs : Running(r) /\ obj[r].cam = c}
  <2>1. lost[c] = 0
      BY DEF AloneInv, Unlost
  <2>2. Cardinality(S) \in {0, 1}
    <3>1. CASE S = {}
        BY <3>1, FS_EmptySet
    <3>2. CASE S # {}
      <4>1. PICK r \in S : TRUE
          BY <3>2
      <4>2. S = {r}
          BY <4>1, OneRunning
      <4>3. QED
          BY <4>2, FS_Singleton
    <3>3. QED
        BY <3>1, <3>2
  <2>3. QED
      BY <2>1, <2>2 DEF Writers
<1>2. QED
    BY <1>1, Inductive, PTL

\* Once stop() has returned and nobody met it inside the service, no ffmpeg runs.
THEOREM CleanShutdown == Spec => []CleanShutdownAlone
<1>1. IInv => CleanShutdownAlone
  <2> SUFFICES ASSUME TypeInv, AloneInv, stopping, \A t \in Threads : ~Busy(t),
                      NEW c \in Cameras
               PROVE  Writers(c) = 0
      BY DEF IInv, CleanShutdownAlone
  <2>1. \A t \in Threads : pc[t] \notin Waiting
      BY DEF Busy, Waiting
  <2>2. \A x \in Cameras : reg[x] = None
      BY DEF AloneInv, Halting
  <2>3. \A r \in Recs : ~Running(r)
      BY <2>1, <2>2, RecorderAssumption DEF AloneInv, Reachable, Owned
  <2>4. {r \in Recs : Running(r) /\ obj[r].cam = c} = {}
      BY <2>3
  <2>5. QED
      BY <2>4, FS_EmptySet DEF AloneInv, Unlost, Writers
<1>2. QED
    BY <1>1, Inductive, PTL

=============================================================================
