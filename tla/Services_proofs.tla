--------------------------- MODULE Services_proofs ---------------------------
(***************************************************************************)
(* The services beside the recorder: the manager of go2rtc, the poller of  *)
(* camera events, and all of them as they are model-checked together.      *)
(*                                                                         *)
(* NothingStale is not inductive: that a reload leaves the file telling    *)
(* the camera table needs that what it rendered does, unless an edit made  *)
(* since has still to be reloaded (Rendered); that one thread is in the    *)
(* midst of an operation at a time (Exclusive), so that no other renders   *)
(* or restarts meanwhile; that requests are served between start and stop  *)
(* only, and nothing runs before the first spawn (Phases).                 *)
(*                                                                         *)
(* OneEventPerEdge says nothing of an edge that has no event yet.  What is *)
(* owed is one event, and it is owed while                                 *)
(*   - the alarm is on and was off in the last answer,                     *)
(*   - the answer in hand has it on and the last one had it off, or        *)
(*   - the answer in hand has it off although it is on by now.             *)
(***************************************************************************)
EXTENDS MCServices, Shades_proofs

-----------------------------------------------------------------------------
(* The manager of go2rtc.                                                  *)

MainPlaces == {"off", "start", "build", "write", "spawn", "ready", "serving", "stop",
               "terminate", "stopped"}
SupervisorPlaces == {"off", "wait", "ensure", "check", "terminate", "spawn"}
EditorPlaces == {"off", "reload", "build", "write", "terminate", "spawn"}
Held == {"build", "write", "terminate", "spawn", "check"}

\* Every thread is at a place of its own kind.
Placed ==
    /\ at \in [Managers -> MainPlaces \cup SupervisorPlaces \cup EditorPlaces]
    /\ at[Main] \in MainPlaces /\ at[Supervisor] \in SupervisorPlaces
    /\ \A t \in Editors : at[t] \in EditorPlaces

\* One thread at a time is in the midst of an operation: the one with the lock.
Exclusive ==
    /\ holder \in Managers \cup {Absent}
    /\ \A t \in Managers : holder = t <=> at[t] \in Held

Process ==
    process # Absent =>
        process \in [state : {"booting", "serving", "hollow", "dead"}, young : BOOLEAN,
                     config : {process.config}]

\* At the threshold the supervisor is about to end the process, or it is gone.
Counted ==
    /\ healthFailures \in 0 .. HEALTH_FAIL_THRESHOLD
    /\ healthFailures = HEALTH_FAIL_THRESHOLD =>
            process = Absent \/ at[Supervisor] = "terminate"
    /\ edits \in 0 .. MaxEdits /\ mishaps \in 0 .. MaxMishaps /\ stopping \in BOOLEAN

\* Requests come between start and stop, the supervisor runs after the start, and
\* until the first spawn there is no process.
Phases ==
    /\ at[Main] # "serving" => \A t \in Editors : at[t] = "off"
    /\ at[Main] \in {"off", "start", "build", "write", "spawn", "ready"} => at[Supervisor] = "off"
    /\ at[Main] \in {"off", "start", "build", "write", "spawn"} => process = Absent

\* What a thread is about to write tells the table, or somebody has still to reload.
Rendered(t) ==
    at[t] = "write" =>
        text[t] = Config \/ \E o \in Editors \ {t} : at[o] = "reload"

Texts ==
    /\ DOMAIN text = Managers
    /\ file = lastConfig
    /\ \A t \in Managers : Rendered(t)

StreamsInv ==
    /\ table \in [Cameras -> Rows]
    /\ Placed /\ Exclusive /\ Process /\ Counted /\ Phases /\ Texts /\ NothingStale

-----------------------------------------------------------------------------
LEMMA StreamsInvInit ==
    ASSUME NEW place \in {"off", "start"}, StreamsInit(place)
    PROVE  StreamsInv
<1>1. table \in [Cameras -> Rows] /\ process = Absent /\ text = [t \in Managers |-> Absent]
      /\ file = Absent /\ lastConfig = Absent
    BY DEF StreamsInit
<1>2. at \in [Managers -> {"off", place}] /\ at[Main] = place
      /\ (\A t \in Managers \ {Main} : at[t] = "off")
    BY DEF StreamsInit, Managers
<1>3. Placed
    BY <1>2, StreamsAssumption DEF StreamsAssumption, Placed, MainPlaces, SupervisorPlaces,
                                   EditorPlaces, Managers
<1>4. Exclusive
    <2>1. holder = Absent /\ Absent \notin Managers
        BY StreamsAssumption DEF StreamsAssumption, StreamsInit, Managers
    <2>2. \A t \in Managers : at[t] \notin Held
        BY <1>2 DEF Held
    <2> QED BY <2>1, <2>2 DEF Exclusive
<1>5. Counted
    <2>1. HEALTH_FAIL_THRESHOLD \in Nat \ {0} /\ MaxEdits \in Nat /\ MaxMishaps \in Nat
        BY StreamsAssumption DEF StreamsAssumption
    <2>2. healthFailures = 0 /\ edits = 0 /\ mishaps = 0 /\ stopping = FALSE
        BY DEF StreamsInit
    <2>3. 0 \in 0 .. HEALTH_FAIL_THRESHOLD /\ 0 \in 0 .. MaxEdits /\ 0 \in 0 .. MaxMishaps
          /\ HEALTH_FAIL_THRESHOLD # 0
        BY <2>1
    <2>4. healthFailures \in 0 .. HEALTH_FAIL_THRESHOLD
        BY <2>2, <2>3
    <2>5. edits \in 0 .. MaxEdits
        BY <2>2, <2>3
    <2>6. mishaps \in 0 .. MaxMishaps
        BY <2>2, <2>3
    <2>7. healthFailures # HEALTH_FAIL_THRESHOLD
        BY <2>2, <2>3
    <2>8. stopping \in BOOLEAN
        BY <2>2
    <2> QED BY <2>4, <2>5, <2>6, <2>7, <2>8 DEF Counted
<1>6. Phases
    BY <1>1, <1>2, StreamsAssumption DEF StreamsAssumption, Phases, Managers
<1>7. Texts
    BY <1>1, <1>2 DEF Texts, Rendered
<1>8. Process /\ NothingStale
    BY <1>1 DEF Process, NothingStale
<1> QED
    BY <1>1, <1>3, <1>4, <1>5, <1>6, <1>7, <1>8 DEF StreamsInv

\* Goto moves one thread and no other.
LEMMA GoesTo ==
    ASSUME StreamsInv, NEW t \in Managers, NEW place, Goto(t, place)
    PROVE  at'[t] = place /\ \A o \in Managers : o # t => at'[o] = at[o]
BY DEF StreamsInv, Placed, Goto

LEMMA BootKeeps == ASSUME StreamsInv, Boot PROVE StreamsInv'
<1> USE DEF StreamsInv
<1>1. UNCHANGED <<table, file, lastConfig, healthFailures, holder, at, text, stopping, edits>>
    BY DEF Boot
<1>2. Placed' /\ Exclusive' /\ Texts' /\ Config' = Config
    BY <1>1 DEF Placed, Exclusive, Texts, Rendered, Config
<1>3. mishaps' \in 0 .. MaxMishaps
    BY StreamsAssumption DEF StreamsAssumption, Boot, Mishap, Counted
<1>4. process # Absent /\ process \in [state : {"booting", "serving", "hollow", "dead"},
                  young : BOOLEAN, config : {process.config}]
    BY DEF Boot, Process
<1>5. process' = [process EXCEPT !.state = "serving", !.config = file]
      \/ process' = [process EXCEPT !.state = "hollow"]
    BY DEF Boot
<1>6. process'.state \in {"serving", "hollow"} /\ (process'.state = "serving" => process'.config = file)
    BY <1>4, <1>5
<1>7. Process'
    BY <1>4, <1>5 DEF Process
<1>8. Counted' /\ Phases' /\ NothingStale'
    BY <1>1, <1>2, <1>3, <1>4, <1>6 DEF Counted, Phases, NothingStale
<1> QED
    BY <1>1, <1>2, <1>7, <1>8

LEMMA DieKeeps == ASSUME StreamsInv, Die PROVE StreamsInv'
<1> USE DEF StreamsInv
<1>1. UNCHANGED <<table, file, lastConfig, healthFailures, holder, at, text, stopping, edits>>
    BY DEF Die
<1>2. Placed' /\ Exclusive' /\ Texts' /\ Config' = Config
    BY <1>1 DEF Placed, Exclusive, Texts, Rendered, Config
<1>3. mishaps' \in 0 .. MaxMishaps
    BY StreamsAssumption DEF StreamsAssumption, Die, Mishap, Counted
<1>4. process # Absent /\ process \in [state : {"booting", "serving", "hollow", "dead"},
                  young : BOOLEAN, config : {process.config}]
    BY DEF Die, Alive, Process
<1>5. process' = [process EXCEPT !.state = "dead"]
    BY DEF Die
<1>6. process'.state = "dead" /\ Process'
    BY <1>4, <1>5 DEF Process
<1>7. Counted' /\ Phases' /\ NothingStale'
    BY <1>1, <1>2, <1>3, <1>4, <1>6 DEF Counted, Phases, NothingStale
<1> QED
    BY <1>1, <1>2, <1>6, <1>7

LEMMA GraceEndsKeeps == ASSUME StreamsInv, GraceEnds PROVE StreamsInv'
<1> USE DEF StreamsInv
<1>1. UNCHANGED <<table, file, lastConfig, healthFailures, holder, at, text, stopping, edits,
                  mishaps>>
    BY DEF GraceEnds
<1>2. Placed' /\ Exclusive' /\ Texts' /\ Config' = Config
    BY <1>1 DEF Placed, Exclusive, Texts, Rendered, Config
<1>3. process # Absent /\ process \in [state : {"booting", "serving", "hollow", "dead"},
                  young : BOOLEAN, config : {process.config}]
    BY DEF GraceEnds, Process
<1>4. process' = [process EXCEPT !.young = FALSE]
    BY DEF GraceEnds
<1>5. process'.state = process.state /\ process'.config = process.config /\ Process'
    BY <1>3, <1>4 DEF Process
<1>6. Counted' /\ Phases' /\ NothingStale'
    BY <1>1, <1>2, <1>3, <1>5 DEF Counted, Phases, NothingStale
<1> QED
    BY <1>1, <1>2, <1>5, <1>6

LEMMA EditKeeps ==
    ASSUME StreamsInv, NEW t \in Editors, NEW c \in Cameras, NEW r \in Rows, EditCamera(t, c, r)
    PROVE  StreamsInv'
<1> USE DEF StreamsInv
<1>1. UNCHANGED <<file, lastConfig, process, healthFailures, holder, text, stopping, mishaps>>
      /\ at[t] = "off" /\ at[Main] = "serving" /\ t \in Managers
    BY DEF EditCamera, Managers
<1>2. at'[t] = "reload" /\ (\A o \in Managers : o # t => at'[o] = at[o]) /\ t # Main
      /\ t # Supervisor /\ Main \in Managers /\ Supervisor \in Managers /\ Editors \subseteq Managers
    BY <1>1, GoesTo, StreamsAssumption DEF StreamsAssumption, EditCamera, Managers
<1>3. table' \in [Cameras -> Rows]
    BY DEF EditCamera
<1>4. at' \in [Managers -> MainPlaces \cup SupervisorPlaces \cup EditorPlaces]
    BY <1>1 DEF EditCamera, Goto, Placed, EditorPlaces
<1>5. Placed'
    BY <1>2, <1>4 DEF Placed, EditorPlaces
<1>6. Exclusive'
    BY <1>1, <1>2 DEF Exclusive, Held
<1>7. edits' \in 0 .. MaxEdits
    BY StreamsAssumption DEF StreamsAssumption, EditCamera, Counted
<1>8. Process' /\ Counted' /\ Phases'
    BY <1>1, <1>2, <1>7 DEF Process, Counted, Phases
<1>9. ASSUME NEW o \in Managers PROVE Rendered(o)'
    <2>1. CASE o = t
        BY <1>2, <2>1 DEF Rendered
    <2>2. CASE o # t
        BY <1>2, <2>2 DEF Rendered
    <2> QED BY <2>1, <2>2
<1>10. NothingStale'
    BY <1>1, <1>2 DEF NothingStale
<1> QED
    BY <1>1, <1>3, <1>5, <1>6, <1>8, <1>9, <1>10 DEF Texts

-----------------------------------------------------------------------------
Fits(t, place) ==
    /\ t = Main => place \in MainPlaces
    /\ t = Supervisor => place \in SupervisorPlaces
    /\ t \in Editors => place \in EditorPlaces

LEMMA ThreadsApart ==
    /\ Main \in Managers /\ Supervisor \in Managers /\ Editors \subseteq Managers
    /\ Main # Supervisor /\ Main \notin Editors /\ Supervisor \notin Editors
    /\ Absent \notin Managers
    /\ \A t \in Managers : t = Main \/ t = Supervisor \/ t \in Editors
BY StreamsAssumption DEF StreamsAssumption, Managers

LEMMA Moves ==
    ASSUME StreamsInv, NEW t \in Managers, NEW place, Fits(t, place), Goto(t, place)
    PROVE  /\ Placed'
           /\ at'[t] = place /\ \A o \in Managers : o # t => at'[o] = at[o]
<1>1. at'[t] = place /\ \A o \in Managers : o # t => at'[o] = at[o]
    BY GoesTo
<1>2. place \in MainPlaces \cup SupervisorPlaces \cup EditorPlaces
    BY ThreadsApart DEF Fits
<1>3. at' \in [Managers -> MainPlaces \cup SupervisorPlaces \cup EditorPlaces]
    BY <1>2 DEF StreamsInv, Placed, Goto
<1> QED
    BY <1>1, <1>3, ThreadsApart DEF StreamsInv, Placed, Fits

LEMMA Alone ==
    ASSUME StreamsInv, NEW t \in Managers, at[t] \in Held
    PROVE  holder = t /\ \A o \in Managers : at[o] \in Held => o = t
BY DEF StreamsInv, Exclusive

LEMMA Holds ==
    ASSUME StreamsInv, NEW t \in Managers, NEW place \in Held, Goto(t, place),
           at[t] \in Held, holder' = holder
    PROVE  Exclusive'
BY GoesTo, Alone DEF StreamsInv, Exclusive

LEMMA LetsGo ==
    ASSUME StreamsInv, NEW t \in Managers, NEW place, place \notin Held, Release(t, place),
           at[t] \in Held
    PROVE  Exclusive'
<1>1. Goto(t, place) /\ holder' = Absent
    BY DEF Release
<1>2. \A o \in Managers : at'[o] \notin Held
    BY <1>1, GoesTo, Alone
<1> QED
    BY <1>1, <1>2, ThreadsApart DEF Exclusive

LEMMA LockKeeps == ASSUME StreamsInv, NEW t \in Managers, Lock(t) PROVE StreamsInv'
<1> USE DEF StreamsInv
<1>1. UNCHANGED <<table, file, lastConfig, process, healthFailures, text, stopping, edits, mishaps>>
      /\ holder = Absent /\ holder' = t
    BY DEF Lock
<1>2. PICK place \in {"build", "check", "terminate"} :
        /\ Goto(t, place)
        /\ place = "build" => at[t] \in {"reload", "start"}
        /\ place = "check" => at[t] = "ensure"
        /\ place = "terminate" => at[t] = "stop"
    BY DEF Lock
<1>3. Fits(t, place)
    BY <1>2, ThreadsApart DEF Placed, Fits, MainPlaces, SupervisorPlaces, EditorPlaces
<1>4. Placed' /\ at'[t] = place /\ \A o \in Managers : o # t => at'[o] = at[o]
    BY <1>2, <1>3, Moves
<1>5. \A o \in Managers : at[o] \notin Held
    BY <1>1, ThreadsApart DEF Exclusive
<1>6. Exclusive'
    BY <1>1, <1>4, <1>5 DEF Exclusive, Held
<1>7. Process' /\ Config' = Config
    BY <1>1 DEF Process, Config
<1>8. Counted'
    BY <1>1, <1>4, <1>5, ThreadsApart DEF Counted, Held
<1>9. Phases'
    BY <1>1, <1>2, <1>4, ThreadsApart DEF Phases, Placed, MainPlaces, SupervisorPlaces, EditorPlaces
<1>10. ASSUME NEW o \in Managers PROVE Rendered(o)'
    BY <1>2, <1>4, <1>5 DEF Held, Rendered
<1>11. NothingStale'
    <2>1. file \in {Absent, Config} \/ \E o \in Editors : at'[o] \in {"reload", "build", "write"}
        BY <1>2, <1>4, ThreadsApart DEF NothingStale
    <2>2. ~ \E o \in Editors : at[o] = "terminate"
        BY <1>5, ThreadsApart DEF Held
    <2> QED BY <1>1, <1>7, <2>1, <2>2 DEF NothingStale
<1> QED
    BY <1>1, <1>4, <1>6, <1>7, <1>8, <1>9, <1>10, <1>11 DEF Texts

LEMMA BuildKeeps == ASSUME StreamsInv, NEW t \in Managers, BuildConfig(t) PROVE StreamsInv'
<1> USE DEF StreamsInv
<1>1. UNCHANGED <<table, file, lastConfig, process, healthFailures, holder, stopping, edits, mishaps>>
      /\ at[t] = "build" /\ Goto(t, "write") /\ text' = [text EXCEPT ![t] = Config]
    BY DEF BuildConfig
<1>2. Fits(t, "write") /\ t # Supervisor
    BY <1>1, ThreadsApart DEF Placed, Fits, MainPlaces, SupervisorPlaces, EditorPlaces
<1>3. Placed' /\ at'[t] = "write" /\ \A o \in Managers : o # t => at'[o] = at[o]
    BY <1>1, <1>2, Moves
<1>4. Exclusive' /\ \A o \in Managers : at[o] \in Held => o = t
    BY <1>1, Holds, Alone DEF Held
<1>5. Process' /\ Config' = Config
    BY <1>1 DEF Process, Config
<1>6. Counted' /\ Phases'
    BY <1>1, <1>2, <1>3, ThreadsApart DEF Counted, Phases
<1>7. ASSUME NEW o \in Managers PROVE Rendered(o)'
    <2>1. CASE o = t
        BY <1>1, <1>5, <2>1 DEF Texts, Rendered
    <2>2. CASE o # t
        BY <1>3, <1>4, <2>2 DEF Rendered, Held
    <2> QED BY <2>1, <2>2
<1>8. NothingStale'
    BY <1>1, <1>3, <1>5, ThreadsApart DEF NothingStale
<1> QED
    BY <1>1, <1>3, <1>4, <1>5, <1>6, <1>7, <1>8 DEF Texts

LEMMA WriteKeeps == ASSUME StreamsInv, NEW t \in Managers, WriteConfig(t) PROVE StreamsInv'
<1> USE DEF StreamsInv
<1> DEFINE same == lastConfig = text[t] /\ file # Absent
<1>1. UNCHANGED <<table, process, healthFailures, stopping, edits, mishaps>>
      /\ at[t] = "write" /\ text' = [text EXCEPT ![t] = Absent]
    BY DEF WriteConfig
<1>2. PICK place \in {"spawn", "off", "terminate"} :
        /\ Goto(t, place)
        /\ IF place = "off" THEN holder' = Absent ELSE holder' = holder
        /\ (t = Main) <=> (place = "spawn")
        /\ t # Main => (same <=> place = "off")
    BY DEF WriteConfig, Release
<1>3. file' = text[t] /\ lastConfig' = text[t]
    BY DEF WriteConfig, Texts
<1>4. Fits(t, place) /\ t # Supervisor
    BY <1>1, <1>2, ThreadsApart DEF Placed, Fits, MainPlaces, SupervisorPlaces, EditorPlaces
<1>5. Placed' /\ at'[t] = place /\ \A o \in Managers : o # t => at'[o] = at[o]
    BY <1>2, <1>4, Moves
<1>6. Exclusive'
    <2>1. CASE place = "off"
        BY <1>1, <1>2, <2>1, LetsGo DEF Release, Held
    <2>2. CASE place # "off"
        BY <1>1, <1>2, <2>2, Holds DEF Held
    <2> QED BY <2>1, <2>2
<1>7. \A o \in Managers : at[o] \in Held => o = t
    BY <1>1, Alone DEF Held
<1>8. Process' /\ Config' = Config
    BY <1>1 DEF Process, Config
<1>9. Counted'
    BY <1>1, <1>4, <1>5, ThreadsApart DEF Counted
<1>10. Phases'
    BY <1>1, <1>2, <1>5, ThreadsApart DEF Phases
<1>11. ASSUME NEW o \in Managers PROVE Rendered(o)'
    <2>1. CASE o = t
        BY <1>5, <2>1 DEF Rendered
    <2>2. CASE o # t
        BY <1>5, <1>7, <2>2 DEF Rendered, Held
    <2> QED BY <2>1, <2>2
<1>12. DOMAIN text' = Managers
    BY <1>1 DEF Texts
<1>13. file' = Config' \/ \E o \in Editors : at'[o] = "reload"
    BY <1>1, <1>3, <1>5, <1>8, ThreadsApart DEF Texts, Rendered
<1>14. process' = Absent \/ process'.state # "serving" \/ process'.config = file'
       \/ \E o \in Editors : at'[o] = "terminate"
    <2>1. CASE t = Main
        BY <1>1, <2>1 DEF Phases
    <2>2. CASE t # Main /\ place = "terminate"
        BY <1>5, <2>2, <1>4, ThreadsApart
    <2>3. CASE t # Main /\ place = "off"
        <3>1. file' = file
            BY <1>2, <1>3, <2>3 DEF Texts
        <3> QED BY <1>1, <1>7, <3>1, ThreadsApart DEF NothingStale, Held
    <2> QED BY <1>2, <2>1, <2>2, <2>3
<1>15. NothingStale'
    BY <1>13, <1>14 DEF NothingStale
<1> QED
    BY <1>1, <1>3, <1>5, <1>6, <1>8, <1>9, <1>10, <1>11, <1>12, <1>15 DEF Texts

LEMMA StopKeeps == ASSUME StreamsInv, NEW t \in Managers, StopLocked(t) PROVE StreamsInv'
<1> USE DEF StreamsInv
<1>1. UNCHANGED <<table, file, lastConfig, healthFailures, text, stopping, edits, mishaps>>
      /\ at[t] = "terminate" /\ process' = Absent
    BY DEF StopLocked
<1>2. PICK place \in {"stopped", "spawn"} :
        /\ Goto(t, place)
        /\ IF place = "stopped" THEN holder' = Absent ELSE holder' = holder
        /\ (t = Main) <=> (place = "stopped")
    BY DEF StopLocked, Release
<1>3. Fits(t, place)
    BY <1>1, <1>2, ThreadsApart DEF Placed, Fits, MainPlaces, SupervisorPlaces, EditorPlaces
<1>4. Placed' /\ at'[t] = place /\ \A o \in Managers : o # t => at'[o] = at[o]
    BY <1>2, <1>3, Moves
<1>5. Exclusive'
    <2>1. CASE place = "stopped"
        BY <1>1, <1>2, <2>1, LetsGo DEF Release, Held
    <2>2. CASE place # "stopped"
        BY <1>1, <1>2, <2>2, Holds DEF Held
    <2> QED BY <2>1, <2>2
<1>6. \A o \in Managers : at[o] \in Held => o = t
    BY <1>1, Alone DEF Held
<1>7. Process' /\ Config' = Config
    BY <1>1 DEF Process, Config
<1>8. Counted'
    BY <1>1 DEF Counted
<1>9. Phases'
    BY <1>1, <1>2, <1>4, ThreadsApart DEF Phases
<1>10. ASSUME NEW o \in Managers PROVE Rendered(o)'
    BY <1>1, <1>2, <1>4, <1>6 DEF Rendered, Held
<1>11. NothingStale'
    BY <1>1, <1>4, <1>7, ThreadsApart DEF NothingStale
<1> QED
    BY <1>1, <1>4, <1>5, <1>7, <1>8, <1>9, <1>10, <1>11 DEF Texts

LEMMA SpawnKeeps == ASSUME StreamsInv, NEW t \in Managers, Spawn(t) PROVE StreamsInv'
<1> USE DEF StreamsInv
<1>1. UNCHANGED <<table, file, lastConfig, text, stopping, edits>>
      /\ at[t] = "spawn" /\ Release(t, AfterSpawn(t))
    BY DEF Spawn
<1>2. AfterSpawn(t) \notin Held /\ Fits(t, AfterSpawn(t))
    BY ThreadsApart DEF AfterSpawn, Held, Fits, MainPlaces, SupervisorPlaces, EditorPlaces
<1>3. Placed' /\ at'[t] = AfterSpawn(t) /\ \A o \in Managers : o # t => at'[o] = at[o]
    BY <1>1, <1>2, Moves DEF Release
<1>4. Exclusive' /\ \A o \in Managers : at[o] \in Held => o = t
    BY <1>1, <1>2, LetsGo, Alone DEF Held
<1>5. \/ /\ process' = [state |-> "booting", young |-> TRUE, config |-> Absent]
         /\ healthFailures' = 0 /\ mishaps' = mishaps
      \/ UNCHANGED <<process, healthFailures>> /\ mishaps' \in 0 .. MaxMishaps
    BY StreamsAssumption DEF StreamsAssumption, Spawn, Mishap, Counted
<1>6. Process' /\ Config' = Config
    <2>1. Config' = Config
        BY <1>1 DEF Config
    <2>2. process' = process => Process'
        BY DEF Process
    <2>3. process' = [state |-> "booting", young |-> TRUE, config |-> Absent] => Process'
        BY DEF Process
    <2> QED BY <1>5, <2>1, <2>2, <2>3
<1>7. Counted'
    BY <1>1, <1>3, <1>4, <1>5, ThreadsApart, StreamsAssumption DEF StreamsAssumption, Counted, Held
<1>8. Phases'
    BY <1>1, <1>3, <1>5, ThreadsApart DEF Phases, AfterSpawn
<1>9. ASSUME NEW o \in Managers PROVE Rendered(o)'
    BY <1>1, <1>3, <1>4, <1>6 DEF Rendered, Held, AfterSpawn
<1>10. process' = Absent \/ process'.state # "serving" \/ process'.config = file'
       \/ \E o \in Editors : at'[o] = "terminate"
    BY <1>1, <1>3, <1>5, ThreadsApart DEF NothingStale
<1>11. file' \in {Absent, Config'} \/ \E o \in Editors : at'[o] \in {"reload", "build", "write"}
    BY <1>1, <1>3, <1>6, ThreadsApart DEF NothingStale
<1> QED
    BY <1>1, <1>3, <1>4, <1>6, <1>7, <1>8, <1>9, <1>10, <1>11 DEF Texts, NothingStale

LEMMA EnsureKeeps == ASSUME StreamsInv, NEW t \in Managers, EnsureRunning(t) PROVE StreamsInv'
<1> USE DEF StreamsInv
<1>1. UNCHANGED <<table, file, lastConfig, text, stopping, edits>> /\ at[t] = "check"
    BY DEF EnsureRunning
<1>2. t = Supervisor
    BY <1>1, ThreadsApart DEF Placed, MainPlaces, EditorPlaces
<1>3. at[Main] \notin {"off", "start", "build", "write", "spawn", "ready"}
    BY <1>1, <1>2 DEF Phases
<1>4. Alive => process # Absent
    BY DEF Alive
<1>5. PICK place \in {"wait", "spawn", "terminate"} :
        /\ Goto(t, place)
        /\ IF place = "wait" THEN holder' = Absent ELSE holder' = holder
        /\ IF place = "spawn" THEN process' = Absent ELSE process' = process /\ process # Absent
        /\ \/ place \in {"wait", "spawn"} /\ healthFailures' \in {0, healthFailures}
           \/ /\ healthFailures' = healthFailures + 1
              /\ place = IF healthFailures + 1 >= HEALTH_FAIL_THRESHOLD THEN "terminate" ELSE "wait"
    BY <1>4 DEF EnsureRunning, Release
<1>6. mishaps' \in 0 .. MaxMishaps
    BY StreamsAssumption DEF StreamsAssumption, EnsureRunning, Mishap, Counted
<1>7. Fits(t, place)
    BY <1>2, <1>5, ThreadsApart DEF Fits, SupervisorPlaces
<1>8. Placed' /\ at'[t] = place /\ \A o \in Managers : o # t => at'[o] = at[o]
    BY <1>5, <1>7, Moves
<1>9. Exclusive'
    <2>1. CASE place = "wait"
        BY <1>1, <1>5, <2>1, LetsGo DEF Release, Held
    <2>2. CASE place # "wait"
        BY <1>1, <1>5, <2>2, Holds DEF Held
    <2> QED BY <2>1, <2>2
<1>10. \A o \in Managers : at[o] \in Held => o = t
    BY <1>1, Alone DEF Held
<1>11. Process' /\ Config' = Config
    BY <1>1, <1>5 DEF Process, Config
<1>12. Counted'
    <2>1. healthFailures \in 0 .. HEALTH_FAIL_THRESHOLD /\ HEALTH_FAIL_THRESHOLD \in Nat \ {0}
        BY StreamsAssumption DEF StreamsAssumption, Counted
    <2>2. process # Absent => healthFailures < HEALTH_FAIL_THRESHOLD
        BY <1>1, <1>2, <2>1 DEF Counted
    <2>3. healthFailures' \in 0 .. HEALTH_FAIL_THRESHOLD
        BY <1>5, <2>1, <2>2
    <2>4. healthFailures' = HEALTH_FAIL_THRESHOLD => process' = Absent \/ place = "terminate"
        BY <1>5, <2>1, <2>2
    <2> QED BY <1>1, <1>2, <1>6, <1>8, <2>3, <2>4 DEF Counted
<1>13. Phases'
    BY <1>1, <1>2, <1>3, <1>8, ThreadsApart DEF Phases
<1>14. ASSUME NEW o \in Managers PROVE Rendered(o)'
    BY <1>1, <1>2, <1>5, <1>8, <1>10, <1>11 DEF Rendered, Held
<1>15. NothingStale'
    BY <1>1, <1>2, <1>5, <1>8, <1>11, ThreadsApart DEF NothingStale
<1> QED
    BY <1>1, <1>8, <1>9, <1>11, <1>12, <1>13, <1>14, <1>15 DEF Texts

LEMMA SuperviseKeeps == ASSUME StreamsInv, Supervise PROVE StreamsInv'
<1> USE DEF StreamsInv
<1>1. UNCHANGED <<table, file, lastConfig, process, healthFailures, holder, text, stopping, edits,
                  mishaps>> /\ at[Supervisor] = "wait"
    BY DEF Supervise
<1>2. PICK place \in {"off", "ensure"} : Goto(Supervisor, place)
    BY DEF Supervise
<1>3. Fits(Supervisor, place)
    BY <1>2, ThreadsApart DEF Fits, SupervisorPlaces
<1>4. Placed' /\ at'[Supervisor] = place
      /\ \A o \in Managers : o # Supervisor => at'[o] = at[o]
    BY <1>2, <1>3, Moves, ThreadsApart
<1>5. Exclusive'
    BY <1>1, <1>2, <1>4 DEF Exclusive, Held
<1>6. Process' /\ Config' = Config
    BY <1>1 DEF Process, Config
<1>7. Counted' /\ Phases'
    BY <1>1, <1>4, ThreadsApart DEF Counted, Phases
<1>8. ASSUME NEW o \in Managers PROVE Rendered(o)'
    <2>1. SUFFICES ASSUME at'[o] = "write" PROVE Rendered(o)'
        BY DEF Rendered
    <2>2. at[o] = "write" /\ Rendered(o)
        BY <1>2, <1>4, <2>1 DEF Texts
    <2>3. \A e \in Editors : at'[e] = at[e]
        BY <1>4, ThreadsApart
    <2> QED BY <1>1, <1>6, <2>2, <2>3 DEF Rendered
<1>9. NothingStale'
    BY <1>1, <1>4, <1>6, ThreadsApart DEF NothingStale
<1> QED
    BY <1>1, <1>4, <1>5, <1>6, <1>7, <1>8, <1>9 DEF Texts

LEMMA ReadyKeeps == ASSUME StreamsInv, WaitReady PROVE StreamsInv'
<1> USE DEF StreamsInv
<1>1. UNCHANGED <<table, file, lastConfig, process, healthFailures, holder, text, stopping, edits,
                  mishaps>> /\ at[Main] = "ready"
      /\ at' = [at EXCEPT ![Main] = "serving", ![Supervisor] = "wait"]
    BY DEF WaitReady
<1>2. at[Supervisor] = "off" /\ \A o \in Editors : at[o] = "off"
    BY <1>1 DEF Phases
<1>3. at'[Main] = "serving" /\ at'[Supervisor] = "wait" /\ \A o \in Editors : at'[o] = "off"
    BY <1>1, <1>2, ThreadsApart DEF Placed
<1>4. at' \in [Managers -> MainPlaces \cup SupervisorPlaces \cup EditorPlaces]
    BY <1>1 DEF Placed, MainPlaces, SupervisorPlaces
<1>5. Placed'
    BY <1>3, <1>4 DEF Placed, MainPlaces, SupervisorPlaces, EditorPlaces
<1>6. Exclusive'
    BY <1>1, <1>2, <1>3, ThreadsApart DEF Exclusive, Held
<1>7. Process' /\ Config' = Config
    BY <1>1 DEF Process, Config
<1>8. Counted' /\ Phases'
    BY <1>1, <1>2, <1>3 DEF Counted, Phases
<1>9. ASSUME NEW o \in Managers PROVE Rendered(o)'
    BY <1>3, ThreadsApart DEF Rendered
<1>10. NothingStale'
    BY <1>1, <1>2, <1>7 DEF NothingStale
<1> QED
    BY <1>1, <1>5, <1>6, <1>7, <1>8, <1>9, <1>10 DEF Texts

LEMMA ShutdownKeeps == ASSUME StreamsInv, Shutdown PROVE StreamsInv'
<1> USE DEF StreamsInv
<1>1. UNCHANGED <<table, file, lastConfig, process, healthFailures, holder, text, edits, mishaps>>
      /\ at[Main] = "serving" /\ stopping' = TRUE /\ Goto(Main, "stop")
      /\ \A o \in Editors : at[o] = "off"
    BY DEF Shutdown
<1>2. Fits(Main, "stop")
    BY ThreadsApart DEF Fits, MainPlaces
<1>3. Placed' /\ at'[Main] = "stop" /\ \A o \in Managers : o # Main => at'[o] = at[o]
    BY <1>1, <1>2, Moves, ThreadsApart
<1>4. Exclusive'
    BY <1>1, <1>3 DEF Exclusive, Held
<1>5. Process' /\ Config' = Config
    BY <1>1 DEF Process, Config
<1>6. Counted' /\ Phases'
    BY <1>1, <1>3, ThreadsApart DEF Counted, Phases
<1>7. ASSUME NEW o \in Managers PROVE Rendered(o)'
    <2>1. SUFFICES ASSUME at'[o] = "write" PROVE Rendered(o)'
        BY DEF Rendered
    <2>2. at[o] = "write" /\ Rendered(o)
        BY <1>3, <2>1 DEF Texts
    <2>3. \A e \in Editors : at'[e] = at[e]
        BY <1>3, ThreadsApart
    <2> QED BY <1>1, <1>5, <2>2, <2>3 DEF Rendered
<1>8. NothingStale'
    BY <1>1, <1>3, <1>5, ThreadsApart DEF NothingStale
<1> QED
    BY <1>1, <1>3, <1>4, <1>5, <1>6, <1>7, <1>8 DEF Texts

LEMMA StreamsInvStep == ASSUME StreamsInv, [StreamsNext]_streamVars PROVE StreamsInv'
<1>1. CASE UNCHANGED streamVars
    BY <1>1 DEF streamVars, StreamsInv, Placed, Exclusive, Process, Counted, Phases, Texts,
                Rendered, NothingStale, Config
<1>2. CASE StreamsNext
    BY <1>2, BootKeeps, DieKeeps, GraceEndsKeeps, EditKeeps, LockKeeps, BuildKeeps, WriteKeeps,
       StopKeeps, SpawnKeeps, EnsureKeeps, SuperviseKeeps, ReadyKeeps, ShutdownKeeps
       DEF StreamsNext, Manage
<1> QED
    BY <1>1, <1>2

LEMMA StreamsInvShown == StreamsInv => StreamsTypeOK /\ NothingStale
BY DEF StreamsInv, StreamsTypeOK, Exclusive, Held, Process, Counted

THEOREM NothingIsStale == StreamsSpec => []NothingStale
<1>1. StreamsInit("start") => StreamsInv
    BY StreamsInvInit
<1>2. StreamsInv /\ [StreamsNext]_streamVars => StreamsInv'
    BY StreamsInvStep
<1> QED
    BY <1>1, <1>2, StreamsInvShown, PTL DEF StreamsSpec

-----------------------------------------------------------------------------
(* The poller of camera events.                                            *)

Counters ==
    /\ edges \in [Alarms -> Nat] /\ raised \in [Alarms -> Nat]
    /\ alarm \in [Alarms -> BOOLEAN]

Polled == eye.camera \X eye.kinds

Eye ==
    /\ eye \in [pc : {"gone", "loop", "poll", "answer"}, cameras : SUBSET Smart,
                kinds : SUBSET Detectable, camera : SUBSET Smart, answer : SUBSET Alarms]
    /\ detect \subseteq Detectable
    /\ eye.answer \subseteq Polled
    /\ eye.pc # "answer" => eye.answer = {} /\ eye.camera = {}

Owed(a) ==
    \/ alarm[a] /\ ~seen[a]
    \/ a \in eye.answer /\ ~seen[a]
    \/ a \in Polled /\ a \notin eye.answer /\ alarm[a]

Balance(a) == raised[a] <= edges[a] /\ (Owed(a) => raised[a] < edges[a])

EventsInv == Counters /\ Eye /\ \A a \in Alarms : Balance(a)

-----------------------------------------------------------------------------
LEMMA EventsInvInit == (\E kinds \in SUBSET Detectable : EventsInit(kinds)) => EventsInv
<1> SUFFICES ASSUME NEW kinds \in SUBSET Detectable, EventsInit(kinds) PROVE EventsInv
    OBVIOUS
<1>1. Counters
    BY DEF EventsInit, Counters
<1>2. Eye
    BY DEF EventsInit, Eye, Gone, Polled
<1>3. ASSUME NEW a \in Alarms PROVE Balance(a)
    BY <1>3 DEF EventsInit, Balance, Owed, Polled, Gone
<1> QED BY <1>1, <1>2, <1>3 DEF EventsInv

\* Steps of the poller and of the settings that leave the alarms and the counts
\* alone and let go of the answer in hand, if there is one.
LEMMA LetGo ==
    ASSUME EventsInv, UNCHANGED <<alarm, edges, seen, raised>>,
           eye'.answer = {}, eye'.camera = {}
    PROVE  \A a \in Alarms : Balance(a)'
<1> SUFFICES ASSUME NEW a \in Alarms PROVE Balance(a)'
    OBVIOUS
<1>1. Balance(a)
    BY DEF EventsInv
<1>2. a \notin eye'.answer /\ a \notin eye'.camera \X eye'.kinds
    BY DEF Alarms
<1> QED BY <1>1, <1>2 DEF Balance, Owed, Polled

LEMMA EventsInvStep == EventsInv /\ [EventsNext]_eventVars => EventsInv'
<1> SUFFICES ASSUME EventsInv, [EventsNext]_eventVars PROVE EventsInv'
    OBVIOUS
<1> USE DEF EventsInv
<1>1. ASSUME NEW a \in Alarms, Detection(a) PROVE EventsInv'
    <2>1. Counters' /\ Eye'
        BY <1>1 DEF Detection, Counters, Eye, Polled
    <2>2. ASSUME NEW b \in Alarms PROVE Balance(b)'
        <3>1. CASE b = a
            BY <1>1, <3>1, Balance(a) DEF Detection, Counters, Balance, Owed, Polled
        <3>2. CASE b # a
            BY <1>1, <3>2, Balance(b) DEF Detection, Counters, Balance, Owed, Polled
        <3> QED BY <3>1, <3>2
    <2> QED BY <2>1, <2>2
<1>2. ASSUME NEW kinds \in SUBSET Detectable, Apply(kinds) PROVE EventsInv'
    <2>1. Counters' /\ Eye'
        BY <1>2 DEF Apply, Counters, Eye, Gone, Polled
    <2>2. CASE eye' = eye
        BY <1>2, <2>1, <2>2 DEF Apply, Balance, Owed, Polled
    <2>3. CASE eye' # eye
        BY <1>2, <2>1, <2>3, LetGo DEF Apply, Gone
    <2> QED BY <2>2, <2>3
<1>3. CASE Loop
    <2>1. Counters' /\ Eye'
        BY <1>3 DEF Loop, Counters, Eye, Gone, Polled
    <2> QED BY <1>3, <2>1, LetGo DEF Loop, Gone
<1>4. ASSUME NEW one \in Smart, ReadStates(one) PROVE EventsInv'
    <2>1. Counters'
        BY <1>4 DEF ReadStates, Counters
    <2>2. eye' = [eye EXCEPT !.pc = "answer", !.cameras = @ \ {one}, !.camera = {one},
                             !.answer = {a \in {one} \X eye.kinds : alarm[a]}]
        BY <1>4 DEF ReadStates
    <2>3. {one} \X eye.kinds \subseteq Alarms
        BY DEF Eye, Alarms
    <2>4. Eye'
        <3>1. PICK on \in SUBSET Alarms : on = {a \in {one} \X eye.kinds : alarm[a]}
            BY <2>3
        <3>2. eye' = [eye EXCEPT !.pc = "answer", !.cameras = @ \ {one}, !.camera = {one},
                                 !.answer = on]
            BY <2>2, <3>1
        <3>3. detect' = detect
            BY <1>4 DEF ReadStates
        <3>4. on \subseteq eye'.camera \X eye'.kinds
            BY <3>1, <3>2 DEF Eye
        <3> QED BY <3>2, <3>3, <3>4 DEF Eye, Polled
    <2>5. ASSUME NEW a \in Alarms PROVE Balance(a)'
        <3>1. (a \in eye'.answer => alarm[a]) /\ (a \in Polled' /\ a \notin eye'.answer => ~alarm[a])
            BY <2>2, <2>3 DEF Eye, Polled
        <3>2. UNCHANGED <<alarm, edges, seen, raised>>
            BY <1>4 DEF ReadStates
        <3> QED BY <3>1, <3>2, Balance(a) DEF Balance, Owed
    <2> QED BY <2>1, <2>4, <2>5
<1>5. ASSUME NEW one \in Smart, Unreachable(one) PROVE EventsInv'
    <2>1. Counters' /\ Eye'
        BY <1>5 DEF Unreachable, Counters, Eye, Polled
    <2> QED BY <1>5, <2>1, LetGo DEF Unreachable, Eye
<1>6. CASE PollCamera
    <2>1. Counters' /\ Eye'
        <3>1. Eye'
            BY <1>6 DEF PollCamera, Eye, Polled
        <3>2. /\ raised' = [a \in Alarms |->
                    IF a \in eye.answer /\ ~seen[a] THEN raised[a] + 1 ELSE raised[a]]
              /\ seen' = [a \in Alarms |-> IF a \in Polled THEN a \in eye.answer ELSE seen[a]]
            BY <1>6 DEF PollCamera, Polled
        <3>3. raised' \in [Alarms -> Nat]
            BY <3>2 DEF Counters
        <3>4. UNCHANGED <<alarm, edges>>
            BY <1>6 DEF PollCamera
        <3> QED BY <3>1, <3>3, <3>4 DEF Counters
    <2>2. ASSUME NEW a \in Alarms PROVE Balance(a)'
        <3>1. a \notin eye'.answer /\ a \notin Polled'
            BY <1>6 DEF PollCamera, Eye, Polled, Alarms
        <3>2. raised'[a] = (IF a \in eye.answer /\ ~seen[a] THEN raised[a] + 1 ELSE raised[a])
              /\ edges'[a] = edges[a] /\ alarm'[a] = alarm[a]
            BY <1>6 DEF PollCamera
        <3>3. seen'[a] = (IF a \in Polled THEN a \in eye.answer ELSE seen[a])
            BY <1>6 DEF PollCamera, Polled
        <3>4. CASE a \in eye.answer /\ ~seen[a]
            BY <3>1, <3>2, <3>3, <3>4, Balance(a) DEF Counters, Eye, Balance, Owed
        <3>5. CASE ~(a \in eye.answer /\ ~seen[a])
            BY <3>1, <3>2, <3>3, <3>5, Balance(a) DEF Counters, Balance, Owed
        <3> QED BY <3>4, <3>5
    <2> QED BY <2>1, <2>2
<1>7. CASE PollEnds
    <2>1. Counters' /\ Eye'
        BY <1>7 DEF PollEnds, Counters, Eye, Gone, Polled
    <2> QED BY <1>7, <2>1, LetGo DEF PollEnds, Gone
<1>8. CASE UNCHANGED eventVars
    BY <1>8 DEF eventVars, Counters, Eye, Balance, Owed, Polled
<1> QED BY <1>1, <1>2, <1>3, <1>4, <1>5, <1>6, <1>7, <1>8 DEF EventsNext

-----------------------------------------------------------------------------
\* A detection makes one event at most, whatever the cameras answer, however
\* often the poller is switched off and on and its kinds are changed.
THEOREM Edges == EventsSpec => []OneEventPerEdge
<1>1. EventsInv => OneEventPerEdge
    BY DEF EventsInv, Balance, OneEventPerEdge
<1> QED BY EventsInvInit, EventsInvStep, <1>1, PTL DEF EventsSpec

-----------------------------------------------------------------------------
(* The services together, as they are model-checked.                       *)

\* What the counts of the poller of events and its flag may be.
Bounded ==
    /\ stopFlag \in BOOLEAN /\ settings \in 0 .. MaxSettings
    /\ \A a \in Alarms : edges[a] \in 0 .. MaxEdges

LEMMA BoundedInit == ASSUME NEW kinds, EventsInit(kinds) PROVE Bounded
<1>1. MaxEdges \in Nat /\ MaxSettings \in Nat
    BY EventsAssumption DEF EventsAssumption
<1>2. stopFlag = FALSE /\ settings = 0 /\ \A a \in Alarms : edges[a] = 0
    BY DEF EventsInit
<1>3. 0 \in 0 .. MaxEdges /\ 0 \in 0 .. MaxSettings
    BY <1>1
<1>4. settings \in 0 .. MaxSettings
    BY <1>2, <1>3
<1>5. \A a \in Alarms : edges[a] \in 0 .. MaxEdges
    BY <1>2, <1>3
<1>6. stopFlag \in BOOLEAN
    BY <1>2
<1> QED BY <1>4, <1>5, <1>6 DEF Bounded

LEMMA BoundedStep ==
    ASSUME EventsInv, Bounded, [EventsNext]_eventVars
    PROVE  Bounded'
<1>1. MaxEdges \in Nat /\ MaxSettings \in Nat
    BY EventsAssumption DEF EventsAssumption
<1>2. ASSUME NEW a \in Alarms, Detection(a) PROVE Bounded'
    <2>1. stopFlag' = stopFlag /\ settings' = settings
        BY <1>2 DEF Detection
    <2>2. ASSUME NEW b \in Alarms PROVE edges'[b] \in 0 .. MaxEdges
        <3>1. edges[b] \in 0 .. MaxEdges
            BY DEF Bounded
        <3>2. CASE edges' = edges
            BY <3>1, <3>2
        <3>3. CASE edges' = [edges EXCEPT ![a] = @ + 1] /\ edges[a] < MaxEdges
            <4>1. edges'[b] = IF b = a THEN edges[a] + 1 ELSE edges[b]
                BY <3>3 DEF EventsInv, Counters
            <4> QED BY <1>1, <3>1, <3>3, <4>1
        <3> QED BY <1>2, <3>2, <3>3 DEF Detection
    <2> QED BY <2>1, <2>2 DEF Bounded
<1>3. ASSUME NEW kinds \in SUBSET Detectable, Apply(kinds) PROVE Bounded'
    <2>1. edges' = edges
        BY <1>3 DEF Apply
    <2>2. settings' \in 0 .. MaxSettings
        BY <1>1, <1>3 DEF Apply, Bounded
    <2>3. stopFlag' \in BOOLEAN
        BY <1>3 DEF Apply, Bounded
    <2> QED BY <2>1, <2>2, <2>3 DEF Bounded
<1>4. ASSUME UNCHANGED <<edges, stopFlag, settings>> PROVE Bounded'
    BY <1>4 DEF Bounded
<1>5. CASE Loop \/ PollCamera \/ PollEnds \/ UNCHANGED eventVars
    BY <1>4, <1>5 DEF Loop, PollCamera, PollEnds, eventVars
<1>6. ASSUME NEW one \in Smart, ReadStates(one) \/ Unreachable(one) PROVE Bounded'
    BY <1>4, <1>6 DEF ReadStates, Unreachable
<1> QED BY <1>2, <1>3, <1>5, <1>6 DEF EventsNext

ServicesInv == Inv /\ StreamsInv /\ EventsInv /\ Bounded

LEMMA ServicesInvInit == Init => ServicesInv
<1> SUFFICES ASSUME Init PROVE ServicesInv
    OBVIOUS
<1>1. Inv
    <2>1. PICK pc \in {"off", "idle"} : ShadesInit(pc)
        BY DEF Init
    <2> QED BY <2>1, InitInv
<1>2. StreamsInv
    <2>1. PICK place \in {"off", "start"} : StreamsInit(place)
        BY DEF Init
    <2> QED BY <2>1, StreamsInvInit
<1>3. EventsInv /\ Bounded
    <2>1. PICK kinds \in SUBSET Detectable : EventsInit(kinds)
        BY DEF Init
    <2> QED BY <2>1, EventsInvInit, BoundedInit
<1> QED BY <1>1, <1>2, <1>3 DEF ServicesInv

LEMMA ServicesInvStep ==
    ServicesInv /\ [Next]_<<started, shadeVars, streamVars, eventVars>> => ServicesInv'
<1> SUFFICES ASSUME ServicesInv, [Next]_<<started, shadeVars, streamVars, eventVars>>
             PROVE  ServicesInv'
    OBVIOUS
<1>1. [ShadesNext]_shadeVars /\ [StreamsNext]_streamVars /\ [EventsNext]_eventVars
    BY DEF Next
<1>2. Inv'
    BY <1>1, NextInv DEF ServicesInv
<1>3. StreamsInv'
    BY <1>1, StreamsInvStep DEF ServicesInv
<1>4. EventsInv'
    BY <1>1, EventsInvStep DEF ServicesInv
<1>5. Bounded'
    BY <1>1, BoundedStep DEF ServicesInv
<1> QED BY <1>2, <1>3, <1>4, <1>5 DEF ServicesInv

\* Every variable of the coverings, of the manager of go2rtc and of the poller of
\* events keeps its range, whichever of them is started: the transport's lock and
\* the manager's are held in the midst of an operation and nowhere else, and the
\* failures that the supervisor counts never pass its threshold.
THEOREM ServicesTypes == FairSpec => []TypeOK
<1>1. Inv => ShadesTypeOK
    BY DEF Inv, Housed, Tabled, Locked, Counting, ShadesTypeOK
<1>2. StreamsInv => StreamsTypeOK
    BY StreamsInvShown
<1>3. EventsInv /\ Bounded => EventsTypeOK
    BY DEF EventsInv, Eye, Bounded, EventsTypeOK
<1>4. ServicesInv => TypeOK
    BY <1>1, <1>2, <1>3 DEF ServicesInv, TypeOK
<1> QED
    BY ServicesInvInit, ServicesInvStep, <1>4, PTL DEF FairSpec

=============================================================================
