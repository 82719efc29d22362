------------------------------ MODULE Streams ------------------------------
(***************************************************************************)
(* The manager of go2rtc, the process that pulls the cameras and serves    *)
(* their streams.  Requests edit the camera table and then reload, the     *)
(* recorder's supervisor restarts a process that died or does not serve,   *)
(* and the lifespan starts and stops it; one lock serialises what they do  *)
(* to the process, the table is outside it.  The process is external: it   *)
(* reads its configuration when it boots, may boot without binding its     *)
(* ports, and may die.                                                     *)
(***************************************************************************)
EXTENDS Naturals, FiniteSets

CONSTANTS
    Cameras, Rows,   \* cameras, and what the table may say of one
    Hevc,            \* the addresses of H.265 streams
    Absent,          \* no row, address, file, process or thread
    Editors, Supervisor, Main,  \* the threads: requests, the recorder's, the lifespan's
    HEALTH_FAIL_THRESHOLD,
    MaxEdits, MaxMishaps        \* bounds of the exploration

ASSUME StreamsAssumption ==
    /\ HEALTH_FAIL_THRESHOLD \in Nat \ {0} /\ {MaxEdits, MaxMishaps} \subseteq Nat
    /\ Supervisor \notin Editors /\ Main \notin Editors \cup {Supervisor}
    /\ Absent \in Rows /\ Absent \notin Hevc \cup Editors \cup {Supervisor, Main}

VARIABLES
    table,                   \* the cameras' rows
    file, lastConfig,        \* go2rtc.yaml, and _last_config
    process,                 \* self.process
    healthFailures, holder,  \* _health_failures; the thread that has _lock
    at, text,                \* where each thread is, and what it rendered
    stopping,                \* the recording service's stop flag
    edits, mishaps           \* how much of each bound is spent

streamVars == <<table, file, lastConfig, process, healthFailures, holder, at, text,
                stopping, edits, mishaps>>

Managers == Editors \cup {Supervisor, Main}
Mishap == mishaps < MaxMishaps /\ mishaps' = mishaps + 1
Alive == IF process = Absent THEN FALSE ELSE process.state # "dead"
Goto(t, place) == at' = [at EXCEPT ![t] = place]
Release(t, place) == holder' = Absent /\ Goto(t, place)

\* Every address is served raw, and once more through a transcoder: of the sound
\* only, or of the picture too when no browser can play it.
Sources(name, url) ==
    [name |-> name, url |-> url,
     transcode |-> IF name = "talk" THEN "none" ELSE IF url \in Hevc THEN "h264" ELSE "audio"]

\* The streams of a camera in use: main, sub, and the one to talk through.
StreamsOf(row) ==
    IF row = Absent THEN {} ELSE IF ~row.enabled THEN {} ELSE
    LET talk == IF row.sub # Absent THEN row.sub ELSE row.main
    IN  {s \in {Sources("main", row.main), Sources("sub", row.sub), Sources("talk", talk)} :
            s.url # Absent}

Config == [c \in Cameras |-> StreamsOf(table[c])]

StreamsInit(place) ==
    /\ table \in [Cameras -> Rows]
    /\ file = Absent /\ lastConfig = Absent /\ process = Absent
    /\ healthFailures = 0 /\ holder = Absent
    /\ at = [t \in Managers |-> IF t = Main THEN place ELSE "off"]
    /\ text = [t \in Managers |-> Absent]
    /\ stopping = FALSE /\ edits = 0 /\ mishaps = 0

-----------------------------------------------------------------------------
(* The process.  Young means within its grace after the spawn.             *)

Boot ==
    /\ process # Absent /\ process.state = "booting"
    /\ \/ process' = [process EXCEPT !.state = "serving", !.config = file] /\ UNCHANGED mishaps
       \/ process' = [process EXCEPT !.state = "hollow"] /\ Mishap
    /\ UNCHANGED <<table, file, lastConfig, healthFailures, holder, at, text, stopping, edits>>

Die ==
    /\ Alive /\ Mishap
    /\ process' = [process EXCEPT !.state = "dead"]
    /\ UNCHANGED <<table, file, lastConfig, healthFailures, holder, at, text, stopping, edits>>

\* The grace is longer than a boot.
GraceEnds ==
    /\ process # Absent /\ process.young /\ process.state # "booting"
    /\ process' = [process EXCEPT !.young = FALSE]
    /\ UNCHANGED <<table, file, lastConfig, healthFailures, holder, at, text, stopping, edits,
                   mishaps>>

-----------------------------------------------------------------------------
(* The manager's operations, under its lock.                               *)

\* A camera is added, changed, archived, restored or deleted; then the reload.
EditCamera(t, c, row) ==
    /\ t \in Editors /\ at[t] = "off" /\ at[Main] = "serving"
    /\ row # table[c] /\ edits < MaxEdits /\ edits' = edits + 1
    /\ table' = [table EXCEPT ![c] = row]
    /\ Goto(t, "reload")
    /\ UNCHANGED <<file, lastConfig, process, healthFailures, holder, text, stopping, mishaps>>

Lock(t) ==
    /\ holder = Absent /\ holder' = t
    /\ \/ at[t] \in {"reload", "start"} /\ Goto(t, "build")
       \/ at[t] = "ensure" /\ Goto(t, "check")
       \/ at[t] = "stop" /\ Goto(t, "terminate")
    /\ UNCHANGED <<table, file, lastConfig, process, healthFailures, text, stopping, edits,
                   mishaps>>

\* A bug for NothingStale: the lock is let go before the file is written.
BuildConfigUnlocked(t) ==
    /\ at[t] = "build"
    /\ text' = [text EXCEPT ![t] = Config]
    /\ Release(t, "write")
    /\ UNCHANGED <<table, file, lastConfig, process, healthFailures, stopping, edits, mishaps>>

BuildConfig(t) ==
    /\ at[t] = "build"
    /\ text' = [text EXCEPT ![t] = Config]
    /\ Goto(t, "write")
    /\ UNCHANGED <<table, file, lastConfig, process, healthFailures, holder, stopping, edits,
                   mishaps>>

\* An unchanged configuration ends a reload; a start goes on in any case.
WriteConfig(t) ==
    /\ at[t] = "write"
    /\ LET same == lastConfig = text[t] /\ file # Absent
       IN  /\ IF same THEN UNCHANGED <<file, lastConfig>>
              ELSE file' = text[t] /\ lastConfig' = text[t]
           /\ IF t = Main THEN Goto(t, "spawn") /\ UNCHANGED holder
              ELSE IF same THEN Release(t, "off")
              ELSE Goto(t, "terminate") /\ UNCHANGED holder
    /\ text' = [text EXCEPT ![t] = Absent]
    /\ UNCHANGED <<table, process, healthFailures, stopping, edits, mishaps>>

\* Terminate, wait, kill: the process is gone when this returns.
StopLocked(t) ==
    /\ at[t] = "terminate"
    /\ process' = Absent
    /\ IF t = Main THEN Release(t, "stopped") ELSE Goto(t, "spawn") /\ UNCHANGED holder
    /\ UNCHANGED <<table, file, lastConfig, healthFailures, text, stopping, edits, mishaps>>

AfterSpawn(t) == IF t = Main THEN "ready" ELSE IF t = Supervisor THEN "wait" ELSE "off"

\* The binary may be missing, or the system refuse a process.
Spawn(t) ==
    /\ at[t] = "spawn"
    /\ \/ /\ process' = [state |-> "booting", young |-> TRUE, config |-> Absent]
          /\ healthFailures' = 0 /\ UNCHANGED mishaps
       \/ UNCHANGED <<process, healthFailures>> /\ Mishap
    /\ Release(t, AfterSpawn(t))
    /\ UNCHANGED <<table, file, lastConfig, text, stopping, edits>>

\* A bug for ServesTable: what lives is taken to serve.
EnsureAlive(t) ==
    /\ at[t] = "check"
    /\ \/ ~Alive /\ process' = Absent /\ Goto(t, "spawn") /\ UNCHANGED holder
       \/ Alive /\ Release(t, "wait") /\ UNCHANGED process
    /\ UNCHANGED <<table, file, lastConfig, healthFailures, text, stopping, edits, mishaps>>

\* Gone: spawn.  Young: leave it.  Answering: healthy.  Otherwise count, and
\* restart it at the threshold.
EnsureRunning(t) ==
    /\ at[t] = "check"
    /\ \/ /\ ~Alive
          /\ process' = Absent /\ Goto(t, "spawn")
          /\ UNCHANGED <<healthFailures, holder, mishaps>>
       \/ /\ Alive /\ process.young
          /\ Release(t, "wait") /\ UNCHANGED <<process, healthFailures, mishaps>>
       \/ /\ Alive /\ process.state = "serving" /\ ~process.young
          /\ healthFailures' = 0 /\ Release(t, "wait") /\ UNCHANGED <<process, mishaps>>
       \/ /\ Alive /\ ~process.young
          /\ IF process.state = "serving" THEN Mishap ELSE UNCHANGED mishaps
          /\ healthFailures' = healthFailures + 1 /\ UNCHANGED process
          /\ IF healthFailures + 1 >= HEALTH_FAIL_THRESHOLD
             THEN Goto(t, "terminate") /\ UNCHANGED holder
             ELSE Release(t, "wait")
    /\ UNCHANGED <<table, file, lastConfig, text, stopping, edits>>

-----------------------------------------------------------------------------
(* The supervisor's loop and the lifespan.                                 *)

Supervise ==
    /\ at[Supervisor] = "wait"
    /\ Goto(Supervisor, IF stopping THEN "off" ELSE "ensure")
    /\ UNCHANGED <<table, file, lastConfig, process, healthFailures, holder, text, stopping,
                   edits, mishaps>>

\* go2rtc has answered, or has not for fifteen seconds: the recorder starts and
\* requests are served.
WaitReady ==
    /\ at[Main] = "ready"
    /\ at' = [at EXCEPT ![Main] = "serving", ![Supervisor] = "wait"]
    /\ UNCHANGED <<table, file, lastConfig, process, healthFailures, holder, text, stopping,
                   edits, mishaps>>

\* The requests are done; the supervisor is told, not waited for.
Shutdown ==
    /\ at[Main] = "serving" /\ \A t \in Editors : at[t] = "off"
    /\ stopping' = TRUE /\ Goto(Main, "stop")
    /\ UNCHANGED <<table, file, lastConfig, process, healthFailures, holder, text, edits,
                   mishaps>>

-----------------------------------------------------------------------------
Manage(t) ==
    \/ Lock(t) \/ BuildConfig(t) \/ WriteConfig(t) \/ StopLocked(t) \/ Spawn(t)
    \/ EnsureRunning(t)

StreamsNext ==
    \/ Boot \/ Die \/ GraceEnds \/ Supervise \/ WaitReady \/ Shutdown
    \/ \E t \in Editors, c \in Cameras, row \in Rows : EditCamera(t, c, row)
    \/ \E t \in Managers : Manage(t)

\* The process boots and ages; every thread that can go on does.  The supervisor
\* leaves the lock alone for five seconds between two checks, so that a request
\* which waits for it gets it.
StreamsFairness ==
    /\ WF_streamVars(Boot) /\ WF_streamVars(GraceEnds)
    /\ WF_streamVars(Supervise) /\ WF_streamVars(WaitReady)
    /\ \A t \in Managers : WF_streamVars(Manage(t))
    /\ \A t \in Editors : SF_streamVars(Lock(t))

StreamsSpec == StreamsInit("start") /\ [][StreamsNext]_streamVars

-----------------------------------------------------------------------------
\* Every variable stays in its range, and the lock is held in the midst of an
\* operation and nowhere else.
StreamsTypeOK ==
    /\ table \in [Cameras -> Rows]
    /\ \A t \in Managers : holder = t <=> at[t] \in {"build", "write", "terminate", "spawn", "check"}
    /\ process # Absent => process.state \in {"booting", "serving", "hollow", "dead"}
    /\ healthFailures \in 0 .. HEALTH_FAIL_THRESHOLD
    /\ edits \in 0 .. MaxEdits /\ mishaps \in 0 .. MaxMishaps /\ stopping \in BOOLEAN

\* The file tells the camera table, or a request that edited it has still to write;
\* and go2rtc serves what the file tells, or a request has still to restart it:
\* however edits and reloads overlap, each change has somebody who answers for it.
NothingStale ==
    /\ file \in {Absent, Config} \/ \E t \in Editors : at[t] \in {"reload", "build", "write"}
    /\ process = Absent \/ process.state # "serving" \/ process.config = file
       \/ \E t \in Editors : at[t] = "terminate"

\* When the cameras are no longer edited, go2rtc ends up serving exactly the
\* streams of the camera table, for good: whichever requests reloaded at once,
\* and whether it died, came up without its ports, or failed to be spawned in
\* the middle of a reload.
ServesTable ==
    <>[](\/ at[Main] = "off" \/ stopping
         \/ process # Absent /\ process.state = "serving" /\ process.config = Config)

=============================================================================
