------------------------------ MODULE Recorder ------------------------------
(***************************************************************************)
(* nvr/recorder.py: the CameraRecorder objects that own one ffmpeg each,   *)
(* and the RecordingService that reconciles them with the camera table.    *)
(*                                                                         *)
(* The supervisor thread (Sup) and the request threads (Requests: HTTP     *)
(* handlers of nvr/main.py and the scheduler's _apply_record) all walk the *)
(* same dictionary of recorders, and nothing locks it.  A step of a thread *)
(* ends wherever the code can lose the processor for long: a database      *)
(* read, the wait for a terminated ffmpeg, the back-off sleep.             *)
(***************************************************************************)
EXTENDS Naturals, FiniteSets, FiniteSetsExt

CONSTANTS
    Cameras,        \* camera ids
    Streams,        \* values of record_stream
    Volumes,        \* pool volumes choose_volume can pick
    Recs,           \* identities of CameraRecorder objects
    Sup,            \* the recorder-supervisor thread
    Requests,       \* threads that edit cameras and then reconcile
    None,           \* Python's None
    StartRows,      \* what a row of the camera table may hold at start
    StartVolume,    \* where choose_volume points at start
    BackoffCap,     \* MAX_BACKOFF
    MaxEdits,       \* bound: requests, plus moves of the pool
    MaxDeaths,      \* bound: ffmpeg exits nobody asked for
    MaxFaults       \* bound: iterations cut short by an exception

ASSUME RecorderAssumption ==
    /\ Sup \notin Requests
    /\ None \notin Cameras \cup Recs \cup Streams \cup (Streams \X Volumes)
    /\ StartVolume \in Volumes
    /\ Streams # {}
    /\ StartRows \subseteq
         [live: BOOLEAN, record: BOOLEAN, until: {"none", "open", "past"}, stream: Streams]
    /\ BackoffCap \in Nat \ {0}
    /\ {MaxEdits, MaxDeaths, MaxFaults} \subseteq Nat

Threads == {Sup} \cup Requests

VARIABLES
    row,        \* the camera table, reduced to what sync() reads
    volume,     \* the volume choose_volume would return now
    reg,        \* RecordingService.recorders: camera -> recorder or None
    obj,        \* the CameraRecorder objects
    lost,       \* ffmpegs still running whose Popen handle was overwritten
    stopping,   \* RecordingService._stop
    pc, todo, want, cam, cur, held,     \* the threads' local state
    edits, deaths, faults,              \* the bounded counters
    overlap     \* history: two threads were once inside the service together

table   == <<row, volume>>
service == <<reg, obj, lost, stopping>>
local   == <<pc, todo, want, cam, cur, held>>
budget  == <<edits, deaths, faults>>
vars    == <<table, service, local, budget, overlap>>

-----------------------------------------------------------------------------
(* What a thread reads. *)

Rows == [live: BOOLEAN, record: BOOLEAN, until: {"none", "open", "past"},
         stream: Streams]

\* live: in the table, enabled, not archived and with a main_url.
WantedRow(c) == row[c].live /\ row[c].record /\ row[c].until # "past"

Expired == {c \in Cameras : row[c].live /\ row[c].record /\ row[c].until = "past"}

WantedNow == [c \in Cameras |-> IF WantedRow(c) THEN row[c].stream ELSE None]

Nothing == [c \in Cameras |-> None]

Registered == {c \in Cameras : reg[c] # None}

\* An ffmpeg process: none, running, sent SIGTERM, exited but not reaped.
Procs   == {"none", "alive", "dying", "exited"}
Running(r) == obj[r].proc \in {"alive", "dying"}

Objects == [cam: Cameras \cup {None}, stream: Streams, base: Volumes,
            proc: Procs, backoff: 1..BackoffCap]

\* Objects no thread and no table can reach any more, and with no process left.
InUse(r) == \/ \E c \in Cameras : reg[c] = r
            \/ \E t \in Threads : cur[t] = r \/ r \in held[t]
Free == {r \in Recs : ~InUse(r) /\ ~Running(r)}

Labels == {"idle", "exited", "sync", "expire", "drop", "drop_wait", "build", "assign",
           "assign_wait", "check", "backoff", "halt", "halt_wait", "restart_wait"}

Busy(t) == pc[t] \notin {"idle", "exited"}

\* A thread enters the service: note whether somebody is already inside.
Enter(t) == overlap' = (overlap \/ \E u \in Threads \ {t} : Busy(u))

Goto(t, label) == pc' = [pc EXCEPT ![t] = label]

-----------------------------------------------------------------------------
(* CameraRecorder.stop *)

\* Lines 170-174: without a process there is nothing to do and the caller goes
\* on at `next`; otherwise terminate it and wait at `waiting`.
BeginStop(t, r, waiting, next) ==
    LET there == obj[r].proc # "none"
    IN  /\ obj' = [obj EXCEPT ![r].proc = IF @ = "alive" THEN "dying" ELSE @]
        /\ cur' = [cur EXCEPT ![t] = IF there THEN r ELSE None]
        /\ Goto(t, IF there THEN waiting ELSE next)

\* Where each of the callers of stop() continues.
AfterStop == [drop_wait |-> "drop", assign_wait |-> "assign",
              halt_wait |-> "halt", restart_wait |-> "idle"]

\* Lines 175-180: the terminated process is gone, the handle is dropped.  If
\* the supervisor has meanwhile started another ffmpeg in this recorder, it is
\* that one's handle which is dropped.
StopWaited(t) ==
    /\ pc[t] \in DOMAIN AfterStop
    /\ LET r == cur[t]
       IN  /\ lost' = IF obj[r].proc = "alive"
                      THEN [lost EXCEPT ![obj[r].cam] = @ + 1] ELSE lost
           /\ obj' = [obj EXCEPT ![r].proc = "none"]
    /\ cur' = [cur EXCEPT ![t] = None]
    /\ Goto(t, AfterStop[pc[t]])
    /\ UNCHANGED <<table, reg, stopping, todo, want, cam, held, budget, overlap>>

-----------------------------------------------------------------------------
(* RecordingService.sync, run by any thread *)

\* Line 370: read which bounded recordings have run out.
SyncBegin(t) ==
    /\ pc[t] = "sync"
    /\ todo' = [todo EXCEPT ![t] = Expired]
    /\ Goto(t, "expire")
    /\ UNCHANGED <<table, service, want, cam, cur, held, budget, overlap>>

\* Lines 371-372: clear the flag of one of them, whatever the row says by now.
SyncExpire(t) ==
    /\ pc[t] = "expire"
    /\ \E c \in todo[t] :
        /\ row' = [row EXCEPT ![c].record = FALSE, ![c].until = "none"]
        /\ todo' = [todo EXCEPT ![t] = @ \ {c}]
    /\ UNCHANGED <<volume, service, pc, want, cam, cur, held, budget, overlap>>

\* Lines 374-382: the wanted cameras, and the recorders nobody wants.
SyncRead(t) ==
    /\ pc[t] = "expire" /\ todo[t] = {}
    /\ want' = [want EXCEPT ![t] = WantedNow]
    /\ todo' = [todo EXCEPT ![t] = {c \in Registered : ~WantedRow(c)}]
    /\ Goto(t, "drop")
    /\ UNCHANGED <<table, service, cam, cur, held, budget, overlap>>

\* Lines 382-385: pop one and stop it.
SyncDrop(t) ==
    /\ pc[t] = "drop"
    /\ \E c \in todo[t] \cap Registered :
        /\ reg' = [reg EXCEPT ![c] = None]
        /\ todo' = [todo EXCEPT ![t] = @ \ {c}]
        /\ BeginStop(t, reg[c], "drop_wait", "drop")
    /\ UNCHANGED <<table, lost, stopping, want, cam, held, budget, overlap>>

\* Line 385 when another thread popped it first: KeyError ends the call.
SyncDropKeyError(t) ==
    /\ pc[t] = "drop"
    /\ todo[t] \ Registered # {}
    /\ todo' = [todo EXCEPT ![t] = {}]
    /\ want' = [want EXCEPT ![t] = Nothing]
    /\ Goto(t, "idle")
    /\ UNCHANGED <<table, service, cam, cur, held, budget, overlap>>

\* Lines 390-393: choose the volume, then visit the wanted cameras.
SyncChoose(t) ==
    /\ pc[t] = "drop" /\ todo[t] = {}
    /\ want' = [want EXCEPT ![t] = [c \in Cameras |->
            IF @[c] = None THEN None ELSE <<@[c], volume>>]]
    /\ todo' = [todo EXCEPT ![t] = {c \in Cameras : want[t][c] # None}]
    /\ Goto(t, "build")
    /\ UNCHANGED <<table, service, cam, cur, held, budget, overlap>>

\* Mutant: a recorder left on the old volume counts as current.
CurrentWherever(c, target) == reg[c] # None /\ obj[reg[c]].stream = target[1]

\* Lines 398-400: registered, for this record stream and this volume.
Current(c, target) == reg[c] # None /\ <<obj[reg[c]].stream, obj[reg[c]].base>> = target

\* Lines 394-401: the recorder is current, leave it.
SyncKeep(t) ==
    /\ pc[t] = "build"
    /\ \E c \in todo[t] :
        /\ Current(c, want[t][c])
        /\ todo' = [todo EXCEPT ![t] = @ \ {c}]
    /\ UNCHANGED <<table, service, pc, want, cam, cur, held, budget, overlap>>

\* Mutant: a stale recorder is replaced without being stopped.
ReplaceWithoutStop(t) ==
    /\ pc[t] = "build"
    /\ \E c \in todo[t] :
        /\ ~Current(c, want[t][c])
        /\ todo' = [todo EXCEPT ![t] = @ \ {c}]
        /\ cam' = [cam EXCEPT ![t] = c]
    /\ Goto(t, "assign")
    /\ UNCHANGED <<table, service, want, cur, held, budget, overlap>>

\* Lines 394-402: it is missing or stale; stop the one that was found.
SyncReplace(t) ==
    /\ pc[t] = "build"
    /\ \E c \in todo[t] :
        /\ ~Current(c, want[t][c])
        /\ todo' = [todo EXCEPT ![t] = @ \ {c}]
        /\ cam' = [cam EXCEPT ![t] = c]
        /\ IF reg[c] = None
           THEN Goto(t, "assign") /\ UNCHANGED <<obj, cur>>
           ELSE BeginStop(t, reg[c], "assign_wait", "assign")
    /\ UNCHANGED <<table, reg, lost, stopping, want, held, budget, overlap>>

\* Line 403: register a fresh recorder over whatever the entry holds now.
SyncAssign(t) ==
    /\ pc[t] = "assign"
    /\ Free # {}
    /\ LET r == CHOOSE x \in Free : TRUE
           c == cam[t]
       IN  /\ obj' = [obj EXCEPT ![r] =
                        [cam |-> c, stream |-> want[t][c][1], base |-> want[t][c][2],
                         proc |-> "none", backoff |-> 1]]
           /\ reg' = [reg EXCEPT ![c] = r]
    /\ cam' = [cam EXCEPT ![t] = None]
    /\ Goto(t, "build")
    /\ UNCHANGED <<table, lost, stopping, todo, want, cur, held, budget, overlap>>

\* Every wanted camera visited: a request is done, the supervisor takes its
\* list of recorders (line 444) and starts checking them.
SyncEnd(t) ==
    /\ pc[t] = "build" /\ todo[t] = {}
    /\ want' = [want EXCEPT ![t] = Nothing]
    /\ held' = [held EXCEPT ![t] = IF t = Sup THEN {reg[c] : c \in Registered} ELSE {}]
    /\ Goto(t, IF t = Sup THEN "check" ELSE "idle")
    /\ UNCHANGED <<table, service, todo, cam, cur, budget, overlap>>

Sync(t) ==
    \/ SyncBegin(t) \/ SyncExpire(t) \/ SyncRead(t)
    \/ SyncDrop(t) \/ SyncDropKeyError(t) \/ SyncChoose(t)
    \/ SyncKeep(t) \/ SyncReplace(t) \/ SyncAssign(t) \/ SyncEnd(t)

-----------------------------------------------------------------------------
(* RecordingService._supervise and CameraRecorder.check *)

\* Lines 440-443: one iteration, unless the service has been told to stop.
SupTick ==
    /\ pc[Sup] = "idle" /\ ~stopping
    /\ Enter(Sup)
    /\ Goto(Sup, "sync")
    /\ UNCHANGED <<table, service, todo, want, cam, cur, held, budget>>

SupExit ==
    /\ pc[Sup] = "idle" /\ stopping
    /\ Goto(Sup, "exited")
    /\ UNCHANGED <<table, service, todo, want, cam, cur, held, budget, overlap>>

\* Line 185-187 of check(): no process yet, start one.
CheckStart ==
    /\ pc[Sup] = "check"
    /\ \E r \in held[Sup] :
        /\ obj[r].proc = "none"
        /\ obj' = [obj EXCEPT ![r].proc = "alive"]
        /\ held' = [held EXCEPT ![Sup] = @ \ {r}]
    /\ UNCHANGED <<table, reg, lost, stopping, pc, todo, want, cam, cur, budget, overlap>>

\* Lines 188-195: it runs; a run of over a minute forgives earlier failures.
CheckHealthy ==
    /\ pc[Sup] = "check"
    /\ \E r \in held[Sup] :
        /\ Running(r)
        /\ \/ UNCHANGED obj
           \/ obj' = [obj EXCEPT ![r].backoff = 1]
        /\ held' = [held EXCEPT ![Sup] = @ \ {r}]
    /\ UNCHANGED <<table, reg, lost, stopping, pc, todo, want, cam, cur, budget, overlap>>

\* Lines 197-212: it died; forget the process and sleep out the back-off.
CheckDied ==
    /\ pc[Sup] = "check"
    /\ \E r \in held[Sup] :
        /\ obj[r].proc = "exited"
        /\ obj' = [obj EXCEPT ![r].proc = "none"]
        /\ cur' = [cur EXCEPT ![Sup] = r]
        /\ held' = [held EXCEPT ![Sup] = @ \ {r}]
    /\ Goto(Sup, "backoff")
    /\ UNCHANGED <<table, reg, lost, stopping, todo, want, cam, budget, overlap>>

\* Lines 213-214: awake again; double the delay and start ffmpeg.
BackoffOver ==
    /\ pc[Sup] = "backoff"
    /\ obj' = [obj EXCEPT ![cur[Sup]].proc = "alive",
                          ![cur[Sup]].backoff = IF 2 * @ > BackoffCap THEN BackoffCap
                                                ELSE 2 * @]
    /\ cur' = [cur EXCEPT ![Sup] = None]
    /\ Goto(Sup, "check")
    /\ UNCHANGED <<table, reg, lost, stopping, todo, want, cam, held, budget, overlap>>

\* Lines 447-448: mkdir or Popen raised; the other recorders of this iteration
\* are not looked at.
SupFault ==
    /\ \/ pc[Sup] = "check" /\ held[Sup] # {}
       \/ pc[Sup] = "backoff"
    /\ faults < MaxFaults
    /\ faults' = faults + 1
    /\ cur' = [cur EXCEPT ![Sup] = None]
    /\ held' = [held EXCEPT ![Sup] = {}]
    /\ Goto(Sup, "idle")
    /\ UNCHANGED <<table, service, todo, want, cam, edits, deaths, overlap>>

\* Line 449: every recorder checked; wait for the next iteration.
SupWait ==
    /\ pc[Sup] = "check" /\ held[Sup] = {}
    /\ Goto(Sup, "idle")
    /\ UNCHANGED <<table, service, todo, want, cam, cur, held, budget, overlap>>

Supervise ==
    SupTick \/ SupExit \/ CheckStart \/ CheckHealthy \/ CheckDied
    \/ BackoffOver \/ SupFault \/ SupWait

-----------------------------------------------------------------------------
(* The requests that change what should be recorded *)

Edit(t, c, new) ==
    /\ pc[t] = "idle" /\ edits < MaxEdits /\ ~stopping
    /\ new # row[c]
    /\ row' = [row EXCEPT ![c] = new]
    /\ edits' = edits + 1
    /\ Enter(t)
    /\ Goto(t, "sync")
    /\ UNCHANGED <<volume, service, todo, want, cam, cur, held, deaths, faults>>

\* PATCH record and record_until; _apply_record writes the same two columns.
SetRecord(t, c, on, until) == Edit(t, c, [row[c] EXCEPT !.record = on, !.until = until])

\* Archive, disable or delete a camera; restore, enable or add it again.
SetLive(t, c) == Edit(t, c, [row[c] EXCEPT !.live = ~@])

SetStream(t, c, s) == Edit(t, c, [row[c] EXCEPT !.stream = s])

\* Mutant: the recorder is popped and its ffmpeg left running.
RestartWithoutStop(t, c) ==
    /\ pc[t] = "idle" /\ edits < MaxEdits /\ ~stopping
    /\ reg[c] # None
    /\ reg' = [reg EXCEPT ![c] = None]
    /\ edits' = edits + 1
    /\ Enter(t)
    /\ UNCHANGED <<table, obj, lost, stopping, local, deaths, faults>>

\* RecordingService.restart: pop, then stop.  No reconciliation follows.
Restart(t, c) ==
    /\ pc[t] = "idle" /\ edits < MaxEdits /\ ~stopping
    /\ reg[c] # None
    /\ reg' = [reg EXCEPT ![c] = None]
    /\ BeginStop(t, reg[c], "restart_wait", "idle")
    /\ edits' = edits + 1
    /\ Enter(t)
    /\ UNCHANGED <<table, lost, stopping, todo, want, cam, held, deaths, faults>>

\* RecordingService.stop: raise the flag, then stop every recorder listed.
Shutdown(t) ==
    /\ pc[t] = "idle" /\ edits < MaxEdits /\ ~stopping
    /\ stopping' = TRUE
    /\ held' = [held EXCEPT ![t] = {reg[c] : c \in Registered}]
    /\ edits' = edits + 1
    /\ Enter(t)
    /\ Goto(t, "halt")
    /\ UNCHANGED <<table, reg, obj, lost, todo, want, cam, cur, deaths, faults>>

HaltStop(t) ==
    /\ pc[t] = "halt"
    /\ \E r \in held[t] :
        /\ held' = [held EXCEPT ![t] = @ \ {r}]
        /\ BeginStop(t, r, "halt_wait", "halt")
    /\ UNCHANGED <<table, reg, lost, stopping, todo, want, cam, budget, overlap>>

\* Mutant: clear the table before every recorder has been stopped.
HaltEndEarly(t) ==
    /\ pc[t] = "halt"
    /\ reg' = Nothing
    /\ held' = [held EXCEPT ![t] = {}]
    /\ Goto(t, "idle")
    /\ UNCHANGED <<table, obj, lost, stopping, todo, want, cam, cur, budget, overlap>>

\* recorders.clear().
HaltEnd(t) ==
    /\ pc[t] = "halt" /\ held[t] = {}
    /\ reg' = Nothing
    /\ Goto(t, "idle")
    /\ UNCHANGED <<table, obj, lost, stopping, todo, want, cam, cur, held, budget, overlap>>

Request(t) ==
    \/ \E c \in Cameras :
        \/ \E on \in BOOLEAN, until \in {"none", "open", row[c].until} :
               SetRecord(t, c, on, until)
        \/ SetLive(t, c)
        \/ \E s \in Streams : SetStream(t, c, s)
        \/ Restart(t, c)
    \/ Shutdown(t) \/ HaltStop(t) \/ HaltEnd(t)

-----------------------------------------------------------------------------
(* What the threads do not control. *)

\* An ffmpeg exits: on SIGTERM, or because its camera or go2rtc went away.
FfmpegExits(r) ==
    /\ Running(r)
    /\ obj[r].proc = "alive" => deaths < MaxDeaths
    /\ deaths' = IF obj[r].proc = "alive" THEN deaths + 1 ELSE deaths
    /\ obj' = [obj EXCEPT ![r].proc = "exited"]
    /\ UNCHANGED <<table, reg, lost, stopping, local, edits, faults, overlap>>

\* The end of a bounded recording window passes.
Elapse(c) ==
    /\ row[c].until = "open"
    /\ row' = [row EXCEPT ![c].until = "past"]
    /\ UNCHANGED <<volume, service, local, budget, overlap>>

\* A volume fills up, empties, is mounted or goes away.
PoolMoves(v) ==
    /\ v # volume /\ edits < MaxEdits
    /\ volume' = v
    /\ edits' = edits + 1
    /\ UNCHANGED <<row, service, local, deaths, faults, overlap>>

Environment ==
    \/ \E r \in Recs : FfmpegExits(r)
    \/ \E c \in Cameras : Elapse(c)
    \/ \E v \in Volumes : PoolMoves(v)

-----------------------------------------------------------------------------

NewRecorder == [cam |-> None, stream |-> CHOOSE s \in Streams : TRUE,
                base |-> StartVolume, proc |-> "none", backoff |-> 1]

\* The service before its first tick; the table holds any cameras.
Init ==
    /\ row \in [Cameras -> StartRows]
    /\ volume = StartVolume
    /\ reg = Nothing
    /\ obj = [r \in Recs |-> NewRecorder]
    /\ lost = [c \in Cameras |-> 0]
    /\ stopping = FALSE
    /\ pc = [t \in Threads |-> "idle"]
    /\ todo = [t \in Threads |-> {}]
    /\ want = [t \in Threads |-> Nothing]
    /\ cam = [t \in Threads |-> None]
    /\ cur = [t \in Threads |-> None]
    /\ held = [t \in Threads |-> {}]
    /\ edits = 0 /\ deaths = 0 /\ faults = 0
    /\ overlap = FALSE

Next ==
    \/ \E t \in Threads : Sync(t) \/ StopWaited(t)
    \/ Supervise
    \/ \E t \in Requests : Request(t)
    \/ Environment

Spec == Init /\ [][Next]_vars

\* Python keeps scheduling a thread that is inside the service, every wait in
\* it ends (stop() kills after ten seconds, the back-off is at most thirty),
\* and the supervisor's loop comes round.  Nobody is obliged to send a request.
Fairness ==
    /\ \A t \in Threads : WF_vars(Sync(t) \/ StopWaited(t))
    /\ \A t \in Requests : WF_vars(HaltStop(t) \/ HaltEnd(t))
    /\ WF_vars(SupTick \/ CheckStart \/ CheckHealthy \/ CheckDied \/ BackoffOver
               \/ SupWait)

FairSpec == Spec /\ Fairness

-----------------------------------------------------------------------------
(* Properties *)

TypeOK ==
    /\ row \in [Cameras -> Rows]
    /\ volume \in Volumes
    /\ reg \in [Cameras -> Recs \cup {None}]
    /\ obj \in [Recs -> Objects]
    /\ lost \in [Cameras -> Nat]
    /\ stopping \in BOOLEAN
    /\ pc \in [Threads -> Labels]
    /\ todo \in [Threads -> SUBSET Cameras]
    /\ want \in [Threads -> [Cameras -> {None} \cup Streams \cup (Streams \X Volumes)]]
    /\ cam \in [Threads -> Cameras \cup {None}]
    /\ cur \in [Threads -> Recs \cup {None}]
    /\ held \in [Threads -> SUBSET Recs]
    /\ {edits, deaths, faults} \subseteq Nat
    /\ overlap \in BOOLEAN

\* The ffmpegs now writing segments of camera c, handles lost or not, and those
\* among them that nobody has told to stop.
Writers(c) == lost[c] + Cardinality({r \in Recs : Running(r) /\ obj[r].cam = c})
Unstopped(c) ==
    lost[c] + Cardinality({r \in Recs : obj[r].proc = "alive" /\ obj[r].cam = c})

\* "One ffmpeg process per camera, pulling from go2rtc's loopback RTSP and writing
\* fixed-length MP4 segments" (recorder.py:3): never two that are meant to keep
\* writing the same segment paths.
OneFfmpegPerCamera == \A c \in Cameras : Unstopped(c) <= 1

\* As long as no two threads have been inside the service together, a camera
\* has one writer at most, counting the one being stopped.
OneFfmpegAlone == ~overlap => \A c \in Cameras : Writers(c) <= 1

\* And no ffmpeg escapes: each is the registered recorder's, or some thread is
\* waiting for its end, so the supervisor or a later stop can reach it.
NoOrphanAlone ==
    ~overlap => \A r \in Recs : Running(r) =>
        \/ reg[obj[r].cam] = r
        \/ \E t \in Threads : cur[t] = r /\ pc[t] \in DOMAIN AfterStop

\* stop() leaves nothing recording once every thread is out of the service.
CleanShutdownAlone ==
    stopping /\ ~overlap /\ (\A t \in Threads : ~Busy(t)) =>
        \A c \in Cameras : Writers(c) = 0

\* Once requests stop coming and nothing more fails, the service settles on
\* the table: every wanted camera has a running recorder on the right stream,
\* and no other camera has one registered.
Settled == \A c \in Cameras :
    IF WantedRow(c)
    THEN /\ reg[c] # None /\ obj[reg[c]].proc = "alive"
         /\ obj[reg[c]].stream = row[c].stream /\ obj[reg[c]].base = volume
    ELSE reg[c] = None

Settles == [](~stopping) => <>[]Settled

=============================================================================
