------------------------------ MODULE Footage ------------------------------
(***************************************************************************)
(* Segment files and the rows that index them: ffmpeg and the indexer of   *)
(* nvr/recorder.py, the migration of nvr/storage_migrate.py, a deletion by *)
(* nvr/retention.py and the deletion of a camera by nvr/main.py.           *)
(*                                                                         *)
(* A path is a segment (its camera, day and file name) on a volume.  Each  *)
(* of the four threads handles one segment at a time in several steps, and *)
(* nothing but the uniqueness of paths in the table keeps them apart.      *)
(***************************************************************************)
EXTENDS Naturals, FiniteSets

CONSTANTS
    Cameras, Segs,
    CamOf,          \* the camera a segment belongs to
    Volumes,
    None,
    StartPool,      \* the volumes configured at start, and the primary one
    StartPrimary,
    MaxEdits,       \* bound: pools set, migrations, prunes, cameras deleted
    MaxFaults       \* bound: crashes, failed copies, ffmpegs that die

ASSUME FootageAssumption ==
    /\ CamOf \in [Segs -> Cameras]
    /\ StartPool \subseteq Volumes /\ StartPrimary \in StartPool
    /\ None \notin Cameras \cup (Segs \X Volumes)
    /\ {MaxEdits, MaxFaults} \subseteq Nat

VARIABLES
    pool, primary,      \* config.storage.volumes, and the first of them
    cams,               \* the camera table
    live,               \* the cameras that have a recorder
    writing,            \* the path a camera's ffmpeg has open, or None
    file,               \* the content of every path
    age,                \* how long before the indexer's pass it was modified
    rows, nextId,       \* the segments table
    index, mig, prune, del,     \* the threads' local state
    done, doomed, crossed, mistaken, spoiled,    \* history, see below
    edits, faults

config  == <<pool, primary>>
ffmpeg  == <<live, writing>>
disk    == <<file, age>>
db      == <<cams, rows, nextId>>
threads == <<index, mig, prune, del>>
history == <<done, doomed, crossed, mistaken, spoiled>>
budget  == <<edits, faults>>
vars    == <<config, ffmpeg, disk, db, threads, history, budget>>

\* done: segments ffmpeg has completed on disk.  doomed: segments somebody asked
\* to delete.  crossed: segments that two threads have had in hand at once, or
\* one thread when the program crashed.  mistaken: those among them of which the
\* indexer then removed a file it had condemned.  spoiled: those of which a
\* migration moved a damaged copy over a whole one.

-----------------------------------------------------------------------------

Paths == Segs \X Volumes
PathsOf(c) == {p \in Paths : CamOf[p[1]] = c}

\* none: no such file.  empty: no byte yet.  open: no moov atom yet, or cut
\* short.  good: ffprobe reads a duration.
Contents == {"none", "empty", "open", "good"}

\* fresh: within QUIET_SECONDS.  old: beyond CORRUPT_MAX_AGE.
Ages == {"fresh", "quiet", "old"}

Row(id, p) == [id |-> id, seg |-> p[1], vol |-> p[2]]
PathOf(r)  == <<r.seg, r.vol>>
Known      == {PathOf(r) : r \in rows}

Put(p, content, when) ==
    /\ file' = [file EXCEPT ![p] = content]
    /\ age' = [age EXCEPT ![p] = when]

Remove(p) == Put(p, "none", "fresh")

\* The segments each thread has in hand: read from the table or the disk, and
\* about to be acted upon.
Threads == {"index", "migrate", "prune", "delete"}
InHand(t) ==
    {s \in Segs : \/ t = "index"   /\ index.at # None /\ index.at[1] = s
                  \/ t = "migrate" /\ mig.src # None /\ mig.src[1] = s
                  \/ t = "prune"   /\ prune.stage # "idle" /\ prune.row.seg = s
                  \/ t = "delete"  /\ del.stage # "idle" /\ del.cam = CamOf[s]}
Listed == {r.seg : r \in mig.jobs}

\* A thread that takes a segment in hand may find it in another's; a camera that
\* is being deleted has its footage on the worklist of a migration.
Meet == crossed' = crossed \cup
    {s \in Segs : \/ \E t, u \in Threads : t # u /\ s \in InHand(t)' \cap InHand(u)'
                  \/ s \in InHand("delete")' \cap Listed'}

-----------------------------------------------------------------------------
(* ffmpeg, as the recorder runs it *)

\* The segment muxer opens the next file, on a volume of the pool.
OpenSegment(c) ==
    /\ c \in live /\ writing[c] = None
    /\ \E p \in PathsOf(c) :
        /\ p[2] \in pool
        /\ \A v \in Volumes : file[<<p[1], v>>] = "none"
        /\ p[1] \notin done \cup doomed
        /\ Put(p, "empty", "fresh")
        /\ writing' = [writing EXCEPT ![c] = p]
    /\ UNCHANGED <<config, live, db, threads, history, budget>>

\* It flushes its buffer; an unlinked file takes the bytes with it.
WriteSegment(c) ==
    /\ writing[c] # None /\ file[writing[c]] \in {"empty", "open"}
    /\ Put(writing[c], "open", "fresh")
    /\ UNCHANGED <<config, ffmpeg, db, threads, history, budget>>

\* It writes the moov atom and closes.
CloseSegment(c) ==
    /\ writing[c] # None
    /\ IF file[writing[c]] = "none"
       THEN UNCHANGED <<disk, done>>
       ELSE Put(writing[c], "good", "fresh") /\ done' = done \cup {writing[c][1]}
    /\ writing' = [writing EXCEPT ![c] = None]
    /\ UNCHANGED <<config, live, db, threads, doomed, crossed, mistaken, spoiled, budget>>

\* It dies and leaves the file as it is.
FfmpegDies(c) ==
    /\ writing[c] # None /\ faults < MaxFaults
    /\ faults' = faults + 1
    /\ writing' = [writing EXCEPT ![c] = None]
    /\ UNCHANGED <<config, live, disk, db, threads, history, edits>>

\* Time passes between two passes of the indexer (a pass reads the clock once, at
\* line 468).  A file ffmpeg or a copy has open is never an hour old.
GrowOld(p) ==
    /\ index.stage = "idle" /\ file[p] # "none"
    /\ \/ age[p] = "fresh" /\ age' = [age EXCEPT ![p] = "quiet"]
       \/ /\ age[p] = "quiet"
          /\ \A c \in Cameras : writing[c] # p
          /\ mig.stage = "copy" => mig.dest # p
          /\ age' = [age EXCEPT ![p] = "old"]
    /\ UNCHANGED <<config, ffmpeg, file, db, threads, history, budget>>

Ffmpeg ==
    \E c \in Cameras :
        OpenSegment(c) \/ WriteSegment(c) \/ CloseSegment(c) \/ FfmpegDies(c)

-----------------------------------------------------------------------------
(* RecordingService.index_new_segments *)

NoIndex == [stage |-> "idle", cams |-> {}, known |-> {}, vols |-> {}, todo |-> {},
            cam |-> None, at |-> None]

\* Line 474: the cameras, archived ones too.
IndexBegin ==
    /\ index.stage = "idle"
    /\ index' = [NoIndex EXCEPT !.stage = "cameras", !.cams = cams]
    /\ UNCHANGED <<config, ffmpeg, disk, db, mig, prune, del, history, budget>>

\* Mutant: only the primary volume is scanned.
IndexPrimary ==
    /\ index.stage = "cameras"
    /\ \E c \in index.cams :
         index' = [index EXCEPT !.stage = "volumes", !.cams = @ \ {c}, !.cam = c,
                                !.known = Known \cap PathsOf(c), !.vols = {primary}]
    /\ UNCHANGED <<config, ffmpeg, disk, db, mig, prune, del, history, budget>>

\* Lines 475-479: what is known of this camera, and the volumes to scan.
IndexCamera ==
    /\ index.stage = "cameras"
    /\ \E c \in index.cams :
         index' = [index EXCEPT !.stage = "volumes", !.cams = @ \ {c}, !.cam = c,
                                !.known = Known \cap PathsOf(c), !.vols = pool]
    /\ UNCHANGED <<config, ffmpeg, disk, db, mig, prune, del, history, budget>>

\* Lines 480-486: the files of the camera on one volume that are not known.
IndexList ==
    /\ index.stage = "volumes"
    /\ \E v \in index.vols :
         index' = [index EXCEPT !.stage = "files", !.vols = @ \ {v},
                    !.todo = {p \in PathsOf(index.cam) \ index.known :
                                p[2] = v /\ file[p] # "none"}]
    /\ UNCHANGED <<config, ffmpeg, disk, db, mig, prune, del, history, budget>>

\* Lines 487-495: the file is gone, or was modified a moment ago, or is empty
\* and unlinked; else probe it.
IndexStat ==
    /\ index.stage = "files"
    /\ \E p \in index.todo :
        LET rest == index.todo \ {p}
        IN  \/ /\ file[p] = "none" \/ age[p] = "fresh"
               /\ index' = [index EXCEPT !.todo = rest]
               /\ UNCHANGED disk
            \/ /\ file[p] = "empty" /\ age[p] # "fresh"
               /\ index' = [index EXCEPT !.todo = rest]
               /\ Remove(p)
            \/ /\ file[p] \in {"open", "good"} /\ age[p] # "fresh"
               /\ index' = [index EXCEPT !.todo = rest, !.at = p,
                              !.stage = IF age[p] = "old" THEN "probe old" ELSE "probe"]
               /\ UNCHANGED disk
    /\ UNCHANGED <<config, ffmpeg, db, mig, prune, del, done, doomed, mistaken, spoiled,
                   budget>>
    /\ Meet

Continue(stage) == index' = [index EXCEPT !.stage = stage,
                                       !.at = IF stage = "files" THEN None ELSE @]

\* Mutant: whatever ffprobe gives no duration for is condemned.
ProbeHasty ==
    /\ index.stage \in {"probe", "probe old"}
    /\ \/ file[index.at] = "good" /\ Continue("add")
       \/ Continue("condemn")
    /\ UNCHANGED <<config, ffmpeg, disk, db, mig, prune, del, history, budget>>

\* Mutant: index whatever is there.
ProbeBlind ==
    /\ index.stage \in {"probe", "probe old"}
    /\ Continue("add")
    /\ UNCHANGED <<config, ffmpeg, disk, db, mig, prune, del, history, budget>>

\* Line 497, probe_segment: ffprobe reads a duration, or condemns the contents,
\* or there is no verdict because it cannot open the file or is too slow.
Probe ==
    /\ index.stage \in {"probe", "probe old"}
    /\ \/ file[index.at] = "good" /\ Continue("add")
       \/ file[index.at] \in {"empty", "open"} /\ index.stage = "probe old"
          /\ Continue("condemn")
       \/ (file[index.at] # "good" \/ faults < MaxFaults) /\ Continue("files")
    /\ faults' = IF file[index.at] = "good" /\ index'.stage = "files"
                 THEN faults + 1 ELSE faults
    /\ UNCHANGED <<config, ffmpeg, disk, db, mig, prune, del, history, edits>>

\* Lines 513-519.
Condemn ==
    /\ index.stage = "condemn"
    /\ Remove(index.at)
    /\ Continue("files")
    /\ mistaken' = mistaken \cup ({index.at[1]} \cap crossed)
    /\ UNCHANGED <<config, ffmpeg, db, mig, prune, del, done, doomed, crossed, spoiled,
                   budget>>

\* Mutant: INSERT without OR IGNORE and without the unique path.
AddTwice ==
    /\ index.stage = "add"
    /\ rows' = rows \cup {Row(nextId, index.at)}
    /\ nextId' = nextId + 1
    /\ Continue("files")
    /\ UNCHANGED <<config, ffmpeg, disk, cams, mig, prune, del, history, budget>>

\* Lines 520-528 and db.add_segment: INSERT OR IGNORE on the unique path.
Add ==
    /\ index.stage = "add"
    /\ IF index.at \in Known
       THEN UNCHANGED <<rows, nextId>>
       ELSE rows' = rows \cup {Row(nextId, index.at)} /\ nextId' = nextId + 1
    /\ Continue("files")
    /\ UNCHANGED <<config, ffmpeg, disk, cams, mig, prune, del, history, budget>>

\* The volume, the camera or the pass is finished.
IndexNext ==
    /\ \/ index.stage = "files" /\ index.todo = {}
          /\ index' = [index EXCEPT !.stage = "volumes"]
       \/ index.stage = "volumes" /\ index.vols = {}
          /\ index' = [index EXCEPT !.stage = "cameras", !.cam = None, !.known = {}]
       \/ index.stage = "cameras" /\ index.cams = {} /\ index' = NoIndex
    /\ UNCHANGED <<config, ffmpeg, disk, db, mig, prune, del, history, budget>>

\* Lines 455-458: the database or a disk refuses, and the pass is given up.
IndexAborts ==
    /\ index.stage # "idle" /\ faults < MaxFaults
    /\ faults' = faults + 1
    /\ index' = NoIndex
    /\ UNCHANGED <<config, ffmpeg, disk, db, mig, prune, del, history, edits>>

Indexer ==
    \/ IndexBegin \/ IndexCamera \/ IndexList \/ IndexStat \/ Probe \/ Condemn \/ Add
    \/ IndexNext

-----------------------------------------------------------------------------
(* StorageMigrator *)

NoMove == [stage |-> "idle", jobs |-> {}, roots |-> {}, to |-> None, id |-> 0,
           src |-> None, dest |-> None, work |-> {}, failed |-> 0]

\* start() and _worklist(): the rows on no volume of the pool, to the primary.
MigrateStart ==
    /\ mig.stage = "idle" /\ edits < MaxEdits
    /\ mig' = [NoMove EXCEPT !.stage = "next", !.roots = pool, !.to = primary,
                             !.jobs = {r \in rows : r.vol \notin pool},
                             !.work = {r.id : r \in {x \in rows : x.vol \notin pool}}]
    /\ edits' = edits + 1
    /\ UNCHANGED <<config, ffmpeg, disk, db, index, prune, del, done, doomed, mistaken,
                   spoiled, faults>>
    /\ Meet

\* Lines 122-130: skip a file that is gone, or make ready to move it.
MigrateNext ==
    /\ mig.stage = "next"
    /\ \E r \in mig.jobs :
         mig' = IF file[PathOf(r)] = "none"
                THEN [mig EXCEPT !.jobs = @ \ {r}]
                ELSE [mig EXCEPT !.jobs = @ \ {r}, !.stage = "move", !.id = r.id,
                                 !.src = PathOf(r), !.dest = <<r.seg, mig.to>>]
    /\ UNCHANGED <<config, ffmpeg, disk, db, index, prune, del, done, doomed, mistaken, spoiled,
                   budget>>
    /\ Meet

\* What is written over a whole file is worth less than it.
Spoil == spoiled' = spoiled \cup
    {s \in crossed : s = mig.src[1] /\ file[mig.src] # "good" /\ file[mig.dest] = "good"}

AnotherMove(m) == [m EXCEPT !.stage = "next", !.id = 0, !.src = None, !.dest = None]
MoveFailed     == mig' = [AnotherMove(mig) EXCEPT !.failed = mig.failed + 1]

\* Lines 130-131: the file was pruned since it was looked for.
MoveFindsNothing ==
    /\ mig.stage = "move" /\ file[mig.src] = "none"
    /\ MoveFailed
    /\ UNCHANGED <<config, ffmpeg, disk, db, index, prune, del, history, budget>>

\* Line 131 on one filesystem: rename.
Rename ==
    /\ mig.stage = "move" /\ file[mig.src] # "none"
    /\ file' = [file EXCEPT ![mig.dest] = file[mig.src], ![mig.src] = "none"]
    /\ age'  = [age EXCEPT ![mig.dest] = age[mig.src], ![mig.src] = "fresh"]
    /\ mig' = [mig EXCEPT !.stage = "update"]
    /\ Spoil
    /\ UNCHANGED <<config, ffmpeg, db, index, prune, del, done, doomed, crossed, mistaken,
                   budget>>

\* Line 131 across filesystems: copy, then copy the times, then unlink.
Copy ==
    /\ mig.stage = "move" /\ file[mig.src] # "none"
    /\ Put(mig.dest, "empty", "fresh")
    /\ mig' = [mig EXCEPT !.stage = "copy"]
    /\ Spoil
    /\ UNCHANGED <<config, ffmpeg, db, index, prune, del, done, doomed, crossed, mistaken,
                   budget>>

CopyMore ==
    /\ mig.stage = "copy" /\ file[mig.dest] \in {"empty", "open"}
    /\ Put(mig.dest, "open", "fresh")
    /\ UNCHANGED <<config, ffmpeg, db, threads, history, budget>>

\* The times cannot be copied if either file has been unlinked: the move fails,
\* and what has been copied stays, all of a source that was whole or was not.
Copied ==
    /\ mig.stage = "copy"
    /\ IF file[mig.dest] = "none" THEN MoveFailed /\ UNCHANGED disk
       ELSE IF file[mig.src] = "none"
       THEN /\ MoveFailed
            /\ \E content \in {file[mig.dest], "good"} : Put(mig.dest, content, "fresh")
       ELSE /\ Put(mig.dest, file[mig.src], age[mig.src])
            /\ mig' = [mig EXCEPT !.stage = "unlink"]
    /\ UNCHANGED <<config, ffmpeg, db, index, prune, del, history, budget>>

\* No space left, or the volume went away.
CopyFails ==
    /\ mig.stage = "copy" /\ faults < MaxFaults
    /\ MoveFailed
    /\ faults' = faults + 1
    /\ UNCHANGED <<config, ffmpeg, disk, db, index, prune, del, history, edits>>

UnlinkSource ==
    /\ mig.stage = "unlink"
    /\ IF file[mig.src] = "none" THEN MoveFailed /\ UNCHANGED disk
       ELSE Remove(mig.src) /\ mig' = [mig EXCEPT !.stage = "update"]
    /\ UNCHANGED <<config, ffmpeg, db, index, prune, del, history, budget>>

\* Mutant: the path of the row is not updated.
UpdateNothing ==
    /\ mig.stage = "update"
    /\ mig' = AnotherMove(mig)
    /\ UNCHANGED <<config, ffmpeg, disk, db, index, prune, del, history, budget>>

\* Lines 132-133: the path is unique, and the row may be gone.
UpdatePath ==
    /\ mig.stage = "update"
    /\ IF mig.dest \in Known
       THEN MoveFailed /\ UNCHANGED rows
       ELSE /\ rows' = {IF r.id = mig.id THEN Row(r.id, mig.dest) ELSE r : r \in rows}
            /\ mig' = AnotherMove(mig)
    /\ UNCHANGED <<config, ffmpeg, disk, cams, nextId, index, prune, del, history,
                   budget>>

MigrateEnd ==
    /\ mig.stage = "next" /\ mig.jobs = {}
    /\ mig' = NoMove
    /\ UNCHANGED <<config, ffmpeg, disk, db, index, prune, del, history, budget>>

Migrator ==
    \/ MigrateStart \/ MigrateNext \/ MoveFindsNothing \/ Rename \/ Copy \/ CopyMore
    \/ Copied \/ CopyFails \/ UnlinkSource \/ UpdatePath \/ MigrateEnd

-----------------------------------------------------------------------------
(* RetentionService._delete of one row, and api_delete_camera *)

NoPrune == [stage |-> "idle", row |-> None]

\* A pass has read the row in a batch.
PruneBegin ==
    /\ prune.stage = "idle" /\ edits < MaxEdits
    /\ \E r \in rows :
        /\ prune' = [stage |-> "unlink", row |-> r]
        /\ doomed' = doomed \cup {r.seg}
    /\ edits' = edits + 1
    /\ UNCHANGED <<config, ffmpeg, disk, db, index, mig, del, done, mistaken, spoiled,
                   faults>>
    /\ Meet

PruneUnlink ==
    /\ prune.stage = "unlink"
    /\ Remove(PathOf(prune.row))
    /\ prune' = [prune EXCEPT !.stage = "row"]
    /\ UNCHANGED <<config, ffmpeg, db, index, mig, del, history, budget>>

PruneRow ==
    /\ prune.stage = "row"
    /\ rows' = {r \in rows : r.id # prune.row.id}
    /\ prune' = NoPrune
    /\ UNCHANGED <<config, ffmpeg, disk, cams, nextId, index, mig, del, history,
                   budget>>

NoDelete == [stage |-> "idle", cam |-> None]

\* With purge, the camera's folder on every volume of the pool is removed first.
DeleteBegin(c, purge) ==
    /\ del.stage = "idle" /\ edits < MaxEdits /\ c \in cams
    /\ del' = [stage |-> "camera", cam |-> c]
    /\ IF purge
       THEN /\ file' = [p \in Paths |-> IF p \in PathsOf(c) /\ p[2] \in pool
                                        THEN "none" ELSE file[p]]
            /\ age' = [p \in Paths |-> IF p \in PathsOf(c) /\ p[2] \in pool
                                       THEN "fresh" ELSE age[p]]
            /\ doomed' = doomed \cup {s \in Segs : CamOf[s] = c}
       ELSE UNCHANGED <<disk, doomed>>
    /\ edits' = edits + 1
    /\ UNCHANGED <<config, ffmpeg, db, index, mig, prune, done, mistaken, spoiled, faults>>
    /\ Meet

\* db.delete_camera: the row of the camera, then its segments.
DeleteCamera ==
    /\ del.stage = "camera"
    /\ cams' = cams \ {del.cam}
    /\ del' = [del EXCEPT !.stage = "segments"]
    /\ UNCHANGED <<config, ffmpeg, disk, rows, nextId, index, mig, prune, history,
                   budget>>

DeleteSegments ==
    /\ del.stage = "segments"
    /\ rows' = {r \in rows : CamOf[r.seg] # del.cam}
    /\ del' = [del EXCEPT !.stage = "sync"]
    /\ UNCHANGED <<config, ffmpeg, disk, cams, nextId, index, mig, prune, history,
                   budget>>

\* recording.sync() stops the recorder; its ffmpeg closes the segment or dies.
DeleteSync ==
    /\ del.stage = "sync"
    /\ live' = live \ {del.cam}
    /\ del' = NoDelete
    /\ UNCHANGED <<config, writing, disk, db, index, mig, prune, history, budget>>

Prune  == PruneBegin \/ PruneUnlink \/ PruneRow
Delete == \/ \E c \in Cameras, purge \in BOOLEAN : DeleteBegin(c, purge)
          \/ DeleteCamera \/ DeleteSegments \/ DeleteSync

-----------------------------------------------------------------------------

\* api_volumes_apply: another pool; the recorders are restarted on it, and an
\* ffmpeg closes the segment it was writing whenever it is told to stop.
SetPool(vols, first) ==
    /\ edits < MaxEdits
    /\ vols # pool \/ first # primary
    /\ pool' = vols /\ primary' = first
    /\ edits' = edits + 1
    /\ UNCHANGED <<ffmpeg, disk, db, threads, history, faults>>

\* The program is killed and starts again: the ffmpegs go with it.
Crash ==
    /\ faults < MaxFaults
    /\ faults' = faults + 1
    /\ crossed' = crossed \cup UNION {InHand(t) : t \in Threads}
    /\ index' = NoIndex /\ mig' = NoMove /\ prune' = NoPrune /\ del' = NoDelete
    /\ live' = cams
    /\ writing' = [c \in Cameras |-> None]
    /\ UNCHANGED <<config, disk, db, done, doomed, mistaken, spoiled, edits>>

Init ==
    /\ pool = StartPool /\ primary = StartPrimary
    /\ cams = Cameras /\ live = Cameras
    /\ writing = [c \in Cameras |-> None]
    /\ file = [p \in Paths |-> "none"]
    /\ age = [p \in Paths |-> "fresh"]
    /\ rows = {} /\ nextId = 1
    /\ index = NoIndex /\ mig = NoMove /\ prune = NoPrune /\ del = NoDelete
    /\ done = {} /\ doomed = {} /\ crossed = {} /\ mistaken = {} /\ spoiled = {}
    /\ edits = 0 /\ faults = 0

Next ==
    \/ Ffmpeg
    \/ \E p \in Paths : GrowOld(p)
    \/ Indexer \/ IndexAborts \/ Migrator \/ Prune \/ Delete
    \/ \E vols \in SUBSET Volumes \ {{}} : \E first \in vols : SetPool(vols, first)
    \/ Crash

Spec == Init /\ [][Next]_vars

\* The indexer's loop comes round.  It waits 5 s after a pass, longer than
\* QUIET_SECONDS, so a file that is left alone is quiet by the next pass or so.
FairSpec == Spec /\ WF_vars(Indexer) /\ \A p \in Paths : SF_vars(GrowOld(p))

-----------------------------------------------------------------------------
(* Properties *)

Rows    == [id : Nat, seg : Segs, vol : Volumes]
Holding == {"probe", "probe old", "condemn", "add"}
Moves   == {"move", "copy", "unlink", "update"}

IndexType == [stage : {"idle", "cameras", "volumes", "files"} \cup Holding,
              cams : SUBSET Cameras, known : SUBSET Paths, vols : SUBSET Volumes,
              todo : SUBSET Paths, cam : Cameras \cup {None}, at : Paths \cup {None}]
MigType   == [stage : {"idle", "next"} \cup Moves, jobs : SUBSET Rows,
              roots : SUBSET Volumes, to : Volumes \cup {None}, id : Nat,
              src : Paths \cup {None}, dest : Paths \cup {None}, work : SUBSET Nat,
              failed : Nat]
PruneType == [stage : {"idle", "unlink", "row"}, row : Rows \cup {None}]
DelType   == [stage : {"idle", "camera", "segments", "sync"}, cam : Cameras \cup {None}]

\* Every variable, and what every thread keeps, stays in its range.
TypeOK ==
    /\ primary \in pool /\ pool \subseteq Volumes
    /\ cams \subseteq Cameras /\ live \subseteq Cameras
    /\ writing \in [Cameras -> Paths \cup {None}]
    /\ file \in [Paths -> Contents] /\ age \in [Paths -> Ages]
    /\ nextId \in Nat \ {0} /\ rows \subseteq Rows /\ \A r \in rows : r.id < nextId
    /\ index \in IndexType /\ mig \in MigType /\ prune \in PruneType /\ del \in DelType
    /\ \A r, q \in rows : r.id = q.id \/ PathOf(r) = PathOf(q) => r = q
    /\ {done, doomed, crossed} \subseteq SUBSET Segs /\ mistaken \cup spoiled \subseteq crossed
    /\ {edits, faults} \subseteq Nat

\* "deleting is irreversible" (recorder.py:236): a segment once completed stays
\* on some volume until a limit or a purge asks for it, through every migration,
\* failed copy, indexing pass and crash.  There are two exceptions, both of them
\* after two threads met over the segment or the program crashed with it in hand:
\* a file the indexer has condemned and a repeated migration writes anew before it
\* is removed, and a damaged copy that got a row while it was whole and is then
\* moved over the whole one.
Survives ==
    \A s \in done \ (doomed \cup mistaken \cup spoiled) :
        \E v \in Volumes : file[<<s, v>>] = "good"

\* "That makes it correct across several successive switches"
\* (storage_migrate.py:11): what the indexer has condemned apart, the migrations
\* leave each completed segment that nobody asked to delete whole somewhere.
SurvivesSwitches ==
    \A s \in done \ (doomed \cup mistaken) :
        \E v \in Volumes : file[<<s, v>>] = "good"

\* A row names a file that plays, if no two threads have met over its segment
\* and none has it in hand.
Playable ==
    \A r \in rows : \/ file[PathOf(r)] = "good"
                    \/ r.seg \in crossed
                    \/ \E t \in Threads : r.seg \in InHand(t)

\* A migration that reports no failure has left none of the footage it set out
\* to move outside the volumes it found, but what was deleted or crossed.
Consolidates ==
    [][mig.stage = "next" /\ mig.jobs = {} /\ mig.failed = 0 /\ mig'.stage = "idle" =>
         \A r \in rows : r.id \in mig.work /\ r.vol \notin mig.roots =>
             r.seg \in crossed \cup doomed]_vars

\* Completed footage of a camera in the table gets onto the timeline, whichever
\* volume of the pool it is on.
Wanted(p) == file[p] = "good" /\ CamOf[p[1]] \in cams /\ p[2] \in pool

Indexed == \A p \in Paths : Wanted(p) ~> ~Wanted(p) \/ p \in Known

=============================================================================
