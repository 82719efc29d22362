------------------------------ MODULE Retention ------------------------------
(***************************************************************************)
(* nvr/retention.py: one pruning pass of the retention thread, against the *)
(* recorder and indexer that keep adding footage, the requests that edit   *)
(* or delete cameras, volumes that come and go, and a crash.               *)
(*                                                                         *)
(* A segment is one time unit long and one size unit big.  Every query is  *)
(* a step, and so are the unlink and the row delete of each segment, which *)
(* are what the other threads can come between.                            *)
(***************************************************************************)
EXTENDS Integers, FiniteSets, FiniteSetsExt

CONSTANTS
    Cameras, Volumes,
    Policies,       \* what a camera row may say: [hard, rolling, archived]
    None,           \* NULL
    GlobalHard,     \* max_age_days
    Caps,           \* StorageVolume.cap_bytes, per volume
    Sizes,          \* the room a volume's filesystem has for segments
    Floor,          \* FREE_SPACE_FLOOR
    Batch,          \* BATCH
    StatEvery,      \* the free-space backstop re-stats after this many deletes
    StartTime,      \* how long footage has been recorded before the model starts
    MaxTime, MaxMarkers,    \* bounds
    MaxUpsets       \* bound: files refused, edits, mounts and crashes together

Segments == [cam: Cameras, ts: 0..MaxTime, vol: Volumes]

\* StorageConfig.max_bytes: the caps of the volumes available now.
MaxBytes(available) == MapThenSumSet(LAMBDA v : Caps[v], available)

ASSUME RetentionAssumption ==
    /\ IsFiniteSet(Cameras) /\ IsFiniteSet(Volumes)
    /\ None \notin Int \cup Segments \cup Policies
    /\ Policies \subseteq [hard: Nat \cup {None}, rolling: Nat, archived: BOOLEAN]
    /\ {GlobalHard, Floor, StartTime, MaxTime, MaxMarkers, MaxUpsets} \subseteq Nat
    /\ StartTime <= MaxTime
    /\ {Batch, StatEvery} \subseteq Nat \ {0}
    /\ Caps \in [Volumes -> Nat] /\ Sizes \in [Volumes -> Nat]
    /\ \A V \in SUBSET Volumes : MaxBytes(V) \in Nat    \* as any sum of the caps is

VARIABLES
    now,
    table,          \* the camera table: camera -> policy, None once deleted
    mounted,        \* the volumes whose available() is true
    locked,         \* the files whose unlink is refused
    files,          \* segment files, on mounted volumes or not
    rows,           \* rows of the segments table
    events,         \* rows of the events table
    pass,           \* the retention thread's local state
    upsets,         \* the bounded counter
    fresh, failed, cut, calm, steady, torn      \* history, see below

env     == <<now, table, mounted, locked>>
history == <<fresh, failed, cut, calm, steady, torn>>
vars    == <<env, files, rows, events, pass, upsets, history>>

\* fresh: rows indexed since the pass began.  failed: segments the pass could
\* not unlink.  cut: cameras the size quota or the floor took footage from.
\* calm: a pass began, and nothing but it has moved since; steady: since it
\* began no camera, setting or volume has.  torn: rows whose file was unlinked
\* when the program crashed.

-----------------------------------------------------------------------------
(* Queries *)

Present == {c \in Cameras : table[c] # None}
RowsOf(c) == {r \in rows : r.cam = c}
RowsOn(v) == {r \in rows : r.vol = v}
Earlier(r, s) == r.ts < s.ts

\* db.segment_bounds
FirstTs(c)  == Min({r.ts : r \in RowsOf(c)})
NewestEnd(c) == Max({r.ts + 1 : r \in RowsOf(c)})

\* Mutant: no ORDER BY start_ts.
AnyOf(S) == {T \in SUBSET S : Cardinality(T) = Min({Batch, Cardinality(S)})}

\* ORDER BY start_ts LIMIT BATCH: the possible answers, ties in any order.
OldestOf(S) ==
    {T \in SUBSET S : /\ Cardinality(T) = Min({Batch, Cardinality(S)})
                      /\ \A r \in T, s \in S \ T : ~Earlier(s, r)}

\* disk_usage(v).free; on a volume that has gone it raises, and the backstop
\* leaves the volume as if the floor were met.
FreeOn(v) == Sizes[v] - Cardinality({f \in files : f.vol = v})
Stat(v)   == IF v \in mounted THEN FreeOn(v) ELSE Floor

QuotaNow == MaxBytes(mounted)

\* Mutant: the global cap whatever the camera says.
WindowsGlobal ==
    [c \in Present |-> [hard |-> GlobalHard, rolling |-> table[c].rolling]]

\* Mutant: a camera with no cap of its own has none.
WindowsOwn ==
    [c \in Present |->
        [hard |-> IF table[c].hard = None THEN 0 ELSE table[c].hard,
         rolling |-> table[c].rolling]]

\* _camera_windows: archived cameras keep their override.
Windows ==
    [c \in Present |->
        [hard |-> IF table[c].hard = None THEN GlobalHard ELSE table[c].hard,
         rolling |-> table[c].rolling]]

-----------------------------------------------------------------------------
(* run_once *)

Idle == [stage |-> "idle", start |-> 0, windows |-> <<>>, todo |-> {}, at |-> None,
         cutoff |-> 0, batch |-> {}, again |-> FALSE, total |-> 0, free |-> 0,
         count |-> 0, cur |-> None]

Stages == {"idle", "cameras", "rolling", "hard", "orphans", "orphan", "events",
           "quota", "volumes", "floor"}

\* Lines 101-102.
Begin ==
    /\ pass.stage = "idle"
    /\ pass' = [Idle EXCEPT !.stage = "cameras", !.start = now, !.windows = Windows,
                            !.todo = Present]
    /\ fresh' = {} /\ failed' = {} /\ cut' = {} /\ calm' = TRUE /\ steady' = TRUE
    /\ UNCHANGED <<env, files, rows, events, upsets, torn>>

\* Steps of the pass that touch nothing but its own state.
Local(next) ==
    /\ pass' = next
    /\ UNCHANGED <<env, files, rows, events, upsets, history>>

\* A call of _prune_older_than for camera c.
Prune(stage, c, cutoff) ==
    Local([pass EXCEPT !.stage = stage, !.at = c, !.cutoff = cutoff, !.again = TRUE,
                       !.todo = @ \ {c}])

\* A call of _prune_older_than has nothing left to fetch.
Pruned(stage) == pass.stage = stage /\ pass.batch = {} /\ ~pass.again

AtCameras == pass.stage = "cameras" \/ Pruned("hard")
AtOrphans == pass.stage = "orphans" \/ Pruned("orphan")

\* Lines 104-115: the next camera, its rolling window first.
NextCamera ==
    /\ AtCameras
    /\ \E c \in pass.todo :
        Prune("rolling", c, IF pass.windows[c].rolling > 0 /\ RowsOf(c) # {}
                            THEN NewestEnd(c) - pass.windows[c].rolling ELSE 0)

\* Mutant: ask again until nothing is older, without looking for an empty answer.
FetchForever ==
    /\ pass.stage \in {"rolling", "hard", "orphan"} /\ pass.batch = {} /\ pass.again
    /\ \E b \in OldestOf({r \in RowsOf(pass.at) : r.ts < pass.cutoff}) :
        Local([pass EXCEPT !.batch = b])

\* Lines 236-239: the next batch; a short one is the last (243).
Fetch ==
    /\ pass.stage \in {"rolling", "hard", "orphan"} /\ pass.batch = {} /\ pass.again
    /\ \E b \in OldestOf({r \in RowsOf(pass.at) : r.ts < pass.cutoff}) :
        Local([pass EXCEPT !.batch = b, !.again = Cardinality(b) = Batch])

\* Lines 117-120: then the hard cap.
HardCap ==
    /\ Pruned("rolling")
    /\ Prune("hard", pass.at, IF pass.windows[pass.at].hard > 0
                              THEN pass.start - pass.windows[pass.at].hard ELSE 0)

\* Lines 123-127: the cameras that have segments and no row.
FindOrphans ==
    /\ AtCameras /\ pass.todo = {}
    /\ Local([pass EXCEPT !.stage = "orphans", !.at = None, !.cutoff = 0,
                 !.todo = IF GlobalHard > 0
                          THEN {r.cam : r \in rows} \ DOMAIN pass.windows ELSE {}])

NextOrphan ==
    /\ AtOrphans
    /\ \E c \in pass.todo : Prune("orphan", c, pass.start - GlobalHard)

\* Lines 131-142, then 154: the markers of cameras no longer in the table fall
\* to the global cap, and the other cameras with markers are visited.
OrphanEvents ==
    /\ AtOrphans /\ pass.todo = {}
    /\ events' = {e \in events : \/ e.cam \in Present \/ GlobalHard = 0
                                 \/ e.ts >= pass.start - GlobalHard}
    /\ pass' = [pass EXCEPT !.stage = "events", !.todo = {e.cam : e \in events'},
                            !.at = None, !.cutoff = 0, !.windows = <<>>]
    /\ UNCHANGED <<env, files, rows, upsets, history>>

\* Mutant: align the markers to the age limit, not to the footage.
AlignByAge ==
    /\ pass.stage = "events"
    /\ \E c \in pass.todo :
        /\ events' = {e \in events : e.cam # c \/ e.ts >= pass.start - GlobalHard}
        /\ pass' = [pass EXCEPT !.todo = @ \ {c}]
    /\ UNCHANGED <<env, files, rows, upsets, history>>

\* Lines 154-158: drop a camera's markers from before its oldest segment.
AlignEvents ==
    /\ pass.stage = "events"
    /\ \E c \in pass.todo :
        /\ events' = {e \in events : e.cam # c \/ RowsOf(c) = {} \/ e.ts >= FirstTs(c)}
        /\ pass' = [pass EXCEPT !.todo = @ \ {c}]
    /\ UNCHANGED <<env, files, rows, upsets, history>>

\* Lines 170-175: the quota is read once and so is the total.
BeginQuota ==
    /\ pass.stage = "events" /\ pass.todo = {}
    /\ Local([pass EXCEPT !.stage = "quota", !.cutoff = QuotaNow,
                          !.total = Cardinality(rows)])

OverQuota == pass.cutoff > 0 /\ pass.total > pass.cutoff

\* Lines 176-178.
QuotaFetch ==
    /\ pass.stage = "quota" /\ pass.batch = {} /\ OverQuota /\ rows # {}
    /\ \E b \in OldestOf(rows) : Local([pass EXCEPT !.batch = b])

\* Lines 176, 179, 181: under the quota, or nothing left.
QuotaMet ==
    /\ pass.stage = "quota" /\ pass.cur = None
    /\ ~OverQuota \/ (pass.batch = {} /\ rows = {})
    /\ Local([pass EXCEPT !.stage = "volumes", !.batch = {}, !.todo = Volumes,
                          !.cutoff = 0, !.total = 0])

\* Lines 192-198: the next volume, unless it is absent.
NextVolume ==
    /\ pass.stage = "volumes"
    /\ \E v \in pass.todo :
        Local(IF v \in mounted
              THEN [pass EXCEPT !.stage = "floor", !.at = v, !.todo = @ \ {v},
                                !.free = FreeOn(v)]
              ELSE [pass EXCEPT !.todo = @ \ {v}])

\* Lines 199-201.
FloorFetch ==
    /\ pass.stage = "floor" /\ pass.batch = {} /\ pass.free < Floor
    /\ \E b \in OldestOf(RowsOn(pass.at)) :
        b # {} /\ Local([pass EXCEPT !.batch = b, !.count = 0])

\* Lines 199, 202-207: the floor is met, or nothing of ours is left there.
FloorMet ==
    /\ pass.stage = "floor" /\ pass.batch = {}
    /\ pass.free >= Floor \/ RowsOn(pass.at) = {}
    /\ Local([pass EXCEPT !.stage = "volumes", !.free = 0, !.count = 0])

\* Lines 225-230.
End ==
    /\ pass.stage = "volumes" /\ pass.todo = {}
    /\ pass' = Idle
    /\ fresh' = {} /\ failed' = {} /\ steady' = FALSE
    /\ UNCHANGED <<env, files, rows, events, upsets, cut, calm, torn>>

-----------------------------------------------------------------------------
(* _delete, and what the three loops do after it *)

\* The segment the loop is at.  The quota loop asks again before each (181).
AtSegment(r) ==
    /\ r \in pass.batch /\ pass.cur = None
    /\ \A s \in pass.batch : ~Earlier(s, r)
    /\ pass.stage = "quota" => OverQuota

\* Lines 214-221: every StatEvery deletes, and after the last of the batch, the
\* backstop looks at the disk again, and leaves the batch if the floor is met.
After(r, size) ==
    LET count == pass.count + 1
        rest  == pass.batch \ {r}
        look  == pass.stage = "floor" /\ (rest = {} \/ count % StatEvery = 0)
        free  == IF look THEN Stat(pass.at) ELSE pass.free
    IN  [pass EXCEPT !.cur = None, !.free = free,
                     !.total = IF pass.stage = "quota" THEN @ - size ELSE @,
                     !.count = IF pass.stage = "floor" THEN count ELSE 0,
                     !.batch = IF look /\ free >= Floor THEN {} ELSE rest]

\* Its folder cannot be written, its volume is read-only, a server says no.
Refused(r) == r \in locked /\ r \in files /\ r.vol \in mounted

\* Line 68: unlink.  A file that is not there, because it is gone or because
\* its volume is not mounted, is as good as deleted.
Unlink ==
    /\ \E r \in pass.batch :
        /\ AtSegment(r) /\ ~Refused(r)
        /\ pass' = [pass EXCEPT !.cur = r]
        /\ files' = IF r.vol \in mounted THEN files \ {r} ELSE files
    /\ UNCHANGED <<env, rows, events, upsets, history>>

\* Lines 69-71: the unlink was refused, so the row stays and nothing is freed.
UnlinkFails ==
    /\ \E r \in pass.batch :
        /\ AtSegment(r) /\ Refused(r)
        /\ pass' = After(r, 0)
        /\ failed' = failed \cup {r}
    /\ calm' = FALSE
    /\ UNCHANGED <<env, files, rows, events, upsets, fresh, cut, steady, torn>>

\* Mutant: the row of an unlinked segment is forgotten.
DropNothing ==
    /\ pass.cur # None
    /\ pass' = After(pass.cur, 1)
    /\ UNCHANGED <<env, files, rows, events, upsets, history>>

\* Mutant: every segment is counted twice.
DropDouble ==
    /\ pass.cur # None
    /\ rows' = rows \ {pass.cur}
    /\ pass' = After(pass.cur, 2)
    /\ UNCHANGED <<env, files, events, upsets, history>>

\* Line 72: delete the row.
DropRow ==
    /\ pass.cur # None
    /\ rows' = rows \ {pass.cur}
    /\ pass' = After(pass.cur, 1)
    /\ cut' = IF pass.stage \in {"quota", "floor"} THEN cut \cup {pass.cur.cam} ELSE cut
    /\ torn' = torn \ {pass.cur}
    /\ UNCHANGED <<env, files, events, upsets, fresh, failed, calm, steady>>

Pass ==
    \/ NextCamera \/ Fetch \/ HardCap \/ FindOrphans \/ NextOrphan
    \/ OrphanEvents \/ AlignEvents \/ BeginQuota \/ QuotaFetch \/ QuotaMet
    \/ NextVolume \/ FloorFetch \/ FloorMet \/ End
    \/ Unlink \/ UnlinkFails \/ DropRow

-----------------------------------------------------------------------------
(* Everything else that moves *)

\* A time unit goes by; each camera in S closed a segment on volume v, and
\* something was seen on the cameras in D.
Tick(S, D, v) ==
    /\ now < MaxTime
    /\ S \subseteq Present /\ D \subseteq Present
    /\ Cardinality(events) + Cardinality(D) <= MaxMarkers
    /\ S # {} => v \in mounted /\ FreeOn(v) >= Cardinality(S)
    /\ now' = now + 1
    /\ files' = files \cup {[cam |-> c, ts |-> now, vol |-> v] : c \in S}
    /\ events' = events \cup {[cam |-> c, ts |-> now] : c \in D}
    /\ calm' = FALSE
    /\ UNCHANGED <<table, mounted, locked, rows, pass, upsets, fresh, failed, cut,
                   steady, torn>>

\* index_new_segments finds a closed file of a camera in the table.
Index(f) ==
    /\ f \in files \ rows
    /\ f.vol \in mounted /\ f.cam \in Present
    /\ rows' = rows \cup {f}
    /\ fresh' = fresh \cup {f}
    /\ calm' = FALSE
    /\ UNCHANGED <<env, files, events, pass, upsets, failed, cut, steady, torn>>

Edit ==
    /\ upsets < MaxUpsets
    /\ upsets' = upsets + 1
    /\ calm' = FALSE /\ steady' = FALSE

\* db.delete_camera without purge: the camera's rows go, its files stay.
DeleteCamera(c) ==
    /\ Edit
    /\ c \in Present
    /\ table' = [table EXCEPT ![c] = None]
    /\ rows' = rows \ RowsOf(c)
    /\ torn' = torn \ RowsOf(c)
    /\ UNCHANGED <<now, mounted, locked, files, events, pass, fresh, failed, cut>>

\* Retention settings edited, or the camera archived or restored.
SetPolicy(c, p) ==
    /\ Edit
    /\ c \in Present /\ p # table[c]
    /\ table' = [table EXCEPT ![c] = p]
    /\ UNCHANGED <<now, mounted, locked, files, rows, events, pass, fresh, failed, cut,
                   torn>>

\* A volume is unmounted or mounted.
Mount(v) ==
    /\ Edit
    /\ mounted' = IF v \in mounted THEN mounted \ {v} ELSE mounted \cup {v}
    /\ UNCHANGED <<now, table, locked, files, rows, events, pass, fresh, failed, cut,
                   torn>>

\* A file can no longer be unlinked, for as long as somebody leaves it so.
Refuse(f) ==
    /\ upsets < MaxUpsets /\ upsets' = upsets + 1
    /\ f \in files \ locked
    /\ locked' = locked \cup {f}
    /\ calm' = FALSE
    /\ UNCHANGED <<now, table, mounted, files, rows, events, pass, fresh, failed, cut,
                   steady, torn>>

Relent(f) ==
    /\ f \in locked
    /\ locked' = locked \ {f}
    /\ calm' = FALSE
    /\ UNCHANGED <<now, table, mounted, files, rows, events, pass, upsets, fresh, failed,
                   cut, steady, torn>>

\* The program dies and comes back: the pass is forgotten.
Crash ==
    /\ Edit
    /\ pass.stage # "idle"
    /\ pass' = Idle
    /\ torn' = IF pass.cur = None THEN torn ELSE torn \cup {pass.cur}
    /\ UNCHANGED <<env, files, rows, events, fresh, failed, cut>>

World ==
    \/ \E S, D \in SUBSET Cameras, v \in Volumes : Tick(S, D, v)
    \/ \E f \in files : Index(f) \/ Refuse(f) \/ Relent(f)
    \/ \E c \in Cameras : DeleteCamera(c) \/ \E p \in Policies : SetPolicy(c, p)
    \/ \E v \in Volumes : Mount(v)
    \/ Crash

\* Earlier runs of the program left some footage, not all of it indexed, and
\* some of it perhaps of cameras that are gone.
Init ==
    /\ now = StartTime
    /\ table \in [Cameras -> Policies \cup {None}]
    /\ mounted = Volumes /\ locked = {}
    /\ files \in {F \in SUBSET {f \in Segments : f.ts < now} :
                    /\ \A f, g \in F : f.cam = g.cam /\ f.ts = g.ts => f = g
                    /\ \A v \in Volumes : Cardinality({f \in F : f.vol = v}) <= Sizes[v]}
    /\ rows \in SUBSET files
    /\ events \in {E \in SUBSET [cam: Cameras, ts: 0..StartTime - 1] : Cardinality(E) <= MaxMarkers}
    /\ pass = Idle
    /\ upsets = 0
    /\ fresh = {} /\ failed = {} /\ cut = {} /\ torn = {}
    /\ calm = FALSE /\ steady = FALSE

Next == Begin \/ Pass \/ World

Spec == Init /\ [][Next]_vars

\* The retention thread keeps running once a pass has begun.
FairSpec == Spec /\ WF_vars(Pass)

-----------------------------------------------------------------------------
(* Properties *)

Periods ==
    ({GlobalHard} \cup {p.rolling : p \in Policies} \cup {p.hard : p \in Policies}) \ {None}
WindowsType ==
    {<<>>} \cup UNION {[S -> [hard : Periods, rolling : Periods]] : S \in SUBSET Cameras}

PassType ==
    [stage : Stages, start : 0..MaxTime, todo : SUBSET (Cameras \cup Volumes),
     windows : WindowsType, at : Cameras \cup Volumes \cup {None}, cutoff : Int, batch : SUBSET Segments,
     again : BOOLEAN, total : Nat, free : Int, count : Nat, cur : Segments \cup {None}]

\* Types; and the quota loop's running total never forgets what it counted.
TypeOK ==
    /\ now \in 0..MaxTime
    /\ table \in [Cameras -> Policies \cup {None}]
    /\ mounted \subseteq Volumes /\ locked \subseteq Segments
    /\ files \subseteq Segments /\ rows \subseteq Segments
    /\ events \subseteq [cam: Cameras, ts: 0..MaxTime]
    /\ pass \in PassType
    /\ pass.stage = "quota" /\ steady =>
         Cardinality(rows) - Cardinality(fresh) <= pass.total
    /\ upsets \in 0..MaxUpsets
    /\ UNION {fresh, failed, torn} \subseteq Segments /\ cut \subseteq Cameras
    /\ {calm, steady} \subseteq BOOLEAN

\* What the settings say of a segment, whichever way the code computes it.
AgeLimit(c) == IF c \in Present /\ table[c].hard # None THEN table[c].hard ELSE GlobalHard
TooOld(r) == AgeLimit(r.cam) > 0 /\ r.ts < now - AgeLimit(r.cam)
OutsideWindow(r) ==
    /\ r.cam \in Present /\ table[r.cam].rolling > 0
    /\ r.ts < NewestEnd(r.cam) - table[r.cam].rolling
OverSize == QuotaNow > 0 /\ Cardinality(rows) > QuotaNow
TooFull(v, slack) == v \in mounted /\ FreeOn(v) < Floor + slack

\* "Three independent limits, whichever bites first" (retention.py:3): as long
\* as nobody edits the settings under a pass, it deletes a segment only for a
\* limit that is exceeded at that moment, up to the deletes between two stats.
OnlyOverLimit ==
    [][\A r \in rows \ rows' : r = pass.cur /\ steady' =>
         TooOld(r) \/ OutsideWindow(r) \/ OverSize \/ TooFull(r.vol, StatEvery)]_vars

\* "Deletes oldest-first" (retention.py:10): for space, a segment goes only when
\* every older one has gone, was refused, or was indexed since the pass began.
OldestFirst ==
    [][\A r \in rows \ rows' : r = pass.cur /\ pass.stage \in {"quota", "floor"} =>
         \A s \in IF pass.stage = "quota" THEN rows ELSE RowsOn(r.vol) :
             Earlier(s, r) => s \in failed \cup fresh]_vars

\* After a pass that nothing disturbed every limit holds, for archived and
\* deleted cameras too.
WithinLimits ==
    pass.stage = "idle" /\ calm =>
        /\ \A r \in rows : ~TooOld(r) /\ ~OutsideWindow(r)
        /\ ~OverSize
        /\ \A v \in Volumes : TooFull(v, 0) => RowsOn(v) = {}

\* "markers must not outlive the footage they annotate" (retention.py:145): after
\* a pass that nothing disturbed they do not, for the cameras that lost nothing to
\* the quota and the floor, which come after the alignment.
Stranded == {e \in events : RowsOf(e.cam) # {} /\ e.ts < FirstTs(e.cam)}
MarkersAlignedUncut ==
    pass.stage = "idle" /\ calm => \A e \in Stranded : e.cam \in cut

\* "the timeline never advertises footage that is no longer on disk"
\* (retention.py:11), but for the segment being deleted and those being deleted
\* at a crash.
HonestTimeline ==
    \A r \in rows \ files : r.vol \in mounted => r = pass.cur \/ r \in torn

\* "an absent one is simply skipped for writing/pruning" (config.py:89-90): the pass
\* does not take out of the index footage that an absent volume still holds.
AbsentVolumeSkipped ==
    [][\A r \in rows \ rows' : r = pass.cur /\ r \in files => r.vol \in mounted]_vars

\* "prunes gradually instead of blocking for minutes" (retention.py:26): a pass comes
\* to its end, however many limits are exceeded and whatever it cannot unlink.
PassEnds == [](pass.stage # "idle" => <>(pass.stage = "idle"))

\* It does if no file is refused for good: its loops ask again for the same rows.
PassEndsUnrefused == []<>(locked = {}) => PassEnds

=============================================================================
