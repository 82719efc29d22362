-------------------------- MODULE Retention_proofs --------------------------
(***************************************************************************)
(* One pruning pass, for any cameras, volumes, settings and batch sizes.   *)
(*                                                                         *)
(* Three things are followed through the pass.  What it may rely on at any *)
(* time: the rows whose files are gone, and the age of what its batch      *)
(* leaves out (Honest, InOrder).  What it may rely on while no setting is  *)
(* edited: the limits it works from are those in force (Unedited).  And    *)
(* what it has achieved so far if nothing else moved at all: the cameras,  *)
(* the quota and the volumes behind it are within their limits, and stay   *)
(* so while the rest is pruned (Undisturbed).                              *)
(***************************************************************************)
EXTENDS Retention, FiniteSetTheorems, WellFoundedInduction, TLAPS

-----------------------------------------------------------------------------
(* The least and the greatest of a set of numbers. *)

LEMMA LeastOf ==
    ASSUME NEW S \in SUBSET Nat, S # {}
    PROVE  \E x \in S : \A y \in S : x <= y
<1> DEFINE R == OpToRel(<, Nat)
<1>1. \A x, y \in Nat : <<y, x>> \in R <=> y < x
    BY DEF OpToRel
<1>2. IsWellFoundedOn(R, Nat)
    BY NatLessThanWellFounded
<1> HIDE DEF R
<1>3. PICK x \in S : \A y \in S : ~(<<y, x>> \in R)
    BY <1>2, WFMin
<1>4. ASSUME NEW y \in S PROVE x <= y
    <2>1. x \in Nat /\ y \in Nat /\ ~(y < x)
        BY <1>1, <1>3
    <2> QED BY <2>1
<1> QED BY <1>4

LEMMA MinIs ==
    ASSUME NEW S \in SUBSET Nat, S # {}
    PROVE  Min(S) \in S /\ \A y \in S : Min(S) <= y
BY LeastOf DEF Min

LEMMA MaxIs ==
    ASSUME NEW S \in SUBSET Nat, NEW n \in Nat, \A s \in S : s <= n, S # {}
    PROVE  Max(S) \in S /\ \A y \in S : y <= Max(S)
<1> DEFINE T == {n - s : s \in S}
<1>1. T \in SUBSET Nat
    <2> SUFFICES ASSUME NEW s \in S PROVE n - s \in Nat
        OBVIOUS
    <2>1. s \in Nat /\ s <= n
        OBVIOUS
    <2> QED BY <2>1
<1>2. T # {}
    OBVIOUS
<1>3. PICK x \in T : \A y \in T : x <= y
    <2> HIDE DEF T
    <2> QED BY <1>1, <1>2, LeastOf
<1>4. PICK m \in S : x = n - m
    OBVIOUS
<1>5. ASSUME NEW y \in S PROVE m >= y
    <2>1. n - m <= n - y
        BY <1>3, <1>4
    <2> QED BY <2>1
<1> QED BY <1>5 DEF Max

\* ORDER BY start_ts LIMIT BATCH: a short answer is all there is, and an empty one
\* says there is nothing.
LEMMA OldestIs ==
    ASSUME NEW S, IsFiniteSet(S), NEW b \in OldestOf(S)
    PROVE  /\ b \subseteq S
           /\ \A r \in b, s \in S \ b : ~Earlier(s, r)
           /\ Cardinality(b) # Batch => b = S
           /\ S # {} => b # {}
<1>1. b \subseteq S /\ Cardinality(b) = Min({Batch, Cardinality(S)})
      /\ \A r \in b, s \in S \ b : ~Earlier(s, r)
    BY DEF OldestOf
<1>2. Cardinality(S) \in Nat /\ Batch \in Nat /\ Batch > 0
    BY FS_CardinalityType, RetentionAssumption
<1>3. Min({Batch, Cardinality(S)}) \in {Batch, Cardinality(S)}
    BY <1>2, MinIs
<1>4. Cardinality(b) # Batch => b = S
    BY <1>1, <1>3, FS_Subset
<1>5. ASSUME S # {} PROVE b # {}
    <2>1. Cardinality(S) # 0
        BY <1>5, FS_EmptySet
    <2>2. Cardinality(b) # 0
        BY <1>1, <1>2, <1>3, <2>1
    <2> QED BY <2>2, FS_EmptySet
<1> QED BY <1>1, <1>4, <1>5

LEMMA SegmentsFinite == IsFiniteSet(Segments)
<1> DEFINE S == (Cameras \X (0..MaxTime)) \X Volumes
           f == [x \in S |-> [cam |-> x[1][1], ts |-> x[1][2], vol |-> x[2]]]
<1>1. IsFiniteSet(0..MaxTime)
    BY FS_Interval, RetentionAssumption
<1>2. IsFiniteSet(S)
    BY <1>1, FS_Product, RetentionAssumption
<1>3. f \in Surjection(S, Segments)
    <2>1. f \in [S -> Segments]
        BY DEF Segments
    <2>2. ASSUME NEW r \in Segments PROVE \E x \in S : f[x] = r
        <3>1. <<<<r.cam, r.ts>>, r.vol>> \in S
            BY DEF Segments
        <3>2. f[<<<<r.cam, r.ts>>, r.vol>>] = r
            BY <3>1 DEF Segments
        <3> QED BY <3>1, <3>2
    <2> QED BY <2>1, <2>2 DEF Surjection
<1> QED BY <1>2, <1>3, FS_Surjection

\* Any footage can be counted, and less of it is fewer.
LEMMA Counted ==
    ASSUME NEW S \in SUBSET Segments
    PROVE  /\ IsFiniteSet(S) /\ Cardinality(S) \in Nat
           /\ \A T \in SUBSET S : Cardinality(T) \in Nat /\ Cardinality(T) <= Cardinality(S)
           /\ \A x : /\ Cardinality(S \ {x}) = Cardinality(S) - (IF x \in S THEN 1 ELSE 0)
                     /\ Cardinality(S \cup {x}) = Cardinality(S) + IF x \in S THEN 0 ELSE 1
           /\ Cardinality(S) = 0 <=> S = {}
<1>1. IsFiniteSet(S)
    BY SegmentsFinite, FS_Subset
<1>2. Cardinality(S) \in Nat
    BY <1>1, FS_CardinalityType
<1>3. ASSUME NEW T \in SUBSET S PROVE Cardinality(T) \in Nat /\ Cardinality(T) <= Cardinality(S)
    BY <1>1, FS_Subset, FS_CardinalityType
<1>4. ASSUME NEW x
      PROVE  /\ Cardinality(S \ {x}) = Cardinality(S) - (IF x \in S THEN 1 ELSE 0)
             /\ Cardinality(S \cup {x}) = Cardinality(S) + IF x \in S THEN 0 ELSE 1
    <2>1. Cardinality(S \ {x}) = IF x \in S THEN Cardinality(S) - 1 ELSE Cardinality(S)
        BY <1>1, FS_RemoveElement
    <2>2. Cardinality(S \cup {x}) = IF x \in S THEN Cardinality(S) ELSE Cardinality(S) + 1
        BY <1>1, FS_AddElement
    <2>3. Cardinality(S) - 0 = Cardinality(S) /\ Cardinality(S) + 0 = Cardinality(S)
        BY <1>2
    <2> QED BY <2>1, <2>2, <2>3
<1>5. Cardinality(S) = 0 <=> S = {}
    BY <1>1, FS_EmptySet
<1> QED BY <1>1, <1>2, <1>3, <1>4, <1>5

LEMMA ModNext ==
    ASSUME NEW n \in Nat, NEW k \in Nat \ {0}
    PROVE  /\ n % k \in 0 .. k - 1
           /\ (n + 1) % k # 0 => (n + 1) % k = (n % k) + 1
BY Z3

-----------------------------------------------------------------------------
(* The shape of a pass. *)

\* What the stage says about the rest of the pass.
Deleting == {"rolling", "hard", "orphan", "quota", "floor"}
ByCamera == {"cameras", "rolling", "hard", "orphans", "orphan"}

StageOK ==
    /\ pass.stage = "idle" => pass = Idle
    /\ pass.cur # None => pass.cur \in pass.batch
    /\ pass.batch # {} => pass.stage \in Deleting
    /\ pass.stage = "cameras" => pass.todo \subseteq DOMAIN pass.windows
    /\ pass.stage \in {"rolling", "hard"} =>
          pass.at \in DOMAIN pass.windows /\ pass.todo \subseteq DOMAIN pass.windows
    /\ pass.stage \in {"orphans", "orphan"} =>
          pass.todo \subseteq Cameras \ DOMAIN pass.windows /\ (pass.todo # {} => GlobalHard > 0)
    /\ pass.stage = "orphan" =>
          /\ pass.at \in Cameras \ DOMAIN pass.windows
          /\ GlobalHard > 0 /\ pass.cutoff = pass.start - GlobalHard
    /\ pass.stage \in {"rolling", "hard", "orphan"} =>
          \A r \in pass.batch : r.cam = pass.at /\ r.ts < pass.cutoff
    /\ pass.stage = "rolling" /\ pass.cutoff > 0 => pass.windows[pass.at].rolling > 0
    /\ pass.stage = "hard" =>
          pass.cutoff = IF pass.windows[pass.at].hard > 0
                        THEN pass.start - pass.windows[pass.at].hard ELSE 0
    /\ pass.stage = "quota" /\ pass.cur # None => OverQuota
    /\ pass.stage = "events" => pass.todo \subseteq Cameras
    /\ pass.stage \in {"volumes", "floor"} => pass.todo \subseteq Volumes
    /\ pass.stage = "floor" =>
          /\ pass.at \in Volumes
          /\ \A r \in pass.batch : r.vol = pass.at
          /\ pass.batch # {} => pass.free < Floor

\* Footage is of the past.
Past == (\A r \in files \cup rows \cup fresh : r.ts < now) /\ pass.start <= now

Base ==
    /\ now \in 0..MaxTime
    /\ table \in [Cameras -> Policies \cup {None}]
    /\ mounted \subseteq Volumes /\ locked \subseteq Segments
    /\ files \subseteq Segments /\ rows \subseteq Segments
    /\ events \subseteq [cam: Cameras, ts: 0..MaxTime]
    /\ pass \in PassType
    /\ upsets \in 0..MaxUpsets
    /\ fresh \subseteq Segments /\ failed \subseteq Segments /\ torn \subseteq Segments
    /\ cut \subseteq Cameras
    /\ calm \in BOOLEAN /\ steady \in BOOLEAN

Shape == Base /\ StageOK /\ Past

LEMMA ConstantsAre ==
    /\ MaxTime \in Nat /\ GlobalHard \in Nat /\ Floor \in Nat /\ MaxUpsets \in Nat
    /\ StartTime \in Nat /\ StartTime <= MaxTime /\ Batch \in Nat \ {0} /\ StatEvery \in Nat \ {0}
    /\ None \notin Int /\ None \notin Segments /\ None \notin Policies
    /\ Sizes \in [Volumes -> Nat]
BY RetentionAssumption

LEMMA PeriodsAreNumbers ==
    /\ Periods \subseteq Nat
    /\ \A p \in Policies : p.rolling \in Periods /\ (p.hard # None => p.hard \in Periods)
    /\ GlobalHard \in Periods
<1>1. Policies \subseteq [hard: Nat \cup {None}, rolling: Nat, archived: BOOLEAN]
      /\ GlobalHard \in Nat /\ None \notin Nat
    BY RetentionAssumption
<1> QED BY <1>1 DEF Periods

\* _camera_windows says of each camera what the settings do.
LEMMA WindowsAre ==
    ASSUME Base
    PROVE  /\ Windows \in [Present -> [hard : Periods, rolling : Periods]]
           /\ Windows \in WindowsType /\ Present \subseteq Cameras
           /\ \A c \in Present : /\ Windows[c].hard = AgeLimit(c)
                                 /\ Windows[c].rolling = table[c].rolling
<1>1. Present \subseteq Cameras
    BY DEF Present
<1>2. ASSUME NEW c \in Present
      PROVE  /\ Windows[c] \in [hard : Periods, rolling : Periods]
             /\ Windows[c].hard = AgeLimit(c) /\ Windows[c].rolling = table[c].rolling
    <2>1. table[c] \in Policies
        BY DEF Present, Base
    <2>2. Windows[c] = [hard |-> IF table[c].hard = None THEN GlobalHard ELSE table[c].hard,
                        rolling |-> table[c].rolling]
        BY DEF Windows
    <2> QED BY <2>1, <2>2, PeriodsAreNumbers DEF AgeLimit
<1>3. Windows \in [Present -> [hard : Periods, rolling : Periods]]
    BY <1>2 DEF Windows
<1> QED BY <1>1, <1>2, <1>3 DEF WindowsType

\* The end of a camera's newest segment.
LEMMA NewestIs ==
    ASSUME rows \subseteq Segments, NEW c, RowsOf(c) # {}
    PROVE  /\ NewestEnd(c) \in Nat
           /\ \E s \in RowsOf(c) : NewestEnd(c) = s.ts + 1
           /\ \A s \in RowsOf(c) : s.ts + 1 <= NewestEnd(c)
<1> DEFINE S == {r.ts + 1 : r \in RowsOf(c)}
<1>1. \A r \in RowsOf(c) : r.ts \in 0..MaxTime
    BY DEF RowsOf, Segments
<1>2. S \in SUBSET Nat /\ S # {} /\ MaxTime + 1 \in Nat /\ \A x \in S : x <= MaxTime + 1
    BY <1>1, ConstantsAre
<1>3. Max(S) \in S /\ \A y \in S : y <= Max(S)
    <2> HIDE DEF S
    <2> QED BY <1>2, MaxIs
<1>4. NewestEnd(c) = Max(S)
    BY DEF NewestEnd
<1> QED BY <1>2, <1>3, <1>4

LEMMA FirstIs ==
    ASSUME rows \subseteq Segments, NEW c, RowsOf(c) # {}
    PROVE  /\ FirstTs(c) \in Nat
           /\ \E s \in RowsOf(c) : FirstTs(c) = s.ts
           /\ \A s \in RowsOf(c) : FirstTs(c) <= s.ts
<1> DEFINE S == {r.ts : r \in RowsOf(c)}
<1>1. \A r \in RowsOf(c) : r.ts \in 0..MaxTime
    BY DEF RowsOf, Segments
<1>2. S \in SUBSET Nat /\ S # {}
    BY <1>1, ConstantsAre
<1>3. Min(S) \in S /\ \A y \in S : Min(S) <= y
    <2> HIDE DEF S
    <2> QED BY <1>2, MinIs
<1>4. FirstTs(c) = Min(S)
    BY DEF FirstTs
<1> QED BY <1>2, <1>3, <1>4

LEMMA FreeIs ==
    ASSUME files \subseteq Segments, NEW v \in Volumes
    PROVE  FreeOn(v) \in Int /\ Stat(v) \in Int
<1>1. {f \in files : f.vol = v} \in SUBSET Segments
    OBVIOUS
<1>2. Cardinality({f \in files : f.vol = v}) \in Nat
    BY <1>1, Counted
<1> QED BY <1>2, ConstantsAre DEF FreeOn, Stat

LEMMA WindowOf ==
    ASSUME NEW w \in WindowsType, NEW c \in DOMAIN w
    PROVE  c \in Cameras /\ w[c].hard \in Nat /\ w[c].rolling \in Nat
<1>1. CASE w = <<>>
    BY <1>1
<1>2. CASE w # <<>>
    <2>1. PICK S \in SUBSET Cameras : w \in [S -> [hard : Periods, rolling : Periods]]
        BY <1>2 DEF WindowsType
    <2> QED BY <2>1, PeriodsAreNumbers
<1> QED BY <1>1, <1>2

\* Where a call of _prune_older_than starts, nothing is half done.
LEMMA Between ==
    ASSUME Shape
    PROVE  /\ pass.stage \notin Deleting => pass.batch = {}
           /\ pass.batch = {} => pass.cur = None
BY DEF Shape, StageOK

\* A step that changes nothing but the pass.
LEMMA PassOnly ==
    ASSUME Shape, pass' \in PassType, StageOK', pass'.start = pass.start,
           UNCHANGED <<env, files, rows, events, upsets, history>>
    PROVE  Shape'
BY DEF Shape, Base, Past, env, history

\* The calls of _prune_older_than.
LEMMA PruneIs ==
    ASSUME Shape, NEW stage \in {"rolling", "hard", "orphan"}, NEW c \in Cameras,
           NEW cutoff \in Int, Prune(stage, c, cutoff)
    PROVE  /\ pass' \in PassType /\ pass'.stage = stage /\ pass'.at = c
           /\ pass'.cutoff = cutoff /\ pass'.again /\ pass'.todo = pass.todo \ {c}
           /\ pass'.batch = pass.batch /\ pass'.cur = pass.cur
           /\ pass'.windows = pass.windows /\ pass'.start = pass.start
           /\ UNCHANGED <<env, files, rows, events, upsets, history>>
BY DEF Prune, Local, Shape, Base, PassType, Stages

LEMMA NextCameraIs ==
    ASSUME Shape, NextCamera
    PROVE  /\ Shape' /\ UNCHANGED <<env, files, rows, events, upsets, history>>
           /\ pass.stage \in {"cameras", "hard"} /\ pass.batch = {} /\ pass.cur = None
           /\ pass.stage = "hard" => ~pass.again
           /\ \E c \in pass.todo :
                /\ c \in DOMAIN pass.windows /\ c \in Cameras
                /\ pass'.stage = "rolling" /\ pass'.at = c /\ pass'.todo = pass.todo \ {c}
                /\ pass'.again /\ pass'.batch = {} /\ pass'.cur = None
                /\ pass'.windows = pass.windows /\ pass'.start = pass.start
                /\ pass'.cutoff = IF pass.windows[c].rolling > 0 /\ RowsOf(c) # {}
                                  THEN NewestEnd(c) - pass.windows[c].rolling ELSE 0
<1>1. PICK c \in pass.todo :
        Prune("rolling", c, IF pass.windows[c].rolling > 0 /\ RowsOf(c) # {}
                            THEN NewestEnd(c) - pass.windows[c].rolling ELSE 0)
    BY DEF NextCamera
<1>2. /\ pass.stage \in {"cameras", "hard"} /\ pass.batch = {} /\ pass.cur = None
      /\ pass.stage = "hard" => ~pass.again
    BY Between DEF NextCamera, AtCameras, Pruned, Deleting
<1>3. pass.todo \subseteq DOMAIN pass.windows /\ pass.windows \in WindowsType
    BY <1>2 DEF Shape, StageOK, Base, PassType
<1>4. c \in Cameras /\ pass.windows[c].rolling \in Nat
    BY <1>3, WindowOf
<1>5. PICK x : x = IF pass.windows[c].rolling > 0 /\ RowsOf(c) # {}
                   THEN NewestEnd(c) - pass.windows[c].rolling ELSE 0
    OBVIOUS
<1>6. x \in Int
    BY <1>4, <1>5, NewestIs DEF Shape, Base
<1>7. /\ pass' \in PassType /\ pass'.stage = "rolling" /\ pass'.at = c
      /\ pass'.cutoff = x /\ pass'.again /\ pass'.todo = pass.todo \ {c}
      /\ pass'.batch = pass.batch /\ pass'.cur = pass.cur
      /\ pass'.windows = pass.windows /\ pass'.start = pass.start
      /\ UNCHANGED <<env, files, rows, events, upsets, history>>
    BY <1>1, <1>4, <1>5, <1>6, PruneIs
<1>8. StageOK'
    BY <1>2, <1>3, <1>4, <1>5, <1>7 DEF StageOK, Deleting
<1> QED BY <1>2, <1>3, <1>4, <1>5, <1>7, <1>8, PassOnly

LEMMA FetchIs ==
    ASSUME Shape, Fetch
    PROVE  /\ Shape' /\ UNCHANGED <<env, files, rows, events, upsets, history>>
           /\ pass.stage \in {"rolling", "hard", "orphan"} /\ pass.cur = None
           /\ pass'.stage = pass.stage /\ pass'.at = pass.at /\ pass'.todo = pass.todo
           /\ pass'.cutoff = pass.cutoff /\ pass'.cur = None
           /\ pass'.windows = pass.windows /\ pass'.start = pass.start
           /\ pass'.batch \subseteq RowsOf(pass.at)
           /\ pass'.again \/ \A r \in RowsOf(pass.at) : r.ts < pass.cutoff => r \in pass'.batch
<1> DEFINE S == {r \in RowsOf(pass.at) : r.ts < pass.cutoff}
<1>1. PICK b \in OldestOf(S) :
        Local([pass EXCEPT !.batch = b, !.again = Cardinality(b) = Batch])
    BY DEF Fetch
<1>2. S \subseteq Segments /\ S \subseteq RowsOf(pass.at)
    BY DEF Shape, Base, RowsOf
<1>3. IsFiniteSet(S)
    BY <1>2, Counted
<1>4. b \subseteq S /\ (Cardinality(b) # Batch => b = S)
    <2> HIDE DEF S
    <2> QED BY <1>3, OldestIs
<1>5. PICK again \in BOOLEAN : again = (Cardinality(b) = Batch)
    OBVIOUS
<1>6. pass' = [pass EXCEPT !.batch = b, !.again = again]
      /\ UNCHANGED <<env, files, rows, events, upsets, history>>
    BY <1>1, <1>5 DEF Local
<1>7. b \subseteq Segments
    BY <1>2, <1>4
<1>8. /\ pass' \in PassType /\ pass'.stage = pass.stage /\ pass'.at = pass.at
      /\ pass'.todo = pass.todo /\ pass'.cutoff = pass.cutoff /\ pass'.cur = pass.cur
      /\ pass'.windows = pass.windows /\ pass'.start = pass.start
      /\ pass'.batch = b /\ pass'.again = again
    BY <1>6, <1>7 DEF Shape, Base, PassType
<1>9. pass.stage \in {"rolling", "hard", "orphan"} /\ pass.batch = {} /\ pass.cur = None
    BY Between DEF Fetch
<1>10. \A r \in b : r.cam = pass.at /\ r.ts < pass.cutoff
    BY <1>4 DEF RowsOf
<1>11. StageOK'
    BY <1>8, <1>9, <1>10 DEF Shape, StageOK, Deleting
<1>12. Shape'
    BY <1>6, <1>8, <1>11, PassOnly
<1> QED BY <1>2, <1>4, <1>5, <1>6, <1>8, <1>9, <1>12

LEMMA HardCapIs ==
    ASSUME Shape, HardCap
    PROVE  /\ Shape' /\ UNCHANGED <<env, files, rows, events, upsets, history>>
           /\ pass.stage = "rolling" /\ pass.batch = {} /\ pass.cur = None /\ ~pass.again
           /\ pass'.stage = "hard" /\ pass'.at = pass.at /\ pass'.todo = pass.todo \ {pass.at}
           /\ pass'.again /\ pass'.batch = {} /\ pass'.cur = None
           /\ pass'.windows = pass.windows /\ pass'.start = pass.start
           /\ pass'.cutoff = IF pass.windows[pass.at].hard > 0
                             THEN pass.start - pass.windows[pass.at].hard ELSE 0
<1>1. pass.stage = "rolling" /\ pass.batch = {} /\ pass.cur = None /\ ~pass.again
    BY Between DEF HardCap, Pruned
<1>2. pass.at \in DOMAIN pass.windows /\ pass.windows \in WindowsType
      /\ pass.todo \subseteq DOMAIN pass.windows /\ pass.start \in 0..MaxTime
    BY <1>1 DEF Shape, StageOK, Base, PassType
<1>3. pass.at \in Cameras /\ pass.windows[pass.at].hard \in Nat
    BY <1>2, WindowOf
<1>4. PICK x : x = IF pass.windows[pass.at].hard > 0
                   THEN pass.start - pass.windows[pass.at].hard ELSE 0
    OBVIOUS
<1>5. x \in Int
    BY <1>2, <1>3, <1>4, ConstantsAre
<1>6. Prune("hard", pass.at, x)
    BY <1>4 DEF HardCap
<1>7. /\ pass' \in PassType /\ pass'.stage = "hard" /\ pass'.at = pass.at
      /\ pass'.cutoff = x /\ pass'.again /\ pass'.todo = pass.todo \ {pass.at}
      /\ pass'.batch = pass.batch /\ pass'.cur = pass.cur
      /\ pass'.windows = pass.windows /\ pass'.start = pass.start
      /\ UNCHANGED <<env, files, rows, events, upsets, history>>
    BY <1>3, <1>5, <1>6, PruneIs
<1>8. StageOK'
    BY <1>1, <1>2, <1>4, <1>7 DEF StageOK, Deleting
<1> QED BY <1>1, <1>4, <1>7, <1>8, PassOnly

LEMMA FindOrphansIs ==
    ASSUME Shape, FindOrphans
    PROVE  /\ Shape' /\ UNCHANGED <<env, files, rows, events, upsets, history>>
           /\ pass.stage \in {"cameras", "hard"} /\ pass.todo = {} /\ pass.batch = {}
           /\ pass.stage = "hard" => ~pass.again
           /\ pass'.stage = "orphans" /\ pass'.batch = {} /\ pass'.cur = None
           /\ pass'.windows = pass.windows /\ pass'.start = pass.start
           /\ pass'.todo = IF GlobalHard > 0
                           THEN {r.cam : r \in rows} \ DOMAIN pass.windows ELSE {}
<1>1. /\ pass.stage \in {"cameras", "hard"} /\ pass.todo = {} /\ pass.batch = {}
      /\ pass.cur = None /\ (pass.stage = "hard" => ~pass.again)
    BY Between DEF FindOrphans, AtCameras, Pruned, Deleting
<1>2. PICK todo : todo = IF GlobalHard > 0
                         THEN {r.cam : r \in rows} \ DOMAIN pass.windows ELSE {}
    OBVIOUS
<1>3. todo \subseteq Cameras \ DOMAIN pass.windows /\ (todo # {} => GlobalHard > 0)
    BY <1>2 DEF Shape, Base, Segments
<1>4. pass' = [pass EXCEPT !.stage = "orphans", !.at = None, !.cutoff = 0, !.todo = todo]
      /\ UNCHANGED <<env, files, rows, events, upsets, history>>
    BY <1>2 DEF FindOrphans, Local
<1>5. /\ pass' \in PassType /\ pass'.stage = "orphans" /\ pass'.batch = {}
      /\ pass'.cur = None /\ pass'.windows = pass.windows /\ pass'.start = pass.start
      /\ pass'.todo = todo
    <2>1. todo \in SUBSET (Cameras \cup Volumes) /\ pass \in PassType
        BY <1>3 DEF Shape, Base
    <2>2. "orphans" \in Stages /\ None \in Cameras \cup Volumes \cup {None} /\ 0 \in Int
        BY DEF Stages
    <2>3. pass' \in PassType /\ pass'.stage = "orphans" /\ pass'.batch = pass.batch
          /\ pass'.cur = pass.cur /\ pass'.windows = pass.windows
          /\ pass'.start = pass.start /\ pass'.todo = todo
        BY <1>4, <2>1, <2>2 DEF PassType
    <2> QED BY <1>1, <2>3
<1>6. StageOK'
    BY <1>3, <1>5 DEF StageOK, Deleting
<1>7. Shape'
    BY <1>4, <1>5, <1>6, PassOnly
<1> QED BY <1>1, <1>2, <1>4, <1>5, <1>7

LEMMA NextOrphanIs ==
    ASSUME Shape, NextOrphan
    PROVE  /\ Shape' /\ UNCHANGED <<env, files, rows, events, upsets, history>>
           /\ pass.stage \in {"orphans", "orphan"} /\ pass.batch = {} /\ pass.cur = None
           /\ pass.stage = "orphan" => ~pass.again
           /\ \E c \in pass.todo :
                /\ c \in Cameras \ DOMAIN pass.windows /\ GlobalHard > 0
                /\ pass'.stage = "orphan" /\ pass'.at = c /\ pass'.todo = pass.todo \ {c}
                /\ pass'.again /\ pass'.batch = {} /\ pass'.cur = None
                /\ pass'.windows = pass.windows /\ pass'.start = pass.start
                /\ pass'.cutoff = pass.start - GlobalHard
<1>1. PICK c \in pass.todo : Prune("orphan", c, pass.start - GlobalHard)
    BY DEF NextOrphan
<1>2. /\ pass.stage \in {"orphans", "orphan"} /\ pass.batch = {} /\ pass.cur = None
      /\ pass.stage = "orphan" => ~pass.again
    BY Between DEF NextOrphan, AtOrphans, Pruned, Deleting
<1>3. c \in Cameras \ DOMAIN pass.windows /\ GlobalHard > 0
      /\ pass.todo \subseteq Cameras \ DOMAIN pass.windows
    BY <1>2 DEF Shape, StageOK
<1>4. pass.start - GlobalHard \in Int
    BY ConstantsAre DEF Shape, Base, PassType
<1>5. /\ pass' \in PassType /\ pass'.stage = "orphan" /\ pass'.at = c
      /\ pass'.cutoff = pass.start - GlobalHard /\ pass'.again
      /\ pass'.todo = pass.todo \ {c}
      /\ pass'.batch = pass.batch /\ pass'.cur = pass.cur
      /\ pass'.windows = pass.windows /\ pass'.start = pass.start
      /\ UNCHANGED <<env, files, rows, events, upsets, history>>
    BY <1>1, <1>3, <1>4, PruneIs
<1>6. StageOK'
    BY <1>2, <1>3, <1>5 DEF StageOK, Deleting
<1> QED BY <1>2, <1>3, <1>5, <1>6, PassOnly

LEMMA OrphanEventsIs ==
    ASSUME Shape, OrphanEvents
    PROVE  /\ Shape' /\ UNCHANGED <<env, files, rows, upsets, history>>
           /\ pass.stage \in {"orphans", "orphan"} /\ pass.todo = {} /\ pass.batch = {}
           /\ pass.stage = "orphan" => ~pass.again
           /\ events' \subseteq events
           /\ pass'.stage = "events" /\ pass'.batch = {} /\ pass'.cur = None
           /\ pass'.start = pass.start /\ \A e \in events' : e.cam \in pass'.todo
<1>1. /\ pass.stage \in {"orphans", "orphan"} /\ pass.todo = {} /\ pass.batch = {}
      /\ pass.cur = None /\ (pass.stage = "orphan" => ~pass.again)
    BY Between DEF OrphanEvents, AtOrphans, Pruned, Deleting
<1>2. events' \subseteq events
    BY DEF OrphanEvents
<1>3. PICK todo : todo = {e.cam : e \in events'}
    OBVIOUS
<1>4. todo \subseteq Cameras
    BY <1>2, <1>3 DEF Shape, Base
<1>5. pass' = [pass EXCEPT !.stage = "events", !.todo = todo, !.at = None, !.cutoff = 0,
                           !.windows = <<>>]
      /\ UNCHANGED <<env, files, rows, upsets, history>>
    BY <1>3 DEF OrphanEvents
<1>6. /\ pass' \in PassType /\ pass'.stage = "events" /\ pass'.batch = {}
      /\ pass'.cur = None /\ pass'.start = pass.start /\ pass'.todo = todo
    <2>1. todo \in SUBSET (Cameras \cup Volumes) /\ pass \in PassType /\ <<>> \in WindowsType
        BY <1>4 DEF Shape, Base, WindowsType
    <2>2. "events" \in Stages /\ None \in Cameras \cup Volumes \cup {None} /\ 0 \in Int
        BY DEF Stages
    <2>3. pass' \in PassType /\ pass'.stage = "events" /\ pass'.todo = todo
          /\ pass'.batch = pass.batch /\ pass'.cur = pass.cur /\ pass'.start = pass.start
        BY <1>5, <2>1, <2>2 DEF PassType
    <2> QED BY <1>1, <2>3
<1>7. StageOK'
    BY <1>4, <1>6 DEF StageOK, Deleting
<1>8. Shape'
    BY <1>2, <1>5, <1>6, <1>7 DEF Shape, Base, Past, env, history
<1> QED BY <1>1, <1>2, <1>3, <1>5, <1>6, <1>8

LEMMA AlignEventsIs ==
    ASSUME Shape, AlignEvents
    PROVE  /\ Shape' /\ UNCHANGED <<env, files, rows, upsets, history>>
           /\ pass.stage = "events" /\ pass'.stage = "events" /\ pass'.start = pass.start
           /\ pass.batch = {} /\ pass'.batch = {} /\ pass'.cur = None
           /\ \E c \in pass.todo :
                /\ events' = {e \in events : e.cam # c \/ RowsOf(c) = {} \/ e.ts >= FirstTs(c)}
                /\ pass'.todo = pass.todo \ {c}
<1>1. PICK c \in pass.todo :
        /\ events' = {e \in events : e.cam # c \/ RowsOf(c) = {} \/ e.ts >= FirstTs(c)}
        /\ pass' = [pass EXCEPT !.todo = @ \ {c}]
    BY DEF AlignEvents
<1>2. pass.stage = "events" /\ pass.batch = {} /\ pass.cur = None
      /\ UNCHANGED <<env, files, rows, upsets, history>>
    BY Between DEF AlignEvents, Deleting
<1>3. /\ pass' \in PassType /\ pass'.stage = "events" /\ pass'.batch = {}
      /\ pass'.cur = None /\ pass'.start = pass.start /\ pass'.todo = pass.todo \ {c}
    BY <1>1, <1>2 DEF Shape, Base, PassType
<1>4. StageOK'
    BY <1>2, <1>3 DEF Shape, StageOK, Deleting
<1>5. events' \subseteq events
    BY <1>1
<1>6. Shape'
    BY <1>2, <1>3, <1>4, <1>5 DEF Shape, Base, Past, env, history
<1> QED BY <1>1, <1>2, <1>3, <1>6

LEMMA QuotaIs ==
    ASSUME Shape PROVE QuotaNow \in Nat
BY RetentionAssumption DEF QuotaNow, Shape, Base

LEMMA BeginQuotaIs ==
    ASSUME Shape, BeginQuota
    PROVE  /\ Shape' /\ UNCHANGED <<env, files, rows, events, upsets, history>>
           /\ pass.stage = "events" /\ pass.todo = {}
           /\ pass'.stage = "quota" /\ pass'.batch = {} /\ pass'.cur = None
           /\ pass'.cutoff = QuotaNow /\ pass'.total = Cardinality(rows)
           /\ pass'.start = pass.start
<1>1. pass.stage = "events" /\ pass.todo = {} /\ pass.batch = {} /\ pass.cur = None
    BY Between DEF BeginQuota, Deleting
<1>2. pass' = [pass EXCEPT !.stage = "quota", !.cutoff = QuotaNow,
                           !.total = Cardinality(rows)]
      /\ UNCHANGED <<env, files, rows, events, upsets, history>>
    BY DEF BeginQuota, Local
<1>3. QuotaNow \in Nat /\ Cardinality(rows) \in Nat
    BY QuotaIs, Counted DEF Shape, Base
<1>4. /\ pass' \in PassType /\ pass'.stage = "quota" /\ pass'.batch = {}
      /\ pass'.cur = None /\ pass'.cutoff = QuotaNow /\ pass'.total = Cardinality(rows)
      /\ pass'.start = pass.start
    <2>1. pass \in PassType /\ "quota" \in Stages /\ QuotaNow \in Int
        BY <1>3 DEF Shape, Base, Stages
    <2>2. PICK q, n : q = QuotaNow /\ n = Cardinality(rows)
        OBVIOUS
    <2>3. pass' = [pass EXCEPT !.stage = "quota", !.cutoff = q, !.total = n]
        BY <1>2, <2>2
    <2>4. q \in Int /\ n \in Nat
        BY <1>3, <2>1, <2>2
    <2>5. pass' \in PassType /\ pass'.stage = "quota" /\ pass'.cutoff = q /\ pass'.total = n
          /\ pass'.batch = pass.batch /\ pass'.cur = pass.cur /\ pass'.start = pass.start
        BY <2>1, <2>3, <2>4 DEF PassType
    <2> QED BY <1>1, <2>2, <2>5
<1>5. StageOK'
    BY <1>4 DEF StageOK, Deleting
<1> QED BY <1>1, <1>2, <1>4, <1>5, PassOnly

LEMMA QuotaFetchIs ==
    ASSUME Shape, QuotaFetch
    PROVE  /\ Shape' /\ UNCHANGED <<env, files, rows, events, upsets, history>>
           /\ pass.stage = "quota" /\ pass'.stage = "quota" /\ pass'.cur = None
           /\ pass'.cutoff = pass.cutoff /\ pass'.total = pass.total
           /\ pass'.start = pass.start /\ pass'.at = pass.at
           /\ pass'.batch \subseteq rows
           /\ \A r \in pass'.batch, s \in rows \ pass'.batch : ~Earlier(s, r)
<1>1. PICK b \in OldestOf(rows) : Local([pass EXCEPT !.batch = b])
    BY DEF QuotaFetch
<1>2. b \subseteq rows /\ \A r \in b, s \in rows \ b : ~Earlier(s, r)
    BY OldestIs, Counted DEF Shape, Base
<1>3. pass.stage = "quota" /\ pass.batch = {} /\ pass.cur = None
    BY Between DEF QuotaFetch
<1>4. pass' = [pass EXCEPT !.batch = b]
      /\ UNCHANGED <<env, files, rows, events, upsets, history>>
    BY <1>1 DEF Local
<1>5. /\ pass' \in PassType /\ pass'.stage = "quota" /\ pass'.batch = b
      /\ pass'.cur = None /\ pass'.cutoff = pass.cutoff /\ pass'.total = pass.total
      /\ pass'.start = pass.start /\ pass'.at = pass.at
    BY <1>2, <1>3, <1>4 DEF Shape, Base, PassType
<1>6. StageOK'
    BY <1>5 DEF StageOK, Deleting
<1> QED BY <1>2, <1>3, <1>4, <1>5, <1>6, PassOnly

LEMMA QuotaMetIs ==
    ASSUME Shape, QuotaMet
    PROVE  /\ Shape' /\ UNCHANGED <<env, files, rows, events, upsets, history>>
           /\ pass.stage = "quota" /\ pass.cur = None /\ (~OverQuota \/ rows = {})
           /\ pass'.stage = "volumes" /\ pass'.batch = {} /\ pass'.cur = None
           /\ pass'.todo = Volumes /\ pass'.start = pass.start
<1>1. pass.stage = "quota" /\ pass.cur = None /\ (~OverQuota \/ rows = {})
    BY DEF QuotaMet
<1>2. pass' = [pass EXCEPT !.stage = "volumes", !.batch = {}, !.todo = Volumes,
                           !.cutoff = 0, !.total = 0]
      /\ UNCHANGED <<env, files, rows, events, upsets, history>>
    BY DEF QuotaMet, Local
<1>3. /\ pass' \in PassType /\ pass'.stage = "volumes" /\ pass'.batch = {}
      /\ pass'.cur = None /\ pass'.todo = Volumes /\ pass'.start = pass.start
    <2>1. Volumes \in SUBSET (Cameras \cup Volumes) /\ pass \in PassType
        BY DEF Shape, Base
    <2>2. "volumes" \in Stages /\ {} \in SUBSET Segments /\ 0 \in Int /\ 0 \in Nat
        BY DEF Stages
    <2>3. pass' \in PassType /\ pass'.stage = "volumes" /\ pass'.batch = {}
          /\ pass'.cur = pass.cur /\ pass'.todo = Volumes /\ pass'.start = pass.start
        BY <1>2, <2>1, <2>2 DEF PassType
    <2> QED BY <1>1, <2>3
<1>4. StageOK'
    BY <1>3 DEF StageOK, Deleting
<1> QED BY <1>1, <1>2, <1>3, <1>4, PassOnly

LEMMA NextVolumeIs ==
    ASSUME Shape, NextVolume
    PROVE  /\ Shape' /\ UNCHANGED <<env, files, rows, events, upsets, history>>
           /\ pass.stage = "volumes" /\ pass'.batch = {} /\ pass'.cur = None
           /\ pass'.start = pass.start
           /\ \E v \in pass.todo :
                /\ v \in Volumes /\ pass'.todo = pass.todo \ {v}
                /\ \/ /\ v \in mounted /\ pass'.stage = "floor" /\ pass'.at = v
                      /\ pass'.free = FreeOn(v)
                   \/ v \notin mounted /\ pass'.stage = "volumes"
<1>1. pass.stage = "volumes" /\ pass.batch = {} /\ pass.cur = None
      /\ pass.todo \subseteq Volumes
    BY Between DEF NextVolume, Deleting, Shape, StageOK
<1>2. PICK v \in pass.todo :
        Local(IF v \in mounted
              THEN [pass EXCEPT !.stage = "floor", !.at = v, !.todo = @ \ {v},
                                !.free = FreeOn(v)]
              ELSE [pass EXCEPT !.todo = @ \ {v}])
    BY DEF NextVolume
<1>3. UNCHANGED <<env, files, rows, events, upsets, history>>
    BY <1>2 DEF Local
<1>4. v \in Volumes /\ FreeOn(v) \in Int
    BY <1>1, FreeIs DEF Shape, Base
<1>5. CASE v \in mounted
    <2>1. pass' = [pass EXCEPT !.stage = "floor", !.at = v, !.todo = @ \ {v},
                               !.free = FreeOn(v)]
        BY <1>2, <1>5 DEF Local
    <2>2. /\ pass' \in PassType /\ pass'.stage = "floor" /\ pass'.at = v
          /\ pass'.todo = pass.todo \ {v} /\ pass'.free = FreeOn(v)
          /\ pass'.batch = {} /\ pass'.cur = None /\ pass'.start = pass.start
        BY <1>1, <1>4, <2>1 DEF Shape, Base, PassType, Stages
    <2>3. StageOK'
        BY <1>1, <1>4, <2>2 DEF StageOK, Deleting
    <2>4. Shape'
        BY <1>3, <2>2, <2>3, PassOnly
    <2> QED BY <1>1, <1>3, <1>4, <1>5, <2>2, <2>4
<1>6. CASE v \notin mounted
    <2>1. pass' = [pass EXCEPT !.todo = @ \ {v}]
        BY <1>2, <1>6 DEF Local
    <2>2. /\ pass' \in PassType /\ pass'.stage = "volumes"
          /\ pass'.todo = pass.todo \ {v}
          /\ pass'.batch = {} /\ pass'.cur = None /\ pass'.start = pass.start
        BY <1>1, <2>1 DEF Shape, Base, PassType
    <2>3. StageOK'
        BY <1>1, <2>2 DEF StageOK, Deleting
    <2>4. Shape'
        BY <1>3, <2>2, <2>3, PassOnly
    <2> QED BY <1>1, <1>3, <1>4, <1>6, <2>2, <2>4
<1> QED BY <1>5, <1>6

LEMMA FloorFetchIs ==
    ASSUME Shape, FloorFetch
    PROVE  /\ Shape' /\ UNCHANGED <<env, files, rows, events, upsets, history>>
           /\ pass.stage = "floor" /\ pass'.stage = "floor" /\ pass.batch = {}
           /\ pass.cur = None /\ pass'.cur = None /\ pass.free < Floor
           /\ pass'.at = pass.at /\ pass'.todo = pass.todo /\ pass'.start = pass.start
           /\ pass'.free = pass.free /\ pass'.count = 0
           /\ pass'.batch # {} /\ pass'.batch \subseteq RowsOn(pass.at)
           /\ \A r \in pass'.batch, s \in RowsOn(pass.at) \ pass'.batch : ~Earlier(s, r)
<1>1. PICK b \in OldestOf(RowsOn(pass.at)) :
        b # {} /\ Local([pass EXCEPT !.batch = b, !.count = 0])
    BY DEF FloorFetch
<1>2. RowsOn(pass.at) \subseteq Segments /\ RowsOn(pass.at) \subseteq rows
    BY DEF RowsOn, Shape, Base
<1>3. b \subseteq RowsOn(pass.at) /\ \A r \in b, s \in RowsOn(pass.at) \ b : ~Earlier(s, r)
    <2>1. IsFiniteSet(RowsOn(pass.at))
        BY <1>2, Counted
    <2> QED BY <2>1, OldestIs
<1>4. pass.stage = "floor" /\ pass.batch = {} /\ pass.cur = None /\ pass.free < Floor
    BY Between DEF FloorFetch
<1>5. pass' = [pass EXCEPT !.batch = b, !.count = 0]
      /\ UNCHANGED <<env, files, rows, events, upsets, history>>
    BY <1>1 DEF Local
<1>6. /\ pass' \in PassType /\ pass'.stage = "floor" /\ pass'.batch = b
      /\ pass'.cur = None /\ pass'.at = pass.at /\ pass'.todo = pass.todo
      /\ pass'.start = pass.start /\ pass'.free = pass.free /\ pass'.count = 0
    BY <1>2, <1>3, <1>4, <1>5 DEF Shape, Base, PassType
<1>7. \A r \in b : r.vol = pass.at
    BY <1>3 DEF RowsOn
<1>8. StageOK'
    BY <1>4, <1>6, <1>7 DEF Shape, StageOK, Deleting
<1>9. Shape'
    BY <1>5, <1>6, <1>8, PassOnly
<1> QED BY <1>1, <1>3, <1>4, <1>5, <1>6, <1>9

LEMMA FloorMetIs ==
    ASSUME Shape, FloorMet
    PROVE  /\ Shape' /\ UNCHANGED <<env, files, rows, events, upsets, history>>
           /\ pass.stage = "floor" /\ pass.batch = {} /\ pass.cur = None
           /\ pass.free >= Floor \/ RowsOn(pass.at) = {}
           /\ pass'.stage = "volumes" /\ pass'.batch = {} /\ pass'.cur = None
           /\ pass'.todo = pass.todo /\ pass'.start = pass.start
<1>1. pass.stage = "floor" /\ pass.batch = {} /\ pass.cur = None
      /\ (pass.free >= Floor \/ RowsOn(pass.at) = {})
    BY Between DEF FloorMet
<1>2. pass' = [pass EXCEPT !.stage = "volumes", !.free = 0, !.count = 0]
      /\ UNCHANGED <<env, files, rows, events, upsets, history>>
    BY DEF FloorMet, Local
<1>3. /\ pass' \in PassType /\ pass'.stage = "volumes" /\ pass'.batch = {}
      /\ pass'.cur = None /\ pass'.todo = pass.todo /\ pass'.start = pass.start
    <2>1. pass \in PassType /\ "volumes" \in Stages /\ 0 \in Int /\ 0 \in Nat
        BY DEF Shape, Base, Stages
    <2>2. pass' \in PassType /\ pass'.stage = "volumes" /\ pass'.batch = pass.batch
          /\ pass'.cur = pass.cur /\ pass'.todo = pass.todo /\ pass'.start = pass.start
        BY <1>2, <2>1 DEF PassType
    <2> QED BY <1>1, <2>2
<1>4. StageOK'
    BY <1>1, <1>3 DEF Shape, StageOK, Deleting
<1> QED BY <1>1, <1>2, <1>3, <1>4, PassOnly

LEMMA IdleIs ==
    /\ Idle \in PassType /\ Idle.stage = "idle" /\ Idle.cur = None /\ Idle.batch = {}
    /\ Idle.todo = {} /\ Idle.start = 0
<1>1. <<>> \in WindowsType /\ 0 \in 0..MaxTime
    BY ConstantsAre DEF WindowsType
<1> QED BY <1>1 DEF Idle, PassType, Stages

LEMMA BeginIs ==
    ASSUME Shape, Begin
    PROVE  /\ Shape' /\ UNCHANGED <<env, files, rows, events, upsets, torn>>
           /\ pass.stage = "idle" /\ pass.cur = None
           /\ pass'.stage = "cameras" /\ pass'.batch = {} /\ pass'.cur = None
           /\ pass'.start = now /\ pass'.windows = Windows /\ pass'.todo = Present
           /\ DOMAIN pass'.windows = Present
           /\ fresh' = {} /\ failed' = {} /\ cut' = {} /\ calm' /\ steady'
<1>1. PICK w : w = Windows
    OBVIOUS
<1>2. w \in WindowsType /\ DOMAIN w = Present /\ Present \subseteq Cameras
    BY <1>1, WindowsAre DEF Shape
<1>3. pass' = [Idle EXCEPT !.stage = "cameras", !.start = now, !.windows = w, !.todo = Present]
    BY <1>1 DEF Begin
<1>4. /\ pass' \in PassType /\ pass'.stage = "cameras" /\ pass'.batch = {}
      /\ pass'.cur = None /\ pass'.start = now /\ pass'.windows = w /\ pass'.todo = Present
    <2>1. now \in 0..MaxTime /\ Present \in SUBSET (Cameras \cup Volumes)
        BY <1>2 DEF Shape, Base
    <2> QED BY <1>2, <1>3, <2>1, IdleIs DEF PassType, Stages
<1>5. StageOK'
    BY <1>2, <1>4 DEF StageOK, Deleting
<1>6. /\ fresh' = {} /\ failed' = {} /\ cut' = {} /\ calm' = TRUE /\ steady' = TRUE
      /\ UNCHANGED <<env, files, rows, events, upsets, torn>> /\ pass.stage = "idle"
    BY DEF Begin
<1>7. now \in Nat
    BY ConstantsAre DEF Shape, Base
<1>8. Shape'
    <2>1. Base'
        BY <1>4, <1>6 DEF Shape, Base, env
    <2>2. Past'
        BY <1>4, <1>6, <1>7 DEF Shape, Past, env
    <2> QED BY <1>5, <2>1, <2>2 DEF Shape
<1>9. pass.cur = None
    BY <1>6, IdleIs DEF Shape, StageOK
<1> QED BY <1>1, <1>2, <1>4, <1>6, <1>8, <1>9

LEMMA EndIs ==
    ASSUME Shape, End
    PROVE  /\ Shape' /\ UNCHANGED <<env, files, rows, events, upsets, cut, calm, torn>>
           /\ pass.stage = "volumes" /\ pass.todo = {} /\ pass.cur = None
           /\ pass' = Idle /\ fresh' = {} /\ failed' = {} /\ ~steady'
<1>1. /\ pass.stage = "volumes" /\ pass.todo = {} /\ pass.batch = {} /\ pass.cur = None
      /\ pass' = Idle /\ fresh' = {} /\ failed' = {} /\ steady' = FALSE
      /\ UNCHANGED <<env, files, rows, events, upsets, cut, calm, torn>>
    BY Between DEF End, Deleting
<1>2. StageOK'
    BY <1>1, IdleIs DEF StageOK, Deleting
<1>3. now \in Nat
    BY ConstantsAre DEF Shape, Base
<1>4. Shape'
    <2>1. Base'
        BY <1>1, IdleIs DEF Shape, Base, env
    <2>2. Past'
        BY <1>1, <1>3, IdleIs DEF Shape, Past, env
    <2> QED BY <1>2, <2>1, <2>2 DEF Shape
<1> QED BY <1>1, <1>4

\* The segment a loop is at: one of its batch, and the quota loop is over the quota.
LEMMA AtSegmentIs ==
    ASSUME Shape, NEW r, AtSegment(r)
    PROVE  /\ r \in pass.batch /\ r \in Segments /\ r # None /\ pass.cur = None
           /\ pass.stage \in Deleting
           /\ \A s \in pass.batch : ~Earlier(s, r)
           /\ pass.stage = "quota" => pass.total > 0 /\ OverQuota
<1>1. /\ r \in pass.batch /\ pass.cur = None /\ (\A s \in pass.batch : ~Earlier(s, r))
      /\ (pass.stage = "quota" => OverQuota)
    BY DEF AtSegment
<1>2. pass.batch \subseteq Segments /\ pass.cutoff \in Int /\ pass.total \in Nat
    BY DEF Shape, Base, PassType
<1>3. OverQuota => pass.total > 0
    BY <1>2 DEF OverQuota
<1>4. pass.stage \in Deleting
    BY <1>1 DEF Shape, StageOK
<1> QED BY <1>1, <1>2, <1>3, <1>4, ConstantsAre

\* What the loops keep when they are done with a segment.
LEMMA AfterIs ==
    ASSUME Shape, NEW r \in pass.batch, NEW size \in {0, 1},
           pass.stage = "quota" => pass.total > 0
    PROVE  LET a == After(r, size)
           IN  /\ a \in PassType
               /\ a.stage = pass.stage /\ a.start = pass.start /\ a.windows = pass.windows
               /\ a.todo = pass.todo /\ a.at = pass.at /\ a.cutoff = pass.cutoff
               /\ a.again = pass.again /\ a.cur = None
               /\ a.total = IF pass.stage = "quota" THEN pass.total - size ELSE pass.total
               /\ a.batch \subseteq pass.batch \ {r}
               /\ pass.stage # "floor" => a.batch = pass.batch \ {r}
               /\ pass.stage = "floor" =>
                    /\ a.count = pass.count + 1
                    /\ \/ /\ a.free = pass.free /\ a.batch = pass.batch \ {r}
                          /\ a.batch # {} /\ a.count % StatEvery # 0
                       \/ /\ a.free = Stat(pass.at)
                          /\ a.batch = IF a.free >= Floor THEN {} ELSE pass.batch \ {r}
<1> DEFINE count == pass.count + 1
           rest  == pass.batch \ {r}
           look  == pass.stage = "floor" /\ (rest = {} \/ count % StatEvery = 0)
           free  == IF look THEN Stat(pass.at) ELSE pass.free
           total == IF pass.stage = "quota" THEN pass.total - size ELSE pass.total
           n     == IF pass.stage = "floor" THEN count ELSE 0
           batch == IF look /\ free >= Floor THEN {} ELSE rest
           a     == After(r, size)
<1>1. pass \in PassType /\ pass.total \in Nat /\ pass.count \in Nat /\ pass.free \in Int
      /\ pass.batch \subseteq Segments
    BY DEF Shape, Base, PassType
<1>2. total \in Nat /\ n \in Nat /\ batch \in SUBSET Segments /\ None \in Segments \cup {None}
    BY <1>1
<1>3. free \in Int
    BY <1>1, FreeIs DEF Shape, StageOK, Base
<1>4. a = [pass EXCEPT !.cur = None, !.free = free, !.total = total, !.count = n,
                       !.batch = batch]
    BY DEF After
<1>5. /\ a \in PassType
      /\ a.stage = pass.stage /\ a.start = pass.start /\ a.windows = pass.windows
      /\ a.todo = pass.todo /\ a.at = pass.at /\ a.cutoff = pass.cutoff
      /\ a.again = pass.again /\ a.cur = None
      /\ a.total = total /\ a.batch = batch /\ a.count = n /\ a.free = free
    <2> HIDE DEF total, n, batch, free, a
    <2> QED BY <1>1, <1>2, <1>3, <1>4 DEF PassType
<1>6. batch \subseteq rest /\ (pass.stage # "floor" => batch = rest)
    OBVIOUS
<1>7. pass.stage = "floor" =>
        /\ n = count
        /\ \/ free = pass.free /\ batch = rest /\ batch # {} /\ count % StatEvery # 0
           \/ free = Stat(pass.at) /\ batch = IF free >= Floor THEN {} ELSE rest
    OBVIOUS
<1>8. /\ a.batch \subseteq rest /\ (pass.stage # "floor" => a.batch = rest)
      /\ (pass.stage = "floor" =>
            /\ a.count = count
            /\ \/ a.free = pass.free /\ a.batch = rest /\ a.batch # {} /\ count % StatEvery # 0
               \/ a.free = Stat(pass.at) /\ a.batch = IF a.free >= Floor THEN {} ELSE rest)
    <2> HIDE DEF batch, free, n, a, rest, count
    <2> QED BY <1>5, <1>6, <1>7
<1>9. a.total = IF pass.stage = "quota" THEN pass.total - size ELSE pass.total
    BY <1>5
<1> HIDE DEF batch, free, n, total, a
<1> QED BY <1>5, <1>8, <1>9 DEF a

LEMMA UnlinkIs ==
    ASSUME Shape, Unlink
    PROVE  /\ Shape' /\ UNCHANGED <<env, rows, events, upsets, history>>
           /\ pass.cur = None /\ pass.stage \in Deleting
           /\ pass'.cur # None /\ pass'.cur \in Segments
           /\ pass' = [pass EXCEPT !.cur = pass'.cur]
           /\ pass'.cur \in pass.batch /\ \A s \in pass.batch : ~Earlier(s, pass'.cur)
           /\ pass.stage = "quota" => OverQuota
           /\ files' = IF pass'.cur.vol \in mounted THEN files \ {pass'.cur} ELSE files
           /\ pass'.stage = pass.stage /\ pass'.start = pass.start
           /\ pass'.windows = pass.windows /\ pass'.todo = pass.todo
           /\ pass'.at = pass.at /\ pass'.cutoff = pass.cutoff /\ pass'.batch = pass.batch
           /\ pass'.again = pass.again /\ pass'.total = pass.total
           /\ pass'.free = pass.free /\ pass'.count = pass.count
<1>1. PICK r \in pass.batch :
        /\ AtSegment(r)
        /\ pass' = [pass EXCEPT !.cur = r]
        /\ files' = IF r.vol \in mounted THEN files \ {r} ELSE files
    BY DEF Unlink
<1>2. UNCHANGED <<env, rows, events, upsets, history>>
    BY DEF Unlink
<1>3. /\ r \in Segments /\ r # None /\ pass.cur = None /\ pass.stage \in Deleting
      /\ (\A s \in pass.batch : ~Earlier(s, r)) /\ (pass.stage = "quota" => OverQuota)
    BY <1>1, AtSegmentIs
<1>4. /\ pass' \in PassType /\ pass'.cur = r
      /\ pass'.stage = pass.stage /\ pass'.start = pass.start
      /\ pass'.windows = pass.windows /\ pass'.todo = pass.todo
      /\ pass'.at = pass.at /\ pass'.cutoff = pass.cutoff /\ pass'.batch = pass.batch
      /\ pass'.again = pass.again /\ pass'.total = pass.total
      /\ pass'.free = pass.free /\ pass'.count = pass.count
    <2>1. pass \in PassType /\ r \in Segments \cup {None}
        BY <1>3 DEF Shape, Base
    <2> QED BY <1>1, <2>1 DEF PassType
<1>5. StageOK'
    BY <1>1, <1>3, <1>4, IdleIs DEF Shape, StageOK, Deleting, OverQuota
<1>6. files' \subseteq files
    BY <1>1
<1>7. Base'
    BY <1>2, <1>4, <1>6 DEF Shape, Base, env, history
<1>8. Past'
    BY <1>2, <1>4, <1>6 DEF Shape, Past, env, history
<1> QED BY <1>1, <1>2, <1>3, <1>4, <1>5, <1>7, <1>8 DEF Shape

LEMMA UnlinkFailsIs ==
    ASSUME Shape, UnlinkFails
    PROVE  /\ Shape' /\ UNCHANGED <<env, files, rows, events, upsets, fresh, cut, steady, torn>>
           /\ ~calm' /\ pass.cur = None /\ pass.stage \in Deleting
           /\ \E r \in pass.batch :
                /\ \A s \in pass.batch : ~Earlier(s, r)
                /\ r.vol \in mounted /\ r \in files
                /\ pass' = After(r, 0) /\ failed' = failed \cup {r}
                /\ pass.stage = "quota" => pass.total > 0
<1>1. PICK r \in pass.batch : /\ AtSegment(r) /\ r.vol \in mounted /\ r \in files
                              /\ pass' = After(r, 0) /\ failed' = failed \cup {r}
    BY DEF UnlinkFails, Refused
<1>2. /\ calm' = FALSE
      /\ UNCHANGED <<env, files, rows, events, upsets, fresh, cut, steady, torn>>
    BY DEF UnlinkFails
<1>3. /\ r \in Segments /\ pass.cur = None /\ pass.stage \in Deleting
      /\ (\A s \in pass.batch : ~Earlier(s, r))
      /\ (pass.stage = "quota" => pass.total > 0)
    BY <1>1, AtSegmentIs
<1>4. /\ pass' \in PassType /\ pass'.stage = pass.stage /\ pass'.start = pass.start
      /\ pass'.windows = pass.windows /\ pass'.todo = pass.todo /\ pass'.at = pass.at
      /\ pass'.cutoff = pass.cutoff /\ pass'.cur = None
      /\ pass'.batch \subseteq pass.batch \ {r}
      /\ (pass.stage = "floor" =>
            \/ pass'.free = pass.free
            \/ pass'.batch = IF pass'.free >= Floor THEN {} ELSE pass.batch \ {r})
    BY <1>1, <1>3, AfterIs
<1>5. StageOK'
    <2>1. pass'.stage = "floor" /\ pass'.batch # {} => pass'.free < Floor
        <3>1. pass'.free \in Int /\ Floor \in Nat
            BY <1>4, ConstantsAre DEF PassType
        <3> QED BY <1>1, <1>4, <3>1 DEF Shape, StageOK
    <2>2. pass.stage # "idle"
        BY <1>3 DEF Deleting
    <2> QED BY <1>3, <1>4, <2>1, <2>2 DEF Shape, StageOK
<1>6. Base'
    BY <1>1, <1>2, <1>3, <1>4 DEF Shape, Base, env
<1>7. Past'
    BY <1>2, <1>4 DEF Shape, Past, env
<1> QED BY <1>1, <1>2, <1>3, <1>5, <1>6, <1>7 DEF Shape

LEMMA DropRowIs ==
    ASSUME Shape, DropRow
    PROVE  /\ Shape' /\ UNCHANGED <<env, files, events, upsets, fresh, failed, calm, steady>>
           /\ pass.cur # None /\ pass.cur \in pass.batch /\ pass.stage \in Deleting
           /\ pass.stage = "quota" => pass.total > 0 /\ OverQuota
           /\ rows' = rows \ {pass.cur} /\ pass' = After(pass.cur, 1)
           /\ cut' = IF pass.stage \in {"quota", "floor"}
                     THEN cut \cup {pass.cur.cam} ELSE cut
           /\ torn' = torn \ {pass.cur}
<1>1. /\ pass.cur # None /\ rows' = rows \ {pass.cur} /\ pass' = After(pass.cur, 1)
      /\ cut' = (IF pass.stage \in {"quota", "floor"} THEN cut \cup {pass.cur.cam} ELSE cut)
      /\ torn' = torn \ {pass.cur}
      /\ UNCHANGED <<env, files, events, upsets, fresh, failed, calm, steady>>
    BY DEF DropRow
<1>2. pass.cur \in pass.batch /\ pass.stage \in Deleting
      /\ (pass.stage = "quota" => OverQuota)
    BY <1>1 DEF Shape, StageOK
<1>3. pass.batch \subseteq Segments /\ pass.cutoff \in Int /\ pass.total \in Nat
    BY DEF Shape, Base, PassType
<1>4. pass.stage = "quota" => pass.total > 0 /\ OverQuota
    BY <1>2, <1>3 DEF OverQuota
<1>5. PICK r \in pass.batch : r = pass.cur
    BY <1>2
<1>6. /\ pass' \in PassType /\ pass'.stage = pass.stage /\ pass'.start = pass.start
      /\ pass'.windows = pass.windows /\ pass'.todo = pass.todo /\ pass'.at = pass.at
      /\ pass'.cutoff = pass.cutoff /\ pass'.cur = None
      /\ pass'.batch \subseteq pass.batch \ {r}
      /\ (pass.stage = "floor" =>
            \/ pass'.free = pass.free
            \/ pass'.batch = IF pass'.free >= Floor THEN {} ELSE pass.batch \ {r})
    BY <1>1, <1>4, <1>5, AfterIs
<1>7. StageOK'
    <2>1. pass'.stage = "floor" /\ pass'.batch # {} => pass'.free < Floor
        <3>1. pass'.free \in Int /\ Floor \in Nat
            BY <1>6, ConstantsAre DEF PassType
        <3> QED BY <1>6, <3>1 DEF Shape, StageOK
    <2>2. pass.stage # "idle"
        BY <1>2 DEF Deleting
    <2> QED BY <1>2, <1>6, <2>1, <2>2 DEF Shape, StageOK
<1>8. Base'
    <2>1. pass.cur.cam \in Cameras /\ cut' \subseteq Cameras
        BY <1>1, <1>2, <1>3 DEF Segments, Shape, Base
    <2> QED BY <1>1, <1>6, <2>1 DEF Shape, Base, env
<1>9. Past'
    BY <1>1, <1>6 DEF Shape, Past, env
<1> QED BY <1>1, <1>2, <1>4, <1>7, <1>8, <1>9 DEF Shape


-----------------------------------------------------------------------------
(* Everything else that moves. *)

LEMMA TickIs ==
    ASSUME Shape, NEW S \in SUBSET Cameras, NEW D \in SUBSET Cameras, NEW v \in Volumes,
           Tick(S, D, v)
    PROVE  /\ Shape' /\ ~calm' /\ now' = now + 1 /\ now < MaxTime
           /\ \A f \in files' \ files : f \in Segments /\ f.ts = now
           /\ \A f \in files' \ files : f.vol = v /\ f.cam \in S
           /\ files \subseteq files'
           /\ UNCHANGED <<table, mounted, locked, rows, pass, upsets, fresh, failed, cut,
                          steady, torn>>
<1>1. /\ now < MaxTime /\ now' = now + 1 /\ calm' = FALSE
      /\ files' = files \cup {[cam |-> c, ts |-> now, vol |-> v] : c \in S}
      /\ events' = events \cup {[cam |-> c, ts |-> now] : c \in D}
      /\ UNCHANGED <<table, mounted, locked, rows, pass, upsets, fresh, failed, cut,
                     steady, torn>>
    BY DEF Tick
<1>2. now \in 0..MaxTime /\ now \in Nat /\ now' \in 0..MaxTime
    BY <1>1, ConstantsAre DEF Shape, Base
<1>3. \A f \in files' \ files : f \in Segments /\ f.ts = now /\ f.vol = v /\ f.cam \in S
    BY <1>1, <1>2 DEF Segments
<1>4. events' \subseteq [cam: Cameras, ts: 0..MaxTime]
    BY <1>1, <1>2 DEF Shape, Base
<1>5. Base'
    BY <1>1, <1>2, <1>3, <1>4 DEF Shape, Base
<1>6. StageOK'
    BY <1>1 DEF Shape, StageOK, OverQuota
<1>7. Past'
    <2>1. ASSUME NEW r \in files' \cup rows' \cup fresh' PROVE r.ts < now'
        <3>1. CASE r \in files' \ files
            BY <1>1, <1>2, <1>3, <3>1
        <3>2. CASE r \in files \cup rows \cup fresh
            <4>1. r \in Segments /\ r.ts < now
                BY <3>2 DEF Shape, Base, Past
            <4> QED BY <1>1, <1>2, <4>1, ConstantsAre DEF Segments
        <3> QED BY <1>1, <2>1, <3>1, <3>2
    <2>2. pass.start \in 0..MaxTime /\ pass.start <= now
        BY DEF Shape, Past, Base, PassType
    <2>3. pass'.start <= now'
        BY <1>1, <1>2, <2>2, ConstantsAre
    <2> QED BY <2>1, <2>3 DEF Past
<1> QED BY <1>1, <1>3, <1>5, <1>6, <1>7 DEF Shape

LEMMA IndexIs ==
    ASSUME Shape, NEW f \in files, Index(f)
    PROVE  /\ Shape' /\ ~calm' /\ f \in Segments
           /\ f \notin rows /\ f.vol \in mounted /\ f.cam \in Present
           /\ rows' = rows \cup {f} /\ fresh' = fresh \cup {f}
           /\ UNCHANGED <<env, files, events, pass, upsets, failed, cut, steady, torn>>
<1>1. /\ f \notin rows /\ f.vol \in mounted /\ f.cam \in Present /\ calm' = FALSE
      /\ rows' = rows \cup {f} /\ fresh' = fresh \cup {f}
      /\ UNCHANGED <<env, files, events, pass, upsets, failed, cut, steady, torn>>
    BY DEF Index
<1>2. Base' /\ f \in Segments
    BY <1>1 DEF Shape, Base, env
<1>3. StageOK'
    BY <1>1 DEF Shape, StageOK, OverQuota
<1>4. Past'
    BY <1>1 DEF Shape, Past, env
<1> QED BY <1>1, <1>2, <1>3, <1>4 DEF Shape

LEMMA DeleteCameraIs ==
    ASSUME Shape, NEW c \in Cameras, DeleteCamera(c)
    PROVE  /\ Shape' /\ ~calm' /\ ~steady'
           /\ rows' = rows \ RowsOf(c) /\ torn' = torn \ RowsOf(c)
           /\ UNCHANGED <<now, mounted, locked, files, events, pass, fresh, failed, cut>>
<1>1. /\ calm' = FALSE /\ steady' = FALSE /\ upsets < MaxUpsets /\ upsets' = upsets + 1
      /\ table' = [table EXCEPT ![c] = None]
      /\ rows' = rows \ RowsOf(c) /\ torn' = torn \ RowsOf(c)
      /\ UNCHANGED <<now, mounted, locked, files, events, pass, fresh, failed, cut>>
    BY DEF DeleteCamera, Edit
<1>2. upsets' \in 0..MaxUpsets
    BY <1>1, ConstantsAre DEF Shape, Base
<1>3. Base'
    BY <1>1, <1>2 DEF Shape, Base
<1>4. StageOK' /\ Past'
    BY <1>1 DEF Shape, StageOK, Past, OverQuota
<1> QED BY <1>1, <1>3, <1>4 DEF Shape

LEMMA SetPolicyIs ==
    ASSUME Shape, NEW c \in Cameras, NEW p \in Policies, SetPolicy(c, p)
    PROVE  /\ Shape' /\ ~calm' /\ ~steady'
           /\ UNCHANGED <<now, mounted, locked, files, rows, events, pass, fresh, failed, cut, torn>>
<1>1. /\ calm' = FALSE /\ steady' = FALSE /\ upsets < MaxUpsets /\ upsets' = upsets + 1
      /\ table' = [table EXCEPT ![c] = p]
      /\ UNCHANGED <<now, mounted, locked, files, rows, events, pass, fresh, failed, cut, torn>>
    BY DEF SetPolicy, Edit
<1>2. upsets' \in 0..MaxUpsets
    BY <1>1, ConstantsAre DEF Shape, Base
<1>3. Base'
    BY <1>1, <1>2 DEF Shape, Base
<1>4. StageOK' /\ Past'
    BY <1>1 DEF Shape, StageOK, Past, OverQuota
<1> QED BY <1>1, <1>3, <1>4 DEF Shape

LEMMA MountIs ==
    ASSUME Shape, NEW v \in Volumes, Mount(v)
    PROVE  /\ Shape' /\ ~calm' /\ ~steady'
           /\ UNCHANGED <<now, table, locked, files, rows, events, pass, fresh, failed, cut, torn>>
<1>1. /\ calm' = FALSE /\ steady' = FALSE /\ upsets < MaxUpsets /\ upsets' = upsets + 1
      /\ mounted' = IF v \in mounted THEN mounted \ {v} ELSE mounted \cup {v}
      /\ UNCHANGED <<now, table, locked, files, rows, events, pass, fresh, failed, cut, torn>>
    BY DEF Mount, Edit
<1>2. upsets' \in 0..MaxUpsets
    BY <1>1, ConstantsAre DEF Shape, Base
<1>3. Base'
    BY <1>1, <1>2 DEF Shape, Base
<1>4. StageOK' /\ Past'
    BY <1>1 DEF Shape, StageOK, Past, OverQuota
<1> QED BY <1>1, <1>3, <1>4 DEF Shape

LEMMA CrashIs ==
    ASSUME Shape, Crash
    PROVE  /\ Shape' /\ ~calm' /\ ~steady' /\ pass' = Idle
           /\ torn' = IF pass.cur = None THEN torn ELSE torn \cup {pass.cur}
           /\ UNCHANGED <<env, files, rows, events, fresh, failed, cut>>
<1>1. /\ calm' = FALSE /\ steady' = FALSE /\ upsets < MaxUpsets /\ upsets' = upsets + 1
      /\ torn' = IF pass.cur = None THEN torn ELSE torn \cup {pass.cur}
      /\ pass' = Idle
      /\ UNCHANGED <<env, files, rows, events, fresh, failed, cut>>
    BY DEF Crash, Edit
<1>2. upsets' \in 0..MaxUpsets
    BY <1>1, ConstantsAre DEF Shape, Base
<1>3. torn' \subseteq Segments
    BY <1>1 DEF Shape, Base, PassType
<1>4. Base'
    BY <1>1, <1>2, <1>3, IdleIs DEF Shape, Base, env
<1>5. StageOK'
    BY <1>1, IdleIs DEF StageOK
<1>6. now \in Nat
    BY ConstantsAre DEF Shape, Base
<1>7. Past'
    BY <1>1, <1>6, IdleIs DEF Shape, Past, env
<1> QED BY <1>1, <1>4, <1>5, <1>7 DEF Shape

LEMMA RefusalIs ==
    ASSUME Shape, NEW f \in files, Refuse(f) \/ Relent(f)
    PROVE  /\ Shape' /\ ~calm'
           /\ UNCHANGED <<now, table, mounted, files, rows, events, pass, fresh, failed, cut,
                          steady, torn>>
<1>1. /\ calm' = FALSE /\ locked' \subseteq locked \cup {f}
      /\ upsets' = upsets \/ (upsets < MaxUpsets /\ upsets' = upsets + 1)
      /\ UNCHANGED <<now, table, mounted, files, rows, events, pass, fresh, failed, cut,
                     steady, torn>>
    BY DEF Refuse, Relent
<1>2. upsets' \in 0..MaxUpsets
    BY <1>1, ConstantsAre DEF Shape, Base
<1>3. Base'
    BY <1>1, <1>2 DEF Shape, Base
<1>4. StageOK' /\ Past'
    BY <1>1 DEF Shape, StageOK, Past, OverQuota
<1> QED BY <1>1, <1>3, <1>4 DEF Shape

LEMMA ShapeInit ==
    ASSUME Init PROVE Shape
<1>1. /\ now = StartTime /\ table \in [Cameras -> Policies \cup {None}] /\ mounted = Volumes /\ locked = {}
      /\ files \subseteq {f \in Segments : f.ts < now} /\ rows \subseteq files
      /\ events \subseteq [cam: Cameras, ts: 0..StartTime - 1]
      /\ pass = Idle /\ upsets = 0 /\ fresh = {} /\ failed = {} /\ cut = {} /\ torn = {}
      /\ calm = FALSE /\ steady = FALSE
    BY DEF Init
<1>2. now \in 0..MaxTime /\ now \in Nat /\ 0 \in 0..MaxUpsets /\ StartTime - 1 <= MaxTime
      /\ StartTime \in Nat /\ MaxTime \in Nat
    BY <1>1, ConstantsAre, RetentionAssumption
<1>3. 0..StartTime - 1 \subseteq 0..MaxTime
    BY <1>2
<1>4. Base
    BY <1>1, <1>2, <1>3, IdleIs DEF Base
<1>5. StageOK /\ Past
    BY <1>1, <1>2, IdleIs DEF StageOK, Past
<1> QED BY <1>4, <1>5 DEF Shape

LEMMA ShapeStep ==
    ASSUME Shape, [Next]_vars PROVE Shape'
<1>1. CASE UNCHANGED vars
    BY <1>1 DEF vars, env, history, Shape, Base, StageOK, Past, OverQuota
<1>2. CASE Begin
    BY <1>2, BeginIs
<1>3. CASE Pass
    BY <1>3, NextCameraIs, FetchIs, HardCapIs, FindOrphansIs, NextOrphanIs, OrphanEventsIs,
       AlignEventsIs, BeginQuotaIs, QuotaFetchIs, QuotaMetIs, NextVolumeIs, FloorFetchIs,
       FloorMetIs, EndIs, UnlinkIs, UnlinkFailsIs, DropRowIs DEF Pass
<1>4. CASE World
    BY <1>4, TickIs, IndexIs, DeleteCameraIs, SetPolicyIs, MountIs, RefusalIs, CrashIs
       DEF World
<1> QED BY <1>1, <1>2, <1>3, <1>4 DEF Next

LEMMA ShapeAlways == Spec => []Shape
<1>1. Init => Shape
    BY ShapeInit
<1>2. Shape /\ [Next]_vars => Shape'
    BY ShapeStep
<1> QED BY <1>1, <1>2, PTL DEF Spec

-----------------------------------------------------------------------------
(* Rows and files. *)

\* A row without its file is the one being deleted, or was at a crash.
Honest == \A r \in rows \ files : r = pass.cur \/ r \in torn

LEMMA HonestStep ==
    ASSUME Shape, Honest, [Next]_vars PROVE Honest'
<1>1. ASSUME pass.cur = None, UNCHANGED <<rows, files, torn>> PROVE Honest'
    BY <1>1, ConstantsAre DEF Honest, Shape, Base
<1>2. CASE UNCHANGED vars
    BY <1>2 DEF vars, env, history, Honest
<1>3. CASE Begin
    BY <1>1, <1>3, BeginIs
<1>4. CASE End
    BY <1>1, <1>4, EndIs
<1>5. ASSUME UNCHANGED <<rows, files, torn>>, pass.batch = {} PROVE Honest'
    BY <1>1, <1>5, Between
<1>6. CASE NextCamera \/ Fetch \/ HardCap \/ FindOrphans \/ NextOrphan
    BY <1>1, <1>5, <1>6, NextCameraIs, FetchIs, HardCapIs, FindOrphansIs, NextOrphanIs
       DEF history
<1>7. CASE OrphanEvents \/ AlignEvents \/ NextVolume
    BY <1>5, <1>7, OrphanEventsIs, AlignEventsIs, NextVolumeIs, Between DEF history, Deleting
<1>8. CASE BeginQuota \/ QuotaFetch
    <2>1. pass.batch = {}
        BY <1>8, Between DEF BeginQuota, QuotaFetch, Deleting
    <2> QED BY <1>5, <1>8, <2>1, BeginQuotaIs, QuotaFetchIs DEF history
<1>9. CASE QuotaMet \/ FloorFetch \/ FloorMet
    BY <1>1, <1>9, QuotaMetIs, FloorFetchIs, FloorMetIs DEF history
<1>10. CASE Unlink
    BY <1>10, UnlinkIs, ConstantsAre DEF history, Honest, Shape, Base
<1>11. CASE UnlinkFails
    BY <1>1, <1>11, UnlinkFailsIs
<1>12. CASE DropRow
    BY <1>12, DropRowIs DEF Honest
<1>13. CASE World
    <2>1. ASSUME NEW S \in SUBSET Cameras, NEW D \in SUBSET Cameras, NEW v \in Volumes,
                 Tick(S, D, v)
          PROVE  Honest'
        BY <2>1, TickIs DEF Honest
    <2>2. ASSUME NEW f \in files, Index(f) PROVE Honest'
        BY <2>2, IndexIs DEF Honest
    <2>3. ASSUME NEW c \in Cameras, DeleteCamera(c) PROVE Honest'
        BY <2>3, DeleteCameraIs DEF Honest, RowsOf
    <2>4. ASSUME NEW c \in Cameras, NEW p \in Policies, SetPolicy(c, p) PROVE Honest'
        BY <2>4, SetPolicyIs DEF Honest
    <2>5. ASSUME NEW v \in Volumes, Mount(v) PROVE Honest'
        BY <2>5, MountIs DEF Honest
    <2>6. CASE Crash
        BY <2>6, CrashIs, ConstantsAre DEF Honest, Shape, Base
    <2>7. ASSUME NEW f \in files, Refuse(f) \/ Relent(f) PROVE Honest'
        BY <2>7, RefusalIs DEF Honest
    <2> QED BY <1>13, <2>1, <2>2, <2>3, <2>4, <2>5, <2>6, <2>7 DEF World
<1> QED BY <1>2, <1>3, <1>4, <1>6, <1>7, <1>8, <1>9, <1>10, <1>11, <1>12, <1>13
        DEF Next, Pass

\* "the timeline never advertises footage that is no longer on disk"
\* (retention.py:11): the file goes before the row, so at any time, whichever
\* unlinks are refused and wherever the program dies, the only rows of a mounted
\* volume without a file are those of the segment being deleted and of the ones
\* being deleted at a crash.
THEOREM TimelineIsHonest == Spec => []HonestTimeline
<1>1. Init => Honest
    BY DEF Init, Honest
<1>2. Shape /\ Honest /\ [Next]_vars => Honest'
    BY HonestStep
<1>3. Honest => HonestTimeline
    BY DEF Honest, HonestTimeline
<1> QED BY <1>1, <1>2, <1>3, ShapeAlways, PTL DEF Spec

-----------------------------------------------------------------------------
(* Oldest first. *)

\* What a batch leaves out is not older than what is in it, was refused or is new.
InOrder ==
    pass.stage \in {"quota", "floor"} =>
        \A r \in pass.batch, s \in IF pass.stage = "quota" THEN rows ELSE RowsOn(pass.at) :
            Earlier(s, r) => s \in failed \cup fresh \/ (s \in pass.batch /\ r # pass.cur)

LEMMA InOrderStep ==
    ASSUME Shape, InOrder, [Next]_vars PROVE InOrder'
<1>1. ASSUME pass'.stage \notin {"quota", "floor"} \/ pass'.batch = {} PROVE InOrder'
    BY <1>1 DEF InOrder
<1>2. CASE UNCHANGED vars
    BY <1>2 DEF vars, env, history, InOrder, RowsOn
<1>3. CASE Begin \/ End
    BY <1>1, <1>3, BeginIs, EndIs, IdleIs
<1>4. CASE NextCamera \/ Fetch \/ HardCap \/ FindOrphans \/ NextOrphan
    BY <1>1, <1>4, NextCameraIs, FetchIs, HardCapIs, FindOrphansIs, NextOrphanIs
<1>5. CASE OrphanEvents \/ AlignEvents \/ BeginQuota \/ QuotaMet \/ NextVolume \/ FloorMet
    BY <1>1, <1>5, OrphanEventsIs, AlignEventsIs, BeginQuotaIs, QuotaMetIs, NextVolumeIs,
       FloorMetIs
<1>6. CASE QuotaFetch
    BY <1>6, QuotaFetchIs, ConstantsAre DEF InOrder, Shape, Base
<1>7. CASE FloorFetch
    BY <1>7, FloorFetchIs, ConstantsAre DEF InOrder, RowsOn, Shape, Base
<1>8. CASE Unlink
    BY <1>8, UnlinkIs, ConstantsAre DEF InOrder, RowsOn, history, Shape, Base, PassType
<1>9. CASE UnlinkFails
    <2>1. PICK r \in pass.batch : /\ pass' = After(r, 0) /\ failed' = failed \cup {r}
                                  /\ pass.stage = "quota" => pass.total > 0
        BY <1>9, UnlinkFailsIs
    <2>2. /\ pass'.stage = pass.stage /\ pass'.at = pass.at /\ pass'.cur = None
          /\ pass'.batch = {} \/ pass'.batch = pass.batch \ {r}
        BY <2>1, AfterIs
    <2>3. pass.cur = None /\ UNCHANGED <<rows, fresh>>
        BY <1>9, UnlinkFailsIs
    <2>4. ASSUME pass.stage \in {"quota", "floor"}, pass'.batch = pass.batch \ {r},
                 NEW x \in pass'.batch,
                 NEW s \in IF pass.stage = "quota" THEN rows ELSE RowsOn(pass.at),
                 Earlier(s, x)
          PROVE  s \in failed' \cup fresh' \/ (s \in pass'.batch /\ x # pass'.cur)
        <3>1. x # None
            BY <2>4, ConstantsAre DEF Shape, Base, PassType
        <3>2. s \in failed \cup fresh \/ s \in pass.batch
            BY <2>4 DEF InOrder
        <3> QED BY <2>1, <2>2, <2>3, <2>4, <3>1, <3>2
    <2>5. CASE pass'.batch = {}
        BY <1>1, <2>5
    <2>6. CASE pass'.batch = pass.batch \ {r}
        BY <2>2, <2>3, <2>4, <2>6 DEF InOrder, RowsOn
    <2> QED BY <2>2, <2>5, <2>6
<1>10. CASE DropRow
    <2>1. PICK r \in pass.batch : /\ r = pass.cur /\ pass' = After(r, 1)
                                  /\ rows' = rows \ {r}
                                  /\ pass.stage = "quota" => pass.total > 0
        BY <1>10, DropRowIs
    <2>2. /\ pass'.stage = pass.stage /\ pass'.at = pass.at /\ pass'.cur = None
          /\ pass'.batch = {} \/ pass'.batch = pass.batch \ {r}
        BY <2>1, AfterIs
    <2>3. UNCHANGED <<failed, fresh>>
        BY <1>10, DropRowIs
    <2>4. ASSUME pass.stage \in {"quota", "floor"}, pass'.batch = pass.batch \ {r},
                 NEW x \in pass'.batch,
                 NEW s \in IF pass.stage = "quota" THEN rows ELSE RowsOn(pass.at),
                 s # r, Earlier(s, x)
          PROVE  s \in failed' \cup fresh' \/ (s \in pass'.batch /\ x # pass'.cur)
        <3>1. x # None
            BY <2>4, ConstantsAre DEF Shape, Base, PassType
        <3>2. s \in failed \cup fresh \/ s \in pass.batch
            BY <2>4 DEF InOrder
        <3> QED BY <2>1, <2>2, <2>3, <2>4, <3>1, <3>2
    <2>5. CASE pass'.batch = {}
        BY <1>1, <2>5
    <2>6. CASE pass'.batch = pass.batch \ {r}
        BY <2>1, <2>2, <2>4, <2>6 DEF InOrder, RowsOn
    <2> QED BY <2>2, <2>5, <2>6
<1>11. CASE World
    <2>1. ASSUME NEW S \in SUBSET Cameras, NEW D \in SUBSET Cameras, NEW v \in Volumes,
                 Tick(S, D, v)
          PROVE  InOrder'
        BY <2>1, TickIs DEF InOrder, RowsOn
    <2>2. ASSUME NEW f \in files, Index(f) PROVE InOrder'
        BY <2>2, IndexIs DEF InOrder, RowsOn
    <2>3. ASSUME NEW c \in Cameras, DeleteCamera(c) PROVE InOrder'
        BY <2>3, DeleteCameraIs DEF InOrder, RowsOn
    <2>4. ASSUME NEW c \in Cameras, NEW p \in Policies, SetPolicy(c, p) PROVE InOrder'
        BY <2>4, SetPolicyIs DEF InOrder, RowsOn
    <2>5. ASSUME NEW v \in Volumes, Mount(v) PROVE InOrder'
        BY <2>5, MountIs DEF InOrder, RowsOn
    <2>6. CASE Crash
        BY <1>1, <2>6, CrashIs, IdleIs
    <2>7. ASSUME NEW f \in files, Refuse(f) \/ Relent(f) PROVE InOrder'
        BY <2>7, RefusalIs DEF InOrder, RowsOn
    <2> QED BY <1>11, <2>1, <2>2, <2>3, <2>4, <2>5, <2>6, <2>7 DEF World
<1> QED BY <1>2, <1>3, <1>4, <1>5, <1>6, <1>7, <1>8, <1>9, <1>10, <1>11 DEF Next, Pass

\* "Deletes oldest-first" (retention.py:10): under the quota and the floor, with
\* any number of segments and volumes, a segment goes only when every older one
\* in reach has gone, was refused, or came after the pass began.
THEOREM OldestGoFirst == Spec => OldestFirst
<1>1. Init => InOrder
    BY IdleIs DEF Init, InOrder
<1>2. Shape /\ InOrder /\ [Next]_vars => InOrder'
    BY InOrderStep
<1>3. Shape /\ InOrder =>
        \A r \in rows \ rows' : r = pass.cur /\ pass.stage \in {"quota", "floor"} =>
            \A s \in IF pass.stage = "quota" THEN rows ELSE RowsOn(r.vol) :
                Earlier(s, r) => s \in failed \cup fresh
    <2> SUFFICES ASSUME Shape, InOrder, NEW r \in rows \ rows', r = pass.cur,
                        pass.stage \in {"quota", "floor"},
                        NEW s \in IF pass.stage = "quota" THEN rows ELSE RowsOn(r.vol),
                        Earlier(s, r)
                 PROVE  s \in failed \cup fresh
        OBVIOUS
    <2>1. r # None /\ r \in pass.batch
        BY ConstantsAre DEF Shape, Base, StageOK
    <2>2. pass.stage = "floor" => r.vol = pass.at
        BY <2>1 DEF Shape, StageOK
    <2> QED BY <2>1, <2>2 DEF InOrder
<1> QED BY <1>1, <1>2, <1>3, ShapeAlways, PTL DEF Spec, OldestFirst

-----------------------------------------------------------------------------
(* A pass under which no setting was edited works from the limits in force. *)

\* The steps of a pass from one segment to the next.
Moves ==
    \/ NextCamera \/ Fetch \/ HardCap \/ FindOrphans \/ NextOrphan
    \/ OrphanEvents \/ AlignEvents \/ BeginQuota \/ QuotaFetch \/ QuotaMet
    \/ NextVolume \/ FloorFetch \/ FloorMet

LEMMA MovesIs ==
    ASSUME Shape, Moves
    PROVE  /\ UNCHANGED <<now, table, mounted, files, rows, upsets>>
           /\ UNCHANGED <<fresh, failed, cut, calm, steady, torn>>
           /\ pass.cur = None /\ pass'.cur = None /\ pass'.batch \subseteq rows
           /\ pass.stage # "idle" /\ pass'.stage # "idle" /\ pass'.start = pass.start
           /\ pass'.stage \in ByCamera =>
                pass.stage \in ByCamera /\ pass'.windows = pass.windows
<1>1. CASE NextCamera \/ NextOrphan
    <2>1. CASE NextCamera
        BY <2>1, NextCameraIs DEF env, history, ByCamera
    <2>2. CASE NextOrphan
        BY <2>2, NextOrphanIs DEF env, history, ByCamera
    <2> QED BY <1>1, <2>1, <2>2
<1>6. CASE HardCap \/ FindOrphans
    <2>1. FindOrphans => pass.cur = None
        BY FindOrphansIs, Between
    <2> QED BY <1>6, <2>1, HardCapIs, FindOrphansIs DEF env, history, ByCamera
<1>5. CASE Fetch
    <2>1. pass'.batch \subseteq rows
        BY <1>5, FetchIs DEF RowsOf
    <2> QED BY <1>5, <2>1, FetchIs DEF env, history, ByCamera
<1>2. CASE OrphanEvents \/ AlignEvents \/ NextVolume
    BY <1>2, OrphanEventsIs, AlignEventsIs, NextVolumeIs, Between
       DEF env, history, ByCamera, Deleting
<1>3. CASE BeginQuota \/ QuotaFetch
    <2>1. pass.batch = {}
        BY <1>3, Between DEF BeginQuota, QuotaFetch, Deleting
    <2> QED BY <1>3, <2>1, BeginQuotaIs, QuotaFetchIs, Between DEF env, history, ByCamera
<1>4. CASE QuotaMet \/ FloorFetch \/ FloorMet
    BY <1>4, QuotaMetIs, FloorFetchIs, FloorMetIs DEF env, history, ByCamera, RowsOn
<1> QED BY <1>1, <1>2, <1>3, <1>4, <1>5, <1>6 DEF Moves

\* A segment is done with: its unlink was refused, or its row is deleted.
LEMMA DoneIs ==
    ASSUME Shape, UnlinkFails \/ DropRow
    PROVE  /\ UNCHANGED <<now, table, mounted, files, events, fresh, steady>>
           /\ pass.stage \in Deleting /\ pass'.stage = pass.stage
           /\ pass'.start = pass.start /\ pass'.windows = pass.windows
           /\ pass'.todo = pass.todo /\ pass'.at = pass.at /\ pass'.cutoff = pass.cutoff
           /\ pass'.again = pass.again /\ pass'.cur = None
           /\ \E r \in pass.batch :
                /\ \/ rows' = rows /\ UnlinkFails
                   \/ rows' = rows \ {r} /\ r = pass.cur /\ DropRow
                /\ pass'.batch \subseteq pass.batch \ {r}
                /\ pass.stage # "floor" => pass'.batch = pass.batch \ {r}
                /\ pass.stage = "floor" =>
                     /\ pass'.count = pass.count + 1
                     /\ \/ /\ pass'.free = pass.free /\ pass'.batch = pass.batch \ {r}
                           /\ pass'.batch # {} /\ pass'.count % StatEvery # 0
                        \/ /\ pass'.free = Stat(pass.at)
                           /\ pass'.batch = IF pass'.free >= Floor THEN {}
                                            ELSE pass.batch \ {r}
<1>1. CASE UnlinkFails
    <2>1. PICK r \in pass.batch : pass' = After(r, 0) /\ (pass.stage = "quota" => pass.total > 0)
        BY <1>1, UnlinkFailsIs
    <2> QED BY <1>1, <2>1, UnlinkFailsIs, AfterIs DEF env
<1>2. CASE DropRow
    <2>1. PICK r \in pass.batch : /\ r = pass.cur /\ pass' = After(r, 1)
                                  /\ rows' = rows \ {r}
                                  /\ (pass.stage = "quota" => pass.total > 0)
        BY <1>2, DropRowIs
    <2> QED BY <1>2, <2>1, DropRowIs, AfterIs DEF env
<1> QED BY <1>1, <1>2

LEMMA WindowsSame == ASSUME UNCHANGED table PROVE Windows' = Windows
BY DEF Windows, Present

\* It works from the settings; its batch is still there to delete; what came
\* since it began is on mounted volumes, and has a row until it has no file.
Upright ==
    steady =>
        /\ pass.stage # "idle"
        /\ pass.stage \in ByCamera => pass.windows = Windows
        /\ pass.batch \subseteq rows
        /\ \A r \in fresh : r.vol \in mounted /\ (r \in files => r \in rows)
        /\ pass.cur # None /\ pass.cur.vol \in mounted => pass.cur \notin files

LEMMA UprightStep ==
    ASSUME Shape, Upright, [Next]_vars PROVE Upright'
<1>1. CASE UNCHANGED vars
    BY <1>1 DEF vars, env, history, Upright, Windows, Present
<1>2. CASE Begin
    <2>1. Windows' = Windows
        BY <1>2, BeginIs, WindowsSame DEF env
    <2> QED BY <1>2, <2>1, BeginIs DEF Upright
<1>3. CASE End
    BY <1>3, EndIs DEF Upright
<1>4. CASE Moves
    <2>1. Windows' = Windows
        BY <1>4, MovesIs, WindowsSame
    <2> QED BY <1>4, <2>1, MovesIs DEF Upright
<1>5. CASE Unlink
    <2>1. Windows' = Windows
        BY <1>5, UnlinkIs, WindowsSame DEF env
    <2>2. files' \subseteq files /\ (pass'.cur.vol \in mounted => pass'.cur \notin files')
        BY <1>5, UnlinkIs
    <2> QED BY <1>5, <2>1, <2>2, UnlinkIs DEF Upright, env, history
<1>6. CASE UnlinkFails \/ DropRow
    <2>1. Windows' = Windows
        BY <1>6, DoneIs, WindowsSame
    <2>2. PICK r \in pass.batch :
            /\ \/ rows' = rows
               \/ rows' = rows \ {r} /\ r = pass.cur /\ DropRow
            /\ pass'.batch \subseteq pass.batch \ {r}
        BY <1>6, DoneIs
    <2>3. r # None
        BY <2>2, ConstantsAre DEF Shape, Base, PassType
    <2>4. /\ UNCHANGED <<mounted, files, fresh, steady>> /\ pass'.cur = None
          /\ pass.stage \in Deleting /\ pass'.stage = pass.stage
          /\ pass'.windows = pass.windows
        BY <1>6, DoneIs
    <2>5. CASE rows' = rows
        BY <2>1, <2>2, <2>4, <2>5 DEF Upright, Deleting
    <2>6. CASE rows' = rows \ {r} /\ r = pass.cur
        BY <2>1, <2>2, <2>3, <2>4, <2>6 DEF Upright, Deleting
    <2> QED BY <2>2, <2>5, <2>6
<1>7. CASE World
    <2>1. ASSUME NEW S \in SUBSET Cameras, NEW D \in SUBSET Cameras, NEW v \in Volumes,
                 Tick(S, D, v)
          PROVE  Upright'
        <3>1. /\ \A f \in files' \ files : f.ts = now
              /\ UNCHANGED <<table, mounted, rows, pass, fresh, steady>>
            BY <2>1, TickIs
        <3>2. Windows' = Windows
            BY <3>1, WindowsSame
        <3>3. now \in Nat /\ \A r \in fresh \cup rows : r.ts < now
            BY ConstantsAre DEF Shape, Base, Past
        <3>4. \A r \in fresh \cup rows : r \in files' => r \in files
            BY <3>1, <3>3
        <3>5. steady /\ pass.cur # None => pass.cur \in rows
            BY DEF Upright, Shape, StageOK
        <3> QED BY <3>1, <3>2, <3>4, <3>5 DEF Upright
    <2>2. ASSUME NEW f \in files, Index(f) PROVE Upright'
        <3>1. /\ f.vol \in mounted /\ rows' = rows \cup {f} /\ fresh' = fresh \cup {f}
              /\ UNCHANGED <<table, mounted, files, pass, steady>>
            BY <2>2, IndexIs DEF env
        <3>2. Windows' = Windows
            BY <3>1, WindowsSame
        <3> QED BY <3>1, <3>2 DEF Upright
    <2>3. ASSUME NEW c \in Cameras, DeleteCamera(c) PROVE Upright'
        BY <2>3, DeleteCameraIs DEF Upright
    <2>4. ASSUME NEW c \in Cameras, NEW p \in Policies, SetPolicy(c, p) PROVE Upright'
        BY <2>4, SetPolicyIs DEF Upright
    <2>5. ASSUME NEW v \in Volumes, Mount(v) PROVE Upright'
        BY <2>5, MountIs DEF Upright
    <2>6. CASE Crash
        BY <2>6, CrashIs DEF Upright
    <2>7. ASSUME NEW f \in files, Refuse(f) \/ Relent(f) PROVE Upright'
        <3>1. UNCHANGED <<table, mounted, files, rows, pass, fresh, steady>>
            BY <2>7, RefusalIs
        <3>2. Windows' = Windows
            BY <3>1, WindowsSame
        <3> QED BY <3>1, <3>2 DEF Upright
    <2> QED BY <1>7, <2>1, <2>2, <2>3, <2>4, <2>5, <2>6, <2>7 DEF World
<1> QED BY <1>1, <1>2, <1>3, <1>4, <1>5, <1>6, <1>7 DEF Next, Pass, Moves

\* The cutoff of a rolling window was read off a segment that is still listed.
InWindow ==
    steady /\ pass.stage = "rolling" /\ pass.cutoff > 0 =>
        \E s \in RowsOf(pass.at) : s.ts + 1 - pass.windows[pass.at].rolling >= pass.cutoff

LEMMA InWindowStep ==
    ASSUME Shape, InWindow, [Next]_vars PROVE InWindow'
<1>1. ASSUME pass'.stage # "rolling" PROVE InWindow'
    BY <1>1 DEF InWindow
<1>2. ASSUME UNCHANGED <<steady, rows>>, pass.stage = "rolling",
             pass'.at = pass.at, pass'.cutoff = pass.cutoff, pass'.windows = pass.windows
      PROVE  InWindow'
    BY <1>2 DEF InWindow, RowsOf
<1>3. CASE UNCHANGED vars
    BY <1>3 DEF vars, env, history, InWindow, RowsOf
<1>4. CASE Begin \/ End
    BY <1>1, <1>4, BeginIs, EndIs, IdleIs
<1>5. CASE NextCamera
    <2>1. PICK c \in pass.todo :
            /\ c \in DOMAIN pass.windows /\ c \in Cameras
            /\ pass'.at = c /\ pass'.windows = pass.windows
            /\ pass'.cutoff = IF pass.windows[c].rolling > 0 /\ RowsOf(c) # {}
                              THEN NewestEnd(c) - pass.windows[c].rolling ELSE 0
        BY <1>5, NextCameraIs
    <2>2. RowsOf(c)' = RowsOf(c)
        BY <1>5, NextCameraIs DEF RowsOf
    <2>3. ASSUME pass'.cutoff > 0
          PROVE  \E s \in RowsOf(c) : s.ts + 1 - pass.windows[c].rolling >= pass'.cutoff
        <3>1. RowsOf(c) # {} /\ pass'.cutoff = NewestEnd(c) - pass.windows[c].rolling
            BY <2>1, <2>3
        <3>2. PICK s \in RowsOf(c) : NewestEnd(c) = s.ts + 1
            BY <3>1, NewestIs DEF Shape, Base
        <3>3. pass.windows[c].rolling \in Nat
            BY <2>1, WindowOf DEF Shape, Base, PassType
        <3>4. s.ts \in Int
            BY ConstantsAre DEF RowsOf, Shape, Base, Segments
        <3> QED BY <3>1, <3>2, <3>3, <3>4
    <2> QED BY <2>1, <2>2, <2>3 DEF InWindow
<1>6. CASE Fetch
    BY <1>1, <1>2, <1>6, FetchIs DEF history
<1>7. CASE HardCap \/ FindOrphans
    BY <1>1, <1>7, HardCapIs, FindOrphansIs
<1>8. CASE NextOrphan
    BY <1>1, <1>8, NextOrphanIs
<1>9. CASE OrphanEvents \/ AlignEvents \/ BeginQuota \/ QuotaFetch \/ QuotaMet
    BY <1>1, <1>9, OrphanEventsIs, AlignEventsIs, BeginQuotaIs, QuotaFetchIs, QuotaMetIs
<1>10. CASE NextVolume \/ FloorFetch \/ FloorMet
    BY <1>1, <1>10, NextVolumeIs, FloorFetchIs, FloorMetIs
<1>11. CASE Unlink
    BY <1>1, <1>2, <1>11, UnlinkIs DEF history
<1>12. CASE UnlinkFails \/ DropRow
    <2>1. PICK r \in pass.batch : rows' = rows \/ (rows' = rows \ {r})
        BY <1>12, DoneIs
    <2>2. /\ pass'.stage = pass.stage /\ pass'.at = pass.at /\ pass'.cutoff = pass.cutoff
          /\ pass'.windows = pass.windows /\ steady' = steady
        BY <1>12, DoneIs
    <2>3. ASSUME steady, pass.stage = "rolling", pass.cutoff > 0
          PROVE  \E s \in RowsOf(pass.at)' :
                    s.ts + 1 - pass.windows[pass.at].rolling >= pass.cutoff
        <3>1. PICK s \in RowsOf(pass.at) :
                s.ts + 1 - pass.windows[pass.at].rolling >= pass.cutoff
            BY <2>3 DEF InWindow
        <3>2. /\ r.ts < pass.cutoff /\ pass.windows[pass.at].rolling > 0
              /\ pass.at \in DOMAIN pass.windows /\ pass.windows \in WindowsType
              /\ pass.cutoff \in Int /\ r \in Segments /\ s \in Segments /\ s \in rows
            BY <2>3 DEF Shape, StageOK, Base, PassType, RowsOf
        <3>3. pass.windows[pass.at].rolling \in Nat
            BY <3>2, WindowOf
        <3>4. r.ts \in Int /\ s.ts \in Int
            BY <3>2, ConstantsAre DEF Segments
        <3>5. s.ts >= pass.cutoff
            BY <3>1, <3>2, <3>3, <3>4
        <3>6. s # r
            BY <3>2, <3>4, <3>5
        <3>7. s \in rows' /\ s.cam = pass.at
            BY <2>1, <3>2, <3>6 DEF RowsOf
        <3> QED BY <2>2, <3>1, <3>7 DEF RowsOf
    <2> QED BY <2>2, <2>3 DEF InWindow, RowsOf
<1>13. CASE World
    <2>1. ASSUME NEW S \in SUBSET Cameras, NEW D \in SUBSET Cameras, NEW v \in Volumes,
                 Tick(S, D, v)
          PROVE  InWindow'
        BY <2>1, TickIs DEF InWindow, RowsOf
    <2>2. ASSUME NEW f \in files, Index(f) PROVE InWindow'
        BY <2>2, IndexIs DEF InWindow, RowsOf
    <2>3. ASSUME NEW c \in Cameras, DeleteCamera(c) PROVE InWindow'
        BY <2>3, DeleteCameraIs DEF InWindow
    <2>4. ASSUME NEW c \in Cameras, NEW p \in Policies, SetPolicy(c, p) PROVE InWindow'
        BY <2>4, SetPolicyIs DEF InWindow
    <2>5. ASSUME NEW v \in Volumes, Mount(v) PROVE InWindow'
        BY <2>5, MountIs DEF InWindow
    <2>6. CASE Crash
        BY <2>6, CrashIs DEF InWindow
    <2>7. ASSUME NEW f \in files, Refuse(f) \/ Relent(f) PROVE InWindow'
        BY <2>7, RefusalIs DEF InWindow, RowsOf
    <2> QED BY <1>13, <2>1, <2>2, <2>3, <2>4, <2>5, <2>6, <2>7 DEF World
<1> QED BY <1>3, <1>4, <1>5, <1>6, <1>7, <1>8, <1>9, <1>10, <1>11, <1>12, <1>13
        DEF Next, Pass

\* The quota loop counts down from what was listed when it began: it may miss
\* what came since, and counts nothing that is gone.
Counts ==
    steady /\ pass.stage = "quota" =>
        /\ pass.cutoff = QuotaNow
        /\ Cardinality(rows) - Cardinality(fresh) <= pass.total
        /\ pass.total <= Cardinality(rows)

LEMMA CountsStep ==
    ASSUME Shape, Upright, Counts, [Next]_vars PROVE Counts'
<1>1. ASSUME pass'.stage # "quota" PROVE Counts'
    BY <1>1 DEF Counts
<1>2. ASSUME UNCHANGED <<mounted, steady, rows, fresh>>, pass.stage = "quota",
             pass'.cutoff = pass.cutoff, pass'.total = pass.total
      PROVE  Counts'
    BY <1>2 DEF Counts, QuotaNow
<1>3. CASE UNCHANGED vars
    BY <1>3 DEF vars, env, history, Counts, QuotaNow
<1>4. CASE Begin \/ End
    BY <1>1, <1>4, BeginIs, EndIs, IdleIs
<1>5. CASE NextCamera
    BY <1>1, <1>5, NextCameraIs
<1>6. CASE NextOrphan
    BY <1>1, <1>6, NextOrphanIs
<1>7. CASE Fetch \/ HardCap \/ FindOrphans
    BY <1>1, <1>7, FetchIs, HardCapIs, FindOrphansIs
<1>8. CASE OrphanEvents \/ AlignEvents \/ QuotaMet
    BY <1>1, <1>8, OrphanEventsIs, AlignEventsIs, QuotaMetIs
<1>9. CASE NextVolume \/ FloorFetch \/ FloorMet
    BY <1>1, <1>9, NextVolumeIs, FloorFetchIs, FloorMetIs
<1>10. CASE BeginQuota
    <2>1. /\ UNCHANGED <<mounted, rows, fresh>>
          /\ pass'.cutoff = QuotaNow /\ pass'.total = Cardinality(rows)
        BY <1>10, BeginQuotaIs DEF env, history
    <2>2. Cardinality(rows) \in Nat /\ Cardinality(fresh) \in Nat
        BY Counted DEF Shape, Base
    <2> QED BY <2>1, <2>2 DEF Counts, QuotaNow
<1>11. CASE QuotaFetch
    BY <1>2, <1>11, QuotaFetchIs DEF env, history
<1>12. CASE Unlink
    BY <1>1, <1>2, <1>12, UnlinkIs DEF env, history
<1>13. CASE UnlinkFails
    <2>1. PICK r \in pass.batch : pass' = After(r, 0) /\ (pass.stage = "quota" => pass.total > 0)
        BY <1>13, UnlinkFailsIs
    <2>2. /\ pass'.stage = pass.stage /\ pass'.cutoff = pass.cutoff
          /\ (pass.stage = "quota" => pass'.total = pass.total - 0)
        BY <2>1, AfterIs
    <2>3. pass.total - 0 = pass.total
        BY DEF Shape, Base, PassType
    <2>4. UNCHANGED <<mounted, steady, rows, fresh>>
        BY <1>13, UnlinkFailsIs DEF env
    <2> QED BY <1>1, <1>2, <2>2, <2>3, <2>4
<1>14. CASE DropRow
    <2>1. PICK r \in pass.batch : /\ r = pass.cur /\ pass' = After(r, 1)
                                  /\ rows' = rows \ {r}
                                  /\ (pass.stage = "quota" => pass.total > 0)
        BY <1>14, DropRowIs
    <2>2. /\ pass'.stage = pass.stage /\ pass'.cutoff = pass.cutoff
          /\ (pass.stage = "quota" => pass'.total = pass.total - 1)
        BY <2>1, AfterIs
    <2>3. UNCHANGED <<mounted, steady, fresh>>
        BY <1>14, DropRowIs DEF env
    <2>4. Cardinality(rows) \in Nat /\ Cardinality(fresh) \in Nat /\ pass.total \in Nat
        BY Counted DEF Shape, Base, PassType
    <2>5. steady => Cardinality(rows') = Cardinality(rows) - 1
        <3>1. steady => r \in rows
            BY DEF Upright
        <3> QED BY <2>1, <3>1, Counted DEF Shape, Base
    <2> QED BY <2>2, <2>3, <2>4, <2>5 DEF Counts, QuotaNow
<1>15. CASE World
    <2>1. ASSUME NEW S \in SUBSET Cameras, NEW D \in SUBSET Cameras, NEW v \in Volumes,
                 Tick(S, D, v)
          PROVE  Counts'
        BY <2>1, TickIs DEF Counts, QuotaNow
    <2>2. ASSUME NEW f \in files, Index(f) PROVE Counts'
        <3>1. /\ f \notin rows /\ rows' = rows \cup {f} /\ fresh' = fresh \cup {f}
              /\ UNCHANGED <<mounted, steady, pass>>
            BY <2>2, IndexIs DEF env
        <3>2. steady => f \notin fresh
            BY <3>1 DEF Upright
        <3>3. /\ Cardinality(rows) \in Nat /\ Cardinality(fresh) \in Nat
              /\ Cardinality(rows') = Cardinality(rows) + 1
            BY <3>1, Counted DEF Shape, Base
        <3>4. steady => Cardinality(fresh') = Cardinality(fresh) + 1
            BY <3>1, <3>2, Counted DEF Shape, Base
        <3>5. pass.total \in Nat
            BY DEF Shape, Base, PassType
        <3> QED BY <3>1, <3>3, <3>4, <3>5 DEF Counts, QuotaNow
    <2>3. ASSUME NEW c \in Cameras, DeleteCamera(c) PROVE Counts'
        BY <2>3, DeleteCameraIs DEF Counts
    <2>4. ASSUME NEW c \in Cameras, NEW p \in Policies, SetPolicy(c, p) PROVE Counts'
        BY <2>4, SetPolicyIs DEF Counts
    <2>5. ASSUME NEW v \in Volumes, Mount(v) PROVE Counts'
        BY <2>5, MountIs DEF Counts
    <2>6. CASE Crash
        BY <2>6, CrashIs DEF Counts
    <2>7. ASSUME NEW f \in files, Refuse(f) \/ Relent(f) PROVE Counts'
        BY <2>7, RefusalIs DEF Counts, QuotaNow
    <2> QED BY <1>15, <2>1, <2>2, <2>3, <2>4, <2>5, <2>6, <2>7 DEF World
<1> QED BY <1>3, <1>4, <1>5, <1>6, <1>7, <1>8, <1>9, <1>10, <1>11, <1>12, <1>13, <1>14,
           <1>15 DEF Next, Pass

\* The backstop's last look at the disk, less what it has deleted since.
Looked ==
    steady /\ pass.stage = "floor" =>
        /\ pass.at \in mounted
        /\ FreeOn(pass.at) <= pass.free + IF pass.batch = {} THEN 0
             ELSE (pass.count % StatEvery) + IF pass.cur = None THEN 0 ELSE 1

\* Files that go free as much room, and files that come take it.
LEMMA RoomIs ==
    ASSUME files \subseteq Segments, files' \subseteq Segments, NEW v \in Volumes
    PROVE  /\ FreeOn(v) \in Int /\ FreeOn(v)' \in Int
           /\ files \subseteq files' => FreeOn(v)' <= FreeOn(v)
           /\ \A r : files' = files \ {r} => FreeOn(v)' <= FreeOn(v) + 1
           /\ files' \subseteq files => FreeOn(v)' >= FreeOn(v)
<1> DEFINE F == {f \in files : f.vol = v}
           G == {f \in files' : f.vol = v}
<1>1. F \in SUBSET Segments /\ G \in SUBSET Segments
    OBVIOUS
<1>2. FreeOn(v) = Sizes[v] - Cardinality(F) /\ FreeOn(v)' = Sizes[v] - Cardinality(G)
    BY DEF FreeOn
<1>3. files \subseteq files' => F \subseteq G
    OBVIOUS
<1>4. files' \subseteq files => G \subseteq F
    OBVIOUS
<1>5. \A r : files' = files \ {r} => G = F \ {r}
    OBVIOUS
<1>6. Sizes[v] \in Nat
    BY ConstantsAre
<1> HIDE DEF F, G
<1>7. Cardinality(F) \in Nat /\ Cardinality(G) \in Nat
    BY <1>1, Counted
<1>8. files \subseteq files' => Cardinality(F) <= Cardinality(G)
    BY <1>1, <1>3, Counted
<1>9. files' \subseteq files => Cardinality(G) <= Cardinality(F)
    BY <1>1, <1>4, Counted
<1>10. ASSUME NEW r, files' = files \ {r} PROVE Cardinality(G) >= Cardinality(F) - 1
    <2>1. Cardinality(F \ {r}) = Cardinality(F) - (IF r \in F THEN 1 ELSE 0)
        BY <1>1, Counted
    <2> QED BY <1>5, <1>7, <1>10, <2>1
<1>11. PICK m, n : m = Cardinality(F) /\ n = Cardinality(G)
    OBVIOUS
<1>12. FreeOn(v) = Sizes[v] - m /\ FreeOn(v)' = Sizes[v] - n /\ m \in Nat /\ n \in Nat
    BY <1>2, <1>7, <1>11
<1>13. files \subseteq files' => FreeOn(v)' <= FreeOn(v)
    BY <1>6, <1>8, <1>11, <1>12
<1>14. files' \subseteq files => FreeOn(v)' >= FreeOn(v)
    BY <1>6, <1>9, <1>11, <1>12
<1>15. ASSUME NEW r, files' = files \ {r} PROVE FreeOn(v)' <= FreeOn(v) + 1
    <2>1. n >= m - 1
        BY <1>10, <1>11, <1>15
    <2> QED BY <1>6, <1>12, <2>1
<1> QED BY <1>6, <1>12, <1>13, <1>14, <1>15

LEMMA LookedStep ==
    ASSUME Shape, Looked, [Next]_vars PROVE Looked'
<1>0. StatEvery \in Nat \ {0} /\ files \subseteq Segments /\ pass.free \in Int
      /\ pass.count \in Nat /\ (pass.stage = "floor" => pass.at \in Volumes)
      /\ (pass.stage = "floor" => FreeOn(pass.at) \in Int)
      /\ \A n \in Nat : n % StatEvery \in Nat
    <2>1. StatEvery \in Nat \ {0} /\ files \subseteq Segments /\ pass.free \in Int
          /\ pass.count \in Nat /\ (pass.stage = "floor" => pass.at \in Volumes)
        BY ConstantsAre DEF Shape, Base, PassType, StageOK
    <2>2. \A n \in Nat : n % StatEvery \in Nat
        BY <2>1, ModNext
    <2> QED BY <2>1, <2>2, FreeIs
<1>1. ASSUME pass'.stage # "floor" PROVE Looked'
    BY <1>1 DEF Looked
<1>2. CASE UNCHANGED vars
    BY <1>2 DEF vars, env, history, Looked, FreeOn
<1>3. CASE Begin \/ End
    BY <1>1, <1>3, BeginIs, EndIs, IdleIs
<1>4. CASE NextCamera
    BY <1>1, <1>4, NextCameraIs
<1>5. CASE NextOrphan
    BY <1>1, <1>5, NextOrphanIs
<1>6. CASE Fetch \/ HardCap \/ FindOrphans
    BY <1>1, <1>6, FetchIs, HardCapIs, FindOrphansIs
<1>7. CASE OrphanEvents \/ AlignEvents \/ BeginQuota \/ QuotaFetch \/ QuotaMet \/ FloorMet
    BY <1>1, <1>7, OrphanEventsIs, AlignEventsIs, BeginQuotaIs, QuotaFetchIs, QuotaMetIs,
       FloorMetIs
<1>8. CASE NextVolume
    <2>1. PICK v \in pass.todo :
            /\ v \in Volumes
            /\ \/ /\ v \in mounted /\ pass'.stage = "floor" /\ pass'.at = v
                  /\ pass'.free = FreeOn(v)
               \/ v \notin mounted /\ pass'.stage = "volumes"
        BY <1>8, NextVolumeIs
    <2>2. pass'.batch = {} /\ UNCHANGED <<mounted, files>>
        BY <1>8, NextVolumeIs DEF env
    <2>3. FreeOn(v)' = FreeOn(v) /\ FreeOn(v) \in Int
        BY <1>0, <2>1, <2>2, FreeIs DEF FreeOn
    <2>4. CASE pass'.stage = "floor"
        <3>1. pass'.at = v /\ v \in mounted' /\ FreeOn(v)' <= pass'.free + 0
            BY <2>1, <2>2, <2>3, <2>4
        <3>2. FreeOn(pass.at)' = FreeOn(v)'
            BY <3>1 DEF FreeOn
        <3> QED BY <2>2, <3>1, <3>2 DEF Looked
    <2> QED BY <1>1, <2>1, <2>4
<1>9. CASE FloorFetch
    <2>1. /\ pass.stage = "floor" /\ pass.batch = {} /\ pass'.cur = None
          /\ pass'.at = pass.at /\ pass'.free = pass.free /\ pass'.count = 0
          /\ UNCHANGED <<mounted, files, steady>>
        BY <1>9, FloorFetchIs DEF env, history
    <2>2. 0 % StatEvery \in Nat
        BY <1>0, ModNext
    <2>3. FreeOn(pass.at)' = FreeOn(pass.at)
        BY <2>1 DEF FreeOn
    <2>4. steady => pass.at \in mounted /\ FreeOn(pass.at) <= pass.free
        BY <1>0, <2>1 DEF Looked
    <2> QED BY <1>0, <2>1, <2>2, <2>3, <2>4 DEF Looked
<1>10. CASE Unlink
    <2>1. /\ pass.cur = None /\ pass'.cur # None /\ pass'.cur \in pass.batch
          /\ files' = IF pass'.cur.vol \in mounted THEN files \ {pass'.cur} ELSE files
          /\ pass'.stage = pass.stage /\ pass'.at = pass.at /\ pass'.batch = pass.batch
          /\ pass'.free = pass.free /\ pass'.count = pass.count
          /\ UNCHANGED <<mounted, steady>>
        BY <1>10, UnlinkIs DEF env, history
    <2>2. CASE pass.stage = "floor" /\ steady
        <3>1. PICK v \in Volumes : v = pass.at
            BY <1>0, <2>2
        <3>2. FreeOn(v)' <= FreeOn(v) + 1 /\ FreeOn(v)' \in Int /\ FreeOn(v) \in Int
            <4>1. files' \subseteq Segments
                BY <1>0, <2>1
            <4>2. CASE files' = files \ {pass'.cur}
                BY <1>0, <4>1, <4>2, RoomIs
            <4>3. CASE files' = files
                <5>1. FreeOn(v)' <= FreeOn(v) /\ FreeOn(v)' \in Int /\ FreeOn(v) \in Int
                    BY <1>0, <4>1, <4>3, RoomIs
                <5> QED BY <5>1
            <4> QED BY <2>1, <4>2, <4>3
        <3>3. FreeOn(pass.at)' = FreeOn(v)'
            BY <2>1, <3>1 DEF FreeOn
        <3>4. v \in mounted /\ FreeOn(v) <= pass.free + (pass.count % StatEvery)
            BY <1>0, <2>1, <2>2, <3>1 DEF Looked
        <3>5. FreeOn(v)' <= pass.free + ((pass.count % StatEvery) + 1)
            BY <1>0, <3>2, <3>4
        <3> QED BY <2>1, <3>1, <3>3, <3>4, <3>5 DEF Looked
    <2> QED BY <2>1, <2>2 DEF Looked
<1>11. CASE UnlinkFails \/ DropRow
    <2>1. /\ pass'.stage = pass.stage /\ pass'.at = pass.at /\ pass'.cur = None
          /\ UNCHANGED <<mounted, files, steady>>
        BY <1>11, DoneIs
    <2>2. CASE pass.stage = "floor" /\ steady
        <3>1. PICK r \in pass.batch :
                /\ pass'.count = pass.count + 1
                /\ \/ rows' = rows /\ UnlinkFails
                   \/ rows' = rows \ {r} /\ r = pass.cur /\ DropRow
                /\ \/ /\ pass'.free = pass.free /\ pass'.batch # {}
                      /\ pass'.count % StatEvery # 0
                   \/ pass'.free = Stat(pass.at)
            BY <1>11, <2>2, DoneIs
        <3>2. FreeOn(pass.at)' = FreeOn(pass.at) /\ pass.at \in mounted
            BY <2>1, <2>2 DEF FreeOn, Looked
        <3>3. pass'.count % StatEvery \in Nat
            BY <1>0, <3>1
        <3>4. CASE pass'.free = Stat(pass.at)
            <4>1. FreeOn(pass.at) <= pass'.free + 0
                  /\ FreeOn(pass.at) <= pass'.free + ((pass'.count % StatEvery) + 0)
                BY <1>0, <2>2, <3>2, <3>3, <3>4 DEF Stat
            <4> QED BY <2>1, <3>2, <4>1 DEF Looked
        <3>5. CASE pass'.free = pass.free /\ pass'.batch # {} /\ pass'.count % StatEvery # 0
            <4>1. pass'.count % StatEvery = (pass.count % StatEvery) + 1
                BY <1>0, <3>1, <3>5, ModNext
            <4>2. FreeOn(pass.at) <= pass.free + ((pass.count % StatEvery) + 1)
                BY <1>0, <2>2 DEF Looked
            <4>3. FreeOn(pass.at) <= pass'.free + ((pass'.count % StatEvery) + 0)
                BY <1>0, <3>5, <4>1, <4>2
            <4> QED BY <2>1, <3>2, <3>5, <4>3 DEF Looked
        <3> QED BY <3>1, <3>4, <3>5
    <2> QED BY <2>1, <2>2 DEF Looked
<1>12. CASE World
    <2>1. ASSUME NEW S \in SUBSET Cameras, NEW D \in SUBSET Cameras, NEW u \in Volumes,
                 Tick(S, D, u)
          PROVE  Looked'
        <3>1. files \subseteq files' /\ files' \subseteq Segments
              /\ UNCHANGED <<mounted, pass, steady>>
            BY <1>0, <2>1, TickIs DEF Shape, Base
        <3>2. CASE pass.stage = "floor" /\ steady
            <4>1. PICK v \in Volumes : v = pass.at
                BY <1>0, <3>2
            <4>2. FreeOn(v)' <= FreeOn(v) /\ FreeOn(v)' \in Int /\ FreeOn(v) \in Int
                BY <1>0, <3>1, RoomIs
            <4>3. FreeOn(pass.at)' = FreeOn(v)'
                BY <3>1, <4>1 DEF FreeOn
            <4>4. PICK n : n = IF pass.batch = {} THEN 0
                    ELSE (pass.count % StatEvery) + IF pass.cur = None THEN 0 ELSE 1
                OBVIOUS
            <4>5. n \in Nat /\ v \in mounted /\ FreeOn(v) <= pass.free + n
                BY <1>0, <3>2, <4>1, <4>4 DEF Looked
            <4>6. FreeOn(v)' <= pass.free + n
                BY <1>0, <4>2, <4>5
            <4> QED BY <3>1, <4>1, <4>3, <4>4, <4>5, <4>6 DEF Looked
        <3> QED BY <3>1, <3>2 DEF Looked
    <2>2. ASSUME NEW f \in files, Index(f) PROVE Looked'
        <3>1. UNCHANGED <<mounted, files, pass, steady>>
            BY <2>2, IndexIs DEF env
        <3> QED BY <3>1 DEF Looked, FreeOn
    <2>3. ASSUME NEW c \in Cameras, DeleteCamera(c) PROVE Looked'
        BY <2>3, DeleteCameraIs DEF Looked
    <2>4. ASSUME NEW c \in Cameras, NEW p \in Policies, SetPolicy(c, p) PROVE Looked'
        BY <2>4, SetPolicyIs DEF Looked
    <2>5. ASSUME NEW v \in Volumes, Mount(v) PROVE Looked'
        BY <2>5, MountIs DEF Looked
    <2>6. CASE Crash
        BY <2>6, CrashIs DEF Looked
    <2>7. ASSUME NEW f \in files, Refuse(f) \/ Relent(f) PROVE Looked'
        <3>1. UNCHANGED <<mounted, files, pass, steady>>
            BY <2>7, RefusalIs
        <3> QED BY <3>1 DEF Looked, FreeOn
    <2> QED BY <1>12, <2>1, <2>2, <2>3, <2>4, <2>5, <2>6, <2>7 DEF World
<1> QED BY <1>2, <1>3, <1>4, <1>5, <1>6, <1>7, <1>8, <1>9, <1>10, <1>11, <1>12
        DEF Next, Pass

Unedited == Upright /\ InWindow /\ Counts /\ Looked

LEMMA UneditedAlways == Spec => []Unedited
<1>1. Init => Unedited
    BY DEF Init, Unedited, Upright, InWindow, Counts, Looked
<1>2. Shape /\ Unedited /\ [Next]_vars => Unedited'
    BY UprightStep, InWindowStep, CountsStep, LookedStep DEF Unedited
<1> QED BY <1>1, <1>2, ShapeAlways, PTL DEF Spec

\* Types, for any settings and any number of cameras and volumes; and as long as
\* nothing was edited, the running total of the quota loop never falls behind the
\* rows it counted when it began, whatever is indexed while it deletes.
THEOREM TypeInvariant == Spec => []TypeOK
<1>1. Shape /\ Unedited => TypeOK
    BY DEF Shape, Base, Unedited, Counts, TypeOK
<1> QED BY <1>1, ShapeAlways, UneditedAlways, PTL

LEMMA OverLimitOnly ==
    ASSUME Shape, Unedited, DropRow, steady, NEW r, r = pass.cur
    PROVE  TooOld(r) \/ OutsideWindow(r) \/ OverSize \/ TooFull(r.vol, StatEvery)
<1>1. r \in pass.batch /\ r # None /\ pass.stage \in Deleting
    BY DropRowIs
<1>2. r \in Segments /\ r \in rows /\ r.ts \in 0..MaxTime /\ now \in 0..MaxTime
    BY <1>1 DEF Unedited, Upright, Shape, Base, Segments
<1>3. /\ pass.cutoff \in Int /\ pass.total \in Nat /\ pass.count \in Nat /\ pass.free \in Int
      /\ MaxTime \in Nat /\ StatEvery \in Nat \ {0} /\ Floor \in Nat
      /\ r.ts \in Int /\ r.ts >= 0 /\ now \in Int
      /\ pass.start \in Int /\ pass.start <= now
    BY <1>2, ConstantsAre DEF Shape, Base, PassType, Past
<1>4. CASE pass.stage \in {"rolling", "hard"}
    <2>1. r.cam = pass.at /\ r.ts < pass.cutoff /\ pass.windows = Windows
        BY <1>1, <1>4 DEF Shape, StageOK, Unedited, Upright, ByCamera
    <2>2. PICK c \in Present : c = pass.at
        BY <1>4, <2>1, WindowsAre DEF Shape, StageOK
    <2>3. Windows[c].hard = AgeLimit(c) /\ Windows[c].rolling = table[c].rolling
          /\ Windows[c].hard \in Nat /\ Windows[c].rolling \in Nat
        BY <2>2, WindowsAre, PeriodsAreNumbers DEF Shape
    <2>4. pass.cutoff > 0
        BY <1>3, <2>1
    <2>5. CASE pass.stage = "hard"
        <3>1. AgeLimit(c) > 0 /\ pass.cutoff = pass.start - AgeLimit(c)
            BY <2>1, <2>2, <2>3, <2>4, <2>5 DEF Shape, StageOK
        <3>2. r.ts < now - AgeLimit(c)
            BY <1>3, <2>1, <2>3, <3>1
        <3> QED BY <2>1, <2>2, <3>1, <3>2 DEF TooOld
    <2>6. CASE pass.stage = "rolling"
        <3>1. PICK s \in RowsOf(c) : s.ts + 1 - Windows[c].rolling >= pass.cutoff
            BY <2>1, <2>2, <2>4, <2>6 DEF Unedited, InWindow
        <3>2. NewestEnd(c) \in Nat /\ s.ts + 1 <= NewestEnd(c) /\ s.ts \in Int
            BY NewestIs, ConstantsAre DEF Shape, Base, RowsOf, Segments
        <3>3. Windows[c].rolling > 0
            BY <2>1, <2>2, <2>4, <2>6 DEF Shape, StageOK
        <3>4. r.ts < NewestEnd(c) - table[c].rolling
            BY <1>3, <2>1, <2>3, <3>1, <3>2
        <3> QED BY <2>1, <2>2, <2>3, <3>3, <3>4 DEF OutsideWindow
    <2> QED BY <1>4, <2>5, <2>6
<1>5. CASE pass.stage = "orphan"
    <2>1. /\ r.cam = pass.at /\ r.ts < pass.cutoff /\ pass.windows = Windows
          /\ pass.at \in Cameras \ DOMAIN pass.windows /\ GlobalHard > 0
          /\ pass.cutoff = pass.start - GlobalHard
        BY <1>1, <1>5 DEF Shape, StageOK, Unedited, Upright, ByCamera
    <2>2. r.cam \notin Present
        BY <2>1, WindowsAre DEF Shape
    <2>3. AgeLimit(r.cam) = GlobalHard
        BY <2>2 DEF AgeLimit
    <2>4. r.ts < now - GlobalHard
        BY <1>3, <2>1, ConstantsAre
    <2> QED BY <2>1, <2>3, <2>4 DEF TooOld
<1>6. CASE pass.stage = "quota"
    <2>1. /\ pass.cutoff = QuotaNow /\ pass.total <= Cardinality(rows)
          /\ pass.cutoff > 0 /\ pass.total > pass.cutoff
        BY <1>6, DropRowIs DEF Unedited, Counts, OverQuota
    <2>2. Cardinality(rows) \in Nat
        BY Counted DEF Shape, Base
    <2> QED BY <1>3, <2>1, <2>2 DEF OverSize
<1>7. CASE pass.stage = "floor"
    <2>1. /\ pass.at \in mounted /\ r.vol = pass.at /\ pass.free < Floor
          /\ FreeOn(pass.at) <= pass.free + ((pass.count % StatEvery) + 1)
        BY <1>1, <1>7 DEF Unedited, Looked, Shape, StageOK
    <2>2. FreeOn(pass.at) \in Int
        BY <2>1, FreeIs DEF Shape, Base
    <2>3. pass.count % StatEvery \in 0..StatEvery - 1
        BY <1>3, ModNext
    <2>4. FreeOn(pass.at) < Floor + StatEvery
        BY <1>3, <2>1, <2>2, <2>3
    <2> QED BY <2>1, <2>4 DEF TooFull
<1> QED BY <1>1, <1>4, <1>5, <1>6, <1>7 DEF Deleting

\* A pass takes a segment out of the index only by DropRow or, if a camera is
\* deleted under it, with the rest of that camera.
LEMMA RowsGo ==
    ASSUME Shape, [Next]_vars, NEW r \in rows \ rows' PROVE DropRow \/ ~steady'
<1>1. CASE UNCHANGED vars \/ Begin \/ End
    BY <1>1, BeginIs, EndIs DEF vars
<1>2. CASE Moves
    BY <1>2, MovesIs
<1>3. CASE Unlink \/ UnlinkFails
    BY <1>3, UnlinkIs, UnlinkFailsIs
<1>4. CASE World
    <2>1. ASSUME NEW S \in SUBSET Cameras, NEW D \in SUBSET Cameras, NEW v \in Volumes,
                 Tick(S, D, v)
          PROVE  FALSE
        BY <2>1, TickIs
    <2>2. ASSUME NEW f \in files, Index(f) PROVE FALSE
        BY <2>2, IndexIs
    <2> QED BY <1>4, <2>1, <2>2, DeleteCameraIs, SetPolicyIs, MountIs, RefusalIs, CrashIs
            DEF World
<1> QED BY <1>1, <1>2, <1>3, <1>4 DEF Next, Pass, Moves

\* "Three independent limits, whichever bites first" (retention.py:3): whatever is
\* recorded and indexed meanwhile, a pass under which nobody edits the settings
\* deletes a segment only for a limit that is exceeded when it goes, up to the
\* deletes between two looks at the disk.
THEOREM DeletesOnlyOverLimit == Spec => OnlyOverLimit
<1>1. Shape /\ Unedited /\ [Next]_vars =>
        \A r \in rows \ rows' : r = pass.cur /\ steady' =>
            TooOld(r) \/ OutsideWindow(r) \/ OverSize \/ TooFull(r.vol, StatEvery)
    <2> SUFFICES ASSUME Shape, Unedited, [Next]_vars, NEW r \in rows \ rows', r = pass.cur,
                        steady'
                 PROVE  TooOld(r) \/ OutsideWindow(r) \/ OverSize \/ TooFull(r.vol, StatEvery)
        OBVIOUS
    <2>1. DropRow
        BY RowsGo
    <2>2. steady
        BY <2>1, DropRowIs
    <2> QED BY <2>1, <2>2, OverLimitOnly
<1> QED BY <1>1, ShapeAlways, UneditedAlways, PTL DEF Spec, OnlyOverLimit

-----------------------------------------------------------------------------
(* What a pass that nothing disturbs has achieved so far. *)

Alone ==
    calm /\ pass.stage # "idle" =>
        steady /\ fresh = {} /\ failed = {} /\ pass.start = now

\* Nothing else moves, and no unlink is refused.
LEMMA CalmSteps ==
    ASSUME Shape, [Next]_vars, calm'
    PROVE  Begin \/ (calm /\ (Moves \/ End \/ Unlink \/ DropRow \/ UNCHANGED vars))
<1>1. ~UnlinkFails
    BY UnlinkFailsIs
<1>2. ~World
    BY TickIs, IndexIs, DeleteCameraIs, SetPolicyIs, MountIs, RefusalIs, CrashIs DEF World
<1>3. Moves \/ End \/ Unlink \/ DropRow \/ UNCHANGED vars => calm' = calm
    BY MovesIs, EndIs, UnlinkIs, DropRowIs DEF vars, history
<1> QED BY <1>1, <1>2, <1>3 DEF Next, Pass, Moves

LEMMA AloneStep ==
    ASSUME Shape, Alone, [Next]_vars PROVE Alone'
<1> SUFFICES ASSUME calm' PROVE Alone'
    BY DEF Alone
<1>1. CASE Begin
    BY <1>1, BeginIs DEF Alone, env
<1>2. CASE calm /\ Moves
    BY <1>2, MovesIs DEF Alone
<1>3. CASE calm /\ End
    BY <1>3, EndIs, IdleIs DEF Alone
<1>4. CASE calm /\ Unlink
    BY <1>4, UnlinkIs DEF Alone, env, history
<1>5. CASE calm /\ DropRow
    <2>1. pass'.stage = pass.stage /\ pass'.start = pass.start
        BY <1>5, DoneIs
    <2> QED BY <1>5, <2>1, DropRowIs DEF Alone, env
<1>6. CASE calm /\ UNCHANGED vars
    BY <1>6 DEF Alone, vars, env, history
<1> QED BY <1>1, <1>2, <1>3, <1>4, <1>5, <1>6, CalmSteps

Within(r) == ~TooOld(r) /\ ~OutsideWindow(r)
Seen(c)   == \A r \in RowsOf(c) : Within(r)

\* Deleting a row puts no other outside a limit: a rolling window ends at the
\* newest segment, and that moves back at most.
LEMMA FewerRows ==
    ASSUME rows \subseteq Segments, rows' \subseteq rows, table' = table, now' = now,
           table \in [Cameras -> Policies \cup {None}], NEW r \in rows'
    PROVE  (TooOld(r)' <=> TooOld(r)) /\ (OutsideWindow(r)' => OutsideWindow(r))
<1>1. TooOld(r)' <=> TooOld(r)
    BY DEF TooOld, AgeLimit, Present
<1>2. ASSUME OutsideWindow(r)' PROVE OutsideWindow(r)
    <2>1. /\ r.cam \in Cameras /\ table[r.cam] # None /\ table[r.cam].rolling > 0
          /\ r.ts < NewestEnd(r.cam)' - table[r.cam].rolling
        BY <1>2 DEF OutsideWindow, Present
    <2>2. r \in RowsOf(r.cam)' /\ rows' \subseteq Segments /\ r \in RowsOf(r.cam)
        BY DEF RowsOf
    <2>3. NewestEnd(r.cam)' \in Nat /\ \E s \in RowsOf(r.cam)' : NewestEnd(r.cam)' = s.ts + 1
        <3> DEFINE S == {x.ts + 1 : x \in RowsOf(r.cam)'}
        <3>1. \A x \in RowsOf(r.cam)' : x.ts \in 0..MaxTime
            BY <2>2 DEF RowsOf, Segments
        <3>2. S \in SUBSET Nat /\ S # {} /\ MaxTime + 1 \in Nat /\ \A x \in S : x <= MaxTime + 1
            BY <2>2, <3>1, ConstantsAre
        <3>3. Max(S) \in S
            <4> HIDE DEF S
            <4> QED BY <3>2, MaxIs
        <3>4. NewestEnd(r.cam)' = Max(S)
            BY DEF NewestEnd
        <3> QED BY <3>2, <3>3, <3>4
    <2>4. PICK s \in RowsOf(r.cam)' : NewestEnd(r.cam)' = s.ts + 1
        BY <2>3
    <2>5. s \in RowsOf(r.cam)
        BY <2>4 DEF RowsOf
    <2>6. NewestEnd(r.cam) \in Nat /\ s.ts + 1 <= NewestEnd(r.cam)
        BY <2>5, NewestIs
    <2>7. table[r.cam].rolling \in Nat /\ r.ts \in Int
        <3>1. r \in Segments /\ table[r.cam] \in Policies
            BY <2>1
        <3>2. table[r.cam].rolling \in Nat
            BY <3>1, PeriodsAreNumbers
        <3>3. r.ts \in 0..MaxTime
            BY <3>1 DEF Segments
        <3> QED BY <3>2, <3>3, ConstantsAre
    <2>8. r.ts < NewestEnd(r.cam) - table[r.cam].rolling
        BY <2>1, <2>3, <2>4, <2>6, <2>7
    <2> QED BY <2>1, <2>8 DEF OutsideWindow, Present
<1> QED BY <1>1, <1>2

\* With the same rows, the same ones are within their limits.
LEMMA SameRows ==
    ASSUME UNCHANGED <<rows, table, now>>
    PROVE  /\ \A r : /\ TooOld(r)' <=> TooOld(r)
                     /\ OutsideWindow(r)' <=> OutsideWindow(r)
                     /\ Within(r)' <=> Within(r)
           /\ \A c : (RowsOf(c)' = RowsOf(c)) /\ (Seen(c)' <=> Seen(c))
<1>1. \A c : RowsOf(c)' = RowsOf(c)
    BY DEF RowsOf
<1>2. \A r : TooOld(r)' <=> TooOld(r)
    BY DEF TooOld, AgeLimit, Present
<1>3. \A r : OutsideWindow(r)' <=> OutsideWindow(r)
    BY <1>1 DEF OutsideWindow, Present, NewestEnd
<1>4. \A r : Within(r)' <=> Within(r)
    BY <1>2, <1>3 DEF Within
<1>5. \A c : Seen(c)' <=> Seen(c)
    BY <1>1, <1>4 DEF Seen
<1> QED BY <1>1, <1>2, <1>3, <1>4, <1>5

\* A row less.
LEMMA OneRowLess ==
    ASSUME Shape, DropRow
    PROVE  /\ rows' \subseteq rows
           /\ \A r \in rows' : /\ TooOld(r)' <=> TooOld(r)
                               /\ OutsideWindow(r)' => OutsideWindow(r)
                               /\ Within(r) => Within(r)'
           /\ \A c : Seen(c) => Seen(c)'
<1>1. rows' \subseteq rows /\ table' = table /\ now' = now
    BY DropRowIs DEF env
<1>2. ASSUME NEW r \in rows'
      PROVE  (TooOld(r)' <=> TooOld(r)) /\ (OutsideWindow(r)' => OutsideWindow(r))
    BY <1>1, FewerRows DEF Shape, Base
<1>3. \A r \in rows' : Within(r) => Within(r)'
    BY <1>2 DEF Within
<1>4. \A c : Seen(c) => Seen(c)'
    BY <1>1, <1>3 DEF Seen, RowsOf
<1> QED BY <1>1, <1>2, <1>3, <1>4

\* The cameras the pass has been to are within their limits; at the one it is at,
\* what is not is older than the cutoff, and is fetched or will be.
Visited ==
    calm =>
        /\ pass.stage \in {"cameras", "rolling", "hard"} =>
              \A c \in DOMAIN pass.windows \ pass.todo :
                  Seen(c) \/ (pass.stage # "cameras" /\ c = pass.at)
        /\ pass.stage = "rolling" =>
              \A r \in RowsOf(pass.at) : OutsideWindow(r) => r.ts < pass.cutoff
        /\ pass.stage = "hard" =>
              \A r \in RowsOf(pass.at) : ~OutsideWindow(r) /\ (TooOld(r) => r.ts < pass.cutoff)
        /\ pass.stage \in {"rolling", "hard", "orphan"} =>
              \A r \in RowsOf(pass.at) : r.ts < pass.cutoff => pass.again \/ r \in pass.batch
        /\ pass.stage \in {"orphans", "orphan"} =>
              \A c \in Cameras \ pass.todo : Seen(c) \/ (pass.stage = "orphan" /\ c = pass.at)

\* In the middle of an undisturbed pass the cameras it knows are those there are.
LEMMA InForce ==
    ASSUME Shape, Unedited, Alone, calm, pass.stage \in ByCamera
    PROVE  /\ pass.windows = Windows /\ DOMAIN pass.windows = Present
           /\ pass.start = now /\ steady /\ Present \subseteq Cameras
           /\ \A c \in Present : /\ pass.windows[c].hard = AgeLimit(c)
                                 /\ pass.windows[c].rolling = table[c].rolling
                                 /\ pass.windows[c].hard \in Nat
                                 /\ pass.windows[c].rolling \in Nat
<1>1. pass.start = now /\ steady
    BY DEF Alone, ByCamera
<1>2. pass.windows = Windows
    BY <1>1 DEF Unedited, Upright
<1> QED BY <1>1, <1>2, WindowsAre, PeriodsAreNumbers DEF Shape

\* When a hard cap, or an orphan's, has nothing more to fetch, its camera is done.
LEMMA CameraDone ==
    ASSUME Shape, Unedited, Alone, Visited, calm, pass.stage \in {"hard", "orphan"},
           pass.batch = {}, ~pass.again
    PROVE  Seen(pass.at)
<1>1. \A r \in RowsOf(pass.at) : ~(r.ts < pass.cutoff)
    BY DEF Visited
<1>2. CASE pass.stage = "hard"
    BY <1>1, <1>2 DEF Visited, Seen, Within
<1>3. CASE pass.stage = "orphan"
    <2>1. /\ pass.at \notin Present /\ pass.cutoff = now - GlobalHard
        BY <1>3, InForce DEF Shape, StageOK, ByCamera
    <2>2. ASSUME NEW r \in RowsOf(pass.at) PROVE Within(r)
        <3>1. r.cam = pass.at
            BY DEF RowsOf
        <3>2. ~(r.ts < now - GlobalHard)
            BY <1>1, <2>1
        <3> QED BY <2>1, <3>1, <3>2 DEF Within, TooOld, OutsideWindow, AgeLimit
    <2> QED BY <2>2 DEF Seen
<1> QED BY <1>2, <1>3

LEMMA VisitedStep ==
    ASSUME Shape, Unedited, Alone, Visited, [Next]_vars PROVE Visited'
<1> SUFFICES ASSUME calm' PROVE Visited'
    BY DEF Visited
<1>1. ASSUME pass'.stage \notin ByCamera PROVE Visited'
    BY <1>1 DEF Visited, ByCamera
<1>2. CASE Begin
    BY <1>2, BeginIs DEF Visited
<1>3. CASE calm /\ NextCamera
    <2>1. PICK c \in pass.todo :
            /\ c \in DOMAIN pass.windows /\ c \in Cameras
            /\ pass'.stage = "rolling" /\ pass'.at = c /\ pass'.todo = pass.todo \ {c}
            /\ pass'.again /\ pass'.windows = pass.windows
            /\ pass'.cutoff = IF pass.windows[c].rolling > 0 /\ RowsOf(c) # {}
                              THEN NewestEnd(c) - pass.windows[c].rolling ELSE 0
        BY <1>3, NextCameraIs
    <2>2. UNCHANGED <<rows, table, now>> /\ pass.stage \in {"cameras", "hard"}
          /\ pass.batch = {} /\ (pass.stage = "hard" => ~pass.again)
        BY <1>3, NextCameraIs DEF env
    <2>3. \A x \in DOMAIN pass.windows \ pass'.todo : Seen(x)' \/ x = c
        <3>1. ASSUME NEW x \in DOMAIN pass.windows \ pass.todo PROVE Seen(x)
            BY <1>3, <2>2, CameraDone DEF Visited
        <3> QED BY <2>1, <2>2, <3>1, SameRows
    <2>4. ASSUME NEW r \in RowsOf(c), OutsideWindow(r) PROVE r.ts < pass'.cutoff
        <3>1. r.cam = c /\ RowsOf(c) # {}
            BY DEF RowsOf
        <3>2. table[c].rolling > 0 /\ r.ts < NewestEnd(c) - table[c].rolling /\ c \in Present
            BY <2>4, <3>1 DEF OutsideWindow
        <3>3. pass.windows[c].rolling = table[c].rolling
            BY <1>3, <2>2, <3>2, InForce DEF ByCamera
        <3> QED BY <2>1, <3>1, <3>2, <3>3
    <2> QED BY <2>1, <2>2, <2>3, <2>4, SameRows DEF Visited
<1>4. CASE calm /\ Fetch
    <2>1. /\ UNCHANGED <<rows, table, now>> /\ pass.stage \in {"rolling", "hard", "orphan"}
          /\ pass'.stage = pass.stage /\ pass'.at = pass.at /\ pass'.todo = pass.todo
          /\ pass'.cutoff = pass.cutoff /\ pass'.windows = pass.windows
          /\ pass'.again \/ \A r \in RowsOf(pass.at) : r.ts < pass.cutoff => r \in pass'.batch
        BY <1>4, FetchIs DEF env
    <2> QED BY <1>4, <2>1, SameRows DEF Visited
<1>5. CASE calm /\ HardCap
    <2>1. /\ UNCHANGED <<rows, table, now>> /\ pass.stage = "rolling" /\ pass.batch = {}
          /\ ~pass.again /\ pass'.stage = "hard" /\ pass'.at = pass.at
          /\ pass'.todo = pass.todo \ {pass.at} /\ pass'.again
          /\ pass'.windows = pass.windows
          /\ pass'.cutoff = IF pass.windows[pass.at].hard > 0
                            THEN pass.start - pass.windows[pass.at].hard ELSE 0
        BY <1>5, HardCapIs DEF env
    <2>2. PICK c \in Present : c = pass.at
        BY <1>5, <2>1, InForce DEF Shape, StageOK, ByCamera
    <2>3. ASSUME NEW r \in RowsOf(c) PROVE ~OutsideWindow(r)
        BY <1>5, <2>1, <2>2 DEF Visited
    <2>4. ASSUME NEW r \in RowsOf(c), TooOld(r) PROVE r.ts < pass'.cutoff
        <3>1. AgeLimit(c) > 0 /\ r.ts < now - AgeLimit(c)
            BY <2>4 DEF TooOld, RowsOf
        <3>2. pass.windows[c].hard = AgeLimit(c) /\ pass.start = now
            BY <1>5, <2>1, InForce DEF ByCamera
        <3> QED BY <2>1, <2>2, <3>1, <3>2
    <2>5. \A x \in DOMAIN pass.windows \ pass'.todo : Seen(x) \/ x = c
        BY <1>5, <2>1, <2>2 DEF Visited
    <2> QED BY <2>1, <2>2, <2>3, <2>4, <2>5, SameRows DEF Visited
<1>6. CASE calm /\ FindOrphans
    <2>1. /\ UNCHANGED <<rows, table, now>> /\ pass.stage \in {"cameras", "hard"}
          /\ pass.todo = {} /\ pass.batch = {} /\ (pass.stage = "hard" => ~pass.again)
          /\ pass'.stage = "orphans"
          /\ pass'.todo = IF GlobalHard > 0
                          THEN {r.cam : r \in rows} \ DOMAIN pass.windows ELSE {}
        BY <1>6, FindOrphansIs DEF env
    <2>2. ASSUME NEW c \in Cameras \ pass'.todo PROVE Seen(c)
        <3>1. CASE c \in DOMAIN pass.windows
            BY <1>6, <2>1, <3>1, CameraDone DEF Visited
        <3>2. CASE c \notin DOMAIN pass.windows
            <4>1. c \notin Present
                BY <1>6, <2>1, <3>2, InForce DEF ByCamera
            <4>2. CASE GlobalHard > 0
                BY <2>1, <2>2, <3>2, <4>2 DEF Seen, RowsOf
            <4>3. CASE ~(GlobalHard > 0)
                BY <4>1, <4>3 DEF Seen, RowsOf, Within, TooOld, AgeLimit, OutsideWindow
            <4> QED BY <4>2, <4>3
        <3> QED BY <3>1, <3>2
    <2> QED BY <2>1, <2>2, SameRows DEF Visited
<1>7. CASE calm /\ NextOrphan
    <2>1. PICK c \in pass.todo :
            /\ pass'.stage = "orphan" /\ pass'.at = c /\ pass'.todo = pass.todo \ {c}
            /\ pass'.again
        BY <1>7, NextOrphanIs
    <2>2. UNCHANGED <<rows, table, now>> /\ pass.stage \in {"orphans", "orphan"}
          /\ pass.batch = {} /\ (pass.stage = "orphan" => ~pass.again)
        BY <1>7, NextOrphanIs DEF env
    <2>3. \A x \in Cameras \ pass'.todo : Seen(x)' \/ x = c
        <3>1. ASSUME NEW x \in Cameras \ pass.todo PROVE Seen(x)
            BY <1>7, <2>2, CameraDone DEF Visited
        <3> QED BY <2>1, <2>2, <3>1, SameRows
    <2> QED BY <2>1, <2>2, <2>3, SameRows DEF Visited
<1>8. CASE OrphanEvents \/ AlignEvents \/ BeginQuota \/ QuotaFetch \/ QuotaMet
    BY <1>1, <1>8, OrphanEventsIs, AlignEventsIs, BeginQuotaIs, QuotaFetchIs, QuotaMetIs
       DEF ByCamera
<1>9. CASE NextVolume \/ FloorFetch \/ FloorMet \/ End
    BY <1>1, <1>9, NextVolumeIs, FloorFetchIs, FloorMetIs, EndIs, IdleIs DEF ByCamera
<1>10. CASE calm /\ Unlink
    <2>1. /\ UNCHANGED <<rows, table, now>> /\ pass'.stage = pass.stage /\ pass'.at = pass.at
          /\ pass'.todo = pass.todo /\ pass'.cutoff = pass.cutoff
          /\ pass'.windows = pass.windows /\ pass'.again = pass.again
          /\ pass'.batch = pass.batch
        BY <1>10, UnlinkIs DEF env
    <2> QED BY <1>10, <2>1, SameRows DEF Visited
<1>11. CASE calm /\ DropRow
    <2>1. /\ pass'.stage = pass.stage /\ pass'.at = pass.at
          /\ pass'.todo = pass.todo /\ pass'.cutoff = pass.cutoff
          /\ pass'.windows = pass.windows /\ pass'.again = pass.again
        BY <1>11, DoneIs
    <2>2. rows' = rows \ {pass.cur}
          /\ (pass.stage # "floor" => pass'.batch = pass.batch \ {pass.cur})
        <3>1. ~UnlinkFails
            BY UnlinkFailsIs
        <3> QED BY <1>11, <3>1, DoneIs
    <2>3. \A c : RowsOf(c)' \subseteq RowsOf(c)
        BY <2>2 DEF RowsOf
    <2>4. \A c : \A r \in RowsOf(c)' : r \in rows' /\ r # pass.cur
        BY <2>2 DEF RowsOf
    <2>5. pass'.stage = "rolling" =>
            \A r \in RowsOf(pass.at)' : OutsideWindow(r)' => r.ts < pass'.cutoff
        BY <1>11, <2>1, <2>3, <2>4, OneRowLess DEF Visited, RowsOf
    <2>6. pass'.stage = "hard" =>
            \A r \in RowsOf(pass.at)' :
                ~OutsideWindow(r)' /\ (TooOld(r)' => r.ts < pass'.cutoff)
        BY <1>11, <2>1, <2>3, <2>4, OneRowLess DEF Visited, RowsOf
    <2>7. pass'.stage \in {"rolling", "hard", "orphan"} =>
            \A r \in RowsOf(pass.at)' : r.ts < pass'.cutoff => pass'.again \/ r \in pass'.batch
        BY <1>11, <2>1, <2>2, <2>3, <2>4 DEF Visited, RowsOf
    <2>8. pass'.stage \in {"cameras", "rolling", "hard"} =>
            \A c \in DOMAIN pass'.windows \ pass'.todo :
                Seen(c)' \/ (pass'.stage # "cameras" /\ c = pass'.at)
        BY <1>11, <2>1, OneRowLess DEF Visited
    <2>9. pass'.stage \in {"orphans", "orphan"} =>
            \A c \in Cameras \ pass'.todo : Seen(c)' \/ (pass'.stage = "orphan" /\ c = pass'.at)
        BY <1>11, <2>1, OneRowLess DEF Visited
    <2> QED BY <2>5, <2>6, <2>7, <2>8, <2>9 DEF Visited
<1>12. CASE calm /\ UNCHANGED vars
    <2>1. UNCHANGED <<rows, table, now, pass, calm>>
        BY <1>12 DEF vars, env, history
    <2> QED BY <2>1, SameRows DEF Visited
<1> QED BY <1>2, <1>3, <1>4, <1>5, <1>6, <1>7, <1>8, <1>9, <1>10, <1>11, <1>12, CalmSteps
        DEF Moves

\* Past the cameras, everything is within the age limits and the rolling windows.
AllWithin == calm /\ pass.stage \notin ByCamera => \A r \in rows : Within(r)

LEMMA AllWithinStep ==
    ASSUME Shape, Unedited, Alone, Visited, AllWithin, [Next]_vars PROVE AllWithin'
<1> SUFFICES ASSUME calm' PROVE AllWithin'
    BY DEF AllWithin
<1>1. CASE Begin
    BY <1>1, BeginIs DEF AllWithin, ByCamera
<1>2. CASE calm /\ OrphanEvents
    <2>1. /\ UNCHANGED <<rows, table, now>> /\ pass.stage \in {"orphans", "orphan"}
          /\ pass.todo = {} /\ pass.batch = {} /\ (pass.stage = "orphan" => ~pass.again)
        BY <1>2, OrphanEventsIs DEF env
    <2>2. ASSUME NEW r \in rows PROVE Within(r)
        <3>1. r.cam \in Cameras /\ r \in RowsOf(r.cam)
            BY DEF Shape, Base, Segments, RowsOf
        <3>2. Seen(r.cam)
            BY <1>2, <2>1, <3>1, CameraDone DEF Visited
        <3> QED BY <3>1, <3>2 DEF Seen
    <2> QED BY <2>1, <2>2, SameRows DEF AllWithin
<1>3. CASE calm /\ Moves /\ ~OrphanEvents
    <2>1. UNCHANGED <<rows, table, now>>
        BY <1>3, MovesIs
    <2>2. pass'.stage \notin ByCamera => pass.stage \notin ByCamera
        <3>1. CASE NextCamera
            BY <3>1, NextCameraIs DEF ByCamera
        <3>2. CASE NextOrphan
            BY <3>2, NextOrphanIs DEF ByCamera
        <3>3. CASE Fetch \/ HardCap \/ FindOrphans
            BY <3>3, FetchIs, HardCapIs, FindOrphansIs DEF ByCamera
        <3>4. CASE AlignEvents \/ BeginQuota \/ QuotaFetch \/ QuotaMet
            BY <3>4, AlignEventsIs, BeginQuotaIs, QuotaFetchIs, QuotaMetIs DEF ByCamera
        <3>5. CASE NextVolume \/ FloorFetch \/ FloorMet
            BY <3>5, NextVolumeIs, FloorFetchIs, FloorMetIs DEF ByCamera
        <3> QED BY <1>3, <3>1, <3>2, <3>3, <3>4, <3>5 DEF Moves
    <2> QED BY <1>3, <2>1, <2>2, SameRows DEF AllWithin
<1>4. CASE calm /\ End
    <2>1. UNCHANGED <<rows, table, now>> /\ pass.stage = "volumes"
        BY <1>4, EndIs DEF env
    <2> QED BY <1>4, <2>1, SameRows DEF AllWithin, ByCamera
<1>5. CASE calm /\ Unlink
    <2>1. UNCHANGED <<rows, table, now>> /\ pass'.stage = pass.stage
        BY <1>5, UnlinkIs DEF env
    <2> QED BY <1>5, <2>1, SameRows DEF AllWithin
<1>6. CASE calm /\ DropRow
    <2>1. pass'.stage = pass.stage
        BY <1>6, DoneIs
    <2> QED BY <1>6, <2>1, OneRowLess DEF AllWithin
<1>7. CASE calm /\ UNCHANGED vars
    <2>1. UNCHANGED <<rows, table, now, pass, calm>>
        BY <1>7 DEF vars, env, history
    <2> QED BY <2>1, SameRows DEF AllWithin
<1> QED BY <1>1, <1>2, <1>3, <1>4, <1>5, <1>6, <1>7, CalmSteps

AfterQuota == {"volumes", "floor", "idle"}

\* Past the quota, the index is within it.
QuotaKept == calm /\ pass.stage \in AfterQuota => ~OverSize

LEMMA QuotaKeptStep ==
    ASSUME Shape, Unedited, Alone, QuotaKept, [Next]_vars PROVE QuotaKept'
<1> SUFFICES ASSUME calm' PROVE QuotaKept'
    BY DEF QuotaKept
<1>1. ASSUME UNCHANGED <<mounted, rows>>, calm,
             pass'.stage \in AfterQuota => pass.stage \in AfterQuota
      PROVE  QuotaKept'
    BY <1>1 DEF QuotaKept, OverSize, QuotaNow
<1>2. ASSUME pass'.stage \notin AfterQuota PROVE QuotaKept'
    BY <1>2 DEF QuotaKept
<1>3. CASE Begin
    BY <1>2, <1>3, BeginIs DEF AfterQuota
<1>4. CASE calm /\ QuotaMet
    <2>1. /\ UNCHANGED <<mounted, rows>> /\ pass.stage = "quota"
          /\ ~OverQuota \/ rows = {}
        BY <1>4, QuotaMetIs DEF env
    <2>2. /\ pass.cutoff = QuotaNow /\ fresh = {}
          /\ Cardinality(rows) - Cardinality(fresh) <= pass.total
        BY <1>4, <2>1 DEF Alone, Unedited, Counts
    <2>3. Cardinality(rows) \in Nat /\ pass.total \in Nat /\ QuotaNow \in Nat
          /\ Cardinality({}) = 0 /\ (rows = {} => Cardinality(rows) = 0)
        BY Counted, QuotaIs, FS_EmptySet DEF Shape, Base, PassType
    <2>4. Cardinality(rows) <= pass.total
        BY <2>2, <2>3
    <2>5. ~OverSize
        BY <2>1, <2>2, <2>3, <2>4 DEF OverSize, OverQuota
    <2> QED BY <2>1, <2>5 DEF QuotaKept, OverSize, QuotaNow
<1>5. CASE NextCamera
    BY <1>2, <1>5, NextCameraIs DEF AfterQuota
<1>6. CASE NextOrphan
    BY <1>2, <1>6, NextOrphanIs DEF AfterQuota
<1>7. CASE Fetch \/ HardCap \/ FindOrphans
    BY <1>2, <1>7, FetchIs, HardCapIs, FindOrphansIs DEF AfterQuota
<1>8. CASE OrphanEvents \/ AlignEvents \/ BeginQuota \/ QuotaFetch
    BY <1>2, <1>8, OrphanEventsIs, AlignEventsIs, BeginQuotaIs, QuotaFetchIs DEF AfterQuota
<1>9. CASE calm /\ (NextVolume \/ FloorFetch \/ FloorMet \/ End)
    BY <1>1, <1>9, NextVolumeIs, FloorFetchIs, FloorMetIs, EndIs DEF AfterQuota, env
<1>10. CASE calm /\ Unlink
    BY <1>1, <1>10, UnlinkIs DEF env
<1>11. CASE calm /\ DropRow
    <2>1. pass'.stage = pass.stage /\ mounted' = mounted /\ rows' \subseteq rows
        BY <1>11, DoneIs
    <2>2. /\ Cardinality(rows) \in Nat /\ Cardinality(rows') \in Nat /\ QuotaNow \in Nat
          /\ Cardinality(rows') <= Cardinality(rows)
        BY <2>1, Counted, QuotaIs DEF Shape, Base
    <2> QED BY <1>11, <2>1, <2>2 DEF QuotaKept, OverSize, QuotaNow
<1>12. CASE calm /\ UNCHANGED vars
    BY <1>1, <1>12 DEF vars, env
<1> QED BY <1>3, <1>4, <1>5, <1>6, <1>7, <1>8, <1>9, <1>10, <1>11, <1>12, CalmSteps
        DEF Moves

FloorKept(v) == TooFull(v, 0) => RowsOn(v) = {}

\* The volumes behind the pass have their floor free, or nothing left to delete;
\* and at the one it is at there is at least as much room as it last saw.
FloorsKept ==
    calm =>
        /\ pass.stage = "floor" => pass.free <= FreeOn(pass.at)
        /\ pass.stage \in AfterQuota =>
              \A v \in Volumes \ pass.todo : FloorKept(v) \/ (pass.stage = "floor" /\ v = pass.at)

\* Deleting keeps it that way.
LEMMA FloorStaysKept ==
    ASSUME rows' \subseteq rows, files' \subseteq files, files \subseteq Segments,
           mounted' = mounted, NEW v \in Volumes, FloorKept(v)
    PROVE  FloorKept(v)'
<1>1. FreeOn(v)' >= FreeOn(v) /\ FreeOn(v)' \in Int /\ FreeOn(v) \in Int
    <2>1. files' \subseteq Segments
        OBVIOUS
    <2> QED BY <2>1, RoomIs
<1>2. RowsOn(v)' \subseteq RowsOn(v)
    BY DEF RowsOn
<1>3. Floor \in Nat
    BY ConstantsAre
<1>4. TooFull(v, 0)' => TooFull(v, 0)
    BY <1>1, <1>3 DEF TooFull
<1> QED BY <1>2, <1>4 DEF FloorKept

LEMMA FloorsKeptStep ==
    ASSUME Shape, Unedited, Alone, FloorsKept, [Next]_vars PROVE FloorsKept'
<1> SUFFICES ASSUME calm' PROVE FloorsKept'
    BY DEF FloorsKept
<1>0. files \subseteq Segments /\ Floor \in Nat /\ pass.free \in Int
      /\ (pass.stage = "floor" => pass.at \in Volumes)
    BY ConstantsAre DEF Shape, Base, StageOK, PassType
<1>1. ASSUME pass'.stage \notin AfterQuota PROVE FloorsKept'
    BY <1>1 DEF FloorsKept, AfterQuota
<1>2. CASE Begin
    BY <1>1, <1>2, BeginIs DEF AfterQuota
<1>3. CASE NextCamera
    BY <1>1, <1>3, NextCameraIs DEF AfterQuota
<1>4. CASE NextOrphan
    BY <1>1, <1>4, NextOrphanIs DEF AfterQuota
<1>5. CASE Fetch \/ HardCap \/ FindOrphans
    BY <1>1, <1>5, FetchIs, HardCapIs, FindOrphansIs DEF AfterQuota
<1>6. CASE OrphanEvents \/ AlignEvents \/ BeginQuota \/ QuotaFetch
    BY <1>1, <1>6, OrphanEventsIs, AlignEventsIs, BeginQuotaIs, QuotaFetchIs DEF AfterQuota
<1>7. CASE calm /\ QuotaMet
    BY <1>7, QuotaMetIs DEF FloorsKept
<1>8. CASE calm /\ NextVolume
    <2>1. PICK v \in pass.todo :
            /\ v \in Volumes /\ pass'.todo = pass.todo \ {v}
            /\ \/ /\ v \in mounted /\ pass'.stage = "floor" /\ pass'.at = v
                  /\ pass'.free = FreeOn(v)
               \/ v \notin mounted /\ pass'.stage = "volumes"
        BY <1>8, NextVolumeIs
    <2>2. UNCHANGED <<rows, files, mounted>> /\ pass.stage = "volumes"
        BY <1>8, NextVolumeIs DEF env
    <2>3. \A x \in Volumes \ pass'.todo : FloorKept(x)' \/ (pass'.stage = "floor" /\ x = v)
        <3>1. ASSUME NEW x \in Volumes \ pass.todo PROVE FloorKept(x)
            BY <1>8, <2>2 DEF FloorsKept, AfterQuota
        <3>2. v \notin mounted => FloorKept(v)
            BY DEF FloorKept, TooFull
        <3> QED BY <1>0, <2>1, <2>2, <3>1, <3>2, FloorStaysKept
    <2>4. FreeOn(v)' = FreeOn(v) /\ FreeOn(v) \in Int
        <3>1. FreeOn(v) \in Int
            BY <1>0, <2>1, FreeIs
        <3>2. FreeOn(v)' = FreeOn(v)
            BY <2>2 DEF FreeOn
        <3> QED BY <3>1, <3>2
    <2>5. pass'.stage = "floor" => pass'.free <= FreeOn(pass.at)'
        <3>1. pass'.stage = "floor" => FreeOn(pass.at)' = FreeOn(v)' /\ pass'.free = FreeOn(v)
            BY <2>1 DEF FreeOn
        <3> QED BY <2>4, <3>1
    <2> QED BY <2>1, <2>3, <2>5 DEF FloorsKept, AfterQuota
<1>9. CASE calm /\ FloorFetch
    <2>1. /\ UNCHANGED <<rows, files, mounted>> /\ pass.stage = "floor"
          /\ pass'.stage = "floor" /\ pass'.at = pass.at /\ pass'.todo = pass.todo
          /\ pass'.free = pass.free
        BY <1>9, FloorFetchIs DEF env
    <2>2. FreeOn(pass.at)' = FreeOn(pass.at)
        BY <2>1 DEF FreeOn
    <2>3. \A v \in Volumes : FloorKept(v) => FloorKept(v)'
        BY <1>0, <2>1, FloorStaysKept
    <2> QED BY <1>9, <2>1, <2>2, <2>3 DEF FloorsKept, AfterQuota
<1>10. CASE calm /\ FloorMet
    <2>1. /\ UNCHANGED <<rows, files, mounted>> /\ pass.stage = "floor"
          /\ pass'.stage = "volumes" /\ pass'.todo = pass.todo
          /\ (pass.free >= Floor \/ RowsOn(pass.at) = {})
        BY <1>10, FloorMetIs DEF env
    <2>2. FloorKept(pass.at)
        <3>1. FreeOn(pass.at) \in Int /\ pass.free <= FreeOn(pass.at)
            BY <1>0, <1>10, <2>1, FreeIs DEF FloorsKept
        <3> QED BY <1>0, <2>1, <3>1 DEF FloorKept, TooFull
    <2>3. \A v \in Volumes : FloorKept(v) => FloorKept(v)'
        BY <1>0, <2>1, FloorStaysKept
    <2> QED BY <1>10, <2>1, <2>2, <2>3 DEF FloorsKept, AfterQuota
<1>11. CASE calm /\ End
    <2>1. /\ UNCHANGED <<rows, files, mounted>> /\ pass.stage = "volumes" /\ pass.todo = {}
          /\ pass'.stage = "idle"
        BY <1>11, EndIs, IdleIs DEF env
    <2>2. \A v \in Volumes : FloorKept(v) => FloorKept(v)'
        BY <1>0, <2>1, FloorStaysKept
    <2> QED BY <1>11, <2>1, <2>2 DEF FloorsKept, AfterQuota
<1>12. CASE calm /\ Unlink
    <2>1. /\ UNCHANGED <<rows, mounted>> /\ files' \subseteq files
          /\ pass'.stage = pass.stage /\ pass'.at = pass.at /\ pass'.todo = pass.todo
          /\ pass'.free = pass.free
        BY <1>12, UnlinkIs DEF env
    <2>2. pass.stage = "floor" => pass.free <= FreeOn(pass.at)'
        <3>1. SUFFICES ASSUME pass.stage = "floor" PROVE pass.free <= FreeOn(pass.at)'
            OBVIOUS
        <3>2. PICK v \in Volumes : v = pass.at
            BY <1>0, <3>1
        <3>3. FreeOn(v)' >= FreeOn(v) /\ FreeOn(v)' \in Int /\ FreeOn(v) \in Int
            BY <1>0, <2>1, RoomIs
        <3>4. FreeOn(pass.at)' = FreeOn(v)'
            BY <2>1, <3>2 DEF FreeOn
        <3>5. pass.free <= FreeOn(v)
            BY <1>12, <3>1, <3>2 DEF FloorsKept
        <3> QED BY <1>0, <3>3, <3>4, <3>5
    <2>3. \A v \in Volumes : FloorKept(v) => FloorKept(v)'
        BY <1>0, <2>1, FloorStaysKept
    <2> QED BY <1>12, <2>1, <2>2, <2>3 DEF FloorsKept, AfterQuota
<1>13. CASE calm /\ DropRow
    <2>1. /\ UNCHANGED <<files, mounted>> /\ rows' \subseteq rows
          /\ pass'.stage = pass.stage /\ pass'.at = pass.at /\ pass'.todo = pass.todo
          /\ (pass.stage = "floor" => pass'.free = pass.free \/ pass'.free = Stat(pass.at))
        BY <1>13, DoneIs
    <2>2. pass.stage = "floor" => pass'.free <= FreeOn(pass.at)'
        <3>1. FreeOn(pass.at)' = FreeOn(pass.at)
            BY <2>1 DEF FreeOn
        <3>2. pass.stage = "floor" => pass.at \in mounted
            BY <1>13 DEF Alone, Unedited, Looked
        <3>3. pass.stage = "floor" => FreeOn(pass.at) \in Int
            BY <1>0, FreeIs
        <3> QED BY <1>0, <1>13, <2>1, <3>1, <3>2, <3>3 DEF FloorsKept, Stat
    <2>3. \A v \in Volumes : FloorKept(v) => FloorKept(v)'
        BY <1>0, <2>1, FloorStaysKept
    <2> QED BY <1>13, <2>1, <2>2, <2>3 DEF FloorsKept, AfterQuota
<1>14. CASE calm /\ UNCHANGED vars
    <2>1. UNCHANGED <<rows, files, mounted, pass>>
        BY <1>14 DEF vars, env
    <2>2. \A v \in Volumes : FloorKept(v) => FloorKept(v)'
        BY <1>0, <2>1, FloorStaysKept
    <2> QED BY <1>14, <2>1, <2>2 DEF FloorsKept, FreeOn
<1> QED BY <1>2, <1>3, <1>4, <1>5, <1>6, <1>7, <1>8, <1>9, <1>10, <1>11, <1>12, <1>13,
           <1>14, CalmSteps DEF Moves

Undisturbed == Alone /\ Visited /\ AllWithin /\ QuotaKept /\ FloorsKept

LEMMA UndisturbedAlways == Spec => []Undisturbed
<1>1. Init => Undisturbed
    BY DEF Init, Undisturbed, Alone, Visited, AllWithin, QuotaKept, FloorsKept
<1>2. Shape /\ Unedited /\ Undisturbed /\ [Next]_vars => Undisturbed'
    BY AloneStep, VisitedStep, AllWithinStep, QuotaKeptStep, FloorsKeptStep DEF Undisturbed
<1> QED BY <1>1, <1>2, ShapeAlways, UneditedAlways, PTL DEF Spec

\* A pass that nothing disturbs leaves every limit met, whatever it found: no
\* segment over its camera's age limit or outside its rolling window, archived
\* and deleted cameras included; the pool within its quota; and every mounted
\* volume with its floor free or with nothing of ours left on it.
THEOREM LimitsAreMet == Spec => []WithinLimits
<1>1. Shape /\ Undisturbed => WithinLimits
    <2> SUFFICES ASSUME Shape, Undisturbed, pass.stage = "idle", calm
                 PROVE  /\ \A r \in rows : ~TooOld(r) /\ ~OutsideWindow(r)
                        /\ ~OverSize
                        /\ \A v \in Volumes : TooFull(v, 0) => RowsOn(v) = {}
        BY DEF WithinLimits
    <2>1. pass.todo = {}
        BY IdleIs DEF Shape, StageOK
    <2>2. \A r \in rows : ~TooOld(r) /\ ~OutsideWindow(r)
        BY DEF Undisturbed, AllWithin, ByCamera, Within
    <2>3. ~OverSize
        BY DEF Undisturbed, QuotaKept, AfterQuota
    <2>4. \A v \in Volumes : TooFull(v, 0) => RowsOn(v) = {}
        BY <2>1 DEF Undisturbed, FloorsKept, AfterQuota, FloorKept
    <2> QED BY <2>2, <2>3, <2>4
<1> QED BY <1>1, ShapeAlways, UndisturbedAlways, PTL

-----------------------------------------------------------------------------
(* Markers. *)

\* Once its markers were aligned, a camera has a segment at least as old as each
\* of them, unless it has none, or has lost some to the quota or the floor.
Covered(e) == \E r \in RowsOf(e.cam) : r.ts <= e.ts
Aligned ==
    calm =>
        /\ pass.stage \in ByCamera \cup {"events"} => cut = {}
        /\ pass.stage \notin ByCamera =>
             \A e \in events : \/ RowsOf(e.cam) = {} \/ Covered(e) \/ e.cam \in cut
                               \/ pass.stage = "events" /\ e.cam \in pass.todo

LEMMA AlignedStep ==
    ASSUME Shape, Aligned, [Next]_vars PROVE Aligned'
<1> SUFFICES ASSUME calm' PROVE Aligned'
    BY DEF Aligned
<1>1. ASSUME calm, UNCHANGED <<rows, events, cut>>,
             pass'.stage \in ByCamera \cup {"events"} => pass.stage \in ByCamera \cup {"events"},
             pass'.stage \notin ByCamera =>
                 /\ pass.stage \notin ByCamera
                 /\ pass.stage = "events" => pass.todo \subseteq pass'.todo
                                             /\ (pass'.stage # "events" => pass.todo = {})
      PROVE  Aligned'
    BY <1>1 DEF Aligned, RowsOf, Covered
<1>2. CASE Begin
    BY <1>2, BeginIs DEF Aligned, ByCamera
<1>3. CASE calm /\ NextCamera
    BY <1>1, <1>3, NextCameraIs DEF ByCamera, history
<1>4. CASE calm /\ NextOrphan
    BY <1>1, <1>4, NextOrphanIs DEF ByCamera, history
<1>5. CASE calm /\ (Fetch \/ HardCap \/ FindOrphans)
    BY <1>1, <1>5, FetchIs, HardCapIs, FindOrphansIs DEF ByCamera, history
<1>6. CASE calm /\ OrphanEvents
    <2>1. /\ UNCHANGED <<rows, cut>> /\ pass.stage \in ByCamera /\ pass'.stage = "events"
          /\ \A e \in events' : e.cam \in pass'.todo
        BY <1>6, OrphanEventsIs DEF ByCamera, history
    <2> QED BY <1>6, <2>1 DEF Aligned, ByCamera
<1>7. CASE calm /\ AlignEvents
    <2>1. PICK c \in pass.todo :
            /\ events' = {e \in events : e.cam # c \/ RowsOf(c) = {} \/ e.ts >= FirstTs(c)}
            /\ pass'.todo = pass.todo \ {c}
        BY <1>7, AlignEventsIs
    <2>2. UNCHANGED <<rows, cut>> /\ pass.stage = "events" /\ pass'.stage = "events"
        BY <1>7, AlignEventsIs DEF history
    <2>3. ASSUME NEW e \in events', e.cam = c PROVE RowsOf(c) = {} \/ Covered(e)
        <3>1. SUFFICES ASSUME RowsOf(c) # {} PROVE Covered(e)
            OBVIOUS
        <3>2. e.ts >= FirstTs(c)
            BY <2>1, <2>3, <3>1
        <3>3. PICK s \in RowsOf(c) : FirstTs(c) = s.ts
            BY <3>1, FirstIs DEF Shape, Base
        <3> QED BY <2>3, <3>2, <3>3 DEF Covered
    <2>4. ASSUME NEW e \in events', e.cam # c
          PROVE  \/ RowsOf(e.cam) = {} \/ Covered(e) \/ e.cam \in cut
                 \/ e.cam \in pass'.todo
        <3>1. e \in events
            BY <2>1
        <3> QED BY <1>7, <2>1, <2>2, <2>4, <3>1 DEF Aligned, ByCamera
    <2>5. \A x : RowsOf(x)' = RowsOf(x)
        BY <2>2 DEF RowsOf
    <2>6. \A e : Covered(e)' <=> Covered(e)
        BY <2>5 DEF Covered
    <2>7. cut = {}
        BY <1>7, <2>2 DEF Aligned
    <2> QED BY <2>2, <2>3, <2>4, <2>5, <2>6, <2>7 DEF Aligned, ByCamera
<1>8. CASE calm /\ (BeginQuota \/ QuotaFetch \/ QuotaMet)
    BY <1>1, <1>8, BeginQuotaIs, QuotaFetchIs, QuotaMetIs DEF ByCamera, history
<1>9. CASE calm /\ NextVolume
    BY <1>1, <1>9, NextVolumeIs DEF ByCamera, history
<1>10. CASE calm /\ (FloorFetch \/ FloorMet)
    BY <1>1, <1>10, FloorFetchIs, FloorMetIs DEF ByCamera, history
<1>11. CASE calm /\ End
    BY <1>1, <1>11, EndIs, IdleIs DEF ByCamera
<1>12. CASE calm /\ Unlink
    BY <1>1, <1>12, UnlinkIs DEF ByCamera, Deleting, history
<1>13. CASE calm /\ DropRow
    <2>1. /\ events' = events /\ calm' = calm /\ rows' = rows \ {pass.cur}
          /\ pass.stage \in Deleting
          /\ cut' = IF pass.stage \in {"quota", "floor"}
                    THEN cut \cup {pass.cur.cam} ELSE cut
        BY <1>13, DropRowIs
    <2>2. pass'.stage = pass.stage
        BY <1>13, DoneIs
    <2>3. CASE pass.stage \in ByCamera
        BY <1>13, <2>1, <2>2, <2>3 DEF Aligned, ByCamera
    <2>4. CASE pass.stage \in {"quota", "floor"}
        <3>1. ASSUME NEW e \in events
              PROVE  RowsOf(e.cam)' = {} \/ Covered(e)' \/ e.cam \in cut'
            <4>1. RowsOf(e.cam) = {} \/ Covered(e) \/ e.cam \in cut
                BY <1>13, <2>4 DEF Aligned, ByCamera
            <4>2. RowsOf(e.cam) = {} => RowsOf(e.cam)' = {}
                BY <2>1 DEF RowsOf
            <4>3. ASSUME Covered(e) PROVE Covered(e)' \/ e.cam \in cut'
                <5>1. PICK r \in RowsOf(e.cam) : r.ts <= e.ts
                    BY <4>3 DEF Covered
                <5>2. CASE r = pass.cur
                    BY <2>1, <2>4, <5>1, <5>2 DEF RowsOf
                <5>3. CASE r # pass.cur
                    BY <2>1, <5>1, <5>3 DEF RowsOf, Covered
                <5> QED BY <5>2, <5>3
            <4>4. e.cam \in cut => e.cam \in cut'
                BY <2>1
            <4> QED BY <4>1, <4>2, <4>3, <4>4
        <3> QED BY <2>1, <2>2, <2>4, <3>1 DEF Aligned, ByCamera
    <2> QED BY <2>1, <2>3, <2>4 DEF Deleting, ByCamera
<1>14. CASE calm /\ UNCHANGED vars
    BY <1>1, <1>14 DEF vars, history
<1> QED BY <1>2, <1>3, <1>4, <1>5, <1>6, <1>7, <1>8, <1>9, <1>10, <1>11, <1>12, <1>13,
           <1>14, CalmSteps DEF Moves

\* "markers must not outlive the footage they annotate" (retention.py:145): after
\* an undisturbed pass no marker is older than all of its camera's footage, but
\* for cameras that lost footage to the quota or the floor, which are pruned after
\* the markers were aligned.
THEOREM MarkersFollowFootage == Spec => []MarkersAlignedUncut
<1>1. Init => Aligned
    BY DEF Init, Aligned
<1>2. Shape /\ Aligned /\ [Next]_vars => Aligned'
    BY AlignedStep
<1>3. Shape /\ Aligned => MarkersAlignedUncut
    <2> SUFFICES ASSUME Shape, Aligned, pass.stage = "idle", calm, NEW e \in Stranded
                 PROVE  e.cam \in cut
        BY DEF MarkersAlignedUncut
    <2>1. e \in events /\ RowsOf(e.cam) # {} /\ e.ts < FirstTs(e.cam)
        BY DEF Stranded
    <2>2. e.ts \in 0..MaxTime /\ MaxTime \in Nat
        BY <2>1, ConstantsAre DEF Shape, Base
    <2>3. /\ FirstTs(e.cam) \in Nat
          /\ \A s \in RowsOf(e.cam) : FirstTs(e.cam) <= s.ts
        BY <2>1, FirstIs DEF Shape, Base
    <2>4. \A s \in RowsOf(e.cam) : s.ts \in Int
        BY <2>2 DEF Shape, Base, RowsOf, Segments
    <2>5. ~Covered(e)
        BY <2>1, <2>2, <2>3, <2>4 DEF Covered
    <2> QED BY <2>1, <2>5 DEF Aligned, ByCamera
<1> QED BY <1>1, <1>2, <1>3, ShapeAlways, PTL DEF Spec

=============================================================================
