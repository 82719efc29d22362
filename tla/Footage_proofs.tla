--------------------------- MODULE Footage_proofs ---------------------------
(***************************************************************************)
(* Proofs about the segment files and their rows.  The invariants come in  *)
(* layers, each proved from the ones before it: the shape of the state,    *)
(* which segments two threads have met over, who writes what, what the     *)
(* indexer condemns, where the calm segments are whole, what survives.     *)
(***************************************************************************)
EXTENDS Footage, TLAPS

-----------------------------------------------------------------------------
(* The shape of the state. *)

\* What the stages of a thread say about what it keeps.
IndexOK ==
    /\ index.stage \in Holding => index.at \in Paths
    /\ index.stage \notin Holding => index.at = None
MigOK ==
    /\ mig.stage # "idle" => mig.to \in mig.roots
    /\ mig.stage = "idle" => mig.jobs = {}
    /\ \A j \in mig.jobs : j.vol \notin mig.roots
    /\ mig.stage \in Moves => /\ mig.src \in Paths /\ mig.src[2] \notin mig.roots
                              /\ mig.dest = <<mig.src[1], mig.to>>
    /\ mig.stage \notin Moves => mig.src = None
PruneOK ==
    prune.stage # "idle" => prune.row \in Rows /\ prune.row.seg \in doomed
DelOK == del.stage # "idle" => del.cam \in Cameras

\* An id names one segment for good, in the table and in what was read from it.
Named(id, s) == id < nextId /\ \A r \in rows : r.id = id => r.seg = s
Ids ==
    /\ \A j \in mig.jobs : Named(j.id, j.seg)
    /\ mig.stage \in Moves => Named(mig.id, mig.src[1])
    /\ prune.stage # "idle" => Named(prune.row.id, prune.row.seg)
    /\ \A id \in mig.work : id < nextId

Shape == TypeOK /\ IndexOK /\ MigOK /\ PruneOK /\ DelOK /\ Ids

LEMMA PathsAre == \A p \in Paths : p[1] \in Segs /\ p[2] \in Volumes /\ p = <<p[1], p[2]>>
  BY DEF Paths

LEMMA PathOfRow == \A r \in Rows : PathOf(r) \in Paths /\ PathOf(r)[1] = r.seg
                                   /\ PathOf(r)[2] = r.vol /\ Row(r.id, PathOf(r)) = r
  BY DEF Rows, PathOf, Paths, Row

LEMMA RowOfPath ==
  \A p \in Paths, id \in Nat : /\ Row(id, p) \in Rows /\ PathOf(Row(id, p)) = p
                               /\ Row(id, p).id = id /\ Row(id, p).seg = p[1]
                               /\ Row(id, p).vol = p[2]
  BY DEF Rows, PathOf, Paths, Row

LEMMA NonePaths == None \notin Paths /\ None \notin Cameras
  BY FootageAssumption DEF Paths

LEMMA PutType ==
  ASSUME TypeOK, NEW p \in Paths, NEW content \in Contents, NEW when \in Ages,
         Put(p, content, when)
  PROVE  file' \in [Paths -> Contents] /\ age' \in [Paths -> Ages]
  BY DEF Put, TypeOK

LEMMA ShapeInit == Init => Shape
  BY FootageAssumption DEF Init, Shape, TypeOK, IndexOK, MigOK, PruneOK, DelOK,
     Ids, Named, IndexType, MigType, PruneType, DelType, NoIndex, NoMove, NoPrune, NoDelete,
     Holding, Moves, Contents, Ages, Rows

\* What ffmpeg and time do to the shape: nothing but the files change.
LEMMA ShapeFfmpeg ==
  ASSUME Shape, NEW c \in Cameras,
         OpenSegment(c) \/ WriteSegment(c) \/ CloseSegment(c) \/ FfmpegDies(c)
  PROVE  Shape'
<1> USE DEF Shape, TypeOK, IndexOK, MigOK, PruneOK, DelOK, Ids, Named,
            config, ffmpeg, disk, db, threads, history, budget
<1>1. CASE OpenSegment(c)
  BY <1>1, PathsAre DEF OpenSegment, Put, PathsOf, Contents, Ages
<1>2. CASE WriteSegment(c)
  <2>1. writing[c] \in Paths
    BY <1>2, NonePaths DEF WriteSegment
  <2>2. QED
    BY <1>2, <2>1, PutType DEF WriteSegment, Contents, Ages
<1>3. CASE CloseSegment(c)
  BY <1>3, PathsAre DEF CloseSegment, Put, Contents, Ages
<1>4. CASE FfmpegDies(c)
  BY <1>4 DEF FfmpegDies
<1>5. QED
  BY <1>1, <1>2, <1>3, <1>4

\* What only one thread's own state and the files change in.
LEMMA IndexFrame ==
  ASSUME Shape, index' \in IndexType, IndexOK',
         file' \in [Paths -> Contents], age' \in [Paths -> Ages], faults' \in Nat,
         crossed' \subseteq Segs, mistaken' \cup spoiled' \subseteq crossed',
         UNCHANGED <<config, ffmpeg, db, mig, prune, del, done, doomed, edits>>
  PROVE  Shape'
  BY DEF Shape, TypeOK, MigOK, PruneOK, DelOK, Ids, Named, config, ffmpeg, db

LEMMA ContinueType ==
  ASSUME index \in IndexType, index.at \in Paths, NEW stage \in {"files"} \cup Holding,
         Continue(stage)
  PROVE  index' \in IndexType /\ IndexOK' /\ index'.stage = stage
  BY DEF Continue, IndexType, IndexOK, Holding

LEMMA ShapeIndexer ==
  ASSUME Shape, Indexer \/ IndexAborts
  PROVE  Shape'
<1>0. /\ index \in IndexType /\ IndexOK /\ pool \subseteq Volumes /\ cams \subseteq Cameras
      /\ file \in [Paths -> Contents] /\ age \in [Paths -> Ages] /\ faults \in Nat
      /\ crossed \subseteq Segs /\ mistaken \cup spoiled \subseteq crossed
  BY DEF Shape, TypeOK
<1> USE DEF disk, history, budget
<1>1. CASE IndexBegin
  <2>1. index' \in IndexType /\ IndexOK'
    BY <1>0, <1>1, NonePaths DEF IndexBegin, NoIndex, IndexType, IndexOK, Holding
  <2>2. QED
    BY <1>0, <1>1, <2>1, IndexFrame DEF IndexBegin
<1>2. CASE IndexCamera
  <2>1. PICK c \in index.cams :
          index' = [index EXCEPT !.stage = "volumes", !.cams = @ \ {c}, !.cam = c,
                                 !.known = Known \cap PathsOf(c), !.vols = pool]
    BY <1>2 DEF IndexCamera
  <2>2. c \in Cameras /\ Known \cap PathsOf(c) \subseteq Paths
    BY <1>0 DEF PathsOf, IndexType
  <2>3. index' \in IndexType /\ IndexOK'
    BY <1>0, <1>2, <2>1, <2>2 DEF IndexCamera, IndexType, IndexOK, Holding
  <2>4. QED
    BY <1>0, <1>2, <2>3, IndexFrame DEF IndexCamera
<1>3. CASE IndexList
  <2>1. PICK v \in index.vols, todo \in SUBSET Paths :
          index' = [index EXCEPT !.stage = "files", !.vols = @ \ {v}, !.todo = todo]
    BY <1>3 DEF IndexList, PathsOf
  <2>2. index' \in IndexType /\ IndexOK'
    BY <1>0, <1>3, <2>1 DEF IndexList, IndexType, IndexOK, Holding
  <2>3. QED
    BY <1>0, <1>3, <2>2, IndexFrame DEF IndexList
<1>4. CASE IndexStat
  <2>1. index' \in IndexType /\ IndexOK'
    <3>1. PICK p \in index.todo :
            \/ index' = [index EXCEPT !.todo = index.todo \ {p}]
            \/ \E stage \in {"probe", "probe old"} :
                 index' = [index EXCEPT !.todo = index.todo \ {p}, !.at = p, !.stage = stage]
      BY <1>4 DEF IndexStat
    <3>2. p \in Paths /\ index.stage = "files"
      BY <1>0, <1>4 DEF IndexStat, IndexType
    <3>3. QED
      BY <1>0, <3>1, <3>2 DEF IndexType, IndexOK, Holding
  <2>2. file' \in [Paths -> Contents] /\ age' \in [Paths -> Ages]
    BY <1>0, <1>4 DEF IndexStat, Remove, Put, Contents, Ages, IndexType
  <2>3. crossed' \subseteq Segs /\ crossed \subseteq crossed'
    BY <1>0, <1>4 DEF IndexStat, Meet
  <2>4. QED
    BY <1>0, <1>4, <2>1, <2>2, <2>3, IndexFrame DEF IndexStat
<1>5. CASE Probe
  <2>1. index.at \in Paths
    BY <1>0, <1>5 DEF Probe, IndexOK, Holding
  <2>2. index' \in IndexType /\ IndexOK'
    BY <1>0, <1>5, <2>1, ContinueType DEF Probe, Holding
  <2>3. faults' \in {faults, faults + 1}
    BY <1>5 DEF Probe
  <2>4. UNCHANGED <<config, ffmpeg, disk, db, mig, prune, del, history, edits>>
    BY <1>5 DEF Probe
  <2>5. QED
    BY <1>0, <2>2, <2>3, <2>4, IndexFrame
<1>6. CASE Condemn
  <2>1. index.at \in Paths
    BY <1>0, <1>6 DEF Condemn, IndexOK, Holding
  <2>2. index' \in IndexType /\ IndexOK'
    BY <1>0, <1>6, <2>1, ContinueType DEF Condemn
  <2>3. file' \in [Paths -> Contents] /\ age' \in [Paths -> Ages]
    BY <1>0, <1>6, <2>1 DEF Condemn, Remove, Put, Contents, Ages
  <2>4. QED
    BY <1>0, <1>6, <2>2, <2>3, IndexFrame DEF Condemn
<1>7. CASE Add
  <2>1. index.at \in Paths
    BY <1>0, <1>7 DEF Add, IndexOK, Holding
  <2>2. index' \in IndexType /\ IndexOK'
    BY <1>0, <1>7, <2>1, ContinueType DEF Add
  <2>3. CASE index.at \in Known
    BY <1>0, <1>7, <2>2, <2>3, IndexFrame DEF Add, db
  <2>4. CASE index.at \notin Known
    <3>1. rows' = rows \cup {Row(nextId, index.at)} /\ nextId' = nextId + 1
      BY <1>7, <2>4 DEF Add
    <3>2. nextId \in Nat \ {0} /\ rows \subseteq Rows /\ \A r \in rows : r.id < nextId
      BY DEF Shape, TypeOK
    <3>3. Row(nextId, index.at) \in Rows /\ Row(nextId, index.at).id = nextId
          /\ PathOf(Row(nextId, index.at)) = index.at
      BY <2>1, <3>2, RowOfPath
    <3>4. rows' \subseteq Rows /\ nextId' \in Nat \ {0} /\ \A r \in rows' : r.id < nextId'
      BY <3>1, <3>2, <3>3 DEF Rows
    <3>5. \A r, q \in rows' : r.id = q.id \/ PathOf(r) = PathOf(q) => r = q
      <4>1. \A r \in rows : r.id # nextId /\ PathOf(r) # index.at
        BY <2>4, <3>2 DEF Known, Rows
      <4>2. QED
        BY <3>1, <3>3, <4>1 DEF Shape, TypeOK
    <3>6. UNCHANGED <<config, ffmpeg, disk, cams, mig, prune, del, history, budget>>
      BY <1>7 DEF Add
    <3>7. Ids'
      <4>1. \A id, s : id \in Nat /\ Named(id, s) => Named(id, s)'
        BY <3>1, <3>2, <3>3 DEF Named
      <4>2. mig.id \in Nat /\ mig.work \subseteq Nat /\ \A j \in mig.jobs : j.id \in Nat
        BY DEF Shape, TypeOK, MigType, Rows
      <4>3. prune.stage # "idle" => prune.row.id \in Nat
        BY DEF Shape, PruneOK, Rows
      <4>4. \A id \in mig.work : id < nextId'
        BY <3>1, <3>2, <4>2 DEF Shape, Ids
      <4>5. QED
        BY <3>6, <4>1, <4>2, <4>3, <4>4 DEF Ids, Shape
    <3>8. QED
      BY <2>2, <3>4, <3>5, <3>6, <3>7 DEF Shape, TypeOK, MigOK, PruneOK, DelOK, config, ffmpeg
  <2>5. QED
    BY <2>3, <2>4
<1>8. CASE IndexNext
  <2>1. index' \in IndexType /\ IndexOK'
    <3>1. CASE index' = NoIndex
      BY <3>1, NonePaths DEF NoIndex, IndexType, IndexOK, Holding
    <3>2. CASE index' # NoIndex
      BY <1>0, <1>8, <3>2 DEF IndexNext, IndexType, IndexOK, Holding
    <3>3. QED
      BY <3>1, <3>2
  <2>2. QED
    BY <1>0, <1>8, <2>1, IndexFrame DEF IndexNext
<1>9. CASE IndexAborts
  <2>1. index' \in IndexType /\ IndexOK'
    BY <1>9, NonePaths DEF IndexAborts, NoIndex, IndexType, IndexOK, Holding
  <2>2. QED
    BY <1>0, <1>9, <2>1, IndexFrame DEF IndexAborts
<1>10. QED
  BY <1>1, <1>2, <1>3, <1>4, <1>5, <1>6, <1>7, <1>8, <1>9 DEF Indexer

LEMMA MigFrame ==
  ASSUME Shape, mig' \in MigType, MigOK',
         \A j \in mig'.jobs : j \in mig.jobs \/ Named(j.id, j.seg),
         mig'.stage \in Moves => Named(mig'.id, mig'.src[1]),
         \A id \in mig'.work : id < nextId,
         file' \in [Paths -> Contents], age' \in [Paths -> Ages], edits' \in Nat,
         faults' \in Nat, crossed' \subseteq Segs, mistaken' \cup spoiled' \subseteq crossed',
         UNCHANGED <<config, ffmpeg, db, index, prune, del, done, doomed>>
  PROVE  Shape'
<1> USE DEF config, ffmpeg, db
<1>1. Ids'
  BY DEF Shape, Ids, Named
<1>2. QED
  BY <1>1 DEF Shape, TypeOK, IndexOK, PruneOK, DelOK

\* A move given up leaves the shape of the thread's state.
LEMMA AnotherMoveType ==
  ASSUME mig \in MigType, MigOK, mig.stage # "idle"
  PROVE  /\ AnotherMove(mig) \in MigType
         /\ AnotherMove(mig) = [mig EXCEPT !.stage = "next", !.id = 0, !.src = None,
                                           !.dest = None]
         /\ mig' = AnotherMove(mig) \/ MoveFailed =>
               /\ mig' \in MigType /\ MigOK' /\ mig'.stage = "next" /\ mig'.jobs = mig.jobs
               /\ mig'.work = mig.work /\ mig'.src = None /\ mig'.roots = mig.roots
         /\ MoveFailed => mig'.failed = mig.failed + 1
         /\ mig' = AnotherMove(mig) => mig'.failed = mig.failed
<1>1. AnotherMove(mig) \in MigType
  BY NonePaths DEF AnotherMove, MigType, Moves
<1>2. MoveFailed => mig' = [mig EXCEPT !.stage = "next", !.id = 0, !.src = None,
                                       !.dest = None, !.failed = mig.failed + 1]
  BY DEF MoveFailed, AnotherMove, MigType
<1>3. AnotherMove(mig) = [mig EXCEPT !.stage = "next", !.id = 0, !.src = None,
                                     !.dest = None]
  BY DEF AnotherMove
<1>4. ASSUME mig' = AnotherMove(mig) \/ MoveFailed
      PROVE  /\ mig' \in MigType /\ mig'.stage = "next" /\ mig'.jobs = mig.jobs
             /\ mig'.work = mig.work /\ mig'.src = None /\ mig'.roots = mig.roots
             /\ mig'.to = mig.to
  <2>1. CASE mig' = AnotherMove(mig)
    BY <1>1, <1>3, <2>1 DEF MigType
  <2>2. CASE MoveFailed
    <3>1. mig' = [stage |-> "next", jobs |-> mig.jobs, roots |-> mig.roots, to |-> mig.to,
                  id |-> 0, src |-> None, dest |-> None, work |-> mig.work,
                  failed |-> mig.failed + 1]
      BY <1>2, <2>2 DEF MigType
    <3>2. QED
      BY <3>1 DEF MigType
  <2>3. QED
    BY <1>4, <2>1, <2>2
<1>5. MigOK /\ mig'.stage = "next" /\ mig'.jobs = mig.jobs /\ mig'.src = None
      /\ mig'.roots = mig.roots /\ mig'.to = mig.to => MigOK'
  BY DEF MigOK, Moves
<1>6. /\ MoveFailed => mig'.failed = mig.failed + 1
      /\ mig' = AnotherMove(mig) => mig'.failed = mig.failed
  BY <1>2, <1>3 DEF MigType
<1>7. QED
  BY <1>1, <1>3, <1>4, <1>5, <1>6

\* The stage of a move advances, and nothing else of the thread changes.
LEMMA StageType ==
  ASSUME mig \in MigType, MigOK, mig.stage \in Moves, NEW stage \in Moves,
         mig' = [mig EXCEPT !.stage = stage]
  PROVE  /\ mig' \in MigType /\ MigOK' /\ mig'.stage = stage /\ mig'.src = mig.src
         /\ mig'.dest = mig.dest /\ mig'.jobs = mig.jobs /\ mig'.work = mig.work
         /\ mig'.id = mig.id /\ mig'.failed = mig.failed /\ mig'.roots = mig.roots
  BY DEF MigType, MigOK, Moves

LEMMA DestIsPath ==
  ASSUME Shape, mig.stage \in Moves
  PROVE  /\ mig.src \in Paths /\ mig.dest \in Paths /\ mig.src # mig.dest
         /\ mig.src[1] \in Segs /\ mig.dest[1] = mig.src[1] /\ mig.src[2] # mig.dest[2]
         /\ mig.dest[2] \in mig.roots
  BY PathsAre DEF Shape, TypeOK, MigOK, MigType, Paths, Moves

\* The update renames one row at most, and keeps its id and its segment.
Renamed(r) == IF r.id = mig.id THEN Row(r.id, mig.dest) ELSE r

LEMMA RenamedRow ==
  ASSUME Shape, mig.stage = "update", NEW r \in rows
  PROVE  /\ Renamed(r) \in Rows /\ Renamed(r).id = r.id /\ Renamed(r).seg = r.seg
         /\ r.id # mig.id => Renamed(r) = r
         /\ r.id = mig.id => /\ r.seg = mig.src[1] /\ PathOf(Renamed(r)) = mig.dest
                             /\ Renamed(r).vol \in mig.roots
<1>1. r \in Rows /\ mig.stage \in Moves
  BY DEF Shape, TypeOK, Moves
<1>2. mig.dest \in Paths /\ mig.dest[1] = mig.src[1] /\ mig.dest[2] \in mig.roots
  BY <1>1, DestIsPath
<1>3. r.id = mig.id => r.seg = mig.src[1]
  BY <1>1 DEF Shape, Ids, Named
<1>4. QED
  BY <1>1, <1>2, <1>3, RowOfPath DEF Renamed, Rows

LEMMA ShapeUpdate ==
  ASSUME Shape, UpdatePath, mig.dest \notin Known
  PROVE  Shape'
<1>1. /\ mig \in MigType /\ MigOK /\ mig.stage = "update" /\ rows \subseteq Rows
      /\ \A r, q \in rows : r.id = q.id \/ PathOf(r) = PathOf(q) => r = q
      /\ \A r \in rows : r.id < nextId
  BY DEF Shape, TypeOK, UpdatePath
<1>2. rows' = {Renamed(r) : r \in rows} /\ mig' = AnotherMove(mig)
  BY DEF UpdatePath, Renamed
<1>3. UNCHANGED <<config, ffmpeg, disk, cams, nextId, index, prune, del, history, budget>>
  BY DEF UpdatePath
<1>4. /\ mig' \in MigType /\ MigOK' /\ mig'.stage = "next" /\ mig'.jobs = mig.jobs
      /\ mig'.work = mig.work
  BY <1>1, <1>2, AnotherMoveType
<1>5. rows' \subseteq Rows /\ \A r \in rows' : r.id < nextId
  BY <1>1, <1>2, RenamedRow
<1>6. ASSUME NEW r \in rows, NEW q \in rows,
             Renamed(r).id = Renamed(q).id \/ PathOf(Renamed(r)) = PathOf(Renamed(q))
      PROVE  Renamed(r) = Renamed(q)
  <2>1. CASE r.id = q.id
    BY <1>1, <2>1
  <2>2. CASE r.id # q.id
    <3>1. PathOf(Renamed(r)) = PathOf(Renamed(q))
      BY <1>1, <1>6, <2>2, RenamedRow
    <3>2. PathOf(r) # mig.dest /\ PathOf(q) # mig.dest
      BY DEF Known
    <3>3. QED
      BY <1>1, <2>2, <3>1, <3>2, RenamedRow
  <2>3. QED
    BY <2>1, <2>2
<1>7. \A r, q \in rows' : r.id = q.id \/ PathOf(r) = PathOf(q) => r = q
  BY <1>2, <1>6
<1>8. \A id, s : Named(id, s) => Named(id, s)'
  BY <1>1, <1>2, <1>3, RenamedRow DEF Named
<1>9. Ids'
  BY <1>3, <1>4, <1>8 DEF Shape, Ids, Moves
<1>10. QED
  BY <1>3, <1>4, <1>5, <1>7, <1>9
  DEF Shape, TypeOK, IndexOK, PruneOK, DelOK, config, ffmpeg, disk, history, budget

LEMMA ShapeMigrator ==
  ASSUME Shape, Migrator
  PROVE  Shape'
<1>0. /\ mig \in MigType /\ MigOK /\ Ids /\ pool \subseteq Volumes /\ primary \in pool
      /\ file \in [Paths -> Contents] /\ age \in [Paths -> Ages] /\ faults \in Nat
      /\ edits \in Nat /\ rows \subseteq Rows /\ nextId \in Nat \ {0}
      /\ \A r \in rows : r.id < nextId
      /\ \A r, q \in rows : r.id = q.id => r = q
      /\ crossed \subseteq Segs /\ mistaken \cup spoiled \subseteq crossed
  BY DEF Shape, TypeOK
<1> USE DEF disk, history, budget
<1>1. CASE MigrateStart
  <2> DEFINE stranded == {r \in rows : r.vol \notin pool}
             ids == {r.id : r \in stranded}
  <2>1. mig' = [NoMove EXCEPT !.stage = "next", !.roots = pool, !.to = primary,
                              !.jobs = stranded, !.work = ids]
    BY <1>1 DEF MigrateStart
  <2>2. ids \subseteq Nat /\ stranded \subseteq Rows
    BY <1>0 DEF Rows
  <2>3. mig' \in MigType /\ MigOK' /\ mig'.jobs = stranded /\ mig'.work = ids
    <3> HIDE DEF stranded, ids
    <3>1. mig' = [stage |-> "next", jobs |-> stranded, roots |-> pool, to |-> primary,
                  id |-> 0, src |-> None, dest |-> None, work |-> ids, failed |-> 0]
      BY <2>1 DEF NoMove
    <3>2. \A r \in stranded : r.vol \notin pool
      BY DEF stranded
    <3>3. QED
      BY <1>0, <2>2, <3>1, <3>2 DEF MigType, MigOK, Moves
  <2>4. \A j \in mig'.jobs : Named(j.id, j.seg)
    BY <1>0, <2>3 DEF Named
  <2>5. \A id \in mig'.work : id < nextId
    BY <1>0, <2>3
  <2>6. crossed' \subseteq Segs /\ crossed \subseteq crossed'
    BY <1>0, <1>1 DEF MigrateStart, Meet
  <2>7. mig'.stage \notin Moves
    BY <2>1 DEF NoMove, Moves
  <2>8. QED
    BY <1>0, <1>1, <2>3, <2>4, <2>5, <2>6, <2>7, MigFrame DEF MigrateStart
<1>2. CASE MigrateNext
  <2>1. PICK j \in mig.jobs :
          mig' = IF file[PathOf(j)] = "none"
                 THEN [mig EXCEPT !.jobs = @ \ {j}]
                 ELSE [mig EXCEPT !.jobs = @ \ {j}, !.stage = "move", !.id = j.id,
                                  !.src = PathOf(j), !.dest = <<j.seg, mig.to>>]
    BY <1>2 DEF MigrateNext
  <2>2. j \in Rows /\ PathOf(j) \in Paths /\ PathOf(j)[1] = j.seg /\ PathOf(j)[2] = j.vol
    BY <1>0, PathOfRow DEF MigType
  <2>3. mig.to \in Volumes /\ <<j.seg, mig.to>> \in Paths
    BY <1>0, <1>2, <2>2 DEF MigrateNext, MigType, MigOK, Paths, Rows
  <2>4. mig' \in MigType /\ MigOK' /\ mig'.jobs \subseteq mig.jobs /\ mig'.work = mig.work
        /\ (mig'.stage \in Moves => mig'.id = j.id /\ mig'.src[1] = j.seg)
    BY <1>0, <1>2, <2>1, <2>2, <2>3, NonePaths DEF MigrateNext, MigType, MigOK, Moves, Rows
  <2>5. crossed' \subseteq Segs /\ crossed \subseteq crossed'
    BY <1>0, <1>2 DEF MigrateNext, Meet
  <2>6. QED
    BY <1>0, <1>2, <2>4, <2>5, MigFrame DEF MigrateNext, Ids
<1>3. CASE MoveFindsNothing
  BY <1>0, <1>3, AnotherMoveType, MigFrame DEF MoveFindsNothing, Ids, Moves
<1>4. CASE Rename
  <2>1. mig.src \in Paths /\ mig.dest \in Paths /\ mig.stage \in Moves
    BY <1>4, DestIsPath DEF Rename, Moves
  <2>2. file' \in [Paths -> Contents] /\ age' \in [Paths -> Ages]
    BY <1>0, <1>4, <2>1 DEF Rename, Contents, Ages
  <2>3. mig' = [mig EXCEPT !.stage = "update"] /\ mistaken' \cup spoiled' \subseteq crossed'
    BY <1>0, <1>4 DEF Rename, Spoil
  <2>4. QED
    BY <1>0, <1>4, <2>1, <2>2, <2>3, StageType, MigFrame DEF Rename, Ids, Moves
<1>5. CASE Copy
  <2>1. mig.src \in Paths /\ mig.dest \in Paths /\ mig.stage \in Moves
    BY <1>5, DestIsPath DEF Copy, Moves
  <2>2. file' \in [Paths -> Contents] /\ age' \in [Paths -> Ages]
    BY <1>0, <1>5, <2>1 DEF Copy, Put, Contents, Ages
  <2>3. mig' = [mig EXCEPT !.stage = "copy"] /\ mistaken' \cup spoiled' \subseteq crossed'
    BY <1>0, <1>5 DEF Copy, Spoil
  <2>4. QED
    BY <1>0, <1>5, <2>1, <2>2, <2>3, StageType, MigFrame DEF Copy, Ids, Moves
<1>6. CASE CopyMore
  <2>1. mig.dest \in Paths
    BY <1>6, DestIsPath DEF CopyMore, Moves
  <2>2. file' \in [Paths -> Contents] /\ age' \in [Paths -> Ages]
    BY <1>0, <1>6, <2>1 DEF CopyMore, Put, Contents, Ages
  <2>3. QED
    BY <1>0, <1>6, <2>2, MigFrame DEF CopyMore, Ids, threads, MigOK
<1>7. CASE Copied
  <2>1. mig.src \in Paths /\ mig.dest \in Paths /\ mig.stage \in Moves
    BY <1>7, DestIsPath DEF Copied, Moves
  <2>2. file' \in [Paths -> Contents] /\ age' \in [Paths -> Ages]
    BY <1>0, <1>7, <2>1 DEF Copied, Put, Contents, Ages
  <2>3. MoveFailed \/ mig' = [mig EXCEPT !.stage = "unlink"]
    BY <1>7 DEF Copied
  <2>4. QED
    BY <1>0, <1>7, <2>1, <2>2, <2>3, AnotherMoveType, StageType, MigFrame
    DEF Copied, Ids, Moves
<1>8. CASE CopyFails
  BY <1>0, <1>8, AnotherMoveType, MigFrame DEF CopyFails, Ids, Moves
<1>9. CASE UnlinkSource
  <2>1. mig.src \in Paths /\ mig.dest \in Paths /\ mig.stage \in Moves
    BY <1>9, DestIsPath DEF UnlinkSource, Moves
  <2>2. file' \in [Paths -> Contents] /\ age' \in [Paths -> Ages]
    BY <1>0, <1>9, <2>1 DEF UnlinkSource, Remove, Put, Contents, Ages
  <2>3. MoveFailed \/ mig' = [mig EXCEPT !.stage = "update"]
    BY <1>9 DEF UnlinkSource
  <2>4. QED
    BY <1>0, <1>9, <2>1, <2>2, <2>3, AnotherMoveType, StageType, MigFrame
    DEF UnlinkSource, Ids, Moves
<1>10. CASE UpdatePath
  <2>1. CASE mig.dest \in Known
    <3>1. MoveFailed /\ UNCHANGED rows /\ mig.stage = "update"
      BY <1>10, <2>1 DEF UpdatePath
    <3>2. UNCHANGED <<config, ffmpeg, db, disk, index, prune, del, history, budget>>
      BY <1>10, <3>1 DEF UpdatePath, db
    <3>3. QED
      BY <1>0, <3>1, <3>2, AnotherMoveType, MigFrame DEF Ids, Moves
  <2>2. QED
    BY <1>10, <2>1, ShapeUpdate
<1>11. CASE MigrateEnd
  <2>1. mig' = NoMove
    BY <1>11 DEF MigrateEnd
  <2>2. mig' \in MigType /\ MigOK'
    BY <2>1, NonePaths DEF NoMove, MigType, MigOK, Moves
  <2>3. QED
    BY <1>0, <1>11, <2>1, <2>2, MigFrame DEF MigrateEnd, NoMove, Moves
<1>12. QED
  BY <1>1, <1>2, <1>3, <1>4, <1>5, <1>6, <1>7, <1>8, <1>9, <1>10, <1>11
  DEF Migrator

LEMMA ShapePrune ==
  ASSUME Shape, Prune
  PROVE  Shape'
<1>0. /\ prune \in PruneType /\ PruneOK /\ Ids /\ rows \subseteq Rows
      /\ file \in [Paths -> Contents] /\ age \in [Paths -> Ages] /\ edits \in Nat
      /\ \A r \in rows : r.id < nextId
      /\ \A r, q \in rows : r.id = q.id \/ PathOf(r) = PathOf(q) => r = q
      /\ crossed \subseteq Segs /\ doomed \subseteq Segs
      /\ mistaken \cup spoiled \subseteq crossed
  BY DEF Shape, TypeOK
<1> USE DEF Shape, TypeOK, MigOK, DelOK, IndexOK, config, ffmpeg, disk, db, history, budget
<1>1. CASE PruneBegin
  <2>1. PICK r \in rows : prune' = [stage |-> "unlink", row |-> r]
                          /\ doomed' = doomed \cup {r.seg}
    BY <1>1 DEF PruneBegin
  <2>2. prune' \in PruneType /\ PruneOK' /\ doomed' \subseteq Segs
    BY <1>0, <2>1 DEF PruneType, PruneOK, Rows
  <2>3. Named(r.id, r.seg)
    BY <1>0, <2>1 DEF Named
  <2>4. crossed' \subseteq Segs /\ crossed \subseteq crossed'
    BY <1>0, <1>1 DEF PruneBegin, Meet
  <2>5. UNCHANGED <<config, ffmpeg, disk, db, index, mig, del, done, mistaken, spoiled,
                    faults>> /\ edits' \in Nat
    BY <1>0, <1>1 DEF PruneBegin
  <2>6. Ids'
    BY <1>0, <2>1, <2>3, <2>5 DEF Ids, Named
  <2>7. QED
    BY <1>0, <2>2, <2>4, <2>5, <2>6
<1>2. CASE PruneUnlink
  <2>1. prune.row \in Rows /\ PathOf(prune.row) \in Paths
    BY <1>0, <1>2, PathOfRow DEF PruneUnlink, PruneOK
  <2>2. file' \in [Paths -> Contents] /\ age' \in [Paths -> Ages]
    BY <1>0, <1>2, <2>1 DEF PruneUnlink, Remove, Put, Contents, Ages
  <2>3. prune' \in PruneType /\ prune'.row = prune.row /\ prune.stage # "idle"
    BY <1>0, <1>2 DEF PruneUnlink, PruneType
  <2>4. UNCHANGED <<config, ffmpeg, db, index, mig, del, history, budget>>
    BY <1>2 DEF PruneUnlink
  <2>5. Ids' /\ PruneOK'
    BY <1>0, <2>3, <2>4 DEF Ids, Named, PruneOK
  <2>6. QED
    BY <2>2, <2>3, <2>4, <2>5
<1>3. CASE PruneRow
  <2>1. rows' \subseteq rows /\ prune' = NoPrune
    BY <1>3 DEF PruneRow
  <2>2. UNCHANGED <<config, ffmpeg, disk, cams, nextId, index, mig, del, history, budget>>
    BY <1>3 DEF PruneRow
  <2>3. prune' \in PruneType /\ PruneOK' /\ prune'.stage = "idle"
    BY <2>1 DEF NoPrune, PruneType, PruneOK
  <2>4. Ids'
    BY <1>0, <2>1, <2>2, <2>3 DEF Ids, Named
  <2>5. QED
    BY <1>0, <2>1, <2>2, <2>3, <2>4
<1>4. QED
  BY <1>1, <1>2, <1>3 DEF Prune

LEMMA ShapeDelete ==
  ASSUME Shape, Delete
  PROVE  Shape'
<1>0. /\ del \in DelType /\ DelOK /\ Ids /\ rows \subseteq Rows /\ cams \subseteq Cameras
      /\ file \in [Paths -> Contents] /\ age \in [Paths -> Ages] /\ edits \in Nat
      /\ \A r \in rows : r.id < nextId
      /\ \A r, q \in rows : r.id = q.id \/ PathOf(r) = PathOf(q) => r = q
      /\ crossed \subseteq Segs /\ doomed \subseteq Segs
      /\ mistaken \cup spoiled \subseteq crossed
  BY DEF Shape, TypeOK
<1> USE DEF Shape, TypeOK, MigOK, PruneOK, IndexOK, config, ffmpeg, disk, db, history, budget
<1>1. ASSUME NEW c \in Cameras, NEW purge \in BOOLEAN, DeleteBegin(c, purge)
      PROVE  Shape'
  <2>1. del' \in DelType /\ DelOK'
    BY <1>1 DEF DeleteBegin, DelType, DelOK
  <2>2. file' \in [Paths -> Contents] /\ age' \in [Paths -> Ages]
    BY <1>0, <1>1 DEF DeleteBegin, Contents, Ages
  <2>3. doomed \subseteq doomed' /\ doomed' \subseteq Segs
    BY <1>0, <1>1 DEF DeleteBegin
  <2>4. crossed' \subseteq Segs /\ crossed \subseteq crossed'
    BY <1>0, <1>1 DEF DeleteBegin, Meet
  <2>5. UNCHANGED <<config, ffmpeg, db, index, mig, prune, done, mistaken, spoiled, faults>>
        /\ edits' \in Nat
    BY <1>0, <1>1 DEF DeleteBegin
  <2>6. Ids'
    BY <1>0, <2>5 DEF Ids, Named
  <2>7. QED
    BY <1>0, <2>1, <2>2, <2>3, <2>4, <2>5, <2>6
<1>2. CASE DeleteCamera
  <2>1. del' \in DelType /\ DelOK' /\ cams' \subseteq Cameras
    BY <1>0, <1>2 DEF DeleteCamera, DelType, DelOK
  <2>2. UNCHANGED <<config, ffmpeg, disk, rows, nextId, index, mig, prune, history, budget>>
    BY <1>2 DEF DeleteCamera
  <2>3. Ids'
    BY <1>0, <2>2 DEF Ids, Named
  <2>4. QED
    BY <2>1, <2>2, <2>3
<1>3. CASE DeleteSegments
  <2>1. del' \in DelType /\ DelOK' /\ rows' \subseteq rows
    BY <1>0, <1>3 DEF DeleteSegments, DelType, DelOK
  <2>2. UNCHANGED <<config, ffmpeg, disk, cams, nextId, index, mig, prune, history, budget>>
    BY <1>3 DEF DeleteSegments
  <2>3. Ids'
    BY <1>0, <2>1, <2>2 DEF Ids, Named
  <2>4. QED
    BY <1>0, <2>1, <2>2, <2>3
<1>4. CASE DeleteSync
  <2>1. del' \in DelType /\ DelOK'
    BY <1>4, NonePaths DEF DeleteSync, NoDelete, DelType, DelOK
  <2>2. UNCHANGED <<config, writing, disk, db, index, mig, prune, history, budget>>
        /\ live' \subseteq live
    BY <1>4 DEF DeleteSync
  <2>3. Ids'
    BY <1>0, <2>2 DEF Ids, Named
  <2>4. QED
    BY <2>1, <2>2, <2>3
<1>5. QED
  BY <1>1, <1>2, <1>3, <1>4 DEF Delete

LEMMA ShapeRest ==
  ASSUME Shape,
         \/ \E p \in Paths : GrowOld(p)
         \/ \E vols \in SUBSET Volumes \ {{}} : \E first \in vols : SetPool(vols, first)
         \/ Crash
         \/ UNCHANGED vars
  PROVE  Shape'
<1> USE DEF Shape, TypeOK, config, ffmpeg, disk, db, threads, history, budget
<1>1. ASSUME NEW p \in Paths, GrowOld(p)
      PROVE  Shape'
  BY <1>1 DEF GrowOld, Ages, MigOK, PruneOK, DelOK, IndexOK, Ids, Named
<1>2. ASSUME NEW vols \in SUBSET Volumes, NEW first \in vols, SetPool(vols, first)
      PROVE  Shape'
  BY <1>2 DEF SetPool, MigOK, PruneOK, DelOK, IndexOK, Ids, Named
<1>3. CASE Crash
  <2>1. index' \in IndexType /\ IndexOK' /\ mig' \in MigType /\ MigOK'
    BY <1>3, NonePaths DEF Crash, NoIndex, NoMove, IndexType, IndexOK, MigType, MigOK,
       Holding, Moves
  <2>2. prune' \in PruneType /\ PruneOK' /\ del' \in DelType /\ DelOK'
    BY <1>3 DEF Crash, NoPrune, NoDelete, PruneType, PruneOK, DelType, DelOK
  <2>3. Ids'
    BY <1>3 DEF Crash, NoMove, NoPrune, Ids, Moves
  <2>4. crossed' \subseteq Segs /\ crossed \subseteq crossed'
    BY <1>3 DEF Crash, InHand
  <2>5. writing' \in [Cameras -> Paths \cup {None}] /\ live' \subseteq Cameras
        /\ faults' \in Nat
    BY <1>3 DEF Crash
  <2>6. UNCHANGED <<config, disk, db, done, doomed, mistaken, spoiled, edits>>
    BY <1>3 DEF Crash
  <2>7. QED
    BY <2>1, <2>2, <2>3, <2>4, <2>5, <2>6
<1>4. CASE UNCHANGED vars
  BY <1>4 DEF vars, MigOK, PruneOK, DelOK, IndexOK, Ids, Named
<1>5. QED
  BY <1>1, <1>2, <1>3, <1>4

LEMMA ShapeNext == Shape /\ [Next]_vars => Shape'
  BY ShapeFfmpeg, ShapeIndexer, ShapeMigrator, ShapePrune, ShapeDelete, ShapeRest
  DEF Next, Ffmpeg

LEMMA ShapeAlways == Spec => []Shape
  BY ShapeInit, ShapeNext, PTL DEF Spec

\* Every variable of the files, the table, the recorders and the four threads
\* stays in its range, and no two rows share an id or a path.
THEOREM TypeInvariant == Spec => []TypeOK
<1>1. Shape => TypeOK
  BY DEF Shape
<1>2. QED
  BY <1>1, ShapeAlways, PTL

-----------------------------------------------------------------------------
(* What the steps of the indexer and of the migration leave, as the layers below *)
(* need it.                                                                      *)

\* The steps between two files look at nothing and hold nothing.
Scan == IndexBegin \/ IndexCamera \/ IndexList \/ IndexNext \/ IndexAborts

LEMMA ScanStep ==
  ASSUME Shape, Scan
  PROVE  /\ index'.at = None /\ index'.stage \notin Holding
         /\ UNCHANGED <<pool, primary, live, writing, file, age, cams, rows, nextId, mig,
                        prune, del, done, doomed, crossed, mistaken, spoiled>>
<1>0. index \in IndexType /\ IndexOK
  BY DEF Shape, TypeOK
<1>1. UNCHANGED <<pool, primary, live, writing, file, age, cams, rows, nextId, mig,
                  prune, del, done, doomed, crossed, mistaken, spoiled>>
  BY DEF Scan, IndexBegin, IndexCamera, IndexList, IndexNext, IndexAborts, config, ffmpeg,
     disk, db, history
<1>2. CASE index' = NoIndex
  BY <1>1, <1>2 DEF NoIndex, Holding
<1>3. CASE IndexBegin
  <2>1. index'.at = None /\ index'.stage = "cameras"
    BY <1>3 DEF IndexBegin, NoIndex
  <2>2. QED
    BY <1>1, <2>1 DEF Holding
<1>4. CASE IndexCamera \/ IndexList
  <2>1. index'.at = index.at /\ index'.stage \in {"volumes", "files"}
        /\ index.stage \notin Holding
    BY <1>0, <1>4 DEF IndexCamera, IndexList, IndexType, Holding
  <2>2. QED
    BY <1>0, <1>1, <2>1 DEF IndexOK, Holding
<1>5. CASE IndexNext /\ index' # NoIndex
  <2>1. index'.at = index.at /\ index'.stage \in {"volumes", "cameras"}
        /\ index.stage \notin Holding
    BY <1>0, <1>5 DEF IndexNext, IndexType, Holding
  <2>2. QED
    BY <1>0, <1>1, <2>1 DEF IndexOK, Holding
<1>6. CASE IndexAborts
  BY <1>1, <1>2, <1>6 DEF IndexAborts
<1>7. QED
  BY <1>1, <1>2, <1>3, <1>4, <1>5, <1>6 DEF Scan

\* A file is taken, and may be an empty one that is removed at once.
LEMMA StatStep ==
  ASSUME Shape, IndexStat
  PROVE  /\ index'.stage \in {"files", "probe", "probe old"}
         /\ index'.stage # "files" => /\ index'.at \in Paths /\ UNCHANGED file
                                      /\ file[index'.at] \in {"open", "good"}
         /\ index'.stage = "probe old" => age[index'.at] = "old"
         /\ UNCHANGED <<file, age>> \/ \E p \in Paths : file[p] = "empty" /\ Remove(p)
         /\ Meet /\ UNCHANGED <<writing, rows, nextId, mig, prune, del, done, doomed, mistaken,
                                spoiled>>
<1>0. index \in IndexType /\ IndexOK
  BY DEF Shape, TypeOK
<1>1. Meet /\ UNCHANGED <<writing, rows, nextId, mig, prune, del, done, doomed, mistaken,
                          spoiled>>
  BY DEF IndexStat, ffmpeg, db
<1>2. PICK p \in index.todo :
        \/ index' = [index EXCEPT !.todo = index.todo \ {p}] /\ UNCHANGED disk
        \/ /\ index' = [index EXCEPT !.todo = index.todo \ {p}]
           /\ file[p] = "empty" /\ Remove(p)
        \/ /\ index' = [index EXCEPT !.todo = index.todo \ {p}, !.at = p,
                          !.stage = IF age[p] = "old" THEN "probe old" ELSE "probe"]
           /\ file[p] \in {"open", "good"} /\ UNCHANGED disk
  BY DEF IndexStat
<1>3. p \in Paths /\ index.stage = "files"
  BY <1>0 DEF IndexStat, IndexType
<1>4. QED
  BY <1>0, <1>1, <1>2, <1>3 DEF IndexType, disk

LEMMA ProbeStep ==
  ASSUME Shape, Probe
  PROVE  /\ index.stage \in {"probe", "probe old"} /\ index.at \in Paths
         /\ index'.stage \in {"add", "condemn", "files"}
         /\ index'.stage = "files" => index'.at = None
         /\ index'.stage # "files" => index'.at = index.at
         /\ index'.stage = "add" => file[index.at] = "good"
         /\ index'.stage = "condemn" => file[index.at] # "good" /\ index.stage = "probe old"
         /\ UNCHANGED <<writing, file, age, rows, nextId, mig, prune, del, done, doomed,
                        crossed, mistaken, spoiled>>
<1>0. index \in IndexType /\ IndexOK
  BY DEF Shape, TypeOK
<1>1. index.stage \in {"probe", "probe old"} /\ index.at \in Paths
  BY <1>0 DEF Probe, IndexOK, Holding
<1>2. UNCHANGED <<writing, file, age, rows, nextId, mig, prune, del, done, doomed, crossed,
                  mistaken, spoiled>>
  BY DEF Probe, ffmpeg, disk, db, history
<1>3. \/ file[index.at] = "good" /\ Continue("add")
      \/ file[index.at] # "good" /\ index.stage = "probe old" /\ Continue("condemn")
      \/ Continue("files")
  BY DEF Probe
<1>4. QED
  BY <1>0, <1>1, <1>2, <1>3 DEF Continue, IndexType

LEMMA CondemnStep ==
  ASSUME Shape, Condemn
  PROVE  /\ index.stage = "condemn" /\ index.at \in Paths
         /\ index'.at = None /\ index'.stage = "files"
         /\ file' = [file EXCEPT ![index.at] = "none"]
         /\ age' = [age EXCEPT ![index.at] = "fresh"]
         /\ mistaken' = mistaken \cup ({index.at[1]} \cap crossed)
         /\ UNCHANGED <<writing, rows, nextId, mig, prune, del, done, doomed, crossed, spoiled>>
<1>1. index \in IndexType /\ IndexOK
  BY DEF Shape, TypeOK
<1>2. QED
  BY <1>1 DEF Condemn, IndexOK, Holding, Continue, IndexType, Remove, Put, ffmpeg, db, history

LEMMA AddStep ==
  ASSUME Shape, Add
  PROVE  /\ index.stage = "add" /\ index.at \in Paths
         /\ index'.at = None /\ index'.stage = "files"
         /\ rows' = rows \/ /\ rows' = rows \cup {Row(nextId, index.at)}
                            /\ index.at \notin Known
         /\ UNCHANGED <<writing, file, age, mig, prune, del, done, doomed, crossed, mistaken,
                        spoiled>>
<1>1. index \in IndexType /\ IndexOK
  BY DEF Shape, TypeOK
<1>2. QED
  BY <1>1 DEF Add, IndexOK, Holding, Continue, IndexType, ffmpeg, disk, history

LEMMA StartStep ==
  ASSUME Shape, MigrateStart
  PROVE  /\ mig'.stage = "next" /\ mig'.src = None /\ mig'.failed = 0 /\ mig'.roots = pool
         /\ mig'.jobs = {r \in rows : r.vol \notin pool}
         /\ mig'.work = {r.id : r \in mig'.jobs}
         /\ Meet /\ UNCHANGED <<writing, file, age, rows, nextId, index, prune, del, done, doomed,
                                mistaken, spoiled>>
<1>1. Meet /\ UNCHANGED <<writing, file, age, rows, nextId, index, prune, del, done, doomed,
                          mistaken, spoiled>>
  BY DEF MigrateStart, ffmpeg, disk, db
<1> DEFINE jobs == {r \in rows : r.vol \notin pool}
           ids == {r.id : r \in jobs}
<1>2. mig' = [NoMove EXCEPT !.stage = "next", !.roots = pool, !.to = primary,
                            !.jobs = jobs, !.work = ids]
  BY DEF MigrateStart
<1>3. mig'.stage = "next" /\ mig'.src = None /\ mig'.failed = 0 /\ mig'.roots = pool
      /\ mig'.jobs = jobs /\ mig'.work = ids
  <2> HIDE DEF jobs, ids
  <2>1. QED
    BY <1>2 DEF NoMove
<1>4. QED
  BY <1>1, <1>3

\* A job is dropped when its file is gone, or becomes the move in hand.
LEMMA NextStep ==
  ASSUME Shape, MigrateNext
  PROVE  \E j \in mig.jobs :
           /\ j \in Rows /\ PathOf(j) \in Paths /\ PathOf(j)[1] = j.seg
           /\ mig.stage = "next" /\ mig.src = None
           /\ mig'.jobs = mig.jobs \ {j} /\ mig'.work = mig.work /\ mig'.roots = mig.roots
           /\ mig'.failed = mig.failed
           /\ IF file[PathOf(j)] = "none"
              THEN mig'.stage = "next" /\ mig'.src = None
              ELSE /\ mig'.stage = "move" /\ mig'.id = j.id /\ mig'.src = PathOf(j)
                   /\ mig'.dest = <<j.seg, mig.to>>
           /\ Meet /\ UNCHANGED <<writing, file, age, rows, nextId, index, prune, del, done,
                                  doomed, mistaken, spoiled>>
<1>0. mig \in MigType /\ MigOK
  BY DEF Shape, TypeOK
<1>1. Meet /\ UNCHANGED <<writing, file, age, rows, nextId, index, prune, del, done, doomed,
                          mistaken, spoiled>>
  BY DEF MigrateNext, ffmpeg, disk, db
<1>2. mig.stage = "next" /\ mig.src = None
  BY <1>0 DEF MigrateNext, MigOK, Moves
<1>3. PICK j \in mig.jobs :
        mig' = IF file[PathOf(j)] = "none"
               THEN [mig EXCEPT !.jobs = @ \ {j}]
               ELSE [mig EXCEPT !.jobs = @ \ {j}, !.stage = "move", !.id = j.id,
                                !.src = PathOf(j), !.dest = <<j.seg, mig.to>>]
  BY DEF MigrateNext
<1>4. j \in Rows /\ PathOf(j) \in Paths /\ PathOf(j)[1] = j.seg
  BY <1>0, PathOfRow DEF MigType
<1>5. /\ mig'.jobs = mig.jobs \ {j} /\ mig'.work = mig.work /\ mig'.roots = mig.roots
      /\ mig'.failed = mig.failed
      /\ IF file[PathOf(j)] = "none"
         THEN mig'.stage = "next" /\ mig'.src = None
         ELSE /\ mig'.stage = "move" /\ mig'.id = j.id /\ mig'.src = PathOf(j)
              /\ mig'.dest = <<j.seg, mig.to>>
  BY <1>0, <1>2, <1>3 DEF MigType
<1>6. QED
  BY <1>1, <1>2, <1>4, <1>5

-----------------------------------------------------------------------------
(* Which segments two threads have met over, and who writes what. *)

\* What two threads have in hand is crossed.
Met ==
    /\ \A t, u \in Threads : t # u => InHand(t) \cap InHand(u) \subseteq crossed
    /\ InHand("delete") \cap Listed \subseteq crossed

LEMMA Meets ==
  ASSUME Meet
  PROVE  Met' /\ crossed \subseteq crossed'
<1>1. \A t, u \in Threads : t # u => InHand(t)' \cap InHand(u)' \subseteq crossed'
  BY DEF Meet, InHand
<1>2. InHand("delete")' \cap Listed' \subseteq crossed'
  BY DEF Meet, InHand
<1>3. QED
  BY <1>1, <1>2 DEF Met, Meet

\* A step after which nobody has more in hand.
LEMMA LetGo ==
  ASSUME Met, crossed \subseteq crossed',
         index'.at \in {index.at, None}, mig'.src \in {mig.src, None},
         mig'.jobs \subseteq mig.jobs,
         prune'.stage # "idle" => prune.stage # "idle" /\ prune'.row = prune.row,
         del'.stage # "idle" => del.stage # "idle" /\ del'.cam = del.cam
  PROVE  Met'
<1>1. \A t \in Threads : InHand(t)' \subseteq InHand(t)
  BY DEF InHand, Threads
<1>2. InHand("delete")' \subseteq InHand("delete")
  BY DEF InHand
<1>3. Listed' \subseteq Listed
  BY DEF Listed
<1>4. \A t, u \in Threads : t # u => InHand(t)' \cap InHand(u)' \subseteq crossed'
  BY <1>1 DEF Met
<1>5. InHand("delete")' \cap Listed' \subseteq crossed'
  BY <1>2, <1>3 DEF Met
<1>6. QED
  BY <1>4, <1>5 DEF Met

LEMMA MetInit == Init => Met
  BY DEF Init, Met, InHand, Listed, Threads, NoIndex, NoMove, NoPrune, NoDelete

LEMMA MetNext ==
  ASSUME Shape, Met, [Next]_vars
  PROVE  Met'
<1>0. index \in IndexType /\ mig \in MigType /\ MigOK /\ prune \in PruneType
      /\ del \in DelType
  BY DEF Shape, TypeOK
<1> USE DEF config, ffmpeg, disk, db, threads, history, budget
<1>1. ASSUME NEW c \in Cameras,
             OpenSegment(c) \/ WriteSegment(c) \/ CloseSegment(c) \/ FfmpegDies(c)
      PROVE  Met'
  BY <1>1, LetGo DEF OpenSegment, WriteSegment, CloseSegment, FfmpegDies
<1>2. ASSUME NEW p \in Paths, GrowOld(p)
      PROVE  Met'
  BY <1>2, LetGo DEF GrowOld
<1>3. CASE Scan
  BY <1>3, ScanStep, LetGo
<1>6. CASE Probe \/ Condemn \/ Add
  <2>1. \E stage : Continue(stage)
    BY <1>6 DEF Probe, Condemn, Add
  <2>2. index'.at \in {index.at, None}
    BY <1>0, <2>1 DEF Continue, IndexType
  <2>3. UNCHANGED <<mig, prune, del, crossed>>
    BY <1>6 DEF Probe, Condemn, Add
  <2>4. QED
    BY <2>2, <2>3, LetGo
<1>8. CASE IndexStat \/ MigrateStart \/ MigrateNext \/ PruneBegin
  BY <1>8, Meets DEF IndexStat, MigrateStart, MigrateNext, PruneBegin
<1>9. ASSUME NEW c \in Cameras, NEW purge \in BOOLEAN, DeleteBegin(c, purge)
      PROVE  Met'
  BY <1>9, Meets DEF DeleteBegin
<1>10. CASE MoveFindsNothing \/ CopyFails
  BY <1>0, <1>10, AnotherMoveType, LetGo DEF MoveFindsNothing, CopyFails
<1>11. CASE Rename \/ Copy \/ CopyMore \/ Copied \/ UnlinkSource \/ UpdatePath
  <2>1. mig.stage \in Moves /\ UNCHANGED <<index, prune, del, crossed>>
    BY <1>11 DEF Rename, Copy, CopyMore, Copied, UnlinkSource, UpdatePath, Moves
  <2>2. \/ MoveFailed \/ mig' = AnotherMove(mig) \/ mig' = mig
        \/ \E stage \in Moves : mig' = [mig EXCEPT !.stage = stage]
    BY <1>11 DEF Rename, Copy, CopyMore, Copied, UnlinkSource, UpdatePath, Moves
  <2>3. mig'.src \in {mig.src, None} /\ mig'.jobs = mig.jobs
    BY <1>0, <2>1, <2>2, AnotherMoveType, StageType DEF Moves
  <2>4. QED
    BY <2>1, <2>3, LetGo
<1>12. CASE MigrateEnd
  BY <1>12, LetGo DEF MigrateEnd, NoMove
<1>13. CASE PruneUnlink \/ PruneRow
  BY <1>0, <1>13, LetGo DEF PruneUnlink, PruneRow, NoPrune, PruneType
<1>14. CASE DeleteCamera \/ DeleteSegments \/ DeleteSync
  BY <1>0, <1>14, LetGo DEF DeleteCamera, DeleteSegments, DeleteSync, NoDelete, DelType
<1>15. ASSUME NEW vols, NEW first, SetPool(vols, first)
       PROVE  Met'
  BY <1>15, LetGo DEF SetPool
<1>16. CASE Crash
  BY <1>16, LetGo DEF Crash, NoIndex, NoMove, NoPrune, NoDelete
<1>17. CASE UNCHANGED vars
  BY <1>17, LetGo DEF vars
<1>18. QED
  BY <1>1, <1>2, <1>3, <1>6, <1>8, <1>9, <1>10, <1>11, <1>12, <1>13, <1>14, <1>15, <1>16,
     <1>17
  DEF Next, Ffmpeg, Indexer, Scan, Migrator, Prune, Delete

LEMMA MetAlways == Spec => [](Shape /\ Met)
<1>1. Spec => []Met
  BY MetInit, MetNext, ShapeAlways, PTL DEF Spec
<1>2. QED
  BY <1>1, ShapeAlways, PTL

\* ffmpeg writes what is not completed, everybody else handles what is.
Fresh ==
    \A c \in Cameras : writing[c] # None =>
        /\ writing[c] \in PathsOf(c)
        /\ writing[c][1] \notin done /\ age[writing[c]] # "old"
Completed ==
    /\ \A p \in Paths : file[p] = "good" => p[1] \in done
    /\ \A r \in rows \cup mig.jobs : r.seg \in done
    /\ index.stage = "add" => index.at[1] \in done
    /\ mig.src # None => mig.src[1] \in done

\* A step that writes files of completed segments only, or none.
LEMMA FreshFrame ==
  ASSUME Shape, Fresh, UNCHANGED done,
         \A c \in Cameras : writing'[c] \in {writing[c], None},
         \A p \in Paths : age'[p] \in {age[p], "fresh"} \/ p[1] \in done
  PROVE  Fresh'
<1>1. \A c \in Cameras : writing[c] # None => writing[c] \in Paths
  BY DEF Fresh, PathsOf
<1>2. QED
  BY <1>1 DEF Fresh

LEMMA CompletedFrame ==
  ASSUME Shape, Completed, done \subseteq done',
         \A p \in Paths : file'[p] = "good" => file[p] = "good" \/ p[1] \in done',
         rows' \subseteq rows \/ (\A r \in rows' : r.seg \in done'),
         mig'.jobs \subseteq mig.jobs \cup rows, mig'.src \in {None, mig.src},
         index'.stage = "add" => /\ index'.at = index.at /\ index.at \in Paths
                                 /\ index.stage = "add" \/ file[index.at] = "good"
  PROVE  Completed'
<1>1. \A p \in Paths : file'[p] = "good" => p[1] \in done'
  BY DEF Completed
<1>2. \A r \in rows' \cup mig'.jobs : r.seg \in done'
  BY DEF Completed
<1>3. index'.stage = "add" => index'.at[1] \in done'
  BY DEF Completed
<1>4. mig'.src # None => mig'.src[1] \in done'
  BY DEF Completed
<1>5. QED
  BY <1>1, <1>2, <1>3, <1>4 DEF Completed

LEMMA WritesFfmpeg ==
  ASSUME Shape, Fresh, Completed, NEW c \in Cameras,
         OpenSegment(c) \/ WriteSegment(c) \/ CloseSegment(c) \/ FfmpegDies(c)
  PROVE  Fresh' /\ Completed'
<1>0. /\ writing \in [Cameras -> Paths \cup {None}]
      /\ file \in [Paths -> Contents] /\ age \in [Paths -> Ages]
      /\ index.stage = "add" => index.at \in Paths
  BY DEF Shape, TypeOK, IndexOK, Holding
<1> USE DEF disk, db, threads, history, budget
<1>1. CASE OpenSegment(c)
  <2>1. PICK p \in PathsOf(c) : Put(p, "empty", "fresh") /\ p[1] \notin done
                                /\ writing' = [writing EXCEPT ![c] = p]
    BY <1>1 DEF OpenSegment
  <2>2. p \in Paths /\ UNCHANGED <<done, db, threads>>
    BY <1>1, <2>1 DEF OpenSegment, PathsOf
  <2>3. Fresh'
    BY <1>0, <2>1, <2>2 DEF Fresh, Put, PathsOf
  <2>4. QED
    BY <1>0, <2>1, <2>2, <2>3, CompletedFrame DEF Put
<1>2. CASE WriteSegment(c)
  <2>1. writing[c] \in Paths /\ Put(writing[c], "open", "fresh")
        /\ UNCHANGED <<writing, done, db, threads>>
    BY <1>2 DEF WriteSegment, Fresh, PathsOf, ffmpeg
  <2>2. Fresh'
    BY <1>0, <2>1, FreshFrame DEF Put
  <2>3. QED
    BY <1>0, <2>1, <2>2, CompletedFrame DEF Put
<1>3. CASE CloseSegment(c)
  <2>1. writing[c] \in Paths /\ writing' = [writing EXCEPT ![c] = None]
        /\ UNCHANGED <<db, threads>>
    BY <1>3 DEF CloseSegment, Fresh, PathsOf
  <2>2. CASE file[writing[c]] = "none"
    BY <1>0, <1>3, <2>1, <2>2, FreshFrame, CompletedFrame DEF CloseSegment
  <2>3. CASE file[writing[c]] # "none"
    <3>1. Put(writing[c], "good", "fresh") /\ done' = done \cup {writing[c][1]}
      BY <1>3, <2>3 DEF CloseSegment
    <3>2. \A d \in Cameras : d # c /\ writing[d] # None => writing[d][1] # writing[c][1]
      BY <1>3, <2>1 DEF Fresh, PathsOf, CloseSegment
    <3>3. Fresh'
      BY <1>0, <2>1, <3>1, <3>2 DEF Fresh, Put, PathsOf
    <3>4. QED
      BY <1>0, <2>1, <3>1, <3>3, CompletedFrame DEF Put
  <2>4. QED
    BY <2>2, <2>3
<1>4. CASE FfmpegDies(c)
  BY <1>0, <1>4, FreshFrame, CompletedFrame DEF FfmpegDies
<1>5. QED
  BY <1>1, <1>2, <1>3, <1>4

LEMMA WritesIndexer ==
  ASSUME Shape, Fresh, Completed, Indexer \/ IndexAborts
  PROVE  Fresh' /\ Completed'
<1>0. /\ file \in [Paths -> Contents] /\ age \in [Paths -> Ages] /\ nextId \in Nat \ {0}
  BY DEF Shape, TypeOK
<1>1. CASE Scan
  BY <1>1, ScanStep, FreshFrame, CompletedFrame DEF Holding
<1>2. CASE IndexStat
  BY <1>0, <1>2, StatStep, FreshFrame, CompletedFrame DEF Remove, Put
<1>3. CASE Probe
  BY <1>3, ProbeStep, FreshFrame, CompletedFrame
<1>4. CASE Condemn
  BY <1>0, <1>4, CondemnStep, FreshFrame, CompletedFrame
<1>5. CASE Add
  <2>1. index.at[1] \in done /\ Row(nextId, index.at).seg = index.at[1]
    BY <1>0, <1>5, AddStep, RowOfPath DEF Completed
  <2>2. \A r \in rows' : r.seg \in done'
    BY <1>5, <2>1, AddStep DEF Completed
  <2>3. QED
    BY <1>5, <2>2, AddStep, FreshFrame, CompletedFrame
<1>6. QED
  BY <1>1, <1>2, <1>3, <1>4, <1>5 DEF Indexer, Scan

LEMMA WritesMigrator ==
  ASSUME Shape, Fresh, Completed, Migrator
  PROVE  Fresh' /\ Completed'
<1>0. /\ file \in [Paths -> Contents] /\ age \in [Paths -> Ages] /\ mig \in MigType
      /\ MigOK /\ rows \subseteq Rows
      /\ index.stage = "add" => index.at \in Paths
  BY DEF Shape, TypeOK, IndexOK, Holding
<1>1. UNCHANGED <<writing, done, index>>
  BY DEF Migrator, MigrateStart, MigrateNext, MoveFindsNothing, Rename, Copy, CopyMore,
     Copied, CopyFails, UnlinkSource, UpdatePath, MigrateEnd, ffmpeg, history, threads
<1> USE DEF disk, db
<1>2. CASE MigrateStart
  BY <1>0, <1>2, StartStep, FreshFrame, CompletedFrame
<1>3. CASE MigrateNext
  <2>1. PICK j \in mig.jobs : /\ j \in Rows /\ PathOf(j)[1] = j.seg
                              /\ mig'.jobs \subseteq mig.jobs
                              /\ mig'.src \in {None, PathOf(j)}
    BY <1>3, NextStep
  <2>2. UNCHANGED <<writing, file, age, rows, index, done>>
    BY <1>3, NextStep
  <2>3. QED
    BY <1>0, <2>1, <2>2, FreshFrame DEF Completed
<1>4. CASE MoveFindsNothing \/ CopyFails
  BY <1>0, <1>1, <1>4, AnotherMoveType, FreshFrame, CompletedFrame
  DEF MoveFindsNothing, CopyFails
<1>5. CASE Rename \/ Copy \/ CopyMore \/ Copied \/ UnlinkSource
  <2>1. mig.stage \in Moves /\ UNCHANGED db
    BY <1>5 DEF Rename, Copy, CopyMore, Copied, UnlinkSource, Moves
  <2>2. mig.src \in Paths /\ mig.dest \in Paths /\ mig.src[1] \in done
        /\ mig.dest[1] \in done
    BY <2>1, DestIsPath, NonePaths DEF Completed
  <2>3. \/ MoveFailed \/ mig' = mig
        \/ \E stage \in Moves : mig' = [mig EXCEPT !.stage = stage]
    BY <1>5 DEF Rename, Copy, CopyMore, Copied, UnlinkSource, Moves, threads
  <2>4. mig'.src \in {None, mig.src} /\ mig'.jobs \subseteq mig.jobs
    BY <1>0, <2>1, <2>3, AnotherMoveType, StageType DEF Moves
  <2>5. \A p \in Paths : \/ p \in {mig.src, mig.dest}
                         \/ file'[p] = file[p] /\ age'[p] = age[p]
    BY <1>0, <1>5, <2>2 DEF Rename, Copy, CopyMore, Copied, UnlinkSource, Remove, Put
  <2>6. QED
    BY <1>0, <1>1, <2>1, <2>2, <2>4, <2>5, FreshFrame, CompletedFrame
<1>6. CASE UpdatePath
  <2>1. UNCHANGED disk /\ mig.stage = "update"
    BY <1>6 DEF UpdatePath
  <2>2. mig'.src = None /\ mig'.jobs = mig.jobs
    BY <1>0, <1>6, <2>1, AnotherMoveType DEF UpdatePath
  <2>3. rows' = rows \/ rows' = {Renamed(r) : r \in rows}
    BY <1>6 DEF UpdatePath, Renamed
  <2>4. \A r \in rows' : r.seg \in done'
    BY <1>1, <2>1, <2>3, RenamedRow DEF Completed
  <2>5. QED
    BY <1>0, <1>1, <2>1, <2>2, <2>4, FreshFrame, CompletedFrame
<1>7. CASE MigrateEnd
  BY <1>0, <1>1, <1>7, FreshFrame, CompletedFrame DEF MigrateEnd, NoMove
<1>8. QED
  BY <1>2, <1>3, <1>4, <1>5, <1>6, <1>7 DEF Migrator

LEMMA WritesRest ==
  ASSUME Shape, Fresh, Completed,
         \/ Prune \/ Delete \/ Crash \/ UNCHANGED vars
         \/ \E p \in Paths : GrowOld(p)
         \/ \E vols \in SUBSET Volumes \ {{}} : \E first \in vols : SetPool(vols, first)
  PROVE  Fresh' /\ Completed'
<1>0. /\ file \in [Paths -> Contents] /\ age \in [Paths -> Ages] /\ PruneOK
      /\ index.stage = "add" => index.at \in Paths
  BY DEF Shape, TypeOK, IndexOK, Holding
<1> USE DEF config, ffmpeg, disk, db, threads, history, budget
<1>1. CASE PruneBegin
  BY <1>0, <1>1, FreshFrame, CompletedFrame DEF PruneBegin
<1>2. CASE PruneUnlink
  <2>1. PathOf(prune.row) \in Paths
    BY <1>0, <1>2, PathOfRow DEF PruneUnlink, PruneOK
  <2>2. UNCHANGED <<ffmpeg, db, index, mig, history>> /\ Remove(PathOf(prune.row))
    BY <1>2 DEF PruneUnlink
  <2>3. QED
    BY <1>0, <2>1, <2>2, FreshFrame, CompletedFrame DEF Remove, Put
<1>3. CASE PruneRow
  BY <1>0, <1>3, FreshFrame, CompletedFrame DEF PruneRow
<1>4. ASSUME NEW c \in Cameras, NEW purge \in BOOLEAN, DeleteBegin(c, purge)
      PROVE  Fresh' /\ Completed'
  <2>1. \A p \in Paths : file'[p] \in {file[p], "none"} /\ age'[p] \in {age[p], "fresh"}
    BY <1>0, <1>4 DEF DeleteBegin
  <2>2. UNCHANGED <<ffmpeg, db, index, mig, done>>
    BY <1>4 DEF DeleteBegin
  <2>3. QED
    BY <1>0, <2>1, <2>2, FreshFrame, CompletedFrame
<1>5. CASE DeleteCamera \/ DeleteSegments \/ DeleteSync
  <2>1. UNCHANGED <<writing, disk, index, mig, done>> /\ rows' \subseteq rows
    BY <1>5 DEF DeleteCamera, DeleteSegments, DeleteSync
  <2>2. QED
    BY <1>0, <2>1, FreshFrame, CompletedFrame
<1>6. CASE Crash
  BY <1>0, <1>6, FreshFrame, CompletedFrame DEF Crash, NoIndex, NoMove
<1>7. CASE UNCHANGED vars
  BY <1>0, <1>7, FreshFrame, CompletedFrame DEF vars
<1>8. ASSUME NEW p \in Paths, GrowOld(p)
      PROVE  Fresh' /\ Completed'
  <2>1. age' = [age EXCEPT ![p] = "quiet"] \/ age' = [age EXCEPT ![p] = "old"]
    BY <1>8 DEF GrowOld
  <2>2. UNCHANGED <<ffmpeg, file, db, threads, done>>
    BY <1>8 DEF GrowOld
  <2>3. \A c \in Cameras : writing[c] # None => writing[c] \in Paths
    BY DEF Fresh, PathsOf
  <2>4. Fresh'
    <3>1. CASE age' = [age EXCEPT ![p] = "quiet"]
      BY <1>0, <2>2, <2>3, <3>1 DEF Fresh
    <3>2. CASE age' # [age EXCEPT ![p] = "quiet"]
      <4>1. \A c \in Cameras : writing[c] # p
        BY <1>8, <3>2 DEF GrowOld
      <4>2. QED
        BY <1>0, <2>1, <2>2, <2>3, <3>2, <4>1 DEF Fresh
    <3>3. QED
      BY <3>1, <3>2
  <2>5. QED
    BY <1>0, <2>2, <2>4, CompletedFrame
<1>9. ASSUME NEW vols, NEW first, SetPool(vols, first)
      PROVE  Fresh' /\ Completed'
  BY <1>0, <1>9, FreshFrame, CompletedFrame DEF SetPool
<1>10. QED
  BY <1>1, <1>2, <1>3, <1>4, <1>5, <1>6, <1>7, <1>8, <1>9 DEF Prune, Delete

Base == Shape /\ Met /\ Fresh /\ Completed

LEMMA BaseAlways == Spec => []Base
<1>1. Init => Fresh /\ Completed
  BY NonePaths DEF Init, Fresh, Completed, NoIndex, NoMove
<1>2. Shape /\ Fresh /\ Completed /\ [Next]_vars => Fresh' /\ Completed'
  BY WritesFfmpeg, WritesIndexer, WritesMigrator, WritesRest DEF Next, Ffmpeg
<1>3. Spec => [](Fresh /\ Completed)
  BY <1>1, <1>2, ShapeAlways, PTL DEF Spec
<1>4. QED
  BY <1>3, MetAlways, PTL DEF Base

-----------------------------------------------------------------------------
(* What the indexer condemns. *)

\* Who has a segment in hand.
Moving(s)  == mig.src # None /\ mig.src[1] = s
Pruned(s)  == prune.stage # "idle" /\ prune.row.seg = s
Deleted(s) == del.stage # "idle" /\ del.cam = CamOf[s]
Read(s)    == index.at # None /\ index.at[1] = s

LEMMA OneHand ==
  ASSUME Met, NEW s \in Segs, s \notin crossed
  PROVE  /\ Read(s) => ~Moving(s) /\ ~Pruned(s) /\ ~Deleted(s)
         /\ Moving(s) => ~Pruned(s) /\ ~Deleted(s)
         /\ Pruned(s) => ~Deleted(s)
         /\ Deleted(s) => s \notin Listed
<1>1. /\ Read(s) => s \in InHand("index")
      /\ Moving(s) => s \in InHand("migrate")
      /\ Pruned(s) => s \in InHand("prune")
      /\ Deleted(s) => s \in InHand("delete")
  BY DEF InHand, Read, Moving, Pruned, Deleted
<1>2. QED
  BY <1>1 DEF Met, Threads

\* The indexer condemns nothing that plays, unless it was crossed.
Condemned ==
    index.stage \in {"probe old", "condemn"} /\ index.at[1] \notin crossed =>
        /\ file[index.at] # "none" /\ \A c \in Cameras : writing[c] # index.at
        /\ index.stage = "condemn" => file[index.at] # "good"

\* A step that leaves the file the indexer reads, or crosses its segment.
LEMMA CondemnedFrame ==
  ASSUME Base, Condemned, crossed \subseteq crossed', UNCHANGED index,
         \A c \in Cameras : writing'[c] \in {writing[c], None},
         index.at \in Paths => \/ file'[index.at] = file[index.at]
                               \/ file'[index.at] \in {"empty", "open"}
                               \/ index.at[1] \in crossed'
  PROVE  Condemned'
<1>1. index.stage \in {"probe old", "condemn"} => index.at \in Paths
  BY DEF Base, Shape, IndexOK, Holding
<1>2. QED
  BY <1>1, NonePaths DEF Condemned

LEMMA CondemnedNext ==
  ASSUME Base, Base', Condemned, [Next]_vars
  PROVE  Condemned'
<1>0. /\ file \in [Paths -> Contents] /\ age \in [Paths -> Ages] /\ Shape /\ Met /\ Fresh
      /\ writing \in [Cameras -> Paths \cup {None}] /\ IndexOK /\ MigOK /\ PruneOK
  BY DEF Base, Shape, TypeOK
<1>1. index.at \in Paths => /\ index.at[1] \in Segs
                            /\ index.at # None /\ Read(index.at[1])
  BY PathsAre, NonePaths DEF Read
<1>2. index.stage \in {"probe old", "condemn"} => index.at \in Paths
  BY <1>0 DEF IndexOK, Holding
<1> USE DEF config, ffmpeg, disk, db, threads, history, budget
<1>3. ASSUME NEW c \in Cameras, OpenSegment(c)
      PROVE  Condemned'
  <2>1. PICK p \in PathsOf(c) : /\ Put(p, "empty", "fresh")
                                /\ \A v \in Volumes : file[<<p[1], v>>] = "none"
                                /\ writing' = [writing EXCEPT ![c] = p]
    BY <1>3 DEF OpenSegment
  <2>2. UNCHANGED <<index, crossed>>
    BY <1>3 DEF OpenSegment
  <2>3. p \in Paths /\ file[p] = "none"
    BY <2>1, PathsAre DEF PathsOf
  <2>4. QED
    BY <1>0, <1>2, <2>1, <2>2, <2>3 DEF Condemned, Put
<1>4. ASSUME NEW c \in Cameras, WriteSegment(c) \/ CloseSegment(c) \/ FfmpegDies(c)
      PROVE  Condemned'
  <2>1. writing[c] \in Paths /\ UNCHANGED <<index, crossed>>
        /\ \A d \in Cameras : writing'[d] \in {writing[d], None}
    BY <1>0, <1>4 DEF WriteSegment, CloseSegment, FfmpegDies, Fresh, PathsOf
  <2>2. \A p \in Paths : p # writing[c] => file'[p] = file[p]
    BY <1>0, <1>4, <2>1 DEF WriteSegment, CloseSegment, FfmpegDies, Put
  <2>3. QED
    BY <1>0, <1>2, <2>1, <2>2, NonePaths DEF Condemned
<1>5. CASE Scan
  BY <1>5, <1>0, ScanStep DEF Condemned, Holding
<1>6. CASE IndexStat
  <2>1. index'.stage # "condemn"
    BY <1>0, <1>6, StatStep
  <2>2. ASSUME index'.stage = "probe old"
        PROVE  file'[index'.at] # "none" /\ \A c \in Cameras : writing'[c] # index'.at
    <3>1. index'.at \in Paths /\ age[index'.at] = "old" /\ UNCHANGED <<file, writing>>
          /\ file[index'.at] \in {"open", "good"}
      BY <1>0, <1>6, <2>2, StatStep
    <3>2. QED
      BY <1>0, <3>1, NonePaths DEF Fresh
  <2>3. QED
    BY <2>1, <2>2 DEF Condemned
<1>7. CASE Probe
  <2>1. /\ index'.stage # "probe old"
        /\ index'.stage = "condemn" => /\ index.stage = "probe old" /\ index'.at = index.at
                                       /\ file[index.at] # "good"
        /\ UNCHANGED <<file, writing, crossed>>
    BY <1>0, <1>7, ProbeStep
  <2>2. QED
    BY <2>1 DEF Condemned
<1>8. CASE Condemn \/ Add
  BY <1>8, <1>0, CondemnStep, AddStep DEF Condemned
<1>9. CASE MigrateStart
  BY <1>9, <1>0, StartStep, Meets, CondemnedFrame
<1>10. CASE MigrateNext
  BY <1>10, <1>0, NextStep, Meets, CondemnedFrame
<1>11. CASE MoveFindsNothing \/ CopyFails \/ UpdatePath \/ MigrateEnd
  BY <1>11, CondemnedFrame DEF MoveFindsNothing, CopyFails, UpdatePath, MigrateEnd
<1>12. CASE Rename \/ Copy \/ CopyMore \/ Copied \/ UnlinkSource
  <2>1. mig.stage \in Moves /\ UNCHANGED <<index, writing, crossed>>
    BY <1>12 DEF Rename, Copy, CopyMore, Copied, UnlinkSource, Moves
  <2>2. /\ mig.src \in Paths /\ mig.dest \in Paths /\ mig.dest[1] = mig.src[1]
        /\ Moving(mig.src[1])
    BY <1>0, <2>1, DestIsPath, NonePaths DEF Moving
  <2>3. \A p \in Paths : p \in {mig.src, mig.dest} \/ file'[p] = file[p]
    BY <1>0, <1>12, <2>2 DEF Rename, Copy, CopyMore, Copied, UnlinkSource, Remove, Put
  <2>4. index.at \in Paths /\ index.at[1] \notin crossed => index.at[1] # mig.src[1]
    BY <1>0, <1>1, <2>2, OneHand
  <2>5. QED
    BY <2>1, <2>2, <2>3, <2>4, CondemnedFrame
<1>13. CASE PruneBegin
  BY <1>0, <1>13, Meets, CondemnedFrame DEF PruneBegin
<1>14. CASE PruneUnlink
  <2>1. /\ PathOf(prune.row) \in Paths /\ PathOf(prune.row)[1] = prune.row.seg
        /\ Pruned(prune.row.seg)
    BY <1>0, <1>14, PathOfRow DEF PruneUnlink, PruneOK, Pruned
  <2>2. UNCHANGED <<index, writing, crossed>> /\ Remove(PathOf(prune.row))
    BY <1>14 DEF PruneUnlink
  <2>3. index.at \in Paths /\ index.at[1] \notin crossed => index.at[1] # prune.row.seg
    BY <1>0, <1>1, <2>1, OneHand
  <2>4. QED
    BY <1>0, <2>1, <2>2, <2>3, CondemnedFrame DEF Remove, Put
<1>15. CASE PruneRow \/ DeleteCamera \/ DeleteSegments \/ DeleteSync
  BY <1>15, CondemnedFrame DEF PruneRow, DeleteCamera, DeleteSegments, DeleteSync
<1>16. ASSUME NEW c \in Cameras, NEW purge \in BOOLEAN, DeleteBegin(c, purge)
       PROVE  Condemned'
  <2>1. \A p \in Paths : CamOf[p[1]] # c => file'[p] = file[p]
    BY <1>0, <1>16 DEF DeleteBegin, PathsOf
  <2>2. UNCHANGED <<index, writing>> /\ Met' /\ crossed \subseteq crossed'
    BY <1>16, Meets DEF DeleteBegin
  <2>3. index.at \in Paths /\ CamOf[index.at[1]] = c => index.at[1] \in crossed'
    <3>1. del'.stage # "idle" /\ del'.cam = c
      BY <1>16 DEF DeleteBegin
    <3>2. QED
      BY <1>1, <2>2, <3>1 DEF Met, InHand, Threads
  <2>4. QED
    BY <2>1, <2>2, <2>3, CondemnedFrame
<1>17. CASE Crash
  BY <1>17 DEF Crash, NoIndex, Condemned
<1>18. ASSUME NEW p \in Paths, GrowOld(p)
       PROVE  Condemned'
  BY <1>18, CondemnedFrame DEF GrowOld
<1>19. ASSUME NEW vols, NEW first, SetPool(vols, first)
       PROVE  Condemned'
  BY <1>19, CondemnedFrame DEF SetPool
<1>20. CASE UNCHANGED vars
  BY <1>20, CondemnedFrame DEF vars
<1>21. QED
  BY <1>3, <1>4, <1>5, <1>6, <1>7, <1>8, <1>9, <1>10, <1>11, <1>12, <1>13, <1>14, <1>15,
     <1>16, <1>17, <1>18, <1>19, <1>20
  DEF Next, Ffmpeg, Indexer, Scan, Migrator, Prune, Delete

LEMMA CondemnedAlways == Spec => [](Base /\ Condemned)
<1>1. Init => Condemned
  BY DEF Init, Condemned, NoIndex
<1>2. QED
  BY <1>1, CondemnedNext, BaseAlways, PTL DEF Spec

-----------------------------------------------------------------------------
(* Where a calm segment is whole: one that is not crossed. *)

Whole(s)  == {p \in Paths : p[1] = s /\ file[p] = "good"}
RowsOf(s) == {r \in rows : r.seg = s}
JobsOf(s) == {j \in mig.jobs : j.seg = s}

\* While it moves, a segment is whole exactly where the move has got to.
WholeAt ==
    CASE mig.stage \in {"move", "copy"} -> {mig.src}
      [] mig.stage = "unlink" -> {mig.src, mig.dest}
      [] OTHER -> {mig.dest}

\* It has one row at most and one whole file at most, the row names that file unless
\* a thread has it in hand, and what the threads have read of it is still so.
RowSettled(s) ==
    /\ \A r, q \in RowsOf(s) : r = q
    /\ ~Moving(s) => \A p, q \in Whole(s) : p = q
    /\ \A r \in RowsOf(s) : Moving(s) \/ Pruned(s) \/ Deleted(s) \/ PathOf(r) \in Whole(s)
HandSettled(s) ==
    /\ index.stage = "add" /\ Read(s) => index.at \in Whole(s)
    /\ Moving(s) => Row(mig.id, mig.src) \in rows /\ Whole(s) = WholeAt
    /\ Pruned(s) => /\ prune.row \in rows
                    /\ prune.stage = "row" => file[PathOf(prune.row)] = "none"
    /\ Deleted(s) /\ del.stage = "sync" => RowsOf(s) = {}
JobSettled(s) ==
    /\ \A j, k \in JobsOf(s) : j = k
    /\ \A j \in JobsOf(s) : ~Moving(s) /\ (j \in rows \/ file[PathOf(j)] = "none")

SettledAt(s) == RowSettled(s) /\ HandSettled(s) /\ JobSettled(s)
Settled == \A s \in Segs \ crossed : SettledAt(s)

\* A step that does nothing to the segment but taking or reading it.
LEMMA Untouched ==
  ASSUME Base, NEW s \in Segs, SettledAt(s), RowsOf(s)' = RowsOf(s), Whole(s)' = Whole(s),
         JobsOf(s)' = JobsOf(s), Moving(s)' <=> Moving(s),
         Moving(s) => mig'.stage = mig.stage /\ mig'.id = mig.id /\ mig'.src = mig.src
                      /\ mig'.dest = mig.dest,
         \A p \in Paths : p[1] = s /\ s \in done /\ file[p] = "none" => file'[p] = "none",
         (index'.stage = "add" /\ Read(s)') => index'.at \in Whole(s)',
         Pruned(s) => Pruned(s)',
         Pruned(s)' => \/ prune'.row \in rows' /\ prune'.stage # "row"
                       \/ prune' = prune,
         Deleted(s)' <=> Deleted(s), Deleted(s) /\ del'.stage = "sync" => del.stage = "sync"
  PROVE  SettledAt(s)'
<1>1. RowSettled(s)'
  <2>1. \A r \in RowsOf(s)' : PathOf(r)' = PathOf(r)
    BY DEF PathOf
  <2>2. QED
    BY <2>1 DEF SettledAt, RowSettled
<1>2. \A r : r.seg = s => (r \in rows' <=> r \in rows)
  BY DEF RowsOf
<1>3. ASSUME Moving(s)'
      PROVE  Row(mig.id, mig.src)' \in rows' /\ Whole(s)' = WholeAt'
  <2>1. Row(mig.id, mig.src) \in RowsOf(s) /\ Whole(s) = WholeAt
    BY <1>3 DEF SettledAt, HandSettled, Moving, RowsOf, Row
  <2>2. Row(mig.id, mig.src)' = Row(mig.id, mig.src) /\ WholeAt' = WholeAt
    BY <1>3 DEF Row, WholeAt
  <2>3. QED
    BY <2>1, <2>2 DEF RowsOf
<1>4. ASSUME Pruned(s)'
      PROVE  prune'.row \in rows' /\ (prune'.stage = "row" => file'[PathOf(prune'.row)] = "none")
  <2>1. CASE prune'.row \in rows' /\ prune'.stage # "row"
    BY <2>1
  <2>2. CASE prune' = prune
    <3>1. Pruned(s) /\ prune.row \in rows /\ prune.row.seg = s
          /\ (prune.stage = "row" => file[PathOf(prune.row)] = "none")
      BY <1>4, <2>2 DEF SettledAt, HandSettled, Pruned
    <3>2. prune.row \in Rows /\ s \in done
      BY <3>1 DEF Base, Shape, TypeOK, Completed
    <3>3. PathOf(prune.row) \in Paths /\ PathOf(prune.row)[1] = s
      BY <3>1, <3>2, PathOfRow
    <3>4. QED
      BY <1>2, <2>2, <3>1, <3>2, <3>3
  <2>3. QED
    BY <1>4, <2>1, <2>2
<1>5. HandSettled(s)'
  <2>1. Deleted(s)' /\ del'.stage = "sync" => RowsOf(s)' = {}
    BY DEF SettledAt, HandSettled
  <2>2. Pruned(s)' => /\ prune'.row \in rows'
                      /\ prune'.stage = "row" => file'[PathOf(prune.row)'] = "none"
    BY <1>4 DEF PathOf
  <2>3. QED
    BY <1>3, <2>1, <2>2 DEF HandSettled
<1>6. JobSettled(s)'
  <2>1. ASSUME NEW j \in JobsOf(s)
        PROVE  j \in rows' \/ file'[PathOf(j)] = "none"
    <3>1. j \in Rows /\ j.seg = s /\ s \in done /\ (j \in rows \/ file[PathOf(j)] = "none")
      BY DEF JobsOf, Base, Shape, TypeOK, MigType, Completed, SettledAt, JobSettled
    <3>2. QED
      BY <1>2, <3>1, PathOfRow
  <2>2. \A j : PathOf(j)' = PathOf(j)
    BY DEF PathOf
  <2>3. QED
    BY <2>1, <2>2 DEF JobSettled, SettledAt
<1>7. QED
  BY <1>1, <1>5, <1>6 DEF SettledAt

\* The files and the indexer only, and no whole file of the segment.
LEMMA SameRows ==
  ASSUME Base, NEW s \in Segs, SettledAt(s), UNCHANGED <<rows, mig, prune, del>>,
         \A p \in Paths : p[1] = s =>
            /\ file'[p] = "good" <=> file[p] = "good"
            /\ s \in done /\ file[p] = "none" => file'[p] = "none",
         index'.stage = "add" =>
            \/ index'.at = index.at /\ index.stage = "add"
            \/ index'.at \in Paths /\ file'[index'.at] = "good"
  PROVE  SettledAt(s)'
<1>1. RowsOf(s)' = RowsOf(s) /\ JobsOf(s)' = JobsOf(s) /\ (Moving(s)' <=> Moving(s))
      /\ (Pruned(s)' <=> Pruned(s)) /\ (Deleted(s)' <=> Deleted(s))
  BY DEF RowsOf, JobsOf, Moving, Pruned, Deleted
<1>2. Whole(s)' = Whole(s)
  BY DEF Whole
<1>3. (index'.stage = "add" /\ Read(s)') => index'.at \in Whole(s)'
  BY <1>2 DEF Read, Whole, SettledAt, HandSettled
<1>4. QED
  BY <1>1, <1>2, <1>3, Untouched

LEMMA SettledFfmpeg ==
  ASSUME Base, Settled, NEW c \in Cameras,
         OpenSegment(c) \/ WriteSegment(c) \/ CloseSegment(c) \/ FfmpegDies(c)
  PROVE  Settled'
<1>0. /\ file \in [Paths -> Contents] /\ Shape /\ Fresh /\ Completed
      /\ IndexOK /\ PruneOK
  BY DEF Base, Shape, TypeOK
<1>1. UNCHANGED <<rows, mig, prune, del, index, crossed>>
  BY DEF OpenSegment, WriteSegment, CloseSegment, FfmpegDies, db, threads, history
<1>2. SUFFICES ASSUME NEW s \in Segs \ crossed
               PROVE  SettledAt(s)'
  BY <1>1 DEF Settled
<1>3. SettledAt(s)
  BY DEF Settled
<1>4. CASE OpenSegment(c)
  <2>1. PICK p \in PathsOf(c) : Put(p, "empty", "fresh") /\ p[1] \notin done
    BY <1>4 DEF OpenSegment
  <2>2. p \in Paths /\ file[p] # "good"
    BY <1>0, <2>1 DEF PathsOf, Completed
  <2>3. QED
    BY <1>0, <1>1, <1>3, <2>1, <2>2, SameRows DEF Put
<1>5. CASE WriteSegment(c)
  <2>1. writing[c] \in Paths /\ Put(writing[c], "open", "fresh")
        /\ file[writing[c]] \in {"empty", "open"}
    BY <1>0, <1>5 DEF WriteSegment, Fresh, PathsOf
  <2>2. QED
    BY <1>0, <1>1, <1>3, <2>1, SameRows DEF Put
<1>6. CASE FfmpegDies(c) \/ (CloseSegment(c) /\ file[writing[c]] = "none")
  BY <1>1, <1>3, <1>6, SameRows DEF FfmpegDies, CloseSegment, disk
<1>7. CASE CloseSegment(c) /\ file[writing[c]] # "none"
  <2>1. writing[c] \in Paths /\ writing[c][1] \notin done /\ Put(writing[c], "good", "fresh")
    BY <1>0, <1>7 DEF CloseSegment, Fresh, PathsOf
  <2>2. CASE s # writing[c][1]
    BY <1>0, <1>1, <1>3, <2>1, <2>2, SameRows DEF Put
  <2>3. CASE s = writing[c][1]
    <3>1. Whole(s)' = {writing[c]}
      BY <1>0, <2>1, <2>3 DEF Put, Whole, Completed
    <3>2. RowsOf(s)' = {} /\ JobsOf(s)' = {} /\ ~Moving(s)'
          /\ ~(index'.stage = "add" /\ Read(s)')
      BY <1>0, <1>1, <2>1, <2>3 DEF RowsOf, JobsOf, Moving, Read, Completed
    <3>3. ~Pruned(s)'
      BY <1>1, <1>3, <3>2 DEF SettledAt, HandSettled, Pruned, RowsOf
    <3>4. QED
      BY <3>1, <3>2, <3>3 DEF SettledAt, RowSettled, HandSettled, JobSettled
  <2>4. QED
    BY <2>2, <2>3
<1>8. QED
  BY <1>4, <1>5, <1>6, <1>7

LEMMA SettledIndexer ==
  ASSUME Base, Base', Condemned, Settled, Indexer \/ IndexAborts
  PROVE  Settled'
<1>0. /\ file \in [Paths -> Contents] /\ Shape /\ Met /\ IndexOK /\ rows \subseteq Rows
      /\ nextId \in Nat \ {0} /\ crossed \subseteq crossed'
  BY Meets DEF Base, Shape, TypeOK, Indexer, IndexBegin, IndexCamera, IndexList, IndexStat,
     Probe, Condemn, Add, IndexNext, IndexAborts, history
<1>1. SUFFICES ASSUME NEW s \in Segs \ crossed'
               PROVE  SettledAt(s)'
  BY DEF Settled
<1>2. SettledAt(s) /\ s \in Segs \ crossed
  BY <1>0 DEF Settled
<1>3. CASE Scan
  BY <1>0, <1>2, <1>3, ScanStep, SameRows DEF Holding
<1>4. CASE IndexStat
  <2>1. UNCHANGED <<rows, mig, prune, del>> /\ index'.stage # "add"
        /\ (UNCHANGED file \/ \E p \in Paths : file[p] = "empty" /\ Remove(p))
    BY <1>0, <1>4, StatStep
  <2>2. QED
    BY <1>0, <1>2, <2>1, SameRows DEF Remove, Put
<1>5. CASE Probe
  BY <1>0, <1>2, <1>5, ProbeStep, SameRows
<1>6. CASE Condemn
  <2>1. /\ index.stage = "condemn" /\ index.at \in Paths /\ index'.stage # "add"
        /\ file' = [file EXCEPT ![index.at] = "none"]
        /\ UNCHANGED <<rows, mig, prune, del>>
    BY <1>0, <1>6, CondemnStep
  <2>2. index.at[1] = s => file[index.at] # "good"
    BY <1>2, <2>1 DEF Condemned
  <2>3. QED
    BY <1>0, <1>2, <2>1, <2>2, SameRows
<1>7. CASE Add
  <2>1. /\ index.stage = "add" /\ index.at \in Paths /\ index'.stage # "add"
        /\ UNCHANGED <<file, mig, prune, del>>
        /\ rows' = rows \/ /\ rows' = rows \cup {Row(nextId, index.at)}
                           /\ index.at \notin Known
    BY <1>0, <1>7, AddStep
  <2>2. CASE rows' = rows
    BY <1>2, <2>1, <2>2, SameRows
  <2>3. CASE rows' # rows
    <3>1. PICK new : /\ rows' = rows \cup {new} /\ index.at \notin Known
                     /\ new.seg = index.at[1] /\ PathOf(new) = index.at
      BY <1>0, <2>1, <2>3, RowOfPath
    <3>2. JobsOf(s)' = JobsOf(s) /\ (Moving(s)' <=> Moving(s)) /\ Whole(s)' = Whole(s)
          /\ (Pruned(s)' <=> Pruned(s)) /\ (Deleted(s)' <=> Deleted(s))
      BY <2>1 DEF JobsOf, Moving, Whole, Pruned, Deleted
    <3>3. CASE s # index.at[1]
      <4>1. RowsOf(s)' = RowsOf(s)
        BY <3>1, <3>3 DEF RowsOf
      <4>2. QED
        BY <1>2, <2>1, <3>2, <4>1, Untouched
    <3>4. CASE s = index.at[1]
      <4>1. Read(s) /\ ~Moving(s) /\ ~Pruned(s) /\ ~Deleted(s)
        BY <1>0, <1>2, <2>1, <3>4, NonePaths, OneHand DEF Read
      <4>2. index.at \in Whole(s)
        BY <1>2, <2>1, <4>1 DEF SettledAt, HandSettled
      <4>3. RowsOf(s) = {}
        <5>1. \A r \in RowsOf(s) : PathOf(r) = index.at
          BY <1>2, <4>1, <4>2 DEF SettledAt, RowSettled
        <5>2. QED
          BY <3>1, <5>1 DEF RowsOf, Known
      <4>4. RowsOf(s)' = {new}
        BY <3>1, <3>4, <4>3 DEF RowsOf
      <4>5. \A r \in RowsOf(s)' : PathOf(r)' \in Whole(s)'
        BY <3>1, <3>2, <4>2, <4>4 DEF PathOf
      <4>6. RowSettled(s)'
        BY <1>2, <3>2, <4>1, <4>4, <4>5 DEF SettledAt, RowSettled
      <4>7. HandSettled(s)'
        BY <2>1, <3>2, <4>1 DEF HandSettled
      <4>8. JobSettled(s)'
        <5>1. \A j \in JobsOf(s) : j \in rows' \/ file'[PathOf(j)'] = "none"
          BY <1>2, <2>1, <3>1 DEF SettledAt, JobSettled, PathOf
        <5>2. QED
          BY <1>2, <3>2, <5>1 DEF SettledAt, JobSettled
      <4>9. QED
        BY <4>6, <4>7, <4>8 DEF SettledAt
    <3>5. QED
      BY <3>3, <3>4
  <2>4. QED
    BY <2>2, <2>3
<1>8. QED
  BY <1>3, <1>4, <1>5, <1>6, <1>7 DEF Indexer, Scan

\* A step of the migration does nothing to the segments it does not move.
LEMMA OtherSegments ==
  ASSUME Base, NEW s \in Segs, SettledAt(s), UNCHANGED <<index, prune, del>>,
         ~Moving(s), ~Moving(s)', JobsOf(s)' = JobsOf(s), RowsOf(s)' = RowsOf(s),
         \A p \in Paths : p[1] = s => file'[p] = file[p]
  PROVE  SettledAt(s)'
<1>1. Whole(s)' = Whole(s)
  BY DEF Whole
<1>2. (Pruned(s)' <=> Pruned(s)) /\ (Deleted(s)' <=> Deleted(s)) /\ (Read(s)' <=> Read(s))
  BY DEF Pruned, Deleted, Read
<1>3. Pruned(s) => prune.row \in rows'
  BY DEF SettledAt, HandSettled, Pruned, RowsOf
<1>4. index'.stage = "add" /\ Read(s)' => index'.at \in Whole(s)'
  BY <1>1, <1>2 DEF SettledAt, HandSettled
<1>5. QED
  BY <1>1, <1>2, <1>3, <1>4, Untouched

\* What is known of a calm segment that moves.
LEMMA Alone ==
  ASSUME Base, Settled, NEW s \in Segs \ crossed, Moving(s)
  PROVE  /\ s = mig.src[1] /\ mig.stage \in Moves /\ ~Pruned(s) /\ ~Deleted(s) /\ ~Read(s)
         /\ RowsOf(s) = {Row(mig.id, mig.src)} /\ JobsOf(s) = {} /\ Whole(s) = WholeAt
<1>1. Moving(s) /\ s = mig.src[1] /\ ~Pruned(s) /\ ~Deleted(s) /\ ~Read(s)
  BY OneHand DEF Moving, Base
<1>2. mig.stage \in Moves /\ mig.src \in Paths /\ mig.id \in Nat
  BY <1>1, NonePaths DEF Moving, Base, Shape, MigOK, TypeOK, MigType
<1>3. Row(mig.id, mig.src).seg = s
  BY <1>1, <1>2, RowOfPath
<1>4. RowSettled(s) /\ HandSettled(s) /\ JobSettled(s)
  BY DEF Settled, SettledAt
<1>5. RowsOf(s) = {Row(mig.id, mig.src)}
  BY <1>1, <1>3, <1>4 DEF RowSettled, HandSettled, RowsOf
<1>6. JobsOf(s) = {} /\ Whole(s) = WholeAt
  BY <1>1, <1>4 DEF JobSettled, HandSettled
<1>7. QED
  BY <1>1, <1>2, <1>5, <1>6

\* A move that goes on, or stops and leaves the segment where its row says.
LEMMA MoveOn ==
  ASSUME Base, Settled, NEW s \in Segs \ crossed, Moving(s),
         UNCHANGED <<rows, index, prune, del>>,
         mig'.jobs = mig.jobs, mig'.src = mig.src, mig'.id = mig.id, mig'.dest = mig.dest,
         Whole(s)' = WholeAt'
  PROVE  SettledAt(s)'
<1>1. /\ s = mig.src[1] /\ ~Pruned(s) /\ ~Deleted(s) /\ ~Read(s)
      /\ RowsOf(s) = {Row(mig.id, mig.src)} /\ JobsOf(s) = {}
  BY Alone
<1>2. Moving(s)' /\ ~Pruned(s)' /\ ~Deleted(s)' /\ ~Read(s)'
      /\ RowsOf(s)' = RowsOf(s) /\ JobsOf(s)' = {}
  BY <1>1 DEF Moving, Pruned, Deleted, Read, RowsOf, JobsOf
<1>3. Row(mig.id, mig.src)' \in rows'
  BY <1>1 DEF Row, RowsOf
<1>4. QED
  BY <1>1, <1>2, <1>3 DEF SettledAt, RowSettled, HandSettled, JobSettled

LEMMA MoveEnds ==
  ASSUME Base, Settled, NEW s \in Segs \ crossed, Moving(s), UNCHANGED <<index, prune, del>>,
         mig'.src = None, mig'.jobs = mig.jobs, NEW p, Whole(s)' = {p},
         NEW r, RowsOf(s)' = {r}, PathOf(r) = p
  PROVE  SettledAt(s)'
<1>1. ~Pruned(s) /\ ~Deleted(s) /\ ~Read(s) /\ JobsOf(s) = {}
  BY Alone
<1>2. ~Moving(s)' /\ ~Pruned(s)' /\ ~Deleted(s)' /\ ~Read(s)' /\ JobsOf(s)' = {}
  BY <1>1 DEF Moving, Pruned, Deleted, Read, JobsOf
<1>3. PathOf(r)' = p
  BY DEF PathOf
<1>4. QED
  BY <1>2, <1>3 DEF SettledAt, RowSettled, HandSettled, JobSettled

LEMMA SettledMove ==
  ASSUME Base, Settled,
         \/ MoveFindsNothing \/ Rename \/ Copy \/ CopyMore \/ Copied \/ CopyFails
         \/ UnlinkSource \/ UpdatePath
  PROVE  Settled'
<1>0. /\ file \in [Paths -> Contents] /\ Shape /\ mig \in MigType /\ MigOK /\ rows \subseteq Rows
      /\ mig.stage \in Moves /\ mig.stage # "idle"
  BY DEF Base, Shape, TypeOK, MoveFindsNothing, Rename, Copy, CopyMore, Copied, CopyFails,
     UnlinkSource, UpdatePath, Moves
<1>1. UNCHANGED <<index, prune, del, crossed>>
  BY DEF MoveFindsNothing, Rename, Copy, CopyMore, Copied, CopyFails, UnlinkSource,
     UpdatePath, history, threads
<1>2. /\ mig.src \in Paths /\ mig.dest \in Paths /\ mig.src # mig.dest /\ mig.src # None
      /\ mig.dest[1] = mig.src[1]
  BY <1>0, DestIsPath, NonePaths
<1>3. \A p \in Paths : p \in {mig.src, mig.dest} \/ file'[p] = file[p]
  BY <1>0, <1>2 DEF MoveFindsNothing, Rename, Copy, CopyMore, Copied, CopyFails, UnlinkSource,
     UpdatePath, Remove, Put, disk
<1>4. \/ MoveFailed \/ mig' = AnotherMove(mig) \/ mig' = mig
      \/ \E stage \in Moves : mig' = [mig EXCEPT !.stage = stage]
  BY DEF MoveFindsNothing, Rename, Copy, CopyMore, Copied, CopyFails, UnlinkSource,
     UpdatePath, Moves, threads
<1>5. mig'.src \in {mig.src, None} /\ mig'.jobs = mig.jobs
  BY <1>0, <1>4, AnotherMoveType, StageType
<1>6. rows' = rows \/ (UpdatePath /\ rows' = {Renamed(r) : r \in rows})
  BY DEF MoveFindsNothing, Rename, Copy, CopyMore, Copied, CopyFails, UnlinkSource,
     UpdatePath, Renamed, db
<1>7. ASSUME NEW s \in Segs \ crossed, s # mig.src[1]
      PROVE  SettledAt(s)'
  <2>1. SettledAt(s) /\ ~Moving(s) /\ ~Moving(s)' /\ JobsOf(s)' = JobsOf(s)
    BY <1>2, <1>5, <1>7 DEF Settled, Moving, JobsOf
  <2>2. RowsOf(s)' = RowsOf(s)
    <3>1. CASE rows' = rows
      BY <3>1 DEF RowsOf
    <3>2. CASE UpdatePath /\ rows' = {Renamed(r) : r \in rows}
      <4>1. mig.stage = "update"
        BY <3>2 DEF UpdatePath
      <4>2. \A r \in rows : Renamed(r).seg = s \/ r.seg = s => Renamed(r) = r
        BY <1>0, <1>7, <4>1, RenamedRow
      <4>3. QED
        BY <3>2, <4>2 DEF RowsOf
    <3>3. QED
      BY <1>6, <3>1, <3>2
  <2>3. \A p \in Paths : p[1] = s => file'[p] = file[p]
    BY <1>2, <1>3, <1>7
  <2>4. QED
    BY <1>1, <2>1, <2>2, <2>3, OtherSegments
<1>8. SUFFICES ASSUME NEW s \in Segs \ crossed, s = mig.src[1]
               PROVE  SettledAt(s)'
  BY <1>1, <1>7 DEF Settled
<1>9. /\ Moving(s) /\ Whole(s) = WholeAt
      /\ RowsOf(s) = {Row(mig.id, mig.src)} /\ mig.id \in Nat
  BY <1>0, <1>2, <1>8, Alone DEF Moving, MigType
<1>10. mig.stage \in {"move", "copy"} => file[mig.src] = "good" /\ file[mig.dest] # "good"
                                         /\ Whole(s) = {mig.src}
  BY <1>2, <1>8, <1>9 DEF Whole, WholeAt
<1>11. mig.stage = "unlink" => file[mig.src] = "good" /\ Whole(s) = {mig.src, mig.dest}
  BY <1>2, <1>8, <1>9 DEF Whole, WholeAt
<1>12. ASSUME MoveFailed, UNCHANGED rows, Whole(s)' = {mig.src}
       PROVE  SettledAt(s)'
  <2>1. mig'.src = None /\ mig'.jobs = mig.jobs
    BY <1>0, <1>12, AnotherMoveType
  <2>2. PathOf(Row(mig.id, mig.src)) = mig.src
    BY <1>2, <1>9, RowOfPath
  <2>3. RowsOf(s)' = RowsOf(s)
    BY <1>12 DEF RowsOf
  <2>4. PICK r : RowsOf(s) = {r} /\ PathOf(r) = mig.src
    BY <1>9, <2>2
  <2>5. PICK p : p = mig.src
    OBVIOUS
  <2>6. Whole(s)' = {p} /\ RowsOf(s)' = {r} /\ PathOf(r) = p
    BY <1>12, <2>3, <2>4, <2>5
  <2>7. QED
    BY <1>1, <1>9, <2>1, <2>6, MoveEnds
<1>13. ASSUME NEW stage \in Moves, mig' = [mig EXCEPT !.stage = stage], UNCHANGED rows,
              Whole(s)' = IF stage \in {"move", "copy"} THEN {mig.src}
                          ELSE IF stage = "unlink" THEN {mig.src, mig.dest} ELSE {mig.dest}
       PROVE  SettledAt(s)'
  <2>1. /\ mig'.stage = stage /\ mig'.src = mig.src /\ mig'.dest = mig.dest
        /\ mig'.jobs = mig.jobs /\ mig'.id = mig.id
    BY <1>0, <1>13, StageType
  <2>2. Whole(s)' = WholeAt'
    BY <1>13, <2>1 DEF WholeAt
  <2>3. QED
    BY <1>1, <1>9, <1>13, <2>1, <2>2, MoveOn
<1>14. CASE MoveFindsNothing
  BY <1>10, <1>14 DEF MoveFindsNothing
<1>15. CASE Rename
  <2>1. Whole(s)' = {mig.dest}
    BY <1>0, <1>2, <1>8, <1>10, <1>15 DEF Rename, Whole
  <2>2. QED
    BY <1>13, <1>15, <2>1 DEF Rename, Moves, db
<1>16. CASE Copy
  <2>1. Whole(s)' = {mig.src}
    BY <1>0, <1>2, <1>8, <1>10, <1>16 DEF Copy, Put, Whole
  <2>2. QED
    BY <1>13, <1>16, <2>1 DEF Copy, Moves, db
<1>17. CASE CopyMore
  <2>1. Whole(s)' = Whole(s)
    BY <1>0, <1>2, <1>10, <1>17 DEF CopyMore, Put, Whole
  <2>2. UNCHANGED <<mig, rows>>
    BY <1>17 DEF CopyMore, threads, db
  <2>3. WholeAt' = WholeAt
    BY <2>2 DEF WholeAt
  <2>4. QED
    BY <1>1, <1>9, <2>1, <2>2, <2>3, MoveOn
<1>18. CASE Copied
  <2>1. mig.stage = "copy" /\ UNCHANGED rows
    BY <1>18 DEF Copied, db
  <2>2. CASE file[mig.dest] = "none"
    <3>1. MoveFailed /\ Whole(s)' = {mig.src}
      BY <1>10, <1>18, <2>1, <2>2 DEF Copied, Whole, disk
    <3>2. QED
      BY <1>12, <2>1, <3>1
  <2>3. CASE file[mig.dest] # "none"
    <3>1. mig' = [mig EXCEPT !.stage = "unlink"] /\ Put(mig.dest, "good", age[mig.src])
      BY <1>10, <1>18, <2>1, <2>3 DEF Copied
    <3>2. Whole(s)' = {mig.src, mig.dest}
      BY <1>0, <1>2, <1>8, <1>10, <2>1, <3>1 DEF Put, Whole
    <3>3. QED
      BY <1>13, <2>1, <3>1, <3>2 DEF Moves
  <2>4. QED
    BY <2>2, <2>3
<1>19. CASE CopyFails
  <2>1. MoveFailed /\ UNCHANGED <<rows, file>> /\ mig.stage = "copy"
    BY <1>19 DEF CopyFails, db, disk
  <2>2. Whole(s)' = {mig.src}
    BY <1>10, <2>1 DEF Whole
  <2>3. QED
    BY <1>12, <2>1, <2>2
<1>20. CASE UnlinkSource
  <2>1. /\ mig.stage = "unlink" /\ UNCHANGED rows
        /\ Remove(mig.src) /\ mig' = [mig EXCEPT !.stage = "update"]
    BY <1>11, <1>20 DEF UnlinkSource, db
  <2>2. Whole(s)' = {mig.dest}
    BY <1>0, <1>2, <1>11, <2>1 DEF Remove, Put, Whole
  <2>3. QED
    BY <1>13, <2>1, <2>2 DEF Moves
<1>21. CASE UpdatePath
  <2>1. mig.stage = "update" /\ UNCHANGED file
    BY <1>21 DEF UpdatePath, disk
  <2>2. mig.dest \notin Known
    <3>1. ASSUME NEW r \in rows, PathOf(r) = mig.dest
          PROVE  FALSE
      <4>1. r \in RowsOf(s)
        BY <1>0, <1>2, <1>8, <3>1, PathOfRow DEF RowsOf
      <4>2. PathOf(r) = mig.src
        BY <1>2, <1>9, <4>1, RowOfPath
      <4>3. QED
        BY <1>2, <3>1, <4>2
    <3>2. QED
      BY <3>1 DEF Known
  <2>3. rows' = {Renamed(r) : r \in rows} /\ mig' = AnotherMove(mig)
    BY <1>21, <2>2 DEF UpdatePath, Renamed
  <2>4. \A r \in rows : Renamed(r).seg = r.seg
    BY <1>0, <2>1, RenamedRow
  <2>5. RowsOf(s)' = {Renamed(r) : r \in RowsOf(s)}
    BY <2>3, <2>4 DEF RowsOf
  <2>6. PICK r : r = Renamed(Row(mig.id, mig.src))
    OBVIOUS
  <2>7. Row(mig.id, mig.src) \in rows /\ Row(mig.id, mig.src).id = mig.id
    BY <1>2, <1>9, RowOfPath DEF RowsOf
  <2>8. PathOf(r) = mig.dest
    BY <1>0, <2>1, <2>6, <2>7, RenamedRow
  <2>9. RowsOf(s)' = {r}
    BY <1>9, <2>5, <2>6
  <2>10. PICK p : p = mig.dest
    OBVIOUS
  <2>11. Whole(s)' = {p}
    BY <1>9, <2>1, <2>10 DEF Whole, WholeAt
  <2>12. mig'.src = None /\ mig'.jobs = mig.jobs
    BY <1>0, <2>3, AnotherMoveType
  <2>13. QED
    BY <1>1, <1>9, <2>8, <2>9, <2>10, <2>11, <2>12, MoveEnds
<1>22. QED
  BY <1>14, <1>15, <1>16, <1>17, <1>18, <1>19, <1>20, <1>21

\* After the step, as OneHand says it of before.
LEMMA OneHandNext ==
  ASSUME Met', NEW s \in Segs, s \notin crossed'
  PROVE  /\ Moving(s)' => ~Pruned(s)' /\ ~Deleted(s)' /\ ~Read(s)'
         /\ Pruned(s)' => ~Deleted(s)' /\ ~Read(s)'
         /\ Deleted(s)' => ~Read(s)' /\ s \notin Listed'
<1>1. /\ Read(s)' => s \in InHand("index")'
      /\ Moving(s)' => s \in InHand("migrate")'
      /\ Pruned(s)' => s \in InHand("prune")'
      /\ Deleted(s)' => s \in InHand("delete")'
  BY DEF InHand, Read, Moving, Pruned, Deleted
<1>2. /\ \A t, u \in Threads : t # u => InHand(t)' \cap InHand(u)' \subseteq crossed'
      /\ InHand("delete")' \cap Listed' \subseteq crossed'
  BY DEF Met
<1>3. QED
  BY <1>1, <1>2 DEF Threads

LEMMA SettledTake ==
  ASSUME Base, Base', Settled, MigrateStart \/ MigrateNext \/ MigrateEnd
  PROVE  Settled'
<1>0. /\ Shape /\ MigOK /\ mig.src = None
      /\ UNCHANGED <<file, rows, index, prune, del>> /\ crossed \subseteq crossed'
  BY Meets DEF Base, Shape, MigrateStart, MigrateNext, MigrateEnd, MigOK, Moves, disk, db,
     history
<1>1. SUFFICES ASSUME NEW s \in Segs \ crossed'
               PROVE  SettledAt(s)'
  BY DEF Settled
<1>2. SettledAt(s) /\ RowSettled(s) /\ HandSettled(s) /\ JobSettled(s) /\ ~Moving(s)
  BY <1>0 DEF Settled, SettledAt, Moving
<1>3. /\ RowsOf(s)' = RowsOf(s) /\ Whole(s)' = Whole(s)
      /\ (Read(s)' <=> Read(s)) /\ (Pruned(s)' <=> Pruned(s))
      /\ (Deleted(s)' <=> Deleted(s)) /\ \A r : PathOf(r)' = PathOf(r)
  BY <1>0 DEF RowsOf, Whole, Read, Pruned, Deleted, PathOf
<1>4. ASSUME ~Moving(s)',
             \A j \in JobsOf(s)' : j \in JobsOf(s) \/ j \in RowsOf(s),
             \A j, k \in JobsOf(s)' : j = k
      PROVE  SettledAt(s)'
  <2>1. RowSettled(s)'
    BY <1>2, <1>3, <1>4 DEF RowSettled
  <2>2. HandSettled(s)'
    BY <1>0, <1>2, <1>3, <1>4 DEF HandSettled
  <2>3. JobSettled(s)'
    BY <1>0, <1>2, <1>3, <1>4 DEF JobSettled, RowsOf
  <2>4. QED
    BY <2>1, <2>2, <2>3 DEF SettledAt
<1>5. CASE MigrateStart
  <2>1. mig'.src = None /\ mig'.jobs \subseteq rows
    BY <1>0, <1>5, StartStep
  <2>2. JobsOf(s)' \subseteq RowsOf(s) /\ ~Moving(s)'
    BY <2>1 DEF JobsOf, RowsOf, Moving
  <2>3. QED
    BY <1>2, <1>4, <2>2 DEF RowSettled
<1>6. CASE MigrateEnd
  BY <1>4, <1>6 DEF MigrateEnd, NoMove, JobsOf, Moving
<1>7. CASE MigrateNext
  <2>1. PICK j \in mig.jobs :
          /\ j \in Rows /\ PathOf(j) \in Paths /\ PathOf(j)[1] = j.seg
          /\ mig'.jobs = mig.jobs \ {j}
          /\ IF file[PathOf(j)] = "none"
             THEN mig'.stage = "next" /\ mig'.src = None
             ELSE /\ mig'.stage = "move" /\ mig'.id = j.id /\ mig'.src = PathOf(j)
                  /\ mig'.dest = <<j.seg, mig.to>>
    BY <1>0, <1>7, NextStep
  <2>2. JobsOf(s)' = JobsOf(s) \ {j}
    BY <2>1 DEF JobsOf
  <2>3. CASE file[PathOf(j)] = "none" \/ j.seg # s
    <3>1. ~Moving(s)'
      BY <2>1, <2>3 DEF Moving
    <3>2. QED
      BY <1>2, <1>4, <2>2, <3>1 DEF JobSettled
  <2>4. CASE file[PathOf(j)] # "none" /\ j.seg = s
    <3>1. Moving(s)' /\ mig'.stage = "move" /\ mig'.src = PathOf(j) /\ mig'.id = j.id
      BY <2>1, <2>4, NonePaths DEF Moving
    <3>2. ~Pruned(s)' /\ ~Deleted(s)' /\ ~Read(s)'
      BY <3>1, OneHandNext DEF Base
    <3>3. j \in RowsOf(s) /\ JobsOf(s)' = {}
      BY <1>2, <2>1, <2>2, <2>4 DEF JobSettled, JobsOf, RowsOf
    <3>4. Whole(s) = {PathOf(j)}
      BY <1>2, <1>3, <3>2, <3>3 DEF RowSettled
    <3>5. Row(mig.id, mig.src)' = Row(j.id, PathOf(j))
      BY <3>1 DEF Row
    <3>6. Row(mig.id, mig.src)' \in rows'
      BY <1>0, <2>1, <3>3, <3>5, PathOfRow DEF RowsOf
    <3>7. Whole(s)' = WholeAt'
      BY <1>3, <3>1, <3>4 DEF WholeAt
    <3>8. RowSettled(s)' /\ HandSettled(s)'
      BY <1>2, <1>3, <3>1, <3>2, <3>6, <3>7 DEF RowSettled, HandSettled
    <3>9. JobSettled(s)'
      BY <3>3 DEF JobSettled
    <3>10. QED
      BY <3>8, <3>9 DEF SettledAt
  <2>5. QED
    BY <2>3, <2>4
<1>8. QED
  BY <1>5, <1>6, <1>7

LEMMA SettledPrune ==
  ASSUME Base, Base', Settled, Prune
  PROVE  Settled'
<1>0. /\ Shape /\ PruneOK /\ Ids /\ Met /\ file \in [Paths -> Contents]
      /\ prune \in PruneType /\ rows \subseteq Rows
      /\ UNCHANGED <<index, mig, del>> /\ crossed \subseteq crossed'
  BY Meets DEF Base, Shape, TypeOK, Prune, PruneBegin, PruneUnlink, PruneRow, history
<1>1. SUFFICES ASSUME NEW s \in Segs \ crossed'
               PROVE  SettledAt(s)'
  BY DEF Settled
<1>2. SettledAt(s) /\ s \in Segs \ crossed
  BY <1>0 DEF Settled
<1>3. /\ JobsOf(s)' = JobsOf(s) /\ (Moving(s)' <=> Moving(s)) /\ (Read(s)' <=> Read(s))
      /\ (Deleted(s)' <=> Deleted(s)) /\ \A r : PathOf(r)' = PathOf(r)
  BY <1>0 DEF JobsOf, Moving, Read, Deleted, PathOf
<1>4. index.stage = "add" /\ Read(s) => index.at \in Whole(s)
  BY <1>2 DEF SettledAt, HandSettled
<1>5. CASE PruneBegin
  <2>1. UNCHANGED <<rows, file>>
    BY <1>5 DEF PruneBegin, disk, db
  <2>2. prune.stage = "idle" /\ prune'.stage = "unlink" /\ prune'.row \in rows
    BY <1>5 DEF PruneBegin
  <2>3. RowsOf(s)' = RowsOf(s) /\ Whole(s)' = Whole(s) /\ ~Pruned(s)
    BY <2>1, <2>2 DEF RowsOf, Whole, Pruned
  <2>4. QED
    BY <1>0, <1>2, <1>3, <1>4, <2>1, <2>2, <2>3, Untouched
<1>6. CASE PruneUnlink
  <2>1. PICK r : r = prune.row
    OBVIOUS
  <2>2. /\ r \in Rows /\ PathOf(r) \in Paths /\ PathOf(r)[1] = r.seg
        /\ file' = [file EXCEPT ![PathOf(r)] = "none"] /\ UNCHANGED rows
        /\ prune.stage = "unlink" /\ prune'.stage = "row" /\ prune'.row = r
    BY <1>0, <1>6, <2>1, PathOfRow DEF PruneUnlink, PruneOK, Remove, Put, PruneType, db
  <2>3. RowsOf(s)' = RowsOf(s) /\ (Pruned(s)' <=> Pruned(s)) /\ (Pruned(s) <=> r.seg = s)
    BY <2>1, <2>2 DEF RowsOf, Pruned
  <2>4. CASE r.seg # s
    <3>1. Whole(s)' = Whole(s)
      BY <1>0, <2>2, <2>4 DEF Whole
    <3>2. QED
      BY <1>0, <1>2, <1>3, <1>4, <2>2, <2>3, <2>4, <3>1, Untouched
  <2>5. CASE r.seg = s
    <3>1. ~Moving(s) /\ ~Deleted(s) /\ ~Read(s)
      BY <1>0, <1>2, <2>3, <2>5, OneHand
    <3>2. Whole(s)' \subseteq Whole(s)
      BY <1>0, <2>2 DEF Whole
    <3>3. RowSettled(s)'
      BY <1>2, <1>3, <2>3, <2>5, <3>1, <3>2 DEF SettledAt, RowSettled
    <3>4. HandSettled(s)'
      BY <1>0, <1>2, <1>3, <2>1, <2>2, <2>3, <2>5, <3>1 DEF SettledAt, HandSettled
    <3>5. \A j \in JobsOf(s) : j \in rows' \/ file'[PathOf(j)] = "none"
      BY <1>0, <1>2, <2>2 DEF SettledAt, JobSettled
    <3>6. JobSettled(s)'
      BY <1>2, <1>3, <3>1, <3>5 DEF SettledAt, JobSettled
    <3>7. QED
      BY <3>3, <3>4, <3>6 DEF SettledAt
  <2>6. QED
    BY <2>4, <2>5
<1>7. CASE PruneRow
  <2>1. PICK r : r = prune.row
    OBVIOUS
  <2>2. /\ r \in Rows /\ prune.stage = "row" /\ prune'.stage = "idle" /\ UNCHANGED file
        /\ rows' = {q \in rows : q.id # r.id} /\ \A q \in rows : q.id = r.id => q.seg = r.seg
    BY <1>0, <1>7, <2>1 DEF PruneRow, PruneOK, NoPrune, Ids, Named, disk
  <2>3. Whole(s)' = Whole(s) /\ ~Pruned(s)' /\ (Pruned(s) <=> r.seg = s)
    BY <2>1, <2>2 DEF Whole, Pruned
  <2>4. CASE r.seg # s
    <3>1. RowsOf(s)' = RowsOf(s)
      BY <2>2, <2>4 DEF RowsOf
    <3>2. QED
      BY <1>0, <1>2, <1>3, <1>4, <2>2, <2>3, <2>4, <3>1, Untouched
  <2>5. CASE r.seg = s
    <3>1. ~Moving(s) /\ ~Deleted(s) /\ ~Read(s)
      BY <1>0, <1>2, <2>3, <2>5, OneHand
    <3>2. r \in RowsOf(s) /\ file[PathOf(r)] = "none" /\ \A q \in RowsOf(s) : q = r
      BY <1>2, <2>1, <2>2, <2>3, <2>5 DEF SettledAt, HandSettled, RowSettled, RowsOf
    <3>3. RowsOf(s)' = {}
      BY <2>2, <3>2 DEF RowsOf
    <3>4. RowSettled(s)' /\ HandSettled(s)'
      BY <1>2, <1>3, <2>3, <3>1, <3>3 DEF SettledAt, RowSettled, HandSettled
    <3>5. \A j \in JobsOf(s) : file'[PathOf(j)] = "none"
      <4>1. ASSUME NEW j \in JobsOf(s), j \in rows
            PROVE  j = r
        BY <3>2, <4>1 DEF RowsOf, JobsOf
      <4>2. QED
        BY <1>2, <2>2, <3>2, <4>1 DEF SettledAt, JobSettled
    <3>6. JobSettled(s)'
      BY <1>2, <1>3, <3>1, <3>5 DEF SettledAt, JobSettled
    <3>7. QED
      BY <3>4, <3>6 DEF SettledAt
  <2>6. QED
    BY <2>4, <2>5
<1>8. QED
  BY <1>5, <1>6, <1>7 DEF Prune

LEMMA SettledDelete ==
  ASSUME Base, Base', Settled, Delete
  PROVE  Settled'
<1>0. /\ Shape /\ Met /\ file \in [Paths -> Contents] /\ del \in DelType
      /\ UNCHANGED <<index, mig, prune>> /\ crossed \subseteq crossed'
  BY Meets DEF Base, Shape, TypeOK, Delete, DeleteBegin, DeleteCamera, DeleteSegments,
     DeleteSync, history
<1>1. SUFFICES ASSUME NEW s \in Segs \ crossed'
               PROVE  SettledAt(s)'
  BY DEF Settled
<1>2. SettledAt(s) /\ s \in Segs \ crossed
  BY <1>0 DEF Settled
<1>3. /\ JobsOf(s)' = JobsOf(s) /\ (Moving(s)' <=> Moving(s)) /\ (Read(s)' <=> Read(s))
      /\ (Pruned(s)' <=> Pruned(s)) /\ \A r : PathOf(r)' = PathOf(r)
  BY <1>0 DEF JobsOf, Moving, Read, Pruned, PathOf
<1>4. /\ index.stage = "add" /\ Read(s) => index.at \in Whole(s)
      /\ Pruned(s) => prune.row \in rows /\ prune.row.seg = s
  BY <1>2 DEF SettledAt, HandSettled, Pruned
<1>5. ASSUME NEW c \in Cameras, NEW purge \in BOOLEAN, DeleteBegin(c, purge)
      PROVE  SettledAt(s)'
  <2>1. /\ del.stage = "idle" /\ del'.stage = "camera" /\ del'.cam = c /\ UNCHANGED rows
        /\ \A p \in Paths : file'[p] = file[p] \/ (p \in PathsOf(c) /\ file'[p] = "none")
    BY <1>0, <1>5 DEF DeleteBegin, db, disk
  <2>2. RowsOf(s)' = RowsOf(s) /\ ~Deleted(s) /\ (Deleted(s)' <=> CamOf[s] = c)
    BY <2>1 DEF RowsOf, Deleted
  <2>3. CASE CamOf[s] # c
    <3>1. Whole(s)' = Whole(s)
      BY <2>1, <2>3 DEF Whole, PathsOf
    <3>2. QED
      BY <1>0, <1>2, <1>3, <1>4, <2>1, <2>2, <2>3, <3>1, Untouched
  <2>4. CASE CamOf[s] = c
    <3>1. Deleted(s)' /\ ~Moving(s)' /\ ~Pruned(s)' /\ ~Read(s)' /\ s \notin Listed'
      BY <2>2, <2>4, OneHandNext DEF Base
    <3>2. Whole(s)' \subseteq Whole(s) /\ JobsOf(s)' = {}
      BY <2>1, <3>1 DEF Whole, Listed, JobsOf
    <3>3. QED
      BY <1>2, <1>3, <2>1, <2>2, <3>1, <3>2
      DEF SettledAt, RowSettled, HandSettled, JobSettled
  <2>5. QED
    BY <2>3, <2>4
<1>6. CASE DeleteCamera
  <2>1. /\ del.stage = "camera" /\ del'.stage = "segments" /\ del'.cam = del.cam
        /\ UNCHANGED <<rows, file>>
    BY <1>0, <1>6 DEF DeleteCamera, DelType, disk
  <2>2. RowsOf(s)' = RowsOf(s) /\ Whole(s)' = Whole(s) /\ (Deleted(s)' <=> Deleted(s))
    BY <2>1 DEF RowsOf, Whole, Deleted
  <2>3. QED
    BY <1>0, <1>2, <1>3, <1>4, <2>1, <2>2, Untouched
<1>7. CASE DeleteSegments
  <2>1. /\ del.stage = "segments" /\ del'.stage = "sync" /\ del'.cam = del.cam
        /\ rows' = {r \in rows : CamOf[r.seg] # del.cam} /\ UNCHANGED file
    BY <1>0, <1>7 DEF DeleteSegments, DelType, disk
  <2>2. /\ Whole(s)' = Whole(s) /\ (Deleted(s)' <=> Deleted(s))
        /\ (Deleted(s) <=> CamOf[s] = del.cam)
    BY <2>1 DEF Whole, Deleted
  <2>3. CASE ~Deleted(s)
    <3>1. RowsOf(s)' = RowsOf(s)
      BY <2>1, <2>2, <2>3 DEF RowsOf
    <3>2. QED
      BY <1>0, <1>2, <1>3, <1>4, <2>1, <2>2, <2>3, <3>1, Untouched DEF RowsOf
  <2>4. CASE Deleted(s)
    <3>1. ~Moving(s) /\ ~Pruned(s) /\ ~Read(s) /\ s \notin Listed
      BY <1>0, <1>2, <2>4, OneHand
    <3>2. RowsOf(s)' = {} /\ JobsOf(s) = {}
      BY <2>1, <2>2, <2>4, <3>1 DEF RowsOf, JobsOf, Listed
    <3>3. QED
      BY <1>2, <1>3, <2>2, <3>1, <3>2
      DEF SettledAt, RowSettled, HandSettled, JobSettled
  <2>5. QED
    BY <2>3, <2>4
<1>8. CASE DeleteSync
  <2>1. /\ del.stage = "sync" /\ del'.stage = "idle" /\ UNCHANGED <<rows, file>>
    BY <1>8 DEF DeleteSync, NoDelete, disk, db
  <2>2. RowsOf(s)' = RowsOf(s) /\ Whole(s)' = Whole(s) /\ ~Deleted(s)'
    BY <2>1 DEF RowsOf, Whole, Deleted
  <2>3. CASE ~Deleted(s)
    BY <1>0, <1>2, <1>3, <1>4, <2>1, <2>2, <2>3, Untouched
  <2>4. CASE Deleted(s)
    <3>1. ~Moving(s) /\ ~Pruned(s) /\ ~Read(s) /\ s \notin Listed
      BY <1>0, <1>2, <2>4, OneHand
    <3>2. RowsOf(s) = {} /\ JobsOf(s) = {}
      BY <1>2, <2>1, <2>4, <3>1 DEF SettledAt, HandSettled, JobsOf, Listed
    <3>3. QED
      BY <1>2, <1>3, <2>2, <3>1, <3>2
      DEF SettledAt, RowSettled, HandSettled, JobSettled
  <2>5. QED
    BY <2>3, <2>4
<1>9. QED
  BY <1>5, <1>6, <1>7, <1>8 DEF Delete

LEMMA SettledRest ==
  ASSUME Base, Settled,
         \/ \E p \in Paths : GrowOld(p)
         \/ \E vols \in SUBSET Volumes \ {{}} : \E first \in vols : SetPool(vols, first)
         \/ Crash
         \/ UNCHANGED vars
  PROVE  Settled'
<1>0. crossed \subseteq crossed' /\ UNCHANGED <<file, rows>>
  BY DEF GrowOld, SetPool, Crash, vars, disk, db, history
<1>1. SUFFICES ASSUME NEW s \in Segs \ crossed'
               PROVE  SettledAt(s)'
  BY DEF Settled
<1>2. SettledAt(s) /\ s \in Segs \ crossed
  BY <1>0 DEF Settled
<1>3. CASE Crash
  <2>1. ~Moving(s) /\ ~Pruned(s) /\ ~Deleted(s) /\ ~Read(s)
    <3>1. \A t \in Threads : s \notin InHand(t)
      BY <1>3 DEF Crash
    <3>2. QED
      BY <3>1 DEF Threads, InHand, Moving, Pruned, Deleted, Read
  <2>2. /\ ~Moving(s)' /\ ~Pruned(s)' /\ ~Deleted(s)' /\ ~Read(s)' /\ JobsOf(s)' = {}
        /\ RowsOf(s)' = RowsOf(s) /\ Whole(s)' = Whole(s) /\ \A r : PathOf(r)' = PathOf(r)
    BY <1>0, <1>3 DEF Crash, NoIndex, NoMove, NoPrune, NoDelete, Moving, Pruned, Deleted,
       Read, JobsOf, RowsOf, Whole, PathOf
  <2>3. QED
    BY <1>2, <2>1, <2>2 DEF SettledAt, RowSettled, HandSettled, JobSettled
<1>4. CASE ~Crash
  <2>1. UNCHANGED <<index, mig, prune, del>>
    BY <1>4 DEF GrowOld, SetPool, vars, threads
  <2>2. QED
    BY <1>0, <1>2, <2>1, SameRows
<1>5. QED
  BY <1>3, <1>4

LEMMA SettledAlways == Spec => [](Base /\ Condemned /\ Settled)
<1>1. Init => Settled
  BY DEF Init, Settled, SettledAt, RowSettled, HandSettled, JobSettled, RowsOf, JobsOf,
     Whole, Moving, Pruned, Deleted, Read, NoIndex, NoMove, NoPrune, NoDelete
<1>2. Base /\ Base' /\ Condemned /\ Settled /\ [Next]_vars => Settled'
  BY SettledFfmpeg, SettledIndexer, SettledMove, SettledTake, SettledPrune, SettledDelete,
     SettledRest
  DEF Next, Ffmpeg, Migrator
<1>3. QED
  BY <1>1, <1>2, CondemnedAlways, PTL DEF Spec

\* Wherever the indexer, a migration and a deletion have got to, the row of a segment
\* that is not crossed and that none of them has in hand names a whole file: the
\* timeline lists nothing that does not play (recorder.py:497, storage_migrate.py:131).
THEOREM RowsPlay == Spec => []Playable
<1>1. Base /\ Settled => Playable
  <2>1. SUFFICES ASSUME Base, Settled, NEW r \in rows, r.seg \notin crossed,
                        \A t \in Threads : r.seg \notin InHand(t)
                 PROVE  file[PathOf(r)] = "good"
    BY DEF Playable
  <2>2. r.seg \in Segs
    BY <2>1 DEF Base, Shape, TypeOK, Rows
  <2>3. ~Moving(r.seg) /\ ~Pruned(r.seg) /\ ~Deleted(r.seg)
    BY <2>1, <2>2 DEF Threads, InHand, Moving, Pruned, Deleted
  <2>4. PathOf(r) \in Whole(r.seg)
    BY <2>1, <2>2, <2>3 DEF Settled, SettledAt, RowSettled, RowsOf
  <2>5. QED
    BY <2>4 DEF Whole
<1>2. QED
  BY <1>1, SettledAlways, PTL

-----------------------------------------------------------------------------
(* What survives. *)

Kept == done \ (doomed \cup mistaken \cup spoiled)

KeptWhole == \A s \in Kept : Whole(s) # {}

\* A copy is not whole before it is complete, and the source is unlinked when the
\* segment is whole elsewhere.
Copying ==
    /\ mig.stage = "copy" => file[mig.dest] # "good"
    /\ mig.stage = "unlink" /\ mig.src[1] \in Kept =>
          \E p \in Whole(mig.src[1]) : p # mig.src

\* A step that takes no whole file of what is kept, and is not a step of a copy.
LEMMA KeptFrame ==
  ASSUME Shape, KeptWhole, Copying, Kept' \subseteq Kept,
         \A p \in Paths : p[1] \in Kept' /\ file[p] = "good" => file'[p] = "good",
         mig' = mig \/ mig'.stage \notin {"copy", "unlink"},
         mig' = mig /\ mig.stage = "copy" => file'[mig.dest] # "good"
  PROVE  KeptWhole' /\ Copying'
<1>1. \A s \in Kept' : Whole(s) \subseteq Whole(s)'
  BY DEF Whole
<1>2. KeptWhole'
  BY <1>1 DEF KeptWhole
<1>3. ASSUME mig'.stage = "unlink", mig'.src[1] \in Kept'
      PROVE  \E p \in Whole(mig.src[1])' : p # mig'.src
  <2>1. PICK s : s = mig.src[1]
    OBVIOUS
  <2>2. mig' = mig /\ s \in Kept /\ s \in Kept'
    BY <1>3, <2>1
  <2>3. PICK p \in Whole(s) : p # mig.src
    BY <1>3, <2>1, <2>2 DEF Copying
  <2>4. p \in Whole(s)'
    BY <1>1, <2>2, <2>3
  <2>5. Whole(mig.src[1])' = Whole(s)'
    BY <2>1, <2>2 DEF Whole
  <2>6. QED
    BY <2>2, <2>3, <2>4, <2>5
<1>4. QED
  BY <1>2, <1>3 DEF Copying

LEMMA KeptFfmpeg ==
  ASSUME Base, KeptWhole, Copying, NEW c \in Cameras,
         OpenSegment(c) \/ WriteSegment(c) \/ CloseSegment(c) \/ FfmpegDies(c)
  PROVE  KeptWhole' /\ Copying'
<1>0. /\ file \in [Paths -> Contents] /\ Shape /\ Fresh /\ Completed
  BY DEF Base, Shape, TypeOK
<1>1. /\ UNCHANGED <<mig, doomed, mistaken, spoiled>>
      /\ mig.stage \in Moves => mig.dest \in Paths /\ mig.dest[1] \in done
                              /\ mig.src[1] \in done
  <2>1. UNCHANGED <<mig, doomed, mistaken, spoiled>>
    BY DEF OpenSegment, WriteSegment, CloseSegment, FfmpegDies, threads, history
  <2>2. QED
    BY <1>0, <2>1, DestIsPath, NonePaths DEF Completed
<1>2. CASE OpenSegment(c)
  <2>1. PICK p \in PathsOf(c) : Put(p, "empty", "fresh") /\ p[1] \notin done
    BY <1>2 DEF OpenSegment
  <2>2. p \in Paths /\ UNCHANGED done
    BY <1>2, <2>1 DEF OpenSegment, PathsOf, history
  <2>3. QED
    BY <1>0, <1>1, <2>1, <2>2, KeptFrame DEF Put, Kept, Copying
<1>3. CASE WriteSegment(c)
  <2>1. writing[c] \in Paths /\ Put(writing[c], "open", "fresh") /\ UNCHANGED done
        /\ file[writing[c]] \in {"empty", "open"}
    BY <1>0, <1>3 DEF WriteSegment, Fresh, PathsOf, history
  <2>2. QED
    BY <1>0, <1>1, <2>1, KeptFrame DEF Put, Kept, Copying
<1>4. CASE FfmpegDies(c) \/ (CloseSegment(c) /\ file[writing[c]] = "none")
  BY <1>0, <1>1, <1>4, KeptFrame DEF FfmpegDies, CloseSegment, disk, history, Kept, Copying
<1>5. CASE CloseSegment(c) /\ file[writing[c]] # "none"
  <2>1. PICK p : p = writing[c]
    OBVIOUS
  <2>2. /\ p \in Paths /\ p[1] \notin done /\ file' = [file EXCEPT ![p] = "good"]
        /\ done' = done \cup {p[1]}
    BY <1>0, <1>5, <2>1 DEF CloseSegment, Fresh, PathsOf, Put
  <2>3. \A s \in Kept' : s \in Kept \/ s = p[1]
    BY <1>1, <2>2 DEF Kept
  <2>4. \A s : Whole(s) \subseteq Whole(s)'
    BY <1>0, <2>2 DEF Whole
  <2>5. p \in Whole(p[1])'
    BY <1>0, <2>2 DEF Whole
  <2>6. KeptWhole'
    BY <2>3, <2>4, <2>5 DEF KeptWhole
  <2>7. mig'.stage = "copy" => file'[mig'.dest] # "good"
    BY <1>0, <1>1, <2>2 DEF Copying, Moves
  <2>8. mig'.stage = "unlink" /\ mig'.src[1] \in Kept' =>
          \E q \in Whole(mig.src[1])' : q # mig'.src
    <3>1. PICK s : s = mig.src[1]
      OBVIOUS
    <3>2. Whole(mig.src[1])' = Whole(s)'
      BY <1>1, <3>1 DEF Whole
    <3>3. mig.stage = "unlink" => s # p[1]
      BY <1>1, <2>2, <3>1 DEF Moves
    <3>4. QED
      BY <1>1, <2>3, <2>4, <3>1, <3>2, <3>3 DEF Copying
  <2>9. QED
    BY <2>6, <2>7, <2>8 DEF Copying
<1>6. QED
  BY <1>2, <1>3, <1>4, <1>5

LEMMA KeptIndexer ==
  ASSUME Base, Condemned, KeptWhole, Copying, Indexer \/ IndexAborts
  PROVE  KeptWhole' /\ Copying'
<1>0. file \in [Paths -> Contents] /\ Shape /\ (mig.stage \in Moves => mig.dest \in Paths)
  BY DestIsPath DEF Base, Shape, TypeOK
<1>1. CASE Scan
  BY <1>0, <1>1, ScanStep, KeptFrame DEF Kept, Copying
<1>2. CASE IndexStat
  <2>1. UNCHANGED <<mig, done, doomed, mistaken, spoiled>>
        /\ (UNCHANGED file \/ \E p \in Paths : file[p] = "empty" /\ Remove(p))
    BY <1>0, <1>2, StatStep
  <2>2. QED
    BY <1>0, <2>1, KeptFrame DEF Kept, Copying, Remove, Put, Moves
<1>3. CASE Probe
  BY <1>0, <1>3, ProbeStep, KeptFrame DEF Kept, Copying
<1>4. CASE Condemn
  <2>1. /\ index.stage = "condemn" /\ index.at \in Paths
        /\ file' = [file EXCEPT ![index.at] = "none"]
        /\ mistaken' = mistaken \cup ({index.at[1]} \cap crossed)
        /\ UNCHANGED <<mig, done, doomed, spoiled>>
    BY <1>0, <1>4, CondemnStep
  <2>2. index.at[1] \notin crossed => file[index.at] # "good"
    BY <2>1 DEF Condemned
  <2>3. Kept' \subseteq Kept /\ (index.at[1] \in crossed => index.at[1] \notin Kept')
    BY <2>1 DEF Kept
  <2>4. QED
    BY <1>0, <2>1, <2>2, <2>3, KeptFrame DEF Copying, Moves
<1>5. CASE Add
  BY <1>0, <1>5, AddStep, KeptFrame DEF Kept, Copying
<1>6. QED
  BY <1>1, <1>2, <1>3, <1>4, <1>5 DEF Indexer, Scan

\* What is moved over a whole file is whole, or the segment is spoiled.
LEMMA Spoils ==
  ASSUME Base, Settled, mig.stage = "move", Spoil, UNCHANGED <<done, doomed, mistaken>>
  PROVE  /\ Kept' \subseteq Kept
         /\ mig.src[1] \in Kept' => file[mig.src] = "good" \/ file[mig.dest] # "good"
<1>1. PICK s : s = mig.src[1]
  OBVIOUS
<1>2. s \in Segs /\ Moving(s)
  <2>1. Shape /\ mig.stage \in Moves
    BY DEF Base, Moves
  <2>2. QED
    BY <1>1, <2>1, DestIsPath, NonePaths DEF Moving
<1>3. s \notin crossed => file[mig.src] = "good"
  BY <1>2, Alone DEF WholeAt, Whole
<1>4. Kept' \subseteq Kept
  BY DEF Spoil, Kept
<1>5. s \in Kept' => file[mig.src] = "good" \/ file[mig.dest] # "good"
  BY <1>1, <1>3 DEF Spoil, Kept
<1>6. QED
  BY <1>1, <1>4, <1>5

LEMMA KeptMigrator ==
  ASSUME Base, Settled, KeptWhole, Copying, Migrator
  PROVE  KeptWhole' /\ Copying'
<1>0. /\ file \in [Paths -> Contents] /\ Shape /\ mig \in MigType /\ MigOK
  BY DEF Base, Shape, TypeOK
<1>1. mig.stage \in Moves =>
        /\ mig.src \in Paths /\ mig.dest \in Paths /\ mig.src # mig.dest
        /\ mig.dest[1] = mig.src[1]
  BY <1>0, DestIsPath
<1> USE DEF disk, history
<1>2. CASE MigrateStart
  BY <1>0, <1>2, StartStep, KeptFrame DEF Kept
<1>3. CASE MigrateNext
  <2>1. mig'.stage \in {"next", "move"} /\ UNCHANGED <<file, done, doomed, mistaken, spoiled>>
    BY <1>0, <1>3, NextStep
  <2>2. QED
    BY <1>0, <2>1, KeptFrame DEF Kept
<1>4. CASE MoveFindsNothing \/ CopyFails \/ MigrateEnd
  <2>1. mig'.stage \in {"next", "idle"} /\ UNCHANGED <<file, done, doomed, mistaken, spoiled>>
    BY <1>0, <1>4, AnotherMoveType DEF MoveFindsNothing, CopyFails, MigrateEnd, NoMove
  <2>2. QED
    BY <1>0, <2>1, KeptFrame DEF Kept
<1>5. CASE UpdatePath
  <2>1. mig'.stage = "next" /\ UNCHANGED <<file, done, doomed, mistaken, spoiled>>
    BY <1>0, <1>5, AnotherMoveType DEF UpdatePath
  <2>2. QED
    BY <1>0, <2>1, KeptFrame DEF Kept
<1>6. CASE CopyMore
  BY <1>0, <1>1, <1>6, KeptFrame DEF CopyMore, Put, Kept, threads, Moves
<1>7. CASE Rename
  <2>1. /\ mig.stage = "move" /\ UNCHANGED <<done, doomed, mistaken>> /\ Spoil
        /\ file' = [file EXCEPT ![mig.dest] = file[mig.src], ![mig.src] = "none"]
        /\ mig' = [mig EXCEPT !.stage = "update"]
    BY <1>7 DEF Rename
  <2>2. /\ Kept' \subseteq Kept
        /\ mig.src[1] \in Kept' => file[mig.src] = "good" \/ file[mig.dest] # "good"
    BY <2>1, Spoils
  <2>3. mig'.stage = "update"
    BY <1>0, <2>1 DEF MigType
  <2>4. ASSUME NEW s \in Kept'
        PROVE  Whole(s)' # {}
    <3>1. PICK p \in Whole(s) : TRUE
      BY <2>2, <2>4 DEF KeptWhole
    <3>2. CASE p \notin {mig.src, mig.dest}
      BY <1>0, <1>1, <2>1, <3>1, <3>2 DEF Whole, Moves
    <3>3. CASE p \in {mig.src, mig.dest}
      <4>1. s = mig.src[1] /\ file[mig.src] = "good"
        BY <1>1, <2>1, <2>2, <2>4, <3>1, <3>3 DEF Whole, Moves
      <4>2. mig.dest \in Whole(s)'
        BY <1>0, <1>1, <2>1, <4>1 DEF Whole, Moves
      <4>3. QED
        BY <4>2
    <3>4. QED
      BY <3>2, <3>3
  <2>5. QED
    BY <2>3, <2>4 DEF KeptWhole, Copying
<1>8. CASE Copy
  <2>1. /\ mig.stage = "move" /\ UNCHANGED <<done, doomed, mistaken>> /\ Spoil
        /\ file' = [file EXCEPT ![mig.dest] = "empty"]
        /\ mig' = [mig EXCEPT !.stage = "copy"]
    BY <1>8 DEF Copy, Put
  <2>2. /\ Kept' \subseteq Kept
        /\ mig.src[1] \in Kept' => file[mig.src] = "good" \/ file[mig.dest] # "good"
    BY <2>1, Spoils
  <2>3. mig'.stage = "copy" /\ mig'.dest = mig.dest /\ file'[mig.dest] = "empty"
    BY <1>0, <1>1, <2>1 DEF MigType, Moves
  <2>4. ASSUME NEW s \in Kept'
        PROVE  Whole(s)' # {}
    <3>1. PICK p \in Whole(s) : TRUE
      BY <2>2, <2>4 DEF KeptWhole
    <3>2. CASE p # mig.dest
      BY <1>0, <1>1, <2>1, <3>1, <3>2 DEF Whole, Moves
    <3>3. CASE p = mig.dest
      <4>1. s = mig.src[1] /\ file[mig.src] = "good"
        BY <1>1, <2>1, <2>2, <2>4, <3>1, <3>3 DEF Whole, Moves
      <4>2. mig.src \in Whole(s)'
        BY <1>0, <1>1, <2>1, <4>1 DEF Whole, Moves
      <4>3. QED
        BY <4>2
    <3>4. QED
      BY <3>2, <3>3
  <2>5. QED
    BY <2>3, <2>4 DEF KeptWhole, Copying
<1>9. CASE Copied
  <2>1. /\ mig.stage = "copy" /\ UNCHANGED <<done, doomed, mistaken, spoiled>>
        /\ file[mig.dest] # "good"
    BY <1>9 DEF Copied, Copying
  <2>2. \A p \in Paths : file[p] = "good" => file'[p] = "good"
    BY <1>0, <1>1, <1>9, <2>1 DEF Copied, Put, Moves
  <2>3. CASE MoveFailed
    BY <1>0, <2>1, <2>2, <2>3, AnotherMoveType, KeptFrame DEF Kept
  <2>4. CASE ~MoveFailed
    <3>1. /\ Put(mig.dest, file[mig.src], age[mig.src])
          /\ mig' = [mig EXCEPT !.stage = "unlink"]
      BY <1>9, <2>4 DEF Copied
    <3>2. PICK s, src : s = mig.src[1] /\ src = mig.src
      OBVIOUS
    <3>3. Kept' = Kept /\ \A x : Whole(x) \subseteq Whole(x)'
      BY <2>1, <2>2 DEF Kept, Whole
    <3>4. KeptWhole'
      BY <3>3 DEF KeptWhole
    <3>5. mig'.stage = "unlink" /\ mig'.src = src
      BY <1>0, <3>1, <3>2 DEF MigType
    <3>6. Whole(mig.src[1])' = Whole(s)'
      BY <3>2, <3>5 DEF Whole
    <3>7. ASSUME s \in Kept
          PROVE  \E p \in Whole(s)' : p # src
      <4>1. CASE file[src] = "good"
        <5>1. mig.dest \in Whole(s)'
          BY <1>0, <1>1, <2>1, <3>1, <3>2, <4>1 DEF Put, Whole, Moves
        <5>2. QED
          BY <1>1, <2>1, <3>2, <5>1 DEF Moves
      <4>2. CASE file[src] # "good"
        <5>1. PICK p \in Whole(s) : TRUE
          BY <3>7 DEF KeptWhole
        <5>2. p # src
          BY <4>2, <5>1 DEF Whole
        <5>3. QED
          BY <3>3, <5>1, <5>2
      <4>3. QED
        BY <4>1, <4>2
    <3>8. QED
      BY <3>2, <3>3, <3>4, <3>5, <3>6, <3>7 DEF Copying
  <2>5. QED
    BY <2>3, <2>4
<1>10. CASE UnlinkSource
  <2>1. mig.stage = "unlink" /\ UNCHANGED <<done, doomed, mistaken, spoiled>>
    BY <1>10 DEF UnlinkSource
  <2>2. \A p \in Paths : p # mig.src => file'[p] = file[p]
    BY <1>0, <1>1, <1>10, <2>1 DEF UnlinkSource, Remove, Put, Moves
  <2>3. mig'.stage \in {"next", "update"}
    <3>1. MoveFailed \/ mig' = [mig EXCEPT !.stage = "update"]
      BY <1>10 DEF UnlinkSource
    <3>2. QED
      BY <1>0, <2>1, <3>1, AnotherMoveType DEF MigType
  <2>4. ASSUME NEW s \in Kept'
        PROVE  Whole(s)' # {}
    <3>1. s \in Kept
      BY <2>1, <2>4 DEF Kept
    <3>2. PICK p \in Whole(s) : p # mig.src
      <4>1. CASE s = mig.src[1]
        BY <2>1, <3>1, <4>1 DEF Copying
      <4>2. CASE s # mig.src[1]
        BY <3>1, <4>2 DEF KeptWhole, Whole
      <4>3. QED
        BY <4>1, <4>2
    <3>3. p \in Whole(s)'
      BY <2>2, <3>2 DEF Whole
    <3>4. QED
      BY <3>3
  <2>5. QED
    BY <2>3, <2>4 DEF KeptWhole, Copying
<1>11. QED
  BY <1>2, <1>3, <1>4, <1>5, <1>6, <1>7, <1>8, <1>9, <1>10 DEF Migrator

LEMMA KeptRest ==
  ASSUME Base, KeptWhole, Copying,
         \/ Prune \/ Delete \/ Crash \/ UNCHANGED vars
         \/ \E p \in Paths : GrowOld(p)
         \/ \E vols \in SUBSET Volumes \ {{}} : \E first \in vols : SetPool(vols, first)
  PROVE  KeptWhole' /\ Copying'
<1>0. /\ file \in [Paths -> Contents] /\ Shape /\ PruneOK
      /\ mig.stage \in Moves => mig.dest \in Paths
  BY DestIsPath DEF Base, Shape, TypeOK
<1> USE DEF disk, db, threads, history, Kept
<1>1. CASE PruneUnlink
  <2>1. PICK r : r = prune.row
    OBVIOUS
  <2>2. /\ PathOf(r) \in Paths /\ PathOf(r)[1] \in doomed
        /\ file' = [file EXCEPT ![PathOf(r)] = "none"]
    BY <1>0, <1>1, <2>1, PathOfRow DEF PruneUnlink, PruneOK, Remove, Put
  <2>3. UNCHANGED <<mig, done, doomed, mistaken, spoiled>>
    BY <1>1 DEF PruneUnlink
  <2>4. QED
    BY <1>0, <2>2, <2>3, KeptFrame DEF Copying, Moves
<1>2. ASSUME NEW c \in Cameras, NEW purge \in BOOLEAN, DeleteBegin(c, purge)
      PROVE  KeptWhole' /\ Copying'
  <2>1. UNCHANGED <<mig, done, mistaken, spoiled>> /\ doomed \subseteq doomed'
    BY <1>2 DEF DeleteBegin
  <2>2. \A p \in Paths : \/ file'[p] = file[p]
                         \/ p[1] \in doomed' /\ file'[p] = "none"
    BY <1>0, <1>2, PathsAre DEF DeleteBegin, PathsOf
  <2>3. QED
    BY <1>0, <2>1, <2>2, KeptFrame DEF Copying, Moves
<1>3. CASE ~PruneUnlink /\ ~(\E c \in Cameras, purge \in BOOLEAN : DeleteBegin(c, purge))
  <2>1. /\ mig' = mig \/ mig' = NoMove
        /\ UNCHANGED <<file, done, mistaken, spoiled>> /\ doomed \subseteq doomed'
    BY <1>3 DEF Prune, PruneBegin, PruneRow, Delete, DeleteCamera, DeleteSegments, DeleteSync,
       Crash, GrowOld, SetPool, vars
  <2>2. NoMove.stage = "idle"
    BY DEF NoMove
  <2>3. QED
    BY <1>0, <2>1, <2>2, KeptFrame DEF Copying
<1>4. QED
  BY <1>1, <1>2, <1>3

\* No interleaving of the recorders, the indexer, the migration, the deletions and a
\* crash loses a completed segment nobody asked to delete, but the two exceptions
\* Survives names (recorder.py:236, storage_migrate.py:131).
THEOREM FootageSurvives == Spec => []Survives
<1>1. Init => KeptWhole /\ Copying
  BY DEF Init, KeptWhole, Copying, Kept, NoMove
<1>2. Base /\ Condemned /\ Settled /\ KeptWhole /\ Copying /\ [Next]_vars
        => KeptWhole' /\ Copying'
  BY KeptFfmpeg, KeptIndexer, KeptMigrator, KeptRest DEF Next, Ffmpeg
<1>3. KeptWhole => Survives
  <2>1. SUFFICES ASSUME KeptWhole, NEW s \in Kept
                 PROVE  \E v \in Volumes : file[<<s, v>>] = "good"
    BY DEF Survives, Kept
  <2>2. PICK p \in Paths : p[1] = s /\ file[p] = "good"
    BY <2>1 DEF KeptWhole, Whole
  <2>3. QED
    BY <2>2, PathsAre
<1>4. QED
  BY <1>1, <1>2, <1>3, SettledAlways, PTL DEF Spec

-----------------------------------------------------------------------------
(* What a migration leaves. *)

\* A row the migration set out to move is on its worklist, in its hand or moved, until
\* a move fails.
Worked ==
    mig.stage # "idle" /\ mig.failed = 0 =>
        \A r \in rows : r.id \in mig.work /\ r.vol \notin mig.roots =>
            \/ r \in mig.jobs
            \/ mig.stage \in Moves /\ mig.id = r.id
            \/ r.seg \in crossed \cup doomed

LEMMA WorkedFrame ==
  ASSUME Worked, crossed \cup doomed \subseteq crossed' \cup doomed',
         mig'.stage # "idle" => mig.stage # "idle",
         mig'.stage # "idle" /\ mig'.failed = 0 =>
            /\ mig.failed = 0 /\ mig'.jobs = mig.jobs /\ mig'.work = mig.work
            /\ mig'.roots = mig.roots /\ mig'.id = mig.id
            /\ mig.stage \in Moves => mig'.stage \in Moves,
         \A r \in rows' : r \in rows \/ r.id \notin mig.work
  PROVE  Worked'
  BY DEF Worked

LEMMA WorkedMigrator ==
  ASSUME Base, Settled, Worked, Migrator
  PROVE  Worked'
<1>0. /\ Shape /\ Met /\ mig \in MigType /\ MigOK /\ PruneOK /\ rows \subseteq Rows
      /\ \A r, q \in rows : r.id = q.id => r = q
  BY DEF Base, Shape, TypeOK
<1>1. CASE MigrateStart
  <2>1. /\ mig'.jobs = {r \in rows : r.vol \notin pool} /\ mig'.work = {r.id : r \in mig'.jobs}
        /\ UNCHANGED rows
    BY <1>0, <1>1, StartStep
  <2>2. \A r \in rows : r.id \in mig'.work => r \in mig'.jobs
    BY <1>0, <2>1
  <2>3. QED
    BY <2>1, <2>2 DEF Worked
<1>2. CASE MigrateNext
  <2>1. PICK j \in mig.jobs :
          /\ j \in Rows /\ PathOf(j)[1] = j.seg
          /\ mig.stage = "next" /\ mig.src = None
          /\ mig'.jobs = mig.jobs \ {j} /\ mig'.work = mig.work /\ mig'.roots = mig.roots
          /\ mig'.failed = mig.failed
          /\ file[PathOf(j)] # "none" => mig'.stage = "move" /\ mig'.id = j.id
    BY <1>0, <1>2, NextStep
  <2>2. UNCHANGED <<rows, doomed>> /\ crossed \subseteq crossed'
    BY <1>0, <1>2, NextStep, Meets
  <2>3. ASSUME j \in rows, j.seg \notin crossed \cup doomed
        PROVE  file[PathOf(j)] # "none"
    <3>1. PICK s : s = j.seg /\ s \in Segs \ crossed
      BY <2>1, <2>3 DEF Rows
    <3>2. ~Moving(s) /\ ~Pruned(s)
      BY <1>0, <2>1, <2>3, <3>1 DEF Moving, Pruned, PruneOK
    <3>3. ~Deleted(s)
      <4>1. s \in Listed
        BY <2>1, <3>1 DEF Listed
      <4>2. QED
        BY <1>0, <3>1, <4>1, OneHand
    <3>4. PathOf(j) \in Whole(s)
      BY <2>3, <3>1, <3>2, <3>3 DEF Settled, SettledAt, RowSettled, RowsOf
    <3>5. QED
      BY <3>4 DEF Whole
  <2>4. ASSUME mig.failed = 0, NEW r \in rows, r.id \in mig.work, r.vol \notin mig.roots,
               r.seg \notin crossed \cup doomed
        PROVE  r \in mig'.jobs \/ (mig'.stage \in Moves /\ mig'.id = r.id)
    <3>1. r \in mig.jobs
      BY <2>1, <2>4 DEF Worked, Moves
    <3>2. QED
      BY <2>1, <2>3, <2>4, <3>1 DEF Moves
  <2>5. QED
    BY <2>1, <2>2, <2>4 DEF Worked
<1>3. CASE MoveFindsNothing \/ Rename \/ Copy \/ CopyMore \/ Copied \/ CopyFails
           \/ UnlinkSource \/ (UpdatePath /\ mig.dest \in Known)
  <2>1. mig.stage \in Moves /\ UNCHANGED <<rows, crossed, doomed>>
    BY <1>3 DEF MoveFindsNothing, Rename, Copy, CopyMore, Copied, CopyFails, UnlinkSource,
       UpdatePath, Moves, history, db
  <2>2. MoveFailed \/ mig' = mig \/ \E stage \in Moves : mig' = [mig EXCEPT !.stage = stage]
    BY <1>3 DEF MoveFindsNothing, Rename, Copy, CopyMore, Copied, CopyFails, UnlinkSource,
       UpdatePath, Moves, threads
  <2>3. CASE MoveFailed
    <3>1. mig'.failed = mig.failed + 1 /\ mig.failed \in Nat
      BY <1>0, <2>1, <2>3, AnotherMoveType DEF MigType, Moves
    <3>2. QED
      BY <3>1 DEF Worked
  <2>4. CASE ~MoveFailed
    BY <1>0, <2>1, <2>2, <2>4, StageType, WorkedFrame DEF Moves
  <2>5. QED
    BY <2>3, <2>4
<1>4. CASE UpdatePath /\ mig.dest \notin Known
  <2>1. /\ mig.stage = "update" /\ rows' = {Renamed(r) : r \in rows}
        /\ mig' = AnotherMove(mig) /\ UNCHANGED <<crossed, doomed>>
    BY <1>4 DEF UpdatePath, Renamed, history
  <2>2. /\ mig'.failed = mig.failed /\ mig'.jobs = mig.jobs /\ mig'.work = mig.work
        /\ mig'.roots = mig.roots
    BY <1>0, <2>1, AnotherMoveType
  <2>3. ASSUME mig.failed = 0, NEW r \in rows, Renamed(r).id \in mig.work,
               Renamed(r).vol \notin mig.roots
        PROVE  Renamed(r) \in mig.jobs \/ Renamed(r).seg \in crossed \cup doomed
    BY <1>0, <2>1, <2>3, RenamedRow DEF Worked
  <2>4. QED
    BY <2>1, <2>2, <2>3 DEF Worked
<1>5. CASE MigrateEnd
  BY <1>5 DEF MigrateEnd, NoMove, Worked
<1>6. QED
  BY <1>1, <1>2, <1>3, <1>4, <1>5 DEF Migrator

LEMMA WorkedNext ==
  ASSUME Base, Settled, Worked, [Next]_vars
  PROVE  Worked'
<1>0. Shape /\ Ids /\ nextId \in Nat \ {0} /\ mig \in MigType
  BY DEF Base, Shape, TypeOK
<1> USE DEF db, threads, history
<1>1. ASSUME NEW c \in Cameras,
             OpenSegment(c) \/ WriteSegment(c) \/ CloseSegment(c) \/ FfmpegDies(c)
      PROVE  Worked'
  BY <1>1, WorkedFrame DEF OpenSegment, WriteSegment, CloseSegment, FfmpegDies
<1>2. CASE Scan \/ Probe \/ Condemn
  BY <1>0, <1>2, ScanStep, ProbeStep, CondemnStep, WorkedFrame
<1>3. CASE IndexStat
  BY <1>0, <1>3, StatStep, Meets, WorkedFrame
<1>4. CASE Add
  <2>1. /\ index.at \in Paths /\ UNCHANGED <<mig, crossed, doomed>>
        /\ rows' = rows \/ rows' = rows \cup {Row(nextId, index.at)}
    BY <1>0, <1>4, AddStep
  <2>2. Row(nextId, index.at).id = nextId /\ nextId \notin mig.work
    BY <1>0, <2>1, RowOfPath DEF Ids
  <2>3. QED
    BY <2>1, <2>2, WorkedFrame
<1>5. CASE Prune
  <2>1. rows' \subseteq rows /\ UNCHANGED mig /\ doomed \subseteq doomed'
    BY <1>5 DEF Prune, PruneBegin, PruneUnlink, PruneRow
  <2>2. crossed \subseteq crossed'
    BY <1>5, Meets DEF Prune, PruneBegin, PruneUnlink, PruneRow
  <2>3. QED
    BY <2>1, <2>2, WorkedFrame
<1>6. CASE Delete
  <2>1. rows' \subseteq rows /\ UNCHANGED mig /\ doomed \subseteq doomed'
    BY <1>6 DEF Delete, DeleteBegin, DeleteCamera, DeleteSegments, DeleteSync
  <2>2. crossed \subseteq crossed'
    BY <1>6, Meets DEF Delete, DeleteBegin, DeleteCamera, DeleteSegments, DeleteSync
  <2>3. QED
    BY <2>1, <2>2, WorkedFrame
<1>7. CASE Crash
  BY <1>7 DEF Crash, NoMove, Worked
<1>8. CASE (\E p \in Paths : GrowOld(p)) \/ UNCHANGED vars
           \/ \E vols \in SUBSET Volumes \ {{}} : \E first \in vols : SetPool(vols, first)
  BY <1>8, WorkedFrame DEF GrowOld, SetPool, vars
<1>9. QED
  BY <1>1, <1>2, <1>3, <1>4, <1>5, <1>6, <1>7, <1>8, WorkedMigrator
  DEF Next, Ffmpeg, Indexer, Scan

\* A migration that ends without a failure has moved every segment it listed, whatever
\* the others did meanwhile, but what they deleted or met it over
\* (storage_migrate.py:122-135).
THEOREM MigrationConsolidates == Spec => Consolidates
<1>1. Init => Worked
  BY DEF Init, Worked, NoMove
<1>2. Base /\ Settled /\ Worked =>
        (mig.stage = "next" /\ mig.jobs = {} /\ mig.failed = 0 /\ mig'.stage = "idle" =>
           \A r \in rows : r.id \in mig.work /\ r.vol \notin mig.roots =>
               r.seg \in crossed \cup doomed)
  BY DEF Worked, Moves
<1>3. QED
  BY <1>1, <1>2, WorkedNext, SettledAlways, PTL DEF Spec, Consolidates

=============================================================================
