---------------------------- MODULE MCFootage ----------------------------
(* One camera with two segments, a pool that starts on one volume of two. *)
EXTENDS Footage, TLC

CONSTANTS c1, s1, s2, v1, v2

OneCamera  == {c1}
TwoSegs    == {s1, s2}
OneSeg     == {s1}
AllC1      == (s1 :> c1) @@ (s2 :> c1)
S1C1       == s1 :> c1
TwoVolumes == {v1, v2}
OnV1       == {v1}

\* Nobody deletes anything, ffmpeg finishes what it starts, and the volumes are two
\* filesystems: the storage is switched and migrated, and the program is killed.
SwitchNext ==
    \/ \E c \in Cameras : OpenSegment(c) \/ WriteSegment(c) \/ CloseSegment(c)
    \/ \E p \in Paths : GrowOld(p)
    \/ Indexer
    \/ MigrateStart \/ MigrateNext \/ MoveFindsNothing \/ Copy \/ CopyMore \/ Copied
    \/ CopyFails \/ UnlinkSource \/ UpdatePath \/ MigrateEnd
    \/ \E v \in Volumes : SetPool({v}, v)
    \/ Crash

SwitchSpec == Init /\ [][SwitchNext]_vars

=============================================================================
