---------------------------- MODULE MCRecorder ----------------------------
(* Small instances of Recorder for TLC. *)
EXTENDS Recorder, TLC

CONSTANTS main, sub

OneToFive == 1..5

\* A camera recording all day, one inside a bounded window, one not recording,
\* and an archived one that would record.
MCRows ==
    LET R(live, record, until) ==
            [live |-> live, record |-> record, until |-> until, stream |-> main]
    IN  {R(TRUE, TRUE, "none"), R(TRUE, TRUE, "open"), R(TRUE, FALSE, "none"),
         R(FALSE, TRUE, "none")}
=============================================================================
