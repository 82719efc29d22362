----------------------------- MODULE MCServices -----------------------------
(* The services that share nothing but the tables, one of them started. *)
EXTENDS Shades, Streams, Events

CONSTANTS c1, c2, cam, k1, k2, h264, h265

MCRows == {Absent,
           [enabled |-> TRUE, main |-> h265, sub |-> h264],
           [enabled |-> TRUE, main |-> h264, sub |-> Absent],
           [enabled |-> FALSE, main |-> h264, sub |-> Absent]}

VARIABLE started

Init ==
    /\ started \in {"shadepoll", "go2rtc", "events"}
    /\ ShadesInit(IF started = "shadepoll" THEN "idle" ELSE "off")
    /\ StreamsInit(IF started = "go2rtc" THEN "start" ELSE "off")
    /\ started # "go2rtc" => table = [c \in Cameras |-> Absent]
    /\ EventsInit(IF started = "events" THEN Detectable ELSE {})

Next ==
    /\ UNCHANGED started
    /\ \/ started = "shadepoll" /\ ShadesNext /\ UNCHANGED <<streamVars, eventVars>>
       \/ started = "go2rtc" /\ StreamsNext /\ UNCHANGED <<shadeVars, eventVars>>
       \/ started = "events" /\ EventsNext /\ UNCHANGED <<shadeVars, streamVars>>

FairSpec == Init /\ [][Next]_<<started, shadeVars, streamVars, eventVars>>
                 /\ ShadesFairness /\ StreamsFairness

TypeOK == ShadesTypeOK /\ StreamsTypeOK /\ EventsTypeOK

=============================================================================
