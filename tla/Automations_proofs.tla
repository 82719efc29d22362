------------------------- MODULE Automations_proofs -------------------------
(***************************************************************************)
(* The alerts implement the rate limit, for any detectors, events and      *)
(* cooldown.  The rate limit sees two things of a state: the ages, and who *)
(* is posting for which key.  Most steps change neither (Quiet).           *)
(*                                                                         *)
(* What the program shows of a device is true when nothing is under way:   *)
(* between a relay's answer and the writing of its row stands one thread   *)
(* at most, or the device counts as astray (Shown).                        *)
(*                                                                         *)
(* A device that is on for a time is not forgotten: its revert is handed   *)
(* from the thread that switched to the list, and from there to the worker *)
(* (Pending).  What the lists hold after a filter is what KeepKeeps says.  *)
(***************************************************************************)
EXTENDS Automations, FiniteSetTheorems, TLAPS

DetectorOK(d) ==
    /\ DOMAIN th[d] = DOMAIN Idle
    /\ th[d].pc \in {"idle", "match", "grant", "lock", "post"}
    /\ th[d].pc # "idle" => th[d].event \in Events
    /\ Waiting(d) => th[d].age \in 0 .. MaxHeld

AlertInv ==
    /\ alerted \in [Keys -> 0 .. LongAgo]
    /\ DOMAIN th = Threads
    /\ \A d \in Detectors : DetectorOK(d)

Same(d) == /\ DOMAIN th'[d] = DOMAIN th[d] /\ th'[d].pc = th[d].pc
           /\ th'[d].event = th[d].event /\ th'[d].age = th[d].age
Quiet == alerted' = alerted /\ DOMAIN th' = Threads /\ \A d \in Detectors : Same(d)

Passing == [k \in Keys |-> Cardinality(Posting(k))]

-----------------------------------------------------------------------------
LEMMA KeyType == ASSUME AlertInv, NEW d \in Detectors, th[d].pc # "idle" PROVE Key(d) \in Keys
BY DEF AlertInv, DetectorOK, Key, Keys

LEMMA PostingFinite == ASSUME NEW k PROVE IsFiniteSet(Posting(k))
BY AutomationsAssumption, FS_Subset DEF Posting

LEMMA QuietStep == AlertInv /\ Quiet => AlertInv' /\ Passing' = Passing
<1> SUFFICES ASSUME AlertInv, Quiet PROVE AlertInv' /\ Passing' = Passing
    OBVIOUS
<1>1. AlertInv'
    BY DEF AlertInv, Quiet, Same, DetectorOK, Waiting
<1>2. ASSUME NEW k \in Keys PROVE Posting(k)' = Posting(k)
    BY DEF Posting, Key, Quiet, Same
<1> QED BY <1>1, <1>2 DEF Passing

-----------------------------------------------------------------------------
(* Who leaves the detectors alone. *)

LEMMA RunnersAreQuiet ==
    ASSUME AlertInv, NEW t \in Runners, RunnerStep(t) PROVE Quiet
<1> USE AutomationsAssumption DEF AlertInv, Quiet, Same, memory
<1>1. t \in Threads /\ \A d \in Detectors : d \in Threads /\ d # t
    BY DEF Threads, Runners
<1>2. CASE ReadRow(t)
    BY <1>1, <1>2 DEF ReadRow
<1>3. CASE Aim(t)
    BY <1>1, <1>3 DEF Aim, Drop
<1>4. CASE Call(t)
    BY <1>1, <1>4 DEF Call, Go
<1>5. CASE CallFails(t)
    BY <1>1, <1>5 DEF CallFails, Drop
<1>6. CASE Note(t)
    BY <1>1, <1>6 DEF Note, Drop
<1>7. CASE MoveCoverings(t)
    BY <1>1, <1>7 DEF MoveCoverings, Drop
<1>8. CASE CallWebhook(t)
    BY <1>1, <1>8 DEF CallWebhook, Drop
<1>9. CASE Finish(t)
    BY <1>1, <1>9 DEF Finish
<1> QED BY <1>2, <1>3, <1>4, <1>5, <1>6, <1>7, <1>8, <1>9 DEF RunnerStep

LEMMA OthersAreQuiet ==
    ASSUME AlertInv,
           \/ Take \/ TakeDue
           \/ \E r \in Requests : \/ \E a \in Autos : RunRequest(r, a)
                                  \/ \E d \in Devices, state \in Asked : SwitchRequest(r, d, state)
           \/ \E a \in Autos : EditAutomation(a)
           \/ \E d \in Devices : EditDevice(d) \/ PressButton(d)
           \/ UNCHANGED vars
    PROVE  Quiet
<1> USE AutomationsAssumption DEF AlertInv, Quiet, Same, memory
<1>1. ASSUME NEW t \in Runners PROVE t \in Threads /\ \A d \in Detectors : d \in Threads /\ d # t
    BY DEF Threads, Runners
<1>2. Worker \in Runners /\ Requests \subseteq Runners
    BY DEF Runners
<1>3. CASE Take
    BY <1>1, <1>2, <1>3 DEF Take
<1>4. CASE TakeDue
    BY <1>1, <1>2, <1>4 DEF TakeDue
<1>5. ASSUME NEW r \in Requests, NEW a \in Autos, RunRequest(r, a) PROVE Quiet
    BY <1>1, <1>2, <1>5 DEF RunRequest
<1>6. ASSUME NEW r \in Requests, NEW d \in Devices, NEW state \in Asked, SwitchRequest(r, d, state)
      PROVE  Quiet
    BY <1>1, <1>2, <1>6 DEF SwitchRequest
<1>7. ASSUME NEW a \in Autos, EditAutomation(a) PROVE Quiet
    BY <1>7 DEF EditAutomation
<1>8. ASSUME NEW d \in Devices, EditDevice(d) \/ PressButton(d) PROVE Quiet
    BY <1>8 DEF EditDevice, PressButton
<1>9. CASE UNCHANGED vars
    BY <1>9 DEF vars
<1> QED BY <1>3, <1>4, <1>5, <1>6, <1>7, <1>8, <1>9

-----------------------------------------------------------------------------
(* A detector on its way to the cooldown posts for nobody before and after. *)

LEMMA OnTheWay ==
    ASSUME AlertInv, NEW d \in Detectors, alerted' = alerted, DOMAIN th' = Threads,
           \A o \in Detectors \ {d} : th'[o] = th[o],
           DetectorOK(d)', th[d].pc # "post", th'[d].pc # "post"
    PROVE  AlertInv' /\ Passing' = Passing
<1>1. AlertInv'
    <2>1. ASSUME NEW o \in Detectors \ {d} PROVE DetectorOK(o)'
        BY DEF AlertInv, DetectorOK, Waiting
    <2> QED BY <2>1 DEF AlertInv
<1>2. ASSUME NEW k \in Keys PROVE Posting(k)' = Posting(k)
    BY DEF Posting, Key
<1> QED BY <1>1, <1>2 DEF Passing

LEMMA GrantSide ==
    ASSUME AlertInv, NEW d \in Detectors, Emit(d) \/ TestRow(d) \/ Grant(d) \/ ReadClock(d)
    PROVE  AlertInv' /\ Passing' = Passing
<1> USE DEF AlertInv, memory
<1>1. d \in Threads /\ \A o \in Detectors \ {d} : o \in Threads /\ o # d
    BY DEF Threads
<1>2. CASE Emit(d)
    <2>1. th[d].pc # "post" /\ alerted' = alerted
        <3>1. th[d] = Idle /\ UNCHANGED memory
            BY <1>2 DEF Emit
        <3> QED BY <3>1 DEF Idle
    <2>2. PICK e \in Events : \E rest : th' = [th EXCEPT ![d] = [Idle EXCEPT
                !.pc = "match", !.event = e, !.todo = rest]]
        BY <1>2 DEF Emit
    <2>3. DetectorOK(d)' /\ th'[d].pc # "post"
        BY <1>1, <2>2 DEF DetectorOK, Idle, Waiting
    <2> QED BY <1>1, <2>1, <2>2, <2>3, OnTheWay
<1>3. CASE TestRow(d)
    <2>1. th[d].pc = "match" /\ alerted' = alerted
        BY <1>3 DEF TestRow
    <2>2. \/ th' = [th EXCEPT ![d].pc = "grant", ![d].age = 0]
          \/ Drop(d, "match")
        BY <1>3 DEF TestRow
    <2>3. DetectorOK(d)' /\ th'[d].pc # "post"
        <3>1. DOMAIN th'[d] = DOMAIN th[d] /\ th'[d].pc \in {"grant", "match"}
              /\ th'[d].event = th[d].event
            BY <1>1, <2>2 DEF DetectorOK, Drop, Idle
        <3> QED BY <2>1, <3>1 DEF DetectorOK, Waiting
    <2> QED BY <1>1, <2>1, <2>2, <2>3, OnTheWay DEF Drop
<1>4. CASE Grant(d)
    <2>1. th[d].pc = "grant" /\ alerted' = alerted /\ Drop(d, "match")
        BY <1>4 DEF Grant
    <2>3. DetectorOK(d)' /\ th'[d].pc # "post"
        BY <1>1, <2>1 DEF DetectorOK, Drop, Waiting
    <2> QED BY <1>1, <2>1, <2>3, OnTheWay DEF Drop
<1>5. CASE ReadClock(d)
    <2>1. /\ th[d].pc = "match" /\ alerted' = alerted
          /\ th' = [th EXCEPT ![d].pc = "lock", ![d].age = 0]
        BY <1>5 DEF ReadClock, NotifyOver
    <2>2. /\ DOMAIN th'[d] = DOMAIN th[d] /\ th'[d].pc = "lock" /\ th'[d].age = 0
          /\ th'[d].event = th[d].event
        BY <1>1, <2>1 DEF DetectorOK, Idle
    <2>3. 0 \in 0 .. MaxHeld
        BY AutomationsAssumption
    <2>4. DetectorOK(d)' /\ th'[d].pc # "post"
        BY <2>1, <2>2, <2>3 DEF DetectorOK, Waiting
    <2> QED BY <1>1, <2>1, <2>4, OnTheWay
<1> QED BY <1>2, <1>3, <1>4, <1>5

\* By a reading within the cooldown nothing changes; by one past it one more is
\* posting for the key, and the reading is what is stored.
LEMMA NotifyPasses ==
    ASSUME AlertInv, NEW d \in Detectors, Notify(d)
    PROVE  /\ AlertInv'
           /\ \/ alerted' = alerted /\ Passing' = Passing
              \/ /\ Key(d) \in Keys
                 /\ th[d].age \in 0 .. MaxHeld /\ alerted[Key(d)] >= AlertCooldown + th[d].age
                 /\ alerted' = [alerted EXCEPT ![Key(d)] = th[d].age]
                 /\ Passing' = [Passing EXCEPT ![Key(d)] = @ + 1]
<1> USE DEF AlertInv, memory
<1>1. d \in Threads /\ \A o \in Detectors \ {d} : o \in Threads /\ o # d
    BY DEF Threads
<1>2. th[d].pc = "lock" /\ Key(d) \in Keys /\ th[d].age \in 0 .. MaxHeld
    <2>1. th[d].pc = "lock"
        BY DEF Notify
    <2> QED BY <2>1, KeyType DEF DetectorOK, Waiting
<1>3. CASE ~Cooled(d)
    <2>1. alerted' = alerted /\ th' = [th EXCEPT ![d] = Idle]
        BY <1>3 DEF Notify, Rest
    <2>2. DetectorOK(d)' /\ th'[d].pc # "post"
        BY <1>1, <2>1 DEF DetectorOK, Idle, Waiting
    <2> QED BY <1>1, <1>2, <2>1, <2>2, OnTheWay
<1>4. CASE Cooled(d)
    <2>1. /\ alerted' = [alerted EXCEPT ![Key(d)] = th[d].age]
          /\ th' = [th EXCEPT ![d].pc = "post", ![d].age = 0]
        BY <1>4 DEF Notify
    <2>2. th'[d].pc = "post" /\ th'[d].event = th[d].event /\ Key(d)' = Key(d)
        BY <1>1, <2>1 DEF DetectorOK, Idle, Key
    <2>3. AlertInv'
        <3>1. DetectorOK(d)'
            BY <1>1, <1>2, <2>1, <2>2 DEF DetectorOK, Waiting
        <3>2. ASSUME NEW o \in Detectors \ {d} PROVE DetectorOK(o)'
            BY <1>1, <2>1 DEF DetectorOK, Waiting
        <3>3. alerted' \in [Keys -> 0 .. LongAgo]
            <4>1. th[d].age \in 0 .. LongAgo
                BY <1>2, AutomationsAssumption DEF LongAgo
            <4> QED BY <2>1, <4>1
        <3> QED BY <2>1, <3>1, <3>2, <3>3
    <2>4. ASSUME NEW k \in Keys
          PROVE  Posting(k)' = IF k = Key(d) THEN Posting(k) \cup {d} ELSE Posting(k)
        <3>1. ASSUME NEW o \in Detectors \ {d} PROVE o \in Posting(k)' <=> o \in Posting(k)
            BY <1>1, <2>1 DEF Posting, Key
        <3>2. d \in Posting(k)' <=> k = Key(d)
            BY <2>2 DEF Posting
        <3>3. d \notin Posting(k)
            BY <1>2 DEF Posting
        <3> QED BY <3>1, <3>2, <3>3 DEF Posting
    <2>5. Cardinality(Posting(Key(d)) \cup {d}) = Cardinality(Posting(Key(d))) + 1
        <3>1. d \notin Posting(Key(d))
            BY <1>2 DEF Posting
        <3>2. IsFiniteSet(Posting(Key(d)))
            BY PostingFinite
        <3> QED BY <3>1, <3>2, FS_AddElement
    <2>6. Passing' = [Passing EXCEPT ![Key(d)] = @ + 1]
        BY <1>2, <2>4, <2>5 DEF Passing
    <2>7. alerted[Key(d)] >= AlertCooldown + th[d].age
        <3>1. alerted[Key(d)] - th[d].age >= AlertCooldown
            BY <1>4 DEF Cooled
        <3>2. alerted[Key(d)] \in Nat /\ th[d].age \in Nat /\ AlertCooldown \in Nat
            BY <1>2, AutomationsAssumption DEF LongAgo
        <3> QED BY <3>1, <3>2
    <2> QED BY <1>2, <2>1, <2>3, <2>6, <2>7
<1> QED BY <1>3, <1>4

\* One fewer is posting for the key.
LEMMA PostDone ==
    ASSUME AlertInv, NEW d \in Detectors, Post(d)
    PROVE  /\ AlertInv'
           /\ Key(d) \in Keys /\ Passing[Key(d)] > 0 /\ alerted' = alerted
           /\ Passing' = [Passing EXCEPT ![Key(d)] = @ - 1]
<1> USE DEF AlertInv, memory
<1>1. d \in Threads /\ \A o \in Detectors \ {d} : o \in Threads /\ o # d
    BY DEF Threads
<1>2. th[d].pc = "post" /\ Key(d) \in Keys /\ alerted' = alerted /\ th' = [th EXCEPT ![d] = Idle]
    BY KeyType DEF Post, Rest
<1>3. AlertInv'
    <2>1. DetectorOK(d)'
        BY <1>1, <1>2 DEF DetectorOK, Idle, Waiting
    <2>2. ASSUME NEW o \in Detectors \ {d} PROVE DetectorOK(o)'
        BY <1>1, <1>2 DEF DetectorOK, Waiting
    <2> QED BY <1>2, <2>1, <2>2
<1>4. d \in Posting(Key(d))
    BY <1>2 DEF Posting
<1>5. ASSUME NEW k \in Keys
      PROVE  Posting(k)' = IF k = Key(d) THEN Posting(k) \ {d} ELSE Posting(k)
    <2>1. ASSUME NEW o \in Detectors \ {d} PROVE o \in Posting(k)' <=> o \in Posting(k)
        BY <1>1, <1>2 DEF Posting, Key
    <2>2. d \notin Posting(k)'
        BY <1>1, <1>2 DEF Posting, Idle
    <2>3. d \in Posting(k) <=> k = Key(d)
        BY <1>2 DEF Posting
    <2> QED BY <2>1, <2>2, <2>3 DEF Posting
<1>6. /\ Cardinality(Posting(Key(d))) \in Nat /\ Cardinality(Posting(Key(d))) # 0
      /\ Cardinality(Posting(Key(d)) \ {d}) = Cardinality(Posting(Key(d))) - 1
    BY <1>4, PostingFinite, FS_RemoveElement, FS_CardinalityType, FS_EmptySet
<1>7. Passing' = [Passing EXCEPT ![Key(d)] = @ - 1]
    BY <1>2, <1>5, <1>6 DEF Passing
<1>8. Passing[Key(d)] > 0
    BY <1>2, <1>6 DEF Passing
<1> QED BY <1>2, <1>3, <1>7, <1>8

LEMMA TickElapses ==
    ASSUME AlertInv, Tick
    PROVE  /\ AlertInv' /\ Passing' = Passing
           /\ alerted' = [k \in Keys |-> IF alerted[k] < LongAgo THEN alerted[k] + 1 ELSE LongAgo]
<1> USE DEF AlertInv
<1>1. alerted' = [k \in Keys |-> IF alerted[k] < LongAgo THEN alerted[k] + 1 ELSE LongAgo]
    BY DEF Tick
<1>2. alerted' \in [Keys -> 0 .. LongAgo]
    BY <1>1, AutomationsAssumption DEF LongAgo
<1>3. DOMAIN th' = Threads
      /\ \A d \in Detectors : /\ DOMAIN th'[d] = DOMAIN th[d] /\ th'[d].pc = th[d].pc
                              /\ th'[d].event = th[d].event
    <2>1. DOMAIN th' = Threads /\ \A t \in Threads : th'[t] =
              CASE th[t].pc = "grant" -> [th[t] EXCEPT !.age = Older(@)]
                [] Waiting(t) -> [th[t] EXCEPT !.age = @ + 1]
                [] OTHER -> th[t]
        BY DEF Tick
    <2>2. ASSUME NEW d \in Detectors
          PROVE  /\ DOMAIN th'[d] = DOMAIN th[d] /\ th'[d].pc = th[d].pc
                 /\ th'[d].event = th[d].event
        <3>1. d \in Threads /\ DetectorOK(d)
            BY DEF Threads
        <3>2. PICK n : th'[d] = th[d] \/ th'[d] = [th[d] EXCEPT !.age = n]
            BY <2>1, <3>1
        <3> QED BY <3>1, <3>2 DEF DetectorOK, Idle
    <2> QED BY <2>1, <2>2
<1>4. ASSUME NEW d \in Detectors PROVE DetectorOK(d)'
    <2>1. d \in Threads /\ DetectorOK(d)
        BY DEF Threads
    <2>2. ASSUME Waiting(d) PROVE th'[d].age \in 0 .. MaxHeld
        <3>1. th[d].age \in 0 .. MaxHeld /\ th[d].age < MaxHeld
            BY <2>1, <2>2 DEF DetectorOK, Tick
        <3>2. th'[d] = [th[d] EXCEPT !.age = @ + 1]
            BY <2>1, <2>2 DEF Tick, Waiting
        <3>3. th'[d].age = th[d].age + 1
            BY <2>1, <3>2 DEF DetectorOK, Idle
        <3> QED BY <3>1, <3>3, AutomationsAssumption
    <2> QED BY <1>3, <2>1, <2>2 DEF DetectorOK, Waiting
<1>5. ASSUME NEW k \in Keys PROVE Posting(k)' = Posting(k)
    BY <1>3 DEF Posting, Key
<1> QED BY <1>1, <1>2, <1>3, <1>4, <1>5 DEF Passing

LEMMA RestartRests ==
    ASSUME AlertInv, Restart
    PROVE  /\ AlertInv'
           /\ alerted' = [k \in Keys |-> LongAgo] /\ Passing' = [k \in Keys |-> 0]
<1>1. th' = [t \in Threads |-> Idle] /\ alerted' = [k \in Keys |-> LongAgo]
    BY DEF Restart
<1>2. AlertInv'
    BY <1>1, AutomationsAssumption DEF AlertInv, DetectorOK, Idle, Threads, LongAgo, Waiting
<1>3. ASSUME NEW k \in Keys PROVE Posting(k)' = {}
    BY <1>1 DEF Posting, Idle, Threads
<1> QED BY <1>1, <1>2, <1>3, FS_EmptySet DEF Passing

-----------------------------------------------------------------------------
LEMMA AlertInit == Init => AlertInv /\ Limit!Init
<1> SUFFICES ASSUME Init PROVE AlertInv /\ Limit!Init
    OBVIOUS
<1>1. th = [t \in Threads |-> Idle] /\ alerted = [k \in Keys |-> LongAgo]
    BY DEF Init
<1>2. AlertInv
    BY <1>1, AutomationsAssumption DEF AlertInv, DetectorOK, Idle, Threads, LongAgo, Waiting
<1>3. ASSUME NEW k \in Keys PROVE Posting(k) = {}
    BY <1>1 DEF Posting, Idle, Threads
<1> QED BY <1>1, <1>2, <1>3, FS_EmptySet DEF Limit!Init, Limit!Rested, Limit!LongAgo, LongAgo

LEMMA AlertStep == AlertInv /\ [Next]_vars => AlertInv' /\ [Limit!Next]_Limit!vars
<1> SUFFICES ASSUME AlertInv, [Next]_vars PROVE AlertInv' /\ [Limit!Next]_Limit!vars
    OBVIOUS
<1> DEFINE Done == AlertInv' /\ [Limit!Next]_Limit!vars
<1>1. ASSUME AlertInv', alerted' = alerted, Passing' = Passing PROVE Done
    BY <1>1 DEF Limit!vars, Passing
<1>2. ASSUME Quiet PROVE Done
    BY <1>1, <1>2, QuietStep DEF Quiet
<1>3. ASSUME NEW t \in Runners, RunnerStep(t) PROVE Done
    BY <1>2, <1>3, RunnersAreQuiet
<1>4. ASSUME NEW d \in Detectors, Emit(d) \/ TestRow(d) \/ Grant(d) \/ ReadClock(d) PROVE Done
    <2>1. alerted' = alerted
        BY <1>4 DEF Emit, TestRow, Grant, ReadClock, memory
    <2> QED BY <1>1, <1>4, <2>1, GrantSide
<1>5. ASSUME NEW d \in Detectors, Notify(d) PROVE Done
    <2>1. CASE alerted' = alerted /\ Passing' = Passing
        BY <1>1, <1>5, <2>1, NotifyPasses
    <2>2. CASE ~(alerted' = alerted /\ Passing' = Passing)
        <3>1. Limit!Pass(Key(d)) /\ Key(d) \in Keys /\ AlertInv'
            BY <1>5, <2>2, NotifyPasses DEF Limit!Pass, Passing
        <3> QED BY <3>1 DEF Limit!Next
    <2> QED BY <2>1, <2>2
<1>6. ASSUME NEW d \in Detectors, Post(d) PROVE Done
    BY <1>6, PostDone DEF Limit!Next, Limit!Done, Passing
<1>7. CASE Tick
    BY <1>7, TickElapses DEF Limit!Next, Limit!Elapse, Limit!LongAgo, LongAgo, Passing
<1>8. CASE Restart
    BY <1>8, RestartRests DEF Limit!Next, Limit!Restart, Limit!Rested, Limit!LongAgo, LongAgo, Passing
<1>9. CASE ~(\/ Tick \/ Restart
             \/ \E d \in Detectors : \/ Emit(d) \/ TestRow(d) \/ Grant(d)
                                     \/ ReadClock(d) \/ Notify(d) \/ Post(d)
             \/ \E t \in Runners : RunnerStep(t))
    BY <1>2, <1>9, OthersAreQuiet DEF Next, Running, DetectorStep
<1> QED BY <1>3, <1>4, <1>5, <1>6, <1>7, <1>8, <1>9

\* Of each camera and type one alert at most is let through per cooldown, by the
\* clock as the detectors read it, whichever raise events at once and however long
\* each waits for the lock.
THEOREM Limited == Spec => AlertsLimited
BY AlertInit, AlertStep, PTL DEF Spec, AlertsLimited, Limit!Spec

-----------------------------------------------------------------------------
(* What the program shows of a device. *)

\* The records that are updated field by field have these fields.
Plain ==
    /\ DOMAIN th = Threads /\ \A t \in Threads : DOMAIN th[t] = DOMAIN Idle
    /\ DOMAIN relay = Devices /\ DOMAIN stray = Devices
    /\ DOMAIN devices = Devices
    /\ \A d \in Devices : DOMAIN devices[d] = {"here", "enabled", "last_state"}

\* t has switched d and is about to write down the outcome.
Noting(t, d) == th[t].pc = "note" /\ Head(th[t].todo).device = d

\* A device that nothing has gone astray with is shown as it is, or there is one thread
\* about to write down how it is, and no second that could write down something else.
Shown(d) ==
    \/ stray[d]
    \/ /\ \E t \in Runners : Noting(t, d)
       /\ \A t \in Runners : Noting(t, d) =>
            th[t].want = relay[d] /\ \A o \in Runners \ {t} : ~Noting(o, d)
    \/ (\A t \in Runners : ~Noting(t, d)) /\ devices[d].last_state = relay[d]

ShownInv == Plain /\ \A d \in Devices : Shown(d)

\* The relays and what is written of them are as they were.
SameDevices ==
    /\ relay' = relay /\ stray' = stray /\ DOMAIN devices' = Devices
    /\ \A d \in Devices : /\ DOMAIN devices'[d] = DOMAIN devices[d]
                          /\ devices'[d].last_state = devices[d].last_state

\* t takes a step, and only t.
Only(t) == DOMAIN th' = Threads /\ DOMAIN th'[t] = DOMAIN Idle
           /\ \A o \in Threads \ {t} : th'[o] = th[o]

\* A step of a thread that is not about to write anything down, and is not after it,
\* leaves what is shown as true as it was.
LEMMA NothingNoted ==
    ASSUME ShownInv, SameDevices, NEW t \in Threads, Only(t),
           t \in Runners => th[t].pc # "note" /\ th'[t].pc # "note"
    PROVE  ShownInv'
<1>1. Plain'
    BY DEF ShownInv, Plain, SameDevices, Only
<1>2. ASSUME NEW o \in Runners, NEW d \in Devices
      PROVE  (Noting(o, d)' <=> Noting(o, d)) /\ (Noting(o, d) => th'[o].want = th[o].want)
    BY DEF Only, Noting, Threads, Runners
<1>3. ASSUME NEW d \in Devices PROVE Shown(d)'
    <2>1. Shown(d) /\ relay'[d] = relay[d] /\ stray'[d] = stray[d]
          /\ devices'[d].last_state = devices[d].last_state
        BY DEF ShownInv, SameDevices
    <2> QED BY <1>2, <2>1 DEF Shown
<1> QED BY <1>1, <1>3 DEF ShownInv

\* No thread moves.
LEMMA NobodyMoved ==
    ASSUME ShownInv, SameDevices, th' = th
    PROVE  ShownInv'
<1>1. Plain'
    BY DEF ShownInv, Plain, SameDevices
<1>2. ASSUME NEW d \in Devices PROVE Shown(d)'
    BY DEF ShownInv, SameDevices, Shown, Noting
<1> QED BY <1>1, <1>2 DEF ShownInv

LEMMA DetectorShows ==
    ASSUME ShownInv, NEW d \in Detectors, Emit(d) \/ DetectorStep(d)
    PROVE  ShownInv'
<1> USE DEF tables
<1>1. d \in Threads /\ d \notin Runners /\ Plain
    BY AutomationsAssumption DEF Threads, ShownInv
<1>2. SameDevices
    <2>1. relay' = relay /\ devices' = devices /\ stray' = stray
        BY DEF Emit, DetectorStep, TestRow, Grant, ReadClock, Notify, Post, history
    <2> QED BY <1>1, <2>1 DEF SameDevices, Plain
<1>3. Only(d)
    <2> USE DEF Plain, Only
    <2>1. CASE Emit(d)
        <3>1. PICK e \in Events : \E rest : th' = [th EXCEPT ![d] = [Idle EXCEPT
                 !.pc = "match", !.event = e, !.todo = rest]]
            BY <2>1 DEF Emit
        <3> QED BY <1>1, <3>1 DEF Idle
    <2>2. CASE TestRow(d)
        <3>1. th' = [th EXCEPT ![d].pc = "grant", ![d].age = 0] \/ Drop(d, "match")
            BY <2>2 DEF TestRow
        <3> QED BY <1>1, <3>1 DEF Drop
    <2>3. CASE Grant(d)
        BY <1>1, <2>3 DEF Grant, Drop
    <2>4. CASE Notify(d)
        BY <1>1, <2>4 DEF Notify, Rest, Go
    <2>5. CASE Post(d)
        BY <1>1, <2>5 DEF Post, Rest
    <2>6. CASE ReadClock(d)
        BY <1>1, <2>6 DEF ReadClock
    <2> QED BY <2>1, <2>2, <2>3, <2>4, <2>5, <2>6 DEF DetectorStep
<1> QED BY <1>1, <1>2, <1>3, NothingNoted

\* Runners between two calls.
LEMMA BetweenCalls ==
    ASSUME ShownInv, NEW t \in Runners,
           \/ ReadRow(t) \/ Aim(t) \/ MoveCoverings(t) \/ CallWebhook(t) \/ Finish(t)
           \/ t = Worker /\ (Take \/ TakeDue)
           \/ \E a \in Autos : RunRequest(t, a)
           \/ \E d \in Devices, state \in Asked : SwitchRequest(t, d, state)
    PROVE  ShownInv'
<1> USE DEF tables
<1>1. t \in Threads /\ Plain
    BY DEF Threads, Runners, ShownInv
<1>2. SameDevices
    <2>1. relay' = relay /\ devices' = devices /\ stray' = stray
        <3>1. CASE ReadRow(t) \/ CallWebhook(t) \/ Finish(t)
            BY <3>1 DEF ReadRow, CallWebhook, Finish, history
        <3>2. CASE Aim(t) \/ MoveCoverings(t)
            BY <3>2 DEF Aim, MoveCoverings, history
        <3>3. CASE Take \/ TakeDue
            BY <3>3 DEF Take, TakeDue, history
        <3>4. ASSUME NEW a \in Autos, RunRequest(t, a) PROVE UNCHANGED <<relay, devices, stray>>
            BY <3>4 DEF RunRequest, history
        <3>5. ASSUME NEW d \in Devices, NEW state \in Asked, SwitchRequest(t, d, state)
              PROVE  UNCHANGED <<relay, devices, stray>>
            BY <3>5 DEF SwitchRequest, history
        <3> QED BY <3>1, <3>2, <3>3, <3>4, <3>5
    <2> QED BY <1>1, <2>1 DEF SameDevices, Plain
<1>3. Only(t) /\ th[t].pc # "note" /\ th'[t].pc # "note"
    <2> USE DEF Plain, Only
    <2>1. CASE ReadRow(t)
        <3>1. PICK todo : \/ th' = [th EXCEPT ![t] = AfterRun(t)]
                          \/ th' = [th EXCEPT ![t] = [th[t] EXCEPT !.pc = "act", !.todo = todo]]
            BY <2>1 DEF ReadRow
        <3> QED BY <1>1, <2>1, <3>1 DEF ReadRow, AfterRun, Idle
    <2>2. CASE Aim(t)
        <3>1. \/ Drop(t, "act")
              \/ \E b : th' = [th EXCEPT ![t].pc = "call", ![t].want = b]
            BY <2>2 DEF Aim
        <3>2. th[t].pc = "act"
            BY <2>2 DEF Aim, Acting
        <3> QED BY <1>1, <3>1, <3>2 DEF Drop, Idle
    <2>3. CASE MoveCoverings(t) \/ CallWebhook(t)
        BY <1>1, <2>3 DEF MoveCoverings, CallWebhook, Acting, Drop, Idle
    <2>4. CASE Finish(t)
        BY <1>1, <2>4 DEF Finish, AfterRun, Idle
    <2>5. CASE t = Worker /\ Take
        BY <1>1, <2>5 DEF Take, Idle
    <2>6. CASE t = Worker /\ TakeDue
        <3>1. \E todo : th' = [th EXCEPT ![t] = [Idle EXCEPT !.pc = "act", !.todo = todo]]
            BY <2>6 DEF TakeDue
        <3>2. th[t].pc # "note"
            BY <2>6 DEF TakeDue, AtReverts
        <3> QED BY <1>1, <3>1, <3>2 DEF Idle
    <2>7. ASSUME NEW a \in Autos, RunRequest(t, a)
          PROVE  Only(t) /\ th[t].pc # "note" /\ th'[t].pc # "note"
        <3>1. th[t] = Idle /\ th' = [th EXCEPT ![t].pc = "row", ![t].auto = a]
            BY <2>7 DEF RunRequest
        <3> QED BY <1>1, <3>1 DEF Idle
    <2>8. ASSUME NEW d \in Devices, NEW state \in Asked, SwitchRequest(t, d, state)
          PROVE  Only(t) /\ th[t].pc # "note" /\ th'[t].pc # "note"
        <3>1. th[t] = Idle
            BY <2>8 DEF SwitchRequest
        <3>2. \E todo : th' = [th EXCEPT ![t].pc = "act", ![t].todo = todo]
            BY <2>8 DEF SwitchRequest
        <3> QED BY <1>1, <3>1, <3>2 DEF Idle
    <2> QED BY <2>1, <2>2, <2>3, <2>4, <2>5, <2>6, <2>7, <2>8
<1> QED BY <1>1, <1>2, <1>3, NothingNoted

\* A call that the relay obeyed: one thread is about to write down what it is, or
\* several are, and then it may go astray.
LEMMA CallShows ==
    ASSUME ShownInv, NEW t \in Runners, Call(t)
    PROVE  ShownInv'
<1> DEFINE x == Head(th[t].todo).device
<1>1. t \in Threads /\ Plain
    BY DEF Threads, Runners, ShownInv
<1>2. /\ relay' = [relay EXCEPT ![x] = th[t].want]
      /\ stray' = [stray EXCEPT ![x] = OthersNoting(t, x)]
      /\ devices' = devices /\ th' = [th EXCEPT ![t].pc = "note"] /\ th[t].pc = "call"
    BY DEF Call, Go
<1>3. Plain'
    BY <1>1, <1>2 DEF Plain, Idle
<1>4. /\ th'[t].pc = "note" /\ th'[t].todo = th[t].todo /\ th'[t].want = th[t].want
      /\ \A o \in Runners \ {t} : th'[o] = th[o]
    BY <1>1, <1>2 DEF Plain, Idle, Threads, Runners
<1>5. ASSUME NEW d \in Devices PROVE Shown(d)'
    <2> HIDE DEF x
    <2>1. CASE d = x
        <3>1. relay'[d] = th[t].want /\ stray'[d] = OthersNoting(t, x)
            BY <1>1, <1>2, <2>1 DEF Plain
        <3>2. CASE OthersNoting(t, x)
            BY <3>1, <3>2 DEF Shown
        <3>3. CASE ~OthersNoting(t, x)
            <4>1. \A o \in Runners \ {t} : ~Noting(o, d)'
                BY <1>4, <2>1, <3>3 DEF OthersNoting, Noting
            <4>2. Noting(t, d)'
                BY <1>4, <2>1 DEF Noting, x
            <4> QED BY <1>4, <3>1, <4>1, <4>2 DEF Shown
        <3> QED BY <3>2, <3>3
    <2>2. CASE d # x
        <3>1. relay'[d] = relay[d] /\ stray'[d] = stray[d] /\ devices'[d] = devices[d]
            BY <1>1, <1>2, <2>2 DEF Plain
        <3>2. \A o \in Runners : (Noting(o, d)' <=> Noting(o, d)) /\ th'[o].want = th[o].want
            BY <1>2, <1>4, <2>2 DEF Noting, x
        <3> QED BY <3>1, <3>2 DEF ShownInv, Shown
    <2> QED BY <2>1, <2>2
<1> QED BY <1>3, <1>5 DEF ShownInv

\* A call that failed leaves the device astray.
LEMMA CallFailsShows ==
    ASSUME ShownInv, NEW t \in Runners, CallFails(t)
    PROVE  ShownInv'
<1> DEFINE x == Head(th[t].todo).device
<1>1. t \in Threads /\ Plain
    BY DEF Threads, Runners, ShownInv
<1>2. /\ \E v : relay' = [relay EXCEPT ![x] = v]
      /\ stray' = [stray EXCEPT ![x] = TRUE] /\ th[t].pc = "call"
      /\ devices' = devices \/ \E v : devices' = [devices EXCEPT ![x].last_state = v]
      /\ \/ th' = [th EXCEPT ![t].pc = "act", ![t].retried = TRUE]
         \/ Drop(t, "act")
    BY DEF CallFails
<1> HIDE DEF x
<1>3. th'[t].pc = "act" /\ DOMAIN th'[t] = DOMAIN Idle /\ DOMAIN th' = Threads
      /\ \A o \in Threads \ {t} : th'[o] = th[o]
    BY <1>1, <1>2 DEF Drop, Plain, Idle
<1>4. DOMAIN devices' = Devices
      /\ \A d \in Devices : DOMAIN devices'[d] = {"here", "enabled", "last_state"}
    BY <1>1, <1>2 DEF Plain
<1>5. Plain'
    BY <1>1, <1>2, <1>3, <1>4 DEF Plain
<1>6. ASSUME NEW d \in Devices PROVE Shown(d)'
    <2>1. CASE d = x
        BY <1>1, <1>2, <2>1 DEF Plain, Shown
    <2>2. CASE d # x
        <3>1. relay'[d] = relay[d] /\ stray'[d] = stray[d] /\ devices'[d] = devices[d]
            BY <1>1, <1>2, <2>2 DEF Plain
        <3>2. \A o \in Runners : (Noting(o, d)' <=> Noting(o, d))
                                 /\ (Noting(o, d) => th'[o].want = th[o].want)
            BY <1>2, <1>3 DEF Noting, Threads, Runners
        <3> QED BY <3>1, <3>2 DEF ShownInv, Shown
    <2> QED BY <2>1, <2>2
<1> QED BY <1>5, <1>6 DEF ShownInv

\* The one thread that was about to write down how the relay is, does.
LEMMA NoteShows ==
    ASSUME ShownInv, NEW t \in Runners, Note(t)
    PROVE  ShownInv'
<1> DEFINE x == Head(th[t].todo).device
<1>1. t \in Threads /\ Plain
    BY DEF Threads, Runners, ShownInv
<1>2. /\ relay' = relay /\ stray' = stray /\ th[t].pc = "note"
      /\ devices' = [devices EXCEPT ![x].last_state = th[t].want] /\ Drop(t, "act")
    BY DEF Note, history
<1> HIDE DEF x
<1>3. th'[t].pc = "act" /\ DOMAIN th'[t] = DOMAIN Idle /\ DOMAIN th' = Threads
      /\ \A o \in Threads \ {t} : th'[o] = th[o]
    BY <1>1, <1>2 DEF Drop, Plain, Idle
<1>4. DOMAIN devices' = Devices
      /\ \A d \in Devices : DOMAIN devices'[d] = {"here", "enabled", "last_state"}
    BY <1>1, <1>2 DEF Plain
<1>5. Plain'
    BY <1>1, <1>2, <1>3, <1>4 DEF Plain
<1>6. \A o \in Runners \ {t} : th'[o] = th[o]
    BY <1>3 DEF Threads, Runners
<1>7. ASSUME NEW d \in Devices PROVE Shown(d)'
    <2>1. CASE d = x
        <3>1. Noting(t, d)
            BY <1>2, <2>1 DEF Noting, x
        <3>2. \/ stray[d]
              \/ th[t].want = relay[d] /\ \A o \in Runners \ {t} : ~Noting(o, d)
            BY <3>1 DEF ShownInv, Shown
        <3>3. devices'[d].last_state = th[t].want
            BY <1>1, <1>2, <2>1 DEF Plain
        <3>4. ~Noting(t, d)' /\ \A o \in Runners \ {t} : Noting(o, d)' <=> Noting(o, d)
            BY <1>3, <1>6 DEF Noting
        <3> QED BY <1>2, <3>2, <3>3, <3>4 DEF Shown
    <2>2. CASE d # x
        <3>1. devices'[d] = devices[d]
            BY <1>1, <1>2, <2>2 DEF Plain
        <3>2. ~Noting(t, d) /\ ~Noting(t, d)'
            BY <1>3, <2>2 DEF Noting, x
        <3>3. \A o \in Runners : (Noting(o, d)' <=> Noting(o, d))
                                 /\ (Noting(o, d) => th'[o].want = th[o].want)
            BY <1>6, <3>2 DEF Noting
        <3> QED BY <1>2, <3>1, <3>3 DEF ShownInv, Shown
    <2> QED BY <2>1, <2>2
<1> QED BY <1>5, <1>7 DEF ShownInv

\* People, time and the machine.
LEMMA WorldShows ==
    ASSUME ShownInv,
           \/ \E a \in Autos : EditAutomation(a)
           \/ \E d \in Devices : EditDevice(d) \/ PressButton(d)
           \/ Tick \/ Restart \/ UNCHANGED vars
    PROVE  ShownInv'
<1>0. Plain
    BY DEF ShownInv
<1> USE DEF tables
<1>1. ASSUME NEW a \in Autos, EditAutomation(a) PROVE ShownInv'
    <2>1. SameDevices /\ th' = th
        BY <1>0, <1>1 DEF EditAutomation, SameDevices, Plain, history
    <2> QED BY <2>1, NobodyMoved
<1>2. ASSUME NEW d \in Devices, EditDevice(d) PROVE ShownInv'
    <2>1. relay' = relay /\ stray' = stray /\ th' = th
          /\ \E v : \/ devices' = [devices EXCEPT ![d].enabled = v]
                    \/ devices' = [devices EXCEPT ![d].here = v]
        BY <1>2 DEF EditDevice, history
    <2>2. SameDevices
        BY <1>0, <2>1 DEF SameDevices, Plain
    <2> QED BY <2>1, <2>2, NobodyMoved
<1>3. ASSUME NEW d \in Devices, PressButton(d) PROVE ShownInv'
    <2>1. /\ devices' = devices /\ th' = th /\ stray' = [stray EXCEPT ![d] = TRUE]
          /\ \E v : relay' = [relay EXCEPT ![d] = v]
        BY <1>3 DEF PressButton
    <2>2. Plain'
        BY <1>0, <2>1 DEF Plain
    <2>3. ASSUME NEW e \in Devices PROVE Shown(e)'
        <3>1. CASE e = d
            BY <1>0, <2>1, <3>1 DEF Plain, Shown
        <3>2. CASE e # d
            <4>1. relay'[e] = relay[e] /\ stray'[e] = stray[e]
                BY <1>0, <2>1, <3>2 DEF Plain
            <4> QED BY <2>1, <4>1 DEF ShownInv, Shown, Noting
        <3> QED BY <3>1, <3>2
    <2> QED BY <2>2, <2>3 DEF ShownInv
<1>4. CASE Tick
    <2>1. relay' = relay /\ stray' = stray /\ devices' = devices
          /\ th' = [t \in Threads |->
                 CASE th[t].pc = "grant" -> [th[t] EXCEPT !.age = Older(@)]
                   [] Waiting(t) -> [th[t] EXCEPT !.age = @ + 1]
                   [] OTHER -> th[t]]
        BY <1>4 DEF Tick, history
    <2>2. \A t \in Threads : DOMAIN th'[t] = DOMAIN th[t] /\ th'[t].pc = th[t].pc
                             /\ th'[t].todo = th[t].todo /\ th'[t].want = th[t].want
        BY <1>0, <2>1 DEF Plain, Idle
    <2>3. Plain'
        BY <1>0, <2>1, <2>2 DEF Plain
    <2>4. ASSUME NEW d \in Devices PROVE Shown(d)'
        <3>1. \A t \in Runners : (Noting(t, d)' <=> Noting(t, d)) /\ th'[t].want = th[t].want
            BY <2>2 DEF Noting, Threads, Runners
        <3> QED BY <2>1, <3>1 DEF ShownInv, Shown
    <2> QED BY <2>3, <2>4 DEF ShownInv
<1>5. CASE Restart
    <2>1. /\ relay' = relay /\ devices' = devices /\ th' = [t \in Threads |-> Idle]
          /\ stray' = [d \in Devices |-> stray[d] \/ \E t \in Runners : Noting(t, d)]
        BY <1>5 DEF Restart, Noting
    <2>2. Plain'
        BY <1>0, <2>1 DEF Plain
    <2>3. ASSUME NEW d \in Devices PROVE Shown(d)'
        <3>1. \A t \in Runners : ~Noting(t, d)'
            BY <2>1 DEF Noting, Idle, Threads, Runners
        <3>2. stray'[d] = (stray[d] \/ \E t \in Runners : Noting(t, d))
            BY <2>1
        <3> QED BY <2>1, <3>1, <3>2 DEF ShownInv, Shown
    <2> QED BY <2>2, <2>3 DEF ShownInv
<1>6. CASE UNCHANGED vars
    <2>1. SameDevices /\ th' = th
        BY <1>0, <1>6 DEF vars, SameDevices, Plain, history
    <2> QED BY <2>1, NobodyMoved
<1> QED BY <1>1, <1>2, <1>3, <1>4, <1>5, <1>6

LEMMA ShownStep == ShownInv /\ [Next]_vars => ShownInv'
<1> SUFFICES ASSUME ShownInv, [Next]_vars PROVE ShownInv'
    OBVIOUS
<1>1. Worker \in Runners /\ Requests \subseteq Runners
    BY DEF Runners
<1>2. CASE Running
    <2>1. ASSUME NEW t \in Runners, RunnerStep(t) PROVE ShownInv'
        BY <2>1, BetweenCalls, CallShows, CallFailsShows, NoteShows DEF RunnerStep
    <2> QED BY <1>1, <1>2, <2>1, DetectorShows, BetweenCalls DEF Running
<1>3. ASSUME NEW r \in Requests,
             \/ \E a \in Autos : RunRequest(r, a)
             \/ \E d \in Devices, state \in Asked : SwitchRequest(r, d, state)
      PROVE  ShownInv'
    BY <1>1, <1>3, BetweenCalls
<1>4. ASSUME NEW d \in Detectors, Emit(d) PROVE ShownInv'
    BY <1>4, DetectorShows
<1>5. CASE ~Running /\ ~(\E d \in Detectors : Emit(d))
           /\ ~\E r \in Requests : \/ \E a \in Autos : RunRequest(r, a)
                                   \/ \E d \in Devices, state \in Asked : SwitchRequest(r, d, state)
    BY <1>5, WorldShows DEF Next
<1> QED BY <1>2, <1>3, <1>4, <1>5

\* With nothing under way the state shown of a device is its state, but for buttons,
\* failed calls and threads that switched it at once (run_now, _run_device,
\* api_set_device_state), for any devices, requests and automations.
THEOREM ShownIsTrue == Spec => []RowTellsRelay
<1>1. Init => ShownInv
    <2> SUFFICES ASSUME Init PROVE ShownInv
        OBVIOUS
    <2>1. /\ relay = [d \in Devices |-> FALSE] /\ stray = [d \in Devices |-> FALSE]
          /\ devices = [d \in Devices |-> [here |-> TRUE, enabled |-> TRUE, last_state |-> FALSE]]
          /\ th = [t \in Threads |-> Idle]
        BY DEF Init
    <2>2. Plain
        BY <2>1 DEF Plain
    <2>3. \A t \in Runners, d \in Devices : ~Noting(t, d)
        BY <2>1 DEF Noting, Idle, Threads, Runners
    <2>4. \A d \in Devices : devices[d].last_state = relay[d]
        BY <2>1
    <2> QED BY <2>2, <2>3, <2>4 DEF ShownInv, Shown
<1>2. ShownInv => RowTellsRelay
    <2> SUFFICES ASSUME ShownInv, AtRest, NEW d \in Devices
                 PROVE  stray[d] \/ devices[d].last_state = relay[d]
        BY DEF RowTellsRelay
    <2>1. \A t \in Runners : ~Noting(t, d)
        BY DEF AtRest, Noting, Idle
    <2> QED BY <2>1 DEF ShownInv, Shown
<1> QED BY <1>1, <1>2, ShownStep, PTL DEF Spec

-----------------------------------------------------------------------------
(* Lists, and what Keep keeps of them. *)

LEMMA ListOf ==
    ASSUME NEW S, NEW s \in Seq(S)
    PROVE  IsList(s) /\ Len(s) \in Nat /\ DOMAIN s = 1 .. Len(s) /\ \A i \in DOMAIN s : s[i] \in S
<1>1. Len(s) \in Nat /\ DOMAIN s = 1 .. Len(s) /\ \A i \in DOMAIN s : s[i] \in S
    OBVIOUS
<1>2. s = [i \in 1 .. Len(s) |-> s[i]]
    OBVIOUS
<1>3. s \in [1 .. Len(s) -> Elements(s)]
    BY <1>1, <1>2 DEF Elements
<1>4. s \in Seq(Elements(s))
    BY <1>1, <1>3
<1> QED BY <1>1, <1>4 DEF IsList

LEMMA ListTail ==
    ASSUME NEW s, IsList(s), s # <<>>
    PROVE  /\ IsList(Tail(s)) /\ Head(s) = s[1] /\ 1 \in DOMAIN s
           /\ \A i \in DOMAIN Tail(s) : Tail(s)[i] = s[i + 1] /\ i + 1 \in DOMAIN s
           /\ \A i \in DOMAIN s : i # 1 => i - 1 \in DOMAIN Tail(s) /\ Tail(s)[i - 1] = s[i]
<1> DEFINE S == Elements(s)
<1>1. s \in Seq(S)
    BY DEF IsList
<1> HIDE DEF S
<1>2. Tail(s) \in Seq(S) /\ Head(s) = s[1] /\ Len(s) \in Nat \ {0} /\ Len(Tail(s)) = Len(s) - 1
      /\ DOMAIN s = 1 .. Len(s) /\ DOMAIN Tail(s) = 1 .. Len(s) - 1
      /\ \A i \in 1 .. Len(s) - 1 : Tail(s)[i] = s[i + 1]
    BY <1>1
<1>3. IsList(Tail(s))
    BY <1>2, ListOf
<1> QED BY <1>2, <1>3

\* The place of i among the places I.
Rank(I, i) == Cardinality({j \in I : j < i}) + 1

LEMMA Ranks ==
    ASSUME NEW n \in Nat, NEW I \in SUBSET (1 .. n)
    PROVE  /\ IsFiniteSet(I) /\ Cardinality(I) \in Nat
           /\ \A i \in I : Rank(I, i) \in 1 .. Cardinality(I)
           /\ \A i, j \in I : Rank(I, i) = Rank(I, j) => i = j
           /\ \A k \in 1 .. Cardinality(I) : \E i \in I : Rank(I, i) = k
<1>1. IsFiniteSet(I)
    <2>1. IsFiniteSet(1 .. n)
        BY FS_Interval
    <2> QED BY <2>1, FS_Subset
<1>2. Cardinality(I) \in Nat
    BY <1>1, FS_CardinalityType
<1> DEFINE below(i) == {j \in I : j < i}
<1>3. ASSUME NEW i \in I
      PROVE  Cardinality(below(i)) \in Nat /\ Cardinality(below(i)) < Cardinality(I)
    <2>1. below(i) \in SUBSET I /\ below(i) # I
        OBVIOUS
    <2>2. IsFiniteSet(below(i)) /\ Cardinality(below(i)) <= Cardinality(I)
          /\ Cardinality(I) # Cardinality(below(i))
        BY <1>1, <2>1, FS_Subset
    <2>3. Cardinality(below(i)) \in Nat
        BY <2>2, FS_CardinalityType
    <2> HIDE DEF below
    <2> QED BY <1>2, <2>2, <2>3
<1>4. ASSUME NEW i \in I, NEW j \in I, i < j
      PROVE  Cardinality(below(i)) < Cardinality(below(j))
    <2>1. below(i) \in SUBSET below(j) /\ below(i) # below(j)
        <3>1. i \in below(j) /\ i \notin below(i)
            BY <1>4
        <3>2. \A m \in below(i) : m \in below(j)
            BY <1>4
        <3> QED BY <3>1, <3>2
    <2>2. IsFiniteSet(below(j))
        BY <1>1, FS_Subset
    <2>3. Cardinality(below(i)) <= Cardinality(below(j)) /\ Cardinality(below(j)) # Cardinality(below(i))
        BY <2>1, <2>2, FS_Subset
    <2>4. Cardinality(below(i)) \in Nat /\ Cardinality(below(j)) \in Nat
        BY <1>3
    <2> HIDE DEF below
    <2> QED BY <2>3, <2>4
<1>5. \A i \in I : Rank(I, i) = Cardinality(below(i)) + 1
    BY DEF Rank
<1> HIDE DEF below
<1>6. \A i \in I : Rank(I, i) \in 1 .. Cardinality(I)
    BY <1>2, <1>3, <1>5
<1>7. \A i, j \in I : Rank(I, i) = Rank(I, j) => i = j
    <2> SUFFICES ASSUME NEW i \in I, NEW j \in I, i # j PROVE Rank(I, i) # Rank(I, j)
        OBVIOUS
    <2>1. i < j \/ j < i
        OBVIOUS
    <2>2. Cardinality(below(i)) \in Nat /\ Cardinality(below(j)) \in Nat
        BY <1>3
    <2>3. Cardinality(below(i)) < Cardinality(below(j)) \/ Cardinality(below(j)) < Cardinality(below(i))
        BY <1>4, <2>1
    <2> QED BY <1>5, <2>2, <2>3
<1>8. \A k \in 1 .. Cardinality(I) : \E i \in I : Rank(I, i) = k
    <2> DEFINE f == [i \in I |-> Rank(I, i)]
               T == 1 .. Cardinality(I)
    <2>1. IsFiniteSet(T) /\ Cardinality(T) = Cardinality(I)
        BY <1>2, FS_Interval
    <2>2. f \in Injection(I, T)
        BY <1>6, <1>7 DEF Injection, IsInjective
    <2>3. f \in Surjection(I, T)
        <3> HIDE DEF f, T
        <3> QED BY <2>1, <2>2, FS_Injection
    <2> QED BY <2>3 DEF Surjection
<1> QED BY <1>1, <1>2, <1>6, <1>7, <1>8

LEMMA KeepKeeps ==
    ASSUME NEW s, IsList(s), NEW I \in SUBSET DOMAIN s
    PROVE  /\ IsList(Keep(s, I))
           /\ \A k \in DOMAIN Keep(s, I) : \E i \in I : Keep(s, I)[k] = s[i]
           /\ \A i \in I : \E k \in DOMAIN Keep(s, I) : Keep(s, I)[k] = s[i]
<1>1. PICK n \in Nat : DOMAIN s = 1 .. n
    BY ListOf DEF IsList
<1>2. /\ Cardinality(I) \in Nat
      /\ \A i \in I : Rank(I, i) \in 1 .. Cardinality(I)
      /\ \A i, j \in I : Rank(I, i) = Rank(I, j) => i = j
      /\ \A k \in 1 .. Cardinality(I) : \E i \in I : Rank(I, i) = k
    BY <1>1, Ranks
<1>3. ASSUME NEW i \in I PROVE Cardinality({j \in I : j < i}) \in Nat
    <2>1. IsFiniteSet(I) /\ {j \in I : j < i} \in SUBSET I
        BY <1>1, Ranks
    <2> QED BY <2>1, FS_Subset, FS_CardinalityType
<1> DEFINE at(k) == CHOOSE i \in I : Cardinality({j \in I : j < i}) = k - 1
<1>4. ASSUME NEW k \in 1 .. Cardinality(I) PROVE at(k) \in I /\ Rank(I, at(k)) = k
    <2>1. \A i \in I : Rank(I, i) = k <=> Cardinality({j \in I : j < i}) = k - 1
        BY <1>2, <1>3 DEF Rank
    <2>2. \E i \in I : Cardinality({j \in I : j < i}) = k - 1
        BY <1>2, <2>1
    <2>3. at(k) \in I /\ Cardinality({j \in I : j < at(k)}) = k - 1
        BY <2>2
    <2> HIDE DEF at
    <2> QED BY <2>1, <2>3
<1>5. Keep(s, I) = [k \in 1 .. Cardinality(I) |-> s[at(k)]]
    BY DEF Keep
<1> HIDE DEF at
<1>6. \A k \in DOMAIN Keep(s, I) : at(k) \in I /\ Keep(s, I)[k] = s[at(k)]
    BY <1>4, <1>5
<1>7. ASSUME NEW i \in I PROVE \E k \in DOMAIN Keep(s, I) : Keep(s, I)[k] = s[i]
    <2> DEFINE k == Rank(I, i)
    <2>1. k \in 1 .. Cardinality(I)
        BY <1>2
    <2>2. at(k) = i
        BY <1>2, <1>4, <2>1
    <2> HIDE DEF k
    <2> QED BY <1>5, <2>1, <2>2
<1>8. IsList(Keep(s, I))
    <2>1. Keep(s, I) \in [1 .. Cardinality(I) -> Elements(s)]
        BY <1>4, <1>5 DEF Elements
    <2>2. Keep(s, I) \in Seq(Elements(s))
        BY <1>2, <2>1
    <2> QED BY <2>2, ListOf
<1> QED BY <1>6, <1>7, <1>8

Join(s, b) == s \o b

LEMMA ListsJoin ==
    ASSUME NEW s, IsList(s), NEW b, IsList(b)
    PROVE  /\ IsList(Join(s, b))
           /\ \A i \in DOMAIN Join(s, b) : \/ \E j \in DOMAIN s : Join(s, b)[i] = s[j]
                                          \/ \E j \in DOMAIN b : Join(s, b)[i] = b[j]
           /\ \A j \in DOMAIN s : \E i \in DOMAIN Join(s, b) : Join(s, b)[i] = s[j]
           /\ \A j \in DOMAIN b : \E i \in DOMAIN Join(s, b) : Join(s, b)[i] = b[j]
<1> DEFINE S == Elements(s) \cup Elements(b)
           c == Join(s, b)
<1>1. /\ Len(s) \in Nat /\ DOMAIN s = 1 .. Len(s) /\ Len(b) \in Nat /\ DOMAIN b = 1 .. Len(b)
      /\ s \in Seq(S) /\ b \in Seq(S)
    <2>1. /\ s \in Seq(Elements(s)) /\ b \in Seq(Elements(b))
        BY DEF IsList
    <2>2. Len(s) \in Nat /\ DOMAIN s = 1 .. Len(s) /\ s \in [1 .. Len(s) -> S]
        BY <2>1 DEF Elements
    <2>3. Len(b) \in Nat /\ DOMAIN b = 1 .. Len(b) /\ b \in [1 .. Len(b) -> S]
        BY <2>1 DEF Elements
    <2> HIDE DEF S
    <2> QED BY <2>2, <2>3
<1> HIDE DEF S
<1>2. /\ c \in Seq(S) /\ Len(c) = Len(s) + Len(b) /\ DOMAIN c = 1 .. Len(s) + Len(b)
      /\ \A i \in 1 .. Len(s) : c[i] = s[i]
      /\ \A i \in Len(s) + 1 .. Len(s) + Len(b) : c[i] = b[i - Len(s)]
    BY <1>1 DEF Join
<1> HIDE DEF c
<1>3. IsList(c)
    BY <1>2, ListOf
<1>4. ASSUME NEW i \in DOMAIN c
      PROVE  (\E j \in DOMAIN s : c[i] = s[j]) \/ \E j \in DOMAIN b : c[i] = b[j]
    <2>1. CASE i \in 1 .. Len(s)
        BY <1>1, <1>2, <2>1
    <2>2. CASE i \in Len(s) + 1 .. Len(s) + Len(b)
        <3>1. i - Len(s) \in DOMAIN b /\ c[i] = b[i - Len(s)]
            BY <1>1, <1>2, <2>2
        <3> QED BY <3>1
    <2> QED BY <1>1, <1>2, <2>1, <2>2
<1>5. \A j \in DOMAIN s : j \in DOMAIN c /\ c[j] = s[j]
    BY <1>1, <1>2
<1>6. ASSUME NEW j \in DOMAIN b PROVE Len(s) + j \in DOMAIN c /\ c[Len(s) + j] = b[j]
    <2>1. Len(s) + j \in Len(s) + 1 .. Len(s) + Len(b) /\ (Len(s) + j) - Len(s) = j
        BY <1>1
    <2>2. c[Len(s) + j] = b[(Len(s) + j) - Len(s)]
        BY <1>2, <2>1
    <2> QED BY <1>1, <1>2, <2>1, <2>2
<1> QED BY <1>3, <1>4, <1>5, <1>6 DEF c

-----------------------------------------------------------------------------
(* Types: what the tables, the memory and each thread hold. *)

\* An action of a thread's list; without an automation nothing is for a time.
Fit(a, auto) == a.kind = "device" => a.seconds \in 0 .. MaxSeconds /\ (auto = None => a.seconds = 0)

DetectorFit(d) ==
    /\ DOMAIN th[d] = DOMAIN Idle
    /\ th[d].pc \in {"idle", "match", "grant", "lock", "post"}
    /\ th[d].pc = "grant" => th[d].age \in 0 .. MaxAge
    /\ Waiting(d) => th[d].age \in 0 .. MaxHeld
    /\ IsList(th[d].todo) /\ \A i \in DOMAIN th[d].todo : th[d].todo[i].id \in Autos
    /\ th[d].pc = "grant" => th[d].todo # <<>>

RunnerFit(t) ==
    /\ DOMAIN th[t] = DOMAIN Idle
    /\ th[t].pc \in {"idle", "row", "act", "call", "note", "revert"}
    /\ th[t].auto \in Autos \cup {None}
    /\ th[t].pc = "row" => th[t].auto \in Autos
    /\ th[t].want \in BOOLEAN
    /\ IsList(th[t].todo) /\ \A i \in DOMAIN th[t].todo : Fit(th[t].todo[i], th[t].auto)
    /\ th[t].pc \in {"call", "note"} => th[t].todo # <<>> /\ Head(th[t].todo).kind = "device"

ThreadsFit ==
    /\ DOMAIN th = Threads
    /\ \A d \in Detectors : DetectorFit(d)
    /\ \A t \in Runners : RunnerFit(t)

TablesFit ==
    /\ DOMAIN rows = Autos
    /\ \A a \in Autos : rows[a] = None \/ ValidDraft(rows[a])
    /\ devices \in [Devices -> [here : BOOLEAN, enabled : BOOLEAN,
                                last_state : BOOLEAN \cup {None}]]
    /\ relay \in [Devices -> BOOLEAN]

\* A booked revert.
Dated(b) == DOMAIN b = {"in", "device", "state"} /\ b.in \in 0 .. MaxSeconds

MemoryFit ==
    /\ IsList(reverts) /\ \A i \in DOMAIN reverts : Dated(reverts[i])
    /\ queue \in Seq(Autos) /\ Len(queue) <= QueueSize
    /\ rested \in [Autos -> 0 .. MaxAge]
    /\ alerted \in [Keys -> 0 .. LongAgo]

AllFit == TablesFit /\ MemoryFit /\ ThreadsFit

LEMMA TablesKept == TablesFit /\ UNCHANGED <<rows, devices, relay>> => TablesFit'
BY DEF TablesFit

LEMMA MemoryKept == MemoryFit /\ UNCHANGED memory => MemoryFit'
BY DEF MemoryFit, memory

LEMMA WhoIsWho ==
    /\ Detectors \subseteq Threads /\ Runners \subseteq Threads /\ Worker \in Runners
    /\ Requests \subseteq Runners /\ \A d \in Detectors : d \notin Runners
BY AutomationsAssumption DEF Threads, Runners

LEMMA RunnerMoves ==
    ASSUME ThreadsFit, NEW t \in Runners, DOMAIN th' = Threads,
           \A o \in Threads \ {t} : th'[o] = th[o], RunnerFit(t)'
    PROVE  ThreadsFit'
<1>1. ASSUME NEW d \in Detectors PROVE DetectorFit(d)'
    <2>1. th'[d] = th[d]
        BY WhoIsWho
    <2> QED BY <2>1 DEF ThreadsFit, DetectorFit, Waiting
<1>2. ASSUME NEW o \in Runners PROVE RunnerFit(o)'
    <2>1. CASE o = t
        BY <2>1
    <2>2. CASE o # t
        <3>1. th'[o] = th[o]
            BY <2>2, WhoIsWho
        <3> QED BY <3>1 DEF ThreadsFit, RunnerFit
    <2> QED BY <2>1, <2>2
<1> QED BY <1>1, <1>2 DEF ThreadsFit

LEMMA DetectorMoves ==
    ASSUME ThreadsFit, NEW d \in Detectors, DOMAIN th' = Threads,
           \A o \in Threads \ {d} : th'[o] = th[o], DetectorFit(d)'
    PROVE  ThreadsFit'
<1>1. ASSUME NEW t \in Runners PROVE RunnerFit(t)'
    <2>1. th'[t] = th[t]
        BY WhoIsWho
    <2> QED BY <2>1 DEF ThreadsFit, RunnerFit
<1>2. ASSUME NEW o \in Detectors PROVE DetectorFit(o)'
    <2>1. CASE o = d
        BY <2>1
    <2>2. CASE o # d
        <3>1. th'[o] = th[o]
            BY <2>2, WhoIsWho
        <3> QED BY <3>1 DEF ThreadsFit, DetectorFit, Waiting
    <2> QED BY <2>1, <2>2
<1> QED BY <1>1, <1>2 DEF ThreadsFit

LEMMA NothingListed == IsList(<<>>) /\ DOMAIN <<>> = {}
<1>1. <<>> \in Seq({}) /\ Len(<<>>) = 0
    OBVIOUS
<1>2. IsList(<<>>) /\ DOMAIN <<>> = 1 .. Len(<<>>)
    BY <1>1, ListOf
<1>3. 1 .. 0 = {}
    OBVIOUS
<1> QED BY <1>1, <1>2, <1>3

LEMMA IdleFits ==
    ASSUME NEW t, th'[t] = Idle \/ th'[t] = [Idle EXCEPT !.pc = "revert"]
    PROVE  RunnerFit(t)' /\ (th'[t] = Idle => DetectorFit(t)')
<1>1. 0 \in 0 .. MaxAge
    BY AutomationsAssumption
<1>2. /\ DOMAIN th'[t] = DOMAIN Idle /\ th'[t].pc \in {"idle", "revert"} /\ th'[t].auto = None
      /\ th'[t].want = FALSE /\ th'[t].todo = <<>> /\ th'[t].age = 0
      /\ th'[t] = Idle => th'[t].pc = "idle"
    BY DEF Idle
<1>3. RunnerFit(t)'
    BY <1>2, NothingListed DEF RunnerFit
<1>4. ASSUME th'[t] = Idle PROVE DetectorFit(t)'
    BY <1>1, <1>2, <1>4, NothingListed DEF DetectorFit, Waiting
<1> QED BY <1>3, <1>4

\* The rest of a list is no worse.
LEMMA RestFits ==
    ASSUME NEW t \in Runners, RunnerFit(t), th[t].todo # <<>>, DOMAIN th = Threads, Drop(t, "act")
    PROVE  /\ RunnerFit(t)' /\ DOMAIN th' = Threads /\ \A o \in Threads \ {t} : th'[o] = th[o]
           /\ th'[t].pc = "act" /\ th'[t].todo = Tail(th[t].todo) /\ th'[t].auto = th[t].auto
<1>1. t \in Threads
    BY WhoIsWho
<1>2. /\ th'[t].pc = "act" /\ th'[t].todo = Tail(th[t].todo) /\ th'[t].auto = th[t].auto
      /\ th'[t].want = th[t].want /\ DOMAIN th'[t] = DOMAIN th[t]
      /\ DOMAIN th' = Threads /\ \A o \in Threads \ {t} : th'[o] = th[o]
    BY <1>1 DEF Drop, RunnerFit, Idle
<1>3. IsList(Tail(th[t].todo))
      /\ \A i \in DOMAIN Tail(th[t].todo) : Fit(Tail(th[t].todo)[i], th[t].auto)
    BY ListTail DEF RunnerFit
<1> QED BY <1>2, <1>3 DEF RunnerFit

-----------------------------------------------------------------------------
(* What each step leaves is of the same kind. *)

LEMMA ReadRowFits == ASSUME AllFit, NEW t \in Runners, ReadRow(t) PROVE AllFit'
<1> USE DEF AllFit
<1>1. t \in Threads /\ RunnerFit(t) /\ DOMAIN th = Threads /\ th[t].pc = "row" /\ th[t].auto \in Autos
    BY WhoIsWho DEF ReadRow, ThreadsFit, RunnerFit
<1>2. TablesFit' /\ MemoryFit'
    BY TablesKept, MemoryKept DEF ReadRow, tables
<1>3. RunnerFit(t)'
    <2>1. CASE rows[th[t].auto] = None
        <3>1. th'[t] = AfterRun(t)
            BY <1>1, <2>1 DEF ReadRow
        <3> QED BY <3>1, IdleFits DEF AfterRun
    <2>2. CASE rows[th[t].auto] # None
        <3> DEFINE todo == rows[th[t].auto].actions
        <3>1. IsList(todo) /\ \A i \in DOMAIN todo : ValidAction(todo[i])
            BY <1>1, <2>2 DEF TablesFit, ValidDraft
        <3>2. th[t].auto # None
            BY <1>1, AutomationsAssumption
        <3>3. \A i \in DOMAIN todo : Fit(todo[i], th[t].auto)
            BY <3>1, <3>2 DEF Fit, ValidAction
        <3>4. th'[t] = [th[t] EXCEPT !.pc = "act", !.todo = todo]
            BY <1>1, <2>2 DEF ReadRow
        <3> HIDE DEF todo
        <3>5. /\ th'[t].pc = "act" /\ th'[t].todo = todo /\ th'[t].auto = th[t].auto
              /\ th'[t].want = th[t].want /\ DOMAIN th'[t] = DOMAIN th[t]
            BY <1>1, <3>4 DEF RunnerFit, Idle
        <3> QED BY <1>1, <3>1, <3>3, <3>5 DEF RunnerFit
    <2> QED BY <2>1, <2>2
<1>4. DOMAIN th' = Threads /\ \A o \in Threads \ {t} : th'[o] = th[o]
    BY <1>1 DEF ReadRow
<1> QED BY <1>2, <1>3, <1>4, RunnerMoves

LEMMA AimFits == ASSUME AllFit, NEW t \in Runners, Aim(t) PROVE AllFit'
<1> USE DEF AllFit
<1>1. t \in Threads /\ RunnerFit(t) /\ DOMAIN th = Threads
      /\ th[t].todo # <<>> /\ Head(th[t].todo).kind = "device"
    BY WhoIsWho DEF Aim, Acting, ThreadsFit
<1>2. TablesFit' /\ MemoryFit'
    BY TablesKept, MemoryKept DEF Aim, tables
<1>3. CASE Drop(t, "act")
    BY <1>1, <1>2, <1>3, RestFits, RunnerMoves
<1>4. CASE ~Drop(t, "act")
    <2>1. Wanted(Head(th[t].todo)) \subseteq BOOLEAN
        BY Zenon DEF Wanted
    <2>2. PICK w \in BOOLEAN : th' = [th EXCEPT ![t].pc = "call", ![t].want = w]
        BY <1>4, <2>1 DEF Aim
    <2>3. /\ th'[t].pc = "call" /\ th'[t].todo = th[t].todo /\ th'[t].auto = th[t].auto
          /\ th'[t].want = w /\ DOMAIN th'[t] = DOMAIN th[t]
          /\ DOMAIN th' = Threads /\ \A o \in Threads \ {t} : th'[o] = th[o]
        BY <1>1, <2>2 DEF RunnerFit, Idle
    <2>4. RunnerFit(t)'
        BY <1>1, <2>3 DEF RunnerFit
    <2> QED BY <1>2, <2>3, <2>4, RunnerMoves
<1> QED BY <1>3, <1>4

LEMMA CallFits == ASSUME AllFit, NEW t \in Runners, Call(t) PROVE AllFit'
<1> USE DEF AllFit
<1>1. t \in Threads /\ RunnerFit(t) /\ DOMAIN th = Threads /\ th[t].pc = "call"
    BY WhoIsWho DEF Call, ThreadsFit
<1>2. MemoryFit'
    BY MemoryKept DEF Call
<1>3. TablesFit'
    <2>1. th[t].want \in BOOLEAN
        BY <1>1 DEF RunnerFit
    <2>2. relay' = [relay EXCEPT ![Head(th[t].todo).device] = th[t].want]
        BY DEF Call
    <2>3. relay' \in [Devices -> BOOLEAN]
        BY <2>1, <2>2 DEF TablesFit
    <2> QED BY <2>3 DEF TablesFit, Call
<1>4. /\ th'[t].pc = "note" /\ th'[t].todo = th[t].todo /\ th'[t].auto = th[t].auto
      /\ th'[t].want = th[t].want /\ DOMAIN th'[t] = DOMAIN th[t]
      /\ DOMAIN th' = Threads /\ \A o \in Threads \ {t} : th'[o] = th[o]
    BY <1>1 DEF Call, Go, RunnerFit, Idle
<1>5. RunnerFit(t)'
    BY <1>1, <1>4 DEF RunnerFit
<1> QED BY <1>2, <1>3, <1>4, <1>5, RunnerMoves

LEMMA CallFailsFits == ASSUME AllFit, NEW t \in Runners, CallFails(t) PROVE AllFit'
<1> USE DEF AllFit
<1> DEFINE x == Head(th[t].todo).device
           item == [here : BOOLEAN, enabled : BOOLEAN, last_state : BOOLEAN \cup {None}]
<1>1. t \in Threads /\ RunnerFit(t) /\ DOMAIN th = Threads /\ th[t].pc = "call"
    BY WhoIsWho DEF CallFails, ThreadsFit
<1>2. MemoryFit'
    BY MemoryKept DEF CallFails
<1>3. relay' \in [Devices -> BOOLEAN]
    <2>1. PICK obeyed \in BOOLEAN : relay' = [relay EXCEPT ![x] = IF obeyed THEN th[t].want ELSE @]
        BY DEF CallFails
    <2>2. relay \in [Devices -> BOOLEAN] /\ th[t].want \in BOOLEAN
        BY <1>1 DEF RunnerFit, TablesFit
    <2> HIDE DEF x
    <2>3. CASE obeyed
        BY <2>1, <2>2, <2>3
    <2>4. CASE ~obeyed
        BY <2>1, <2>2, <2>4
    <2> QED BY <2>3, <2>4
<1>4. devices' \in [Devices -> item]
    <2>1. devices' = devices \/ devices' = [devices EXCEPT ![x].last_state =
              IF t # Worker /\ th[t].auto = None THEN None ELSE @]
        BY DEF CallFails
    <2>2. devices \in [Devices -> item]
        BY DEF TablesFit
    <2> HIDE DEF x
    <2>3. CASE t # Worker /\ th[t].auto = None
        BY <2>1, <2>2, <2>3
    <2>4. CASE ~(t # Worker /\ th[t].auto = None)
        BY <2>1, <2>2, <2>4
    <2> QED BY <2>3, <2>4
<1>5. TablesFit'
    BY <1>3, <1>4 DEF TablesFit, CallFails
<1>6. CASE Drop(t, "act")
    <2>1. th[t].todo # <<>>
        BY <1>1 DEF RunnerFit
    <2> QED BY <1>1, <1>2, <1>5, <1>6, <2>1, RestFits, RunnerMoves
<1>7. CASE ~Drop(t, "act")
    <2>1. th' = [th EXCEPT ![t].pc = "act", ![t].retried = TRUE]
        BY <1>7 DEF CallFails
    <2>2. /\ th'[t].pc = "act" /\ th'[t].todo = th[t].todo /\ th'[t].auto = th[t].auto
          /\ th'[t].want = th[t].want /\ DOMAIN th'[t] = DOMAIN th[t]
          /\ DOMAIN th' = Threads /\ \A o \in Threads \ {t} : th'[o] = th[o]
        BY <1>1, <2>1 DEF RunnerFit, Idle
    <2>3. RunnerFit(t)'
        BY <1>1, <2>2 DEF RunnerFit
    <2> QED BY <1>2, <1>5, <2>2, <2>3, RunnerMoves
<1> QED BY <1>6, <1>7

\* What is booked is due within MaxSeconds.
LEMMA Bookings ==
    ASSUME AllFit, NEW t \in Runners, th[t].pc = "note"
    PROVE  /\ IsList(Booking(t))
           /\ \A i \in DOMAIN Booking(t) : Dated(Booking(t)[i])
           /\ Head(th[t].todo).seconds # 0 =>
                 /\ DOMAIN Booking(t) = {1}
                 /\ Booking(t)[1].device = Head(th[t].todo).device /\ Booking(t)[1].state = ~th[t].want
<1> DEFINE a == Head(th[t].todo)
           b == [in |-> a.seconds, device |-> a.device, state |-> ~th[t].want]
<1>1. a.seconds \in 0 .. MaxSeconds
    <2>1. RunnerFit(t) /\ th[t].todo # <<>> /\ a.kind = "device"
        BY DEF AllFit, ThreadsFit, RunnerFit
    <2>2. Fit(a, th[t].auto)
        BY <2>1, ListTail DEF RunnerFit
    <2> QED BY <2>1, <2>2 DEF Fit
<1>2. CASE a.seconds = 0
    BY <1>2, NothingListed DEF Booking
<1>3. CASE a.seconds # 0
    <2>1. Booking(t) = <<b>>
        BY <1>3 DEF Booking
    <2>2. Dated(b) /\ b.device = a.device /\ b.state = ~th[t].want
        BY <1>1 DEF Dated
    <2> HIDE DEF a, b
    <2>3. <<b>> \in Seq({b}) /\ DOMAIN <<b>> = {1} /\ <<b>>[1] = b
        OBVIOUS
    <2>4. IsList(<<b>>)
        BY <2>3, ListOf
    <2> QED BY <1>1, <2>1, <2>2, <2>3, <2>4 DEF a
<1> QED BY <1>2, <1>3

LEMMA NoteFits == ASSUME AllFit, NEW t \in Runners, Note(t) PROVE AllFit'
<1> USE DEF AllFit
<1>1. t \in Threads /\ RunnerFit(t) /\ DOMAIN th = Threads /\ th[t].pc = "note" /\ th[t].todo # <<>>
    BY WhoIsWho DEF Note, ThreadsFit, RunnerFit
<1>2. MemoryFit'
    <2>1. /\ reverts' = reverts \o Booking(t) /\ queue' = queue
          /\ rested' = rested /\ alerted' = alerted
        BY DEF Note
    <2>2. IsList(Booking(t)) /\ \A i \in DOMAIN Booking(t) : Dated(Booking(t)[i])
        BY <1>1, Bookings
    <2>3. IsList(reverts) /\ \A i \in DOMAIN reverts : Dated(reverts[i])
        BY DEF MemoryFit
    <2> DEFINE b == Booking(t)
               c == Join(reverts, b)
    <2>4. IsList(b) /\ \A i \in DOMAIN b : Dated(b[i])
        BY <2>2
    <2>5. /\ IsList(c)
          /\ \A i \in DOMAIN c : (\E j \in DOMAIN reverts : c[i] = reverts[j])
                               \/ \E j \in DOMAIN b : c[i] = b[j]
        <3> HIDE DEF b
        <3> QED BY <2>3, <2>4, ListsJoin
    <2>6. reverts' = c
        BY <2>1 DEF Join
    <2> HIDE DEF b, c
    <2>7. IsList(reverts') /\ \A i \in DOMAIN reverts' : Dated(reverts'[i])
        BY <2>3, <2>4, <2>5, <2>6
    <2> QED BY <2>1, <2>7 DEF MemoryFit
<1>3. TablesFit'
    <2>1. devices' = [devices EXCEPT ![Head(th[t].todo).device].last_state = th[t].want]
        BY DEF Note
    <2>2. th[t].want \in BOOLEAN
        BY <1>1 DEF RunnerFit
    <2>3. devices' \in [Devices -> [here : BOOLEAN, enabled : BOOLEAN,
                                    last_state : BOOLEAN \cup {None}]]
        BY <2>1, <2>2 DEF TablesFit
    <2> QED BY <2>3 DEF Note, TablesFit
<1>4. Drop(t, "act")
    BY DEF Note
<1> QED BY <1>1, <1>2, <1>3, <1>4, RestFits, RunnerMoves

LEMMA MovesFit ==
    ASSUME AllFit, NEW t \in Runners, MoveCoverings(t) \/ CallWebhook(t)
    PROVE  AllFit'
<1> USE DEF AllFit
<1>1. t \in Threads /\ RunnerFit(t) /\ DOMAIN th = Threads /\ th[t].todo # <<>> /\ Drop(t, "act")
    BY WhoIsWho DEF MoveCoverings, CallWebhook, Acting, ThreadsFit
<1>2. TablesFit' /\ MemoryFit'
    BY TablesKept, MemoryKept DEF MoveCoverings, CallWebhook, tables
<1> QED BY <1>1, <1>2, RestFits, RunnerMoves

LEMMA FinishFits == ASSUME AllFit, NEW t \in Runners, Finish(t) PROVE AllFit'
<1> USE DEF AllFit
<1>1. t \in Threads /\ DOMAIN th = Threads
    BY WhoIsWho DEF ThreadsFit
<1>2. TablesFit' /\ MemoryFit'
    BY TablesKept, MemoryKept DEF Finish, tables
<1>3. DOMAIN th' = Threads /\ (\A o \in Threads \ {t} : th'[o] = th[o])
      /\ (th'[t] = Idle \/ th'[t] = [Idle EXCEPT !.pc = "revert"])
    BY <1>1 DEF Finish, AfterRun
<1> QED BY <1>2, <1>3, IdleFits, RunnerMoves

LEMMA TakesFit ==
    ASSUME AllFit,
           \/ Take
           \/ \E r \in Requests : \/ \E a \in Autos : RunRequest(r, a)
                                  \/ \E d \in Devices, state \in Asked : SwitchRequest(r, d, state)
    PROVE  AllFit'
<1> USE DEF AllFit
<1>1. TablesFit' /\ (~Take => MemoryFit')
    BY TablesKept, MemoryKept DEF Take, RunRequest, SwitchRequest, tables
<1>2. CASE Take
    <2>1. queue \in Seq(Autos) /\ queue # <<>> /\ queue' = Tail(queue) /\ Len(queue) <= QueueSize
        BY <1>2 DEF Take, MemoryFit
    <2>2. queue' \in Seq(Autos) /\ Head(queue) \in Autos /\ Len(queue') = Len(queue) - 1
          /\ Len(queue) \in Nat
        BY <2>1
    <2>3. Len(queue') <= QueueSize
        BY <2>1, <2>2, AutomationsAssumption
    <2>4. MemoryFit'
        BY <1>2, <2>2, <2>3 DEF Take, MemoryFit
    <2>5. Worker \in Threads /\ RunnerFit(Worker) /\ DOMAIN th = Threads
          /\ th' = [th EXCEPT ![Worker].pc = "row", ![Worker].auto = Head(queue)]
        BY <1>2, WhoIsWho DEF Take, ThreadsFit
    <2>6. /\ th'[Worker].pc = "row" /\ th'[Worker].auto = Head(queue)
          /\ th'[Worker].todo = th[Worker].todo /\ th'[Worker].want = th[Worker].want
          /\ DOMAIN th'[Worker] = DOMAIN th[Worker]
          /\ DOMAIN th' = Threads /\ \A o \in Threads \ {Worker} : th'[o] = th[o]
        BY <2>5 DEF RunnerFit, Idle
    <2>7. \A x : x # None \/ Head(queue) # x
        BY <2>2, AutomationsAssumption
    <2>8. RunnerFit(Worker)'
        BY <2>2, <2>5, <2>6, <2>7 DEF RunnerFit, Fit
    <2> QED BY <1>1, <2>4, <2>6, <2>8, RunnerMoves, WhoIsWho
<1>3. ASSUME NEW r \in Requests, NEW a \in Autos, RunRequest(r, a) PROVE AllFit'
    <2>1. r \in Runners /\ r \in Threads /\ RunnerFit(r) /\ DOMAIN th = Threads /\ th[r] = Idle
          /\ th' = [th EXCEPT ![r].pc = "row", ![r].auto = a]
        BY <1>3, WhoIsWho DEF RunRequest, ThreadsFit
    <2>2. /\ th'[r].pc = "row" /\ th'[r].auto = a /\ th'[r].todo = th[r].todo
          /\ th'[r].want = th[r].want /\ DOMAIN th'[r] = DOMAIN th[r]
          /\ DOMAIN th' = Threads /\ \A o \in Threads \ {r} : th'[o] = th[o]
        BY <2>1 DEF Idle
    <2>3. a # None
        BY AutomationsAssumption
    <2>4. RunnerFit(r)'
        BY <2>1, <2>2, <2>3 DEF RunnerFit, Fit
    <2>5. MemoryFit'
        BY <1>3, MemoryKept DEF RunRequest
    <2> QED BY <1>1, <2>1, <2>2, <2>4, <2>5, RunnerMoves
<1>4. ASSUME NEW r \in Requests, NEW d \in Devices, NEW state \in Asked, SwitchRequest(r, d, state)
      PROVE  AllFit'
    <2> DEFINE a == [kind |-> "device", device |-> d, state |-> state, seconds |-> 0]
    <2>1. r \in Runners /\ r \in Threads /\ RunnerFit(r) /\ DOMAIN th = Threads /\ th[r] = Idle
          /\ th' = [th EXCEPT ![r].pc = "act", ![r].todo = <<a>>]
        BY <1>4, WhoIsWho DEF SwitchRequest, ThreadsFit
    <2>2. \A auto : Fit(a, auto)
        BY AutomationsAssumption DEF Fit
    <2> HIDE DEF a
    <2>3. /\ th'[r].pc = "act" /\ th'[r].auto = th[r].auto /\ th'[r].todo = <<a>>
          /\ th'[r].want = th[r].want /\ DOMAIN th'[r] = DOMAIN th[r]
          /\ DOMAIN th' = Threads /\ \A o \in Threads \ {r} : th'[o] = th[o]
        BY <2>1 DEF Idle
    <2>4. <<a>> \in Seq({a}) /\ \A i \in DOMAIN <<a>> : <<a>>[i] = a
        OBVIOUS
    <2>5. IsList(<<a>>)
        BY <2>4, ListOf
    <2>6. RunnerFit(r)'
        BY <2>1, <2>2, <2>3, <2>4, <2>5 DEF RunnerFit
    <2>7. MemoryFit'
        BY <1>4, MemoryKept DEF SwitchRequest
    <2> QED BY <1>1, <2>1, <2>3, <2>6, <2>7, RunnerMoves
<1> QED BY <1>2, <1>3, <1>4

Due == {i \in DOMAIN reverts : reverts[i].in = 0}
Later == {i \in DOMAIN reverts : reverts[i].in > 0}
TurnBack(b) == [kind |-> "device", device |-> b.device, seconds |-> 0,
                state |-> IF b.state THEN "on" ELSE "off"]

\* What the worker takes is what is due, and the rest stays.
LEMMA Taken ==
    ASSUME AllFit, TakeDue
    PROVE  /\ IsList(reverts')
           /\ \A k \in DOMAIN reverts' : \E i \in DOMAIN reverts : reverts'[k] = reverts[i]
           /\ \A i \in Later : \E k \in DOMAIN reverts' : reverts'[k] = reverts[i]
           /\ IsList(th'[Worker].todo)
           /\ \A k \in DOMAIN th'[Worker].todo : \E i \in DOMAIN reverts :
                 th'[Worker].todo[k] = TurnBack(reverts[i])
           /\ \A i \in Due : \E k \in DOMAIN th'[Worker].todo :
                 th'[Worker].todo[k] = TurnBack(reverts[i])
           /\ DOMAIN th'[Worker] = DOMAIN Idle /\ th'[Worker].pc = "act" /\ th'[Worker].auto = None
           /\ th'[Worker].want = FALSE
           /\ DOMAIN th' = Threads /\ \A o \in Threads \ {Worker} : th'[o] = th[o]
<1> DEFINE now == Keep(reverts, Due)
           todo == [i \in DOMAIN now |-> TurnBack(now[i])]
<1>1. IsList(reverts) /\ Due \in SUBSET DOMAIN reverts /\ Later \in SUBSET DOMAIN reverts
    BY DEF AllFit, MemoryFit, Due, Later
<1>2. reverts' = Keep(reverts, Later) /\ th' = [th EXCEPT ![Worker] =
            [Idle EXCEPT !.pc = "act", !.todo = todo]]
    BY DEF TakeDue, Due, Later, TurnBack
<1>3. /\ IsList(now)
      /\ \A k \in DOMAIN now : \E i \in Due : now[k] = reverts[i]
      /\ \A i \in Due : \E k \in DOMAIN now : now[k] = reverts[i]
    BY <1>1, KeepKeeps
<1>4. /\ IsList(reverts')
      /\ \A k \in DOMAIN reverts' : \E i \in Later : reverts'[k] = reverts[i]
      /\ \A i \in Later : \E k \in DOMAIN reverts' : reverts'[k] = reverts[i]
    BY <1>1, <1>2, KeepKeeps
<1> HIDE DEF now
<1>5. IsList(todo) /\ DOMAIN todo = DOMAIN now /\ \A i \in DOMAIN now : todo[i] = TurnBack(now[i])
    <2>1. Len(now) \in Nat /\ DOMAIN now = 1 .. Len(now)
        BY <1>3, ListOf DEF IsList
    <2>2. \A i \in DOMAIN now : TurnBack(now[i]) \in {TurnBack(now[j]) : j \in DOMAIN now}
        OBVIOUS
    <2>3. todo \in Seq({TurnBack(now[j]) : j \in DOMAIN now})
        BY <2>1, <2>2
    <2>4. IsList(todo)
        <3> DEFINE S == {TurnBack(now[j]) : j \in DOMAIN now}
        <3>1. todo \in Seq(S)
            BY <2>3
        <3> HIDE DEF S, todo
        <3> QED BY <3>1, ListOf
    <2> QED BY <2>4
<1> HIDE DEF todo
<1>6. /\ th'[Worker].todo = todo
      /\ DOMAIN th'[Worker] = DOMAIN Idle /\ th'[Worker].pc = "act" /\ th'[Worker].auto = None
      /\ th'[Worker].want = FALSE
      /\ DOMAIN th' = Threads /\ \A o \in Threads \ {Worker} : th'[o] = th[o]
    BY <1>2, WhoIsWho DEF AllFit, ThreadsFit, Idle
<1>7. \A k \in DOMAIN todo : \E i \in DOMAIN reverts : todo[k] = TurnBack(reverts[i])
    BY <1>1, <1>3, <1>5
<1>8. \A i \in Due : \E k \in DOMAIN todo : todo[k] = TurnBack(reverts[i])
    BY <1>3, <1>5
<1> QED BY <1>1, <1>4, <1>5, <1>6, <1>7, <1>8

LEMMA TakeDueFits == ASSUME AllFit, TakeDue PROVE AllFit'
<1> USE DEF AllFit
<1>1. TablesFit'
    BY TablesKept DEF TakeDue, tables
<1>2. MemoryFit'
    <2>1. IsList(reverts') /\ \A i \in DOMAIN reverts' : Dated(reverts'[i])
        BY Taken DEF MemoryFit
    <2> QED BY <2>1 DEF TakeDue, MemoryFit
<1>3. RunnerFit(Worker)'
    <2>1. \A b, auto : Fit(TurnBack(b), auto)
        BY AutomationsAssumption DEF Fit, TurnBack
    <2>2. IsList(th'[Worker].todo) /\ \A k \in DOMAIN th'[Worker].todo : \E b :
              th'[Worker].todo[k] = TurnBack(b)
        BY Taken
    <2>3. DOMAIN th'[Worker] = DOMAIN Idle /\ th'[Worker].pc = "act" /\ th'[Worker].auto = None
          /\ th'[Worker].want = FALSE
        BY Taken
    <2> QED BY <2>1, <2>2, <2>3 DEF RunnerFit
<1> QED BY <1>1, <1>2, <1>3, Taken, RunnerMoves, WhoIsWho

LEMMA EmitFits == ASSUME AllFit, NEW d \in Detectors, Emit(d) PROVE AllFit'
<1> USE DEF AllFit
<1> DEFINE I == {i \in DOMAIN AutoOrder : rows[AutoOrder[i]] # None /\ rows[AutoOrder[i]].enabled}
           ids == Keep(AutoOrder, I)
           todo == [i \in DOMAIN ids |-> [id |-> ids[i], row |-> rows[ids[i]]]]
<1>1. TablesFit' /\ MemoryFit'
    BY TablesKept, MemoryKept DEF Emit, tables
<1>2. PICK e \in Events : th' = [th EXCEPT ![d] = [Idle EXCEPT
          !.pc = "match", !.event = e, !.todo = todo]]
    BY DEF Emit
<1>3. IsList(AutoOrder) /\ I \in SUBSET DOMAIN AutoOrder
    BY AutomationsAssumption
<1> HIDE DEF I
<1>4. IsList(ids) /\ \A k \in DOMAIN ids : \E i \in I : ids[k] = AutoOrder[i]
    BY <1>3, KeepKeeps
<1> HIDE DEF ids
<1>5. \A k \in DOMAIN ids : ids[k] \in Autos
    BY <1>3, <1>4 DEF Autos, Elements
<1>6. DOMAIN todo = DOMAIN ids /\ \A k \in DOMAIN todo : todo[k].id = ids[k]
    OBVIOUS
<1>7. IsList(todo)
    <2> DEFINE S == {[id |-> ids[j], row |-> rows[ids[j]]] : j \in DOMAIN ids}
    <2>1. Len(ids) \in Nat /\ DOMAIN ids = 1 .. Len(ids)
        BY <1>4, ListOf DEF IsList
    <2>2. \A i \in DOMAIN ids : [id |-> ids[i], row |-> rows[ids[i]]] \in S
        OBVIOUS
    <2>3. todo \in Seq(S)
        BY <2>1, <2>2
    <2> HIDE DEF S, todo
    <2> QED BY <2>3, ListOf
<1> HIDE DEF todo
<1>8. 0 \in 0 .. MaxAge
    BY AutomationsAssumption
<1>9. /\ th'[d].pc = "match" /\ th'[d].age = 0 /\ th'[d].todo = todo /\ DOMAIN th'[d] = DOMAIN Idle
      /\ DOMAIN th' = Threads /\ \A o \in Threads \ {d} : th'[o] = th[o]
    BY <1>2, WhoIsWho DEF ThreadsFit, Idle
<1>10. DetectorFit(d)'
    BY <1>5, <1>6, <1>7, <1>8, <1>9 DEF DetectorFit, Waiting
<1> QED BY <1>1, <1>9, <1>10, DetectorMoves

LEMMA DetectorStepFits == ASSUME AllFit, NEW d \in Detectors, DetectorStep(d) PROVE AllFit'
<1> USE DEF AllFit
<1>1. d \in Threads /\ DetectorFit(d) /\ DOMAIN th = Threads
    BY WhoIsWho DEF ThreadsFit
<1>2. TablesFit'
    BY TablesKept DEF DetectorStep, TestRow, Grant, ReadClock, Notify, Post, tables
<1>3. ASSUME th[d].todo # <<>>, Drop(d, "match")
      PROVE  ThreadsFit'
    <2>1. /\ th'[d].pc = "match" /\ th'[d].todo = Tail(th[d].todo)
          /\ DOMAIN th'[d] = DOMAIN th[d]
          /\ DOMAIN th' = Threads /\ \A o \in Threads \ {d} : th'[o] = th[o]
        BY <1>1, <1>3 DEF Drop, DetectorFit, Idle
    <2>2. IsList(Tail(th[d].todo))
          /\ \A i \in DOMAIN Tail(th[d].todo) : Tail(th[d].todo)[i].id \in Autos
        BY <1>1, <1>3, ListTail DEF DetectorFit
    <2>3. DetectorFit(d)'
        BY <1>1, <2>1, <2>2 DEF DetectorFit, Waiting
    <2> QED BY <2>1, <2>3, DetectorMoves
<1>4. CASE TestRow(d)
    <2>1. MemoryFit'
        BY <1>4, MemoryKept DEF TestRow
    <2>2. CASE Drop(d, "match")
        BY <1>2, <1>3, <1>4, <2>1, <2>2 DEF TestRow
    <2>3. CASE ~Drop(d, "match")
        <3>1. th' = [th EXCEPT ![d].pc = "grant", ![d].age = 0] /\ th[d].todo # <<>>
            BY <1>4, <2>3 DEF TestRow
        <3>2. /\ th'[d].pc = "grant" /\ th'[d].age = 0 /\ th'[d].todo = th[d].todo
              /\ DOMAIN th'[d] = DOMAIN th[d]
              /\ DOMAIN th' = Threads /\ \A o \in Threads \ {d} : th'[o] = th[o]
            BY <1>1, <3>1 DEF DetectorFit, Idle
        <3>3. 0 \in 0 .. MaxAge
            BY AutomationsAssumption
        <3>4. DetectorFit(d)'
            BY <1>1, <3>1, <3>2, <3>3 DEF DetectorFit, Waiting
        <3> QED BY <1>2, <2>1, <3>2, <3>4, DetectorMoves
    <2> QED BY <2>2, <2>3
<1>5. CASE Grant(d)
    <2> DEFINE a == Head(th[d].todo)
    <2>1. th[d].pc = "grant" /\ th[d].todo # <<>> /\ Drop(d, "match")
        BY <1>1, <1>5 DEF Grant, DetectorFit
    <2>2. a.id \in Autos
        BY <1>1, <2>1, ListTail DEF DetectorFit
    <2>3. rested' \in [Autos -> 0 .. MaxAge]
        <3>1. rested' = [rested EXCEPT ![a.id] = IF a.row.cooldown > 0 THEN th[d].age ELSE @]
            BY <1>5 DEF Grant
        <3>2. th[d].age \in 0 .. MaxAge /\ rested \in [Autos -> 0 .. MaxAge]
            BY <1>1, <2>1 DEF DetectorFit, MemoryFit
        <3> HIDE DEF a
        <3>3. CASE a.row.cooldown > 0
            BY <3>1, <3>2, <3>3
        <3>4. CASE ~(a.row.cooldown > 0)
            BY <3>1, <3>2, <3>4
        <3> QED BY <3>3, <3>4
    <2>4. queue' \in Seq(Autos) /\ Len(queue') <= QueueSize
        <3>1. queue' = IF Len(queue) >= QueueSize THEN queue ELSE Append(queue, a.id)
            BY <1>5 DEF Grant
        <3>2. queue \in Seq(Autos) /\ Len(queue) <= QueueSize /\ QueueSize \in Nat
            BY AutomationsAssumption DEF MemoryFit
        <3> HIDE DEF a
        <3>3. CASE Len(queue) >= QueueSize
            BY <3>1, <3>2, <3>3
        <3>4. CASE ~(Len(queue) >= QueueSize)
            BY <2>2, <3>1, <3>2, <3>4
        <3> QED BY <3>3, <3>4
    <2>5. MemoryFit'
        BY <1>5, <2>3, <2>4 DEF Grant, MemoryFit
    <2> QED BY <1>2, <1>3, <2>1, <2>5
<1>6. CASE Notify(d)
    <2>1. MemoryFit'
        <3>1. th[d].age \in 0 .. LongAgo
            <4>1. th[d].age \in 0 .. MaxHeld
                BY <1>1, <1>6 DEF Notify, DetectorFit, Waiting
            <4> QED BY <4>1, AutomationsAssumption DEF LongAgo
        <3>2. alerted' = alerted \/ alerted' = [alerted EXCEPT ![Key(d)] = th[d].age]
            BY <1>6 DEF Notify
        <3>3. alerted' \in [Keys -> 0 .. LongAgo]
            BY <3>1, <3>2 DEF MemoryFit
        <3> QED BY <1>6, <3>3 DEF Notify, MemoryFit
    <2>2. CASE Rest(d)
        <3>1. th'[d] = Idle /\ DOMAIN th' = Threads /\ \A o \in Threads \ {d} : th'[o] = th[o]
            BY <1>1, <2>2 DEF Rest
        <3> QED BY <1>2, <2>1, <3>1, IdleFits, DetectorMoves
    <2>3. CASE ~Rest(d)
        <3>1. th' = [th EXCEPT ![d].pc = "post", ![d].age = 0]
            BY <1>6, <2>3 DEF Notify
        <3>2. /\ th'[d].pc = "post" /\ th'[d].todo = th[d].todo
              /\ DOMAIN th'[d] = DOMAIN th[d]
              /\ DOMAIN th' = Threads /\ \A o \in Threads \ {d} : th'[o] = th[o]
            BY <1>1, <3>1 DEF DetectorFit, Idle
        <3>3. DetectorFit(d)'
            BY <1>1, <3>2 DEF DetectorFit, Waiting
        <3> QED BY <1>2, <2>1, <3>2, <3>3, DetectorMoves
    <2> QED BY <2>2, <2>3
<1>7. CASE Post(d)
    <2>1. th'[d] = Idle /\ DOMAIN th' = Threads /\ \A o \in Threads \ {d} : th'[o] = th[o]
        BY <1>1, <1>7 DEF Post, Rest
    <2>2. MemoryFit'
        BY <1>7, MemoryKept DEF Post
    <2> QED BY <1>2, <2>1, <2>2, IdleFits, DetectorMoves
<1>8. CASE ReadClock(d)
    <2>1. /\ th' = [th EXCEPT ![d].pc = "lock", ![d].age = 0]
          /\ 0 \in 0 .. MaxHeld
        BY <1>8, AutomationsAssumption DEF ReadClock
    <2>2. /\ th'[d].pc = "lock" /\ th'[d].age = 0 /\ th'[d].todo = th[d].todo
          /\ DOMAIN th'[d] = DOMAIN th[d]
          /\ DOMAIN th' = Threads /\ \A o \in Threads \ {d} : th'[o] = th[o]
        BY <1>1, <2>1 DEF DetectorFit, Idle
    <2>3. DetectorFit(d)'
        BY <1>1, <2>1, <2>2 DEF DetectorFit, Waiting
    <2>4. MemoryFit'
        BY <1>8, MemoryKept DEF ReadClock
    <2> QED BY <1>2, <2>2, <2>3, <2>4, DetectorMoves
<1> QED BY <1>4, <1>5, <1>6, <1>7, <1>8 DEF DetectorStep

LEMMA ThreadsKept == ThreadsFit /\ th' = th => ThreadsFit'
BY DEF ThreadsFit, DetectorFit, RunnerFit, Waiting

LEMMA PeopleFit ==
    ASSUME AllFit,
           \/ \E a \in Autos : EditAutomation(a)
           \/ \E d \in Devices : EditDevice(d) \/ PressButton(d)
           \/ UNCHANGED vars
    PROVE  AllFit'
<1> USE DEF AllFit
<1>1. ThreadsFit' /\ MemoryFit'
    BY ThreadsKept, MemoryKept DEF EditAutomation, EditDevice, PressButton, vars
<1>2. ASSUME NEW a \in Autos, EditAutomation(a) PROVE TablesFit'
    <2>1. \/ \E f \in Drafts : ValidDraft(f) /\ rows' = [rows EXCEPT ![a] = f]
          \/ rows' = [rows EXCEPT ![a] = None]
        BY <1>2 DEF EditAutomation
    <2>2. DOMAIN rows' = Autos /\ \A b \in Autos : rows'[b] = None \/ ValidDraft(rows'[b])
        BY <2>1 DEF TablesFit
    <2> QED BY <1>2, <2>2 DEF EditAutomation, TablesFit
<1>3. ASSUME NEW d \in Devices, EditDevice(d) PROVE TablesFit'
    <2>1. \/ devices' = [devices EXCEPT ![d].enabled = ~@]
          \/ devices' = [devices EXCEPT ![d].here = FALSE]
        BY <1>3 DEF EditDevice
    <2>2. devices' \in [Devices -> [here : BOOLEAN, enabled : BOOLEAN,
                                    last_state : BOOLEAN \cup {None}]]
        <3>1. PICK b \in BOOLEAN : \/ devices' = [devices EXCEPT ![d].enabled = b]
                                   \/ devices' = [devices EXCEPT ![d].here = b]
            <4>1. (~devices[d].enabled) \in BOOLEAN /\ FALSE \in BOOLEAN
                OBVIOUS
            <4> QED BY <2>1, <4>1
        <3> QED BY <3>1 DEF TablesFit
    <2> QED BY <1>3, <2>2 DEF EditDevice, TablesFit
<1>4. ASSUME NEW d \in Devices, PressButton(d) PROVE TablesFit'
    <2>1. PICK b \in BOOLEAN : relay' = [relay EXCEPT ![d] = b]
        <3>1. relay' = [relay EXCEPT ![d] = ~@] /\ (~relay[d]) \in BOOLEAN
            BY <1>4 DEF PressButton
        <3> QED BY <3>1
    <2> QED BY <1>4, <2>1 DEF PressButton, TablesFit
<1>5. CASE UNCHANGED vars
    <2>1. rows' = rows /\ devices' = devices /\ relay' = relay
        BY <1>5 DEF vars, tables
    <2> QED BY <1>1, <2>1, TablesKept
<1> QED BY <1>1, <1>2, <1>3, <1>4, <1>5

LEMMA TickFits == ASSUME AllFit, Tick PROVE AllFit'
<1> USE DEF AllFit
<1>1. TablesFit'
    BY TablesKept DEF Tick, tables
<1>2. \A x \in 0 .. MaxAge : Older(x) \in 0 .. MaxAge
    BY AutomationsAssumption DEF Older
<1>3. MemoryFit'
    <2>1. rested' \in [Autos -> 0 .. MaxAge]
        BY <1>2 DEF Tick, MemoryFit
    <2>2. alerted' \in [Keys -> 0 .. LongAgo]
        <3>1. alerted' = [k \in Keys |-> IF alerted[k] < LongAgo THEN alerted[k] + 1 ELSE LongAgo]
            BY DEF Tick
        <3> QED BY <3>1, AutomationsAssumption DEF MemoryFit, LongAgo
    <2>3. IsList(reverts') /\ \A i \in DOMAIN reverts' : Dated(reverts'[i])
        <3> DEFINE one(b) == [b EXCEPT !.in = IF @ = 0 THEN 0 ELSE @ - 1]
                   S == {one(reverts[j]) : j \in DOMAIN reverts}
        <3>1. reverts' = [i \in DOMAIN reverts |-> one(reverts[i])]
            BY DEF Tick
        <3>2. Len(reverts) \in Nat /\ DOMAIN reverts = 1 .. Len(reverts)
            BY ListOf DEF MemoryFit, IsList
        <3>3. reverts' \in Seq(S)
            <4>1. \A i \in DOMAIN reverts : one(reverts[i]) \in S
                OBVIOUS
            <4> HIDE DEF S, one
            <4> QED BY <3>1, <3>2, <4>1
        <3>4. IsList(reverts')
            <4> HIDE DEF S
            <4> QED BY <3>3, ListOf
        <3>5. \A i \in DOMAIN reverts' : Dated(reverts'[i])
            <4> SUFFICES ASSUME NEW i \in DOMAIN reverts PROVE Dated(one(reverts[i]))
                BY <3>1
            <4>1. Dated(reverts[i])
                BY DEF MemoryFit
            <4>2. /\ DOMAIN one(reverts[i]) = DOMAIN reverts[i]
                  /\ one(reverts[i]).in = IF reverts[i].in = 0 THEN 0 ELSE reverts[i].in - 1
                BY <4>1 DEF Dated
            <4> HIDE DEF one
            <4> QED BY <4>1, <4>2, AutomationsAssumption DEF Dated
        <3> QED BY <3>4, <3>5
    <2> QED BY <2>1, <2>2, <2>3 DEF Tick, MemoryFit
<1>4. ThreadsFit'
    <2>1. DOMAIN th' = Threads /\ \A t \in Threads : th'[t] =
              CASE th[t].pc = "grant" -> [th[t] EXCEPT !.age = Older(@)]
                [] Waiting(t) -> [th[t] EXCEPT !.age = @ + 1]
                [] OTHER -> th[t]
        BY DEF Tick
    <2>2. ASSUME NEW t \in Runners PROVE RunnerFit(t)'
        <3>1. RunnerFit(t) /\ t \in Threads
            BY WhoIsWho DEF ThreadsFit
        <3>2. th'[t] = th[t]
            BY <2>1, <3>1 DEF RunnerFit, Waiting
        <3> QED BY <3>1, <3>2 DEF RunnerFit
    <2>3. ASSUME NEW d \in Detectors PROVE DetectorFit(d)'
        <3>1. DetectorFit(d) /\ d \in Threads
            BY WhoIsWho DEF ThreadsFit
        <3>2. PICK n : th'[d] = th[d] \/ th'[d] = [th[d] EXCEPT !.age = n]
            BY <2>1, <3>1
        <3>3. /\ DOMAIN th'[d] = DOMAIN th[d] /\ th'[d].pc = th[d].pc /\ th'[d].todo = th[d].todo
            BY <3>1, <3>2 DEF DetectorFit, Idle
        <3>4. ASSUME th[d].pc = "grant" PROVE th'[d].age \in 0 .. MaxAge
            <4>1. th'[d] = [th[d] EXCEPT !.age = Older(@)]
                BY <2>1, <3>1, <3>4 DEF Waiting
            <4>2. th'[d].age = Older(th[d].age)
                BY <3>1, <4>1 DEF DetectorFit, Idle
            <4> QED BY <1>2, <3>1, <3>4, <4>2 DEF DetectorFit
        <3>5. ASSUME Waiting(d) PROVE th'[d].age \in 0 .. MaxHeld
            <4>1. th'[d] = [th[d] EXCEPT !.age = @ + 1]
                BY <2>1, <3>1, <3>5 DEF Waiting
            <4>2. th'[d].age = th[d].age + 1
                BY <3>1, <4>1 DEF DetectorFit, Idle
            <4>3. th[d].age \in 0 .. MaxHeld /\ th[d].age < MaxHeld
                BY <3>1, <3>5 DEF DetectorFit, Tick
            <4> QED BY <4>2, <4>3, AutomationsAssumption
        <3> QED BY <3>1, <3>3, <3>4, <3>5 DEF DetectorFit, Waiting
    <2> QED BY <2>1, <2>2, <2>3 DEF ThreadsFit
<1> QED BY <1>1, <1>3, <1>4

\* All idle and nothing remembered.
LEMMA FreshFits ==
    ASSUME queue = <<>>, reverts = <<>>, rested = [a \in Autos |-> MaxAge],
           alerted = [k \in Keys |-> LongAgo], th = [t \in Threads |-> Idle]
    PROVE  MemoryFit /\ ThreadsFit
<1>1. MemoryFit
    <2>1. MaxAge \in 0 .. MaxAge /\ LongAgo \in 0 .. LongAgo /\ QueueSize \in Nat
        BY AutomationsAssumption DEF LongAgo
    <2>2. queue \in Seq(Autos) /\ Len(queue) = 0
        OBVIOUS
    <2> QED BY <2>1, <2>2, NothingListed DEF MemoryFit
<1>2. 0 \in 0 .. MaxAge
    BY AutomationsAssumption
<1>3. \A t \in Threads : /\ DOMAIN th[t] = DOMAIN Idle /\ th[t].pc = "idle" /\ th[t].auto = None
                         /\ th[t].want = FALSE /\ th[t].todo = <<>> /\ th[t].age = 0
    BY DEF Idle
<1>4. ASSUME NEW t \in Runners PROVE RunnerFit(t)
    BY <1>3, WhoIsWho, NothingListed DEF RunnerFit
<1>5. ASSUME NEW d \in Detectors PROVE DetectorFit(d)
    BY <1>2, <1>3, WhoIsWho, NothingListed DEF DetectorFit, Waiting
<1> QED BY <1>1, <1>4, <1>5 DEF ThreadsFit

LEMMA RestartFits == ASSUME AllFit, Restart PROVE AllFit'
<1>1. TablesFit'
    BY TablesKept DEF AllFit, Restart, tables
<1>2. MemoryFit'
    <2>1. MaxAge \in 0 .. MaxAge /\ LongAgo \in 0 .. LongAgo /\ QueueSize \in Nat
        BY AutomationsAssumption DEF LongAgo
    <2>2. queue' \in Seq(Autos) /\ Len(queue') = 0
        BY DEF Restart
    <2> QED BY <2>1, <2>2, NothingListed DEF Restart, MemoryFit
<1>3. DOMAIN th' = Threads /\ \A t \in Threads : th'[t] = Idle
    BY DEF Restart
<1>4. ThreadsFit'
    BY <1>3, IdleFits, WhoIsWho DEF ThreadsFit
<1> QED BY <1>1, <1>2, <1>4 DEF AllFit

LEMMA AllFitInit == Init => AllFit
<1> SUFFICES ASSUME Init PROVE AllFit
    OBVIOUS
<1>1. TablesFit
    <2>1. DOMAIN rows = Autos /\ \A a \in Autos : rows[a] = None \/ ValidDraft(rows[a])
        BY AutomationsAssumption DEF Init
    <2>2. relay \in [Devices -> BOOLEAN]
        BY DEF Init
    <2>3. devices \in [Devices -> [here : BOOLEAN, enabled : BOOLEAN,
                                   last_state : BOOLEAN \cup {None}]]
        BY DEF Init
    <2> QED BY <2>1, <2>2, <2>3 DEF TablesFit
<1> QED BY <1>1, FreshFits DEF Init, AllFit

LEMMA AllFitStep == AllFit /\ [Next]_vars => AllFit'
<1> SUFFICES ASSUME AllFit, [Next]_vars PROVE AllFit'
    OBVIOUS
<1>1. ASSUME NEW t \in Runners, RunnerStep(t) PROVE AllFit'
    BY <1>1, ReadRowFits, AimFits, CallFits, CallFailsFits, NoteFits, MovesFit, FinishFits
       DEF RunnerStep
<1>2. ASSUME NEW d \in Detectors, DetectorStep(d) \/ Emit(d) PROVE AllFit'
    BY <1>2, DetectorStepFits, EmitFits
<1> QED BY <1>1, <1>2, TakesFit, TakeDueFits, PeopleFit, TickFits, RestartFits DEF Next, Running

\* The tables hold what requests may store, the queue never exceeds its size, and
\* no thread is where the code has no place (Queue(maxsize), _automation_fields).
THEOREM TypeCorrect == Spec => []TypeOK
<1>1. AllFit => TypeOK
    <2> SUFFICES ASSUME AllFit PROVE TypeOK
        OBVIOUS
    <2>2. \A i \in DOMAIN reverts : reverts[i].in \in 0 .. MaxSeconds
        BY DEF AllFit, MemoryFit, Dated
    <2>1. ASSUME NEW t \in Threads
          PROVE  th[t].pc \in {"idle", "match", "grant", "lock", "post", "row", "act",
                             "call", "note", "revert"}
        BY DEF AllFit, ThreadsFit, DetectorFit, RunnerFit, Threads, Runners
    <2> QED BY <2>1, <2>2 DEF AllFit, TablesFit, MemoryFit, TypeOK
<1> QED BY <1>1, AllFitInit, AllFitStep, PTL DEF Spec

-----------------------------------------------------------------------------
(* What is owed is pending: from the relay's answer to the booking, from the *)
(* booking until it is due, and from then until the worker has switched.     *)

Pending(d) == Booked(d) \/ Booker(d) \/ Undoing(d)
Promised == DOMAIN owed = Devices /\ RevertPending

\* A thread between two calls, with nothing of a revert in its hands.
LEMMA PendingElsewhere ==
    ASSUME AllFit, NEW t \in Runners, NEW d,
           reverts' = reverts, \A o \in Runners \ {t} : th'[o] = th[o], th[t].pc # "note",
           t = Worker => th[t].auto # None \/ th[t].pc \notin {"act", "call"} \/ th[t].todo = <<>>,
           Pending(d)
    PROVE  Pending(d)'
<1>1. CASE Booked(d)
    BY <1>1 DEF Booked, Pending
<1>2. CASE Booker(d)
    <2>1. PICK o \in Runners : /\ th[o].pc = "note" /\ th[o].want
                               /\ Head(th[o].todo).device = d /\ Head(th[o].todo).seconds > 0
        BY <1>2 DEF Booker
    <2>2. th'[o] = th[o]
        BY <2>1
    <2> QED BY <2>1, <2>2 DEF Booker, Pending
<1>3. CASE Undoing(d)
    <2>1. th'[Worker] = th[Worker]
        <3>1. t # Worker
            BY <1>3, NothingListed DEF Undoing
        <3> QED BY <3>1, WhoIsWho
    <2> QED BY <1>3, <2>1 DEF Undoing, Pending
<1> QED BY <1>1, <1>2, <1>3 DEF Pending

LEMMA PromisesKept ==
    ASSUME Promised, owed' = owed, \A d \in Devices : Pending(d) => Pending(d)'
    PROVE  Promised'
BY DEF Promised, RevertPending, Pending

\* The first action of a list is done with: what else was pending still is.
LEMMA PendingBehind ==
    ASSUME AllFit, NEW t \in Runners, NEW d, reverts' = reverts, Drop(t, "act"),
           th[t].pc \in {"act", "call"}, th[t].todo # <<>>,
           Pending(d), ~TurnOff(Head(th[t].todo), d)
    PROVE  Pending(d)'
<1>1. /\ th'[t].pc = "act" /\ th'[t].todo = Tail(th[t].todo) /\ th'[t].auto = th[t].auto
      /\ \A o \in Runners \ {t} : th'[o] = th[o]
    BY RestFits, WhoIsWho DEF AllFit, ThreadsFit
<1>2. CASE t = Worker /\ Undoing(d)
    <2>1. PICK i \in DOMAIN th[t].todo : TurnOff(th[t].todo[i], d)
        BY <1>2 DEF Undoing
    <2>2. IsList(th[t].todo)
        BY DEF AllFit, ThreadsFit, RunnerFit
    <2>3. i # 1
        BY <2>1, <2>2, ListTail
    <2>4. i - 1 \in DOMAIN th'[t].todo /\ th'[t].todo[i - 1] = th[t].todo[i]
        BY <1>1, <2>2, <2>3, ListTail
    <2> QED BY <1>1, <1>2, <2>1, <2>4 DEF Undoing, Pending
<1>3. CASE ~(t = Worker /\ Undoing(d))
    <2>1. CASE Booked(d)
        BY <2>1 DEF Booked, Pending
    <2>2. CASE Booker(d)
        <3>1. PICK o \in Runners : /\ th[o].pc = "note" /\ th[o].want
                                   /\ Head(th[o].todo).device = d /\ Head(th[o].todo).seconds > 0
            BY <2>2 DEF Booker
        <3>2. th'[o] = th[o]
            BY <1>1, <3>1
        <3> QED BY <3>1, <3>2 DEF Booker, Pending
    <2>3. CASE Undoing(d)
        <3>1. th'[Worker] = th[Worker]
            BY <1>1, <1>3, <2>3, WhoIsWho
        <3> QED BY <2>3, <3>1 DEF Undoing, Pending
    <2> QED BY <2>1, <2>2, <2>3 DEF Pending
<1> QED BY <1>2, <1>3

LEMMA AimPromises == ASSUME AllFit, Promised, NEW t \in Runners, Aim(t) PROVE Promised'
<1> DEFINE x == Head(th[t].todo).device
<1>1. /\ th[t].pc = "act" /\ th[t].todo # <<>> /\ reverts' = reverts
      /\ t \in Threads /\ DOMAIN th = Threads /\ RunnerFit(t)
    BY WhoIsWho DEF Aim, Acting, memory, AllFit, ThreadsFit
<1>2. CASE owed' = [owed EXCEPT ![x] = FALSE] /\ Drop(t, "act")
    <2>1. ASSUME NEW d \in Devices, owed'[d] PROVE Pending(d)'
        <3>1. d # x /\ owed[d]
            BY <1>2, <2>1 DEF Promised
        <3>2. Pending(d) /\ ~TurnOff(Head(th[t].todo), d)
            BY <3>1 DEF Promised, RevertPending, Pending, TurnOff
        <3> QED BY <1>1, <1>2, <3>2, PendingBehind
    <2> QED BY <1>2, <2>1 DEF Promised, RevertPending, Pending
<1>3. CASE ~(owed' = [owed EXCEPT ![x] = FALSE] /\ Drop(t, "act"))
    <2>1. owed' = owed /\ \E w : th' = [th EXCEPT ![t].pc = "call", ![t].want = w]
        BY <1>3 DEF Aim
    <2>2. /\ th'[t].pc = "call" /\ th'[t].todo = th[t].todo /\ th'[t].auto = th[t].auto
          /\ \A o \in Runners \ {t} : th'[o] = th[o]
        BY <1>1, <2>1, WhoIsWho DEF RunnerFit, Idle
    <2>3. ASSUME NEW d \in Devices, Pending(d) PROVE Pending(d)'
        <3>1. CASE Booked(d)
            BY <1>1, <3>1 DEF Booked, Pending
        <3>2. CASE Booker(d)
            <4>1. PICK o \in Runners : /\ th[o].pc = "note" /\ th[o].want
                                       /\ Head(th[o].todo).device = d /\ Head(th[o].todo).seconds > 0
                BY <3>2 DEF Booker
            <4>2. th'[o] = th[o]
                BY <1>1, <2>2, <4>1
            <4> QED BY <4>1, <4>2 DEF Booker, Pending
        <3>3. CASE Undoing(d)
            <4>1. CASE t = Worker
                BY <1>1, <2>2, <3>3, <4>1 DEF Undoing, Pending
            <4>2. CASE t # Worker
                BY <2>2, <3>3, <4>2, WhoIsWho DEF Undoing, Pending
            <4> QED BY <4>1, <4>2
        <3> QED BY <2>3, <3>1, <3>2, <3>3 DEF Pending
    <2> QED BY <2>1, <2>3, PromisesKept
<1> QED BY <1>2, <1>3

LEMMA CallPromises == ASSUME AllFit, Promised, NEW t \in Runners, Call(t) PROVE Promised'
<1> DEFINE a == Head(th[t].todo)
<1>1. /\ th[t].pc = "call" /\ th[t].todo # <<>> /\ a.kind = "device" /\ reverts' = reverts
      /\ t \in Threads /\ DOMAIN th = Threads /\ RunnerFit(t)
      /\ owed' = [owed EXCEPT ![a.device] = th[t].want /\ a.seconds > 0]
    BY WhoIsWho DEF Call, memory, AllFit, ThreadsFit, RunnerFit
<1>2. /\ th'[t].pc = "note" /\ th'[t].todo = th[t].todo /\ th'[t].auto = th[t].auto
      /\ th'[t].want = th[t].want /\ \A o \in Runners \ {t} : th'[o] = th[o]
    BY <1>1, WhoIsWho DEF Call, Go, RunnerFit, Idle
<1>3. ASSUME NEW d \in Devices, owed'[d] PROVE Pending(d)'
    <2>1. CASE d = a.device
        <3>1. th[t].want /\ a.seconds > 0
            BY <1>1, <1>3, <2>1 DEF Promised
        <3> QED BY <1>2, <2>1, <3>1 DEF Booker, Pending
    <2>2. CASE d # a.device
        <3>1. Pending(d)
            BY <1>1, <1>3, <2>2 DEF Promised, RevertPending, Pending
        <3>2. CASE Booked(d)
            BY <1>1, <3>2 DEF Booked, Pending
        <3>3. CASE Booker(d)
            <4>1. PICK o \in Runners : /\ th[o].pc = "note" /\ th[o].want
                                       /\ Head(th[o].todo).device = d /\ Head(th[o].todo).seconds > 0
                BY <3>3 DEF Booker
            <4>2. th'[o] = th[o]
                BY <1>1, <1>2, <4>1
            <4> QED BY <4>1, <4>2 DEF Booker, Pending
        <3>4. CASE Undoing(d)
            <4>1. CASE t = Worker
                <5>1. PICK i \in DOMAIN th[t].todo : TurnOff(th[t].todo[i], d)
                    BY <3>4, <4>1 DEF Undoing
                <5>2. IsList(th[t].todo)
                    BY <1>1 DEF RunnerFit
                <5>3. i # 1 /\ i \in Nat \ {0}
                    <6>1. a = th[t].todo[1]
                        BY <1>1, <5>2, ListTail
                    <6>2. i \in Nat \ {0}
                        <7>1. Len(th[t].todo) \in Nat /\ DOMAIN th[t].todo = 1 .. Len(th[t].todo)
                            BY <5>2, ListOf DEF IsList
                        <7> QED BY <7>1
                    <6> HIDE DEF a
                    <6> QED BY <2>2, <5>1, <6>1, <6>2 DEF TurnOff
                <5>4. i > 1
                    BY <5>3
                <5> QED BY <1>2, <3>4, <4>1, <5>1, <5>4 DEF Undoing, Pending
            <4>2. CASE t # Worker
                BY <1>2, <3>4, <4>2, WhoIsWho DEF Undoing, Pending
            <4> QED BY <4>1, <4>2
        <3> QED BY <3>1, <3>2, <3>3, <3>4 DEF Pending
    <2> QED BY <2>1, <2>2
<1> QED BY <1>1, <1>3 DEF Promised, RevertPending, Pending

LEMMA CallFailsPromises == ASSUME AllFit, Promised, NEW t \in Runners, CallFails(t) PROVE Promised'
<1> DEFINE x == Head(th[t].todo).device
<1>1. /\ th[t].pc = "call" /\ th[t].todo # <<>> /\ reverts' = reverts
      /\ t \in Threads /\ DOMAIN th = Threads /\ RunnerFit(t)
      /\ owed' = [owed EXCEPT ![x] = FALSE]
    BY WhoIsWho DEF CallFails, memory, AllFit, ThreadsFit, RunnerFit
<1>2. ASSUME NEW d \in Devices, owed'[d] PROVE Pending(d)'
    <2>1. d # x /\ owed[d]
        BY <1>1, <1>2 DEF Promised
    <2>2. Pending(d) /\ ~TurnOff(Head(th[t].todo), d)
        BY <2>1 DEF Promised, RevertPending, Pending, TurnOff
    <2>3. CASE Drop(t, "act")
        BY <1>1, <2>2, <2>3, PendingBehind
    <2>4. CASE ~Drop(t, "act")
        <3>1. th' = [th EXCEPT ![t].pc = "act", ![t].retried = TRUE] /\ t # Worker
            BY <2>4 DEF CallFails
        <3>2. \A o \in Runners \ {t} : th'[o] = th[o]
            BY <1>1, <3>1, WhoIsWho
        <3> QED BY <1>1, <2>2, <3>1, <3>2, PendingElsewhere
    <2> QED BY <2>3, <2>4
<1> QED BY <1>1, <1>2 DEF Promised, RevertPending, Pending

\* The thread that was about to book the revert books it.
LEMMA NotePromises == ASSUME AllFit, Promised, NEW t \in Runners, Note(t) PROVE Promised'
<1> DEFINE a == Head(th[t].todo)
           b == Booking(t)
<1>1. /\ th[t].pc = "note" /\ th[t].todo # <<>> /\ RunnerFit(t) /\ t \in Threads
      /\ DOMAIN th = Threads /\ Drop(t, "act") /\ owed' = owed /\ reverts' = Join(reverts, b)
    BY WhoIsWho DEF Note, AllFit, ThreadsFit, RunnerFit, history, Join
<1>2. IsList(b) /\ (a.seconds # 0 => DOMAIN b = {1} /\ b[1].device = a.device /\ b[1].state = ~th[t].want)
    BY <1>1, Bookings
<1>3. IsList(reverts)
    BY DEF AllFit, MemoryFit
<1> HIDE DEF b
<1>4. /\ \A j \in DOMAIN reverts : \E i \in DOMAIN reverts' : reverts'[i] = reverts[j]
      /\ \A j \in DOMAIN b : \E i \in DOMAIN reverts' : reverts'[i] = b[j]
    BY <1>1, <1>2, <1>3, ListsJoin
<1>5. /\ th'[t].pc = "act" /\ th'[t].todo = Tail(th[t].todo) /\ th'[t].auto = th[t].auto
      /\ \A o \in Runners \ {t} : th'[o] = th[o]
    BY <1>1, RestFits, WhoIsWho
<1>6. ASSUME NEW d \in Devices, Pending(d) PROVE Pending(d)'
    <2>1. CASE Booked(d)
        BY <1>4, <2>1 DEF Booked, Pending
    <2>2. CASE Booker(d)
        <3>1. PICK o \in Runners : /\ th[o].pc = "note" /\ th[o].want
                                   /\ Head(th[o].todo).device = d /\ Head(th[o].todo).seconds > 0
            BY <2>2 DEF Booker
        <3>2. CASE o = t
            <4>1. a.seconds # 0
                BY <3>1, <3>2
            <4>2. 1 \in DOMAIN b /\ b[1].device = d /\ ~b[1].state
                BY <1>2, <3>1, <3>2, <4>1
            <4> QED BY <1>4, <4>2 DEF Booked, Pending
        <3>3. CASE o # t
            BY <1>5, <3>1, <3>3 DEF Booker, Pending
        <3> QED BY <3>2, <3>3
    <2>3. CASE Undoing(d)
        <3>1. CASE t = Worker
            <4>1. PICK i \in DOMAIN th[t].todo : TurnOff(th[t].todo[i], d) /\ i > 1
                BY <1>1, <2>3, <3>1 DEF Undoing
            <4>2. IsList(th[t].todo)
                BY <1>1 DEF RunnerFit
            <4>3. i # 1
                BY <4>1
            <4>4. i - 1 \in DOMAIN th'[t].todo /\ th'[t].todo[i - 1] = th[t].todo[i]
                BY <1>1, <1>5, <4>2, <4>3, ListTail
            <4> QED BY <1>5, <2>3, <3>1, <4>1, <4>4 DEF Undoing, Pending
        <3>2. CASE t # Worker
            BY <1>5, <2>3, <3>2, WhoIsWho DEF Undoing, Pending
        <3> QED BY <3>1, <3>2
    <2> QED BY <1>6, <2>1, <2>2, <2>3 DEF Pending
<1> QED BY <1>1, <1>6, PromisesKept

\* What the worker takes out of the list it still has to do.
LEMMA TakeDuePromises == ASSUME AllFit, Promised, TakeDue PROVE Promised'
<1>1. owed' = owed /\ th[Worker].pc \in {"idle", "revert"}
    BY DEF TakeDue, AtReverts, history
<1>2. ASSUME NEW d \in Devices, Pending(d) PROVE Pending(d)'
    <2>1. CASE Booked(d)
        <3>1. PICK i \in DOMAIN reverts : reverts[i].device = d /\ ~reverts[i].state
            BY <2>1 DEF Booked
        <3>2. i \in Due \/ i \in Later
            <4>1. reverts[i].in \in 0 .. MaxSeconds
                BY DEF AllFit, MemoryFit, Dated
            <4> QED BY <4>1, AutomationsAssumption DEF Due, Later
        <3>3. CASE i \in Later
            <4>1. \E k \in DOMAIN reverts' : reverts'[k] = reverts[i]
                BY <3>3, Taken
            <4> QED BY <3>1, <4>1 DEF Booked, Pending
        <3>4. CASE i \in Due
            <4>1. TurnOff(TurnBack(reverts[i]), d)
                BY <3>1 DEF TurnOff, TurnBack
            <4>2. PICK k \in DOMAIN th'[Worker].todo : th'[Worker].todo[k] = TurnBack(reverts[i])
                BY <3>4, Taken
            <4>3. th'[Worker].pc = "act" /\ th'[Worker].auto = None
                BY Taken
            <4> QED BY <4>1, <4>2, <4>3 DEF Undoing, Pending
        <3> QED BY <3>2, <3>3, <3>4
    <2>2. CASE Booker(d)
        <3>1. PICK o \in Runners : /\ th[o].pc = "note" /\ th[o].want
                                   /\ Head(th[o].todo).device = d /\ Head(th[o].todo).seconds > 0
            BY <2>2 DEF Booker
        <3>2. th'[o] = th[o]
            BY <1>1, <3>1, Taken, WhoIsWho
        <3> QED BY <3>1, <3>2 DEF Booker, Pending
    <2>3. CASE Undoing(d)
        BY <1>1, <2>3 DEF Undoing
    <2> QED BY <1>2, <2>1, <2>2, <2>3 DEF Pending
<1> QED BY <1>1, <1>2, PromisesKept

\* The steps that leave the lists of the threads to their end.
LEMMA OtherRunnersPromise ==
    ASSUME AllFit, Promised, NEW t \in Runners,
           \/ ReadRow(t) \/ MoveCoverings(t) \/ CallWebhook(t) \/ Finish(t)
           \/ t = Worker /\ Take
           \/ \E a \in Autos : RunRequest(t, a)
           \/ \E d \in Devices, state \in Asked : SwitchRequest(t, d, state)
    PROVE  Promised'
<1>1. t \in Threads /\ DOMAIN th = Threads /\ RunnerFit(t)
    BY WhoIsWho DEF AllFit, ThreadsFit
<1>2. owed' = owed /\ reverts' = reverts
    <2> USE DEF memory, history
    <2>1. CASE ReadRow(t) \/ CallWebhook(t) \/ Finish(t)
        BY <2>1 DEF ReadRow, CallWebhook, Finish
    <2>2. CASE MoveCoverings(t)
        BY <2>2 DEF MoveCoverings
    <2>3. CASE Take
        BY <2>3 DEF Take
    <2>4. ASSUME NEW a \in Autos, RunRequest(t, a) PROVE owed' = owed /\ reverts' = reverts
        BY <2>4 DEF RunRequest
    <2>5. ASSUME NEW d \in Devices, NEW state \in Asked, SwitchRequest(t, d, state)
          PROVE  owed' = owed /\ reverts' = reverts
        BY <2>5 DEF SwitchRequest
    <2> QED BY <2>1, <2>2, <2>3, <2>4, <2>5
<1>3. CASE MoveCoverings(t) \/ CallWebhook(t)
    <2>1. /\ th[t].pc = "act" /\ th[t].todo # <<>> /\ Drop(t, "act")
          /\ Head(th[t].todo).kind \in {"covering", "webhook"}
        BY <1>3 DEF MoveCoverings, CallWebhook, Acting
    <2>2. \A d \in Devices : Pending(d) => Pending(d)'
        BY <1>2, <2>1, PendingBehind DEF TurnOff
    <2> QED BY <1>2, <2>2, PromisesKept
<1>4. CASE ~(MoveCoverings(t) \/ CallWebhook(t))
    <2>1. /\ th[t].pc \in {"row", "idle"} \/ (th[t].pc = "act" /\ th[t].todo = <<>>)
          /\ \A o \in Runners \ {t} : th'[o] = th[o]
        <3>1. CASE ReadRow(t)
            BY <1>1, <3>1, WhoIsWho DEF ReadRow
        <3>2. CASE Finish(t)
            BY <1>1, <3>2, WhoIsWho DEF Finish
        <3>3. CASE t = Worker /\ Take
            BY <1>1, <3>3, WhoIsWho DEF Take
        <3>4. ASSUME NEW a \in Autos, RunRequest(t, a)
              PROVE  th[t].pc = "idle" /\ \A o \in Runners \ {t} : th'[o] = th[o]
            <4>1. th[t] = Idle /\ th' = [th EXCEPT ![t].pc = "row", ![t].auto = a]
                BY <3>4 DEF RunRequest
            <4> QED BY <1>1, <4>1, WhoIsWho DEF Idle
        <3>5. ASSUME NEW d \in Devices, NEW state \in Asked, SwitchRequest(t, d, state)
              PROVE  th[t].pc = "idle" /\ \A o \in Runners \ {t} : th'[o] = th[o]
            <4>1. th[t] = Idle /\ \E todo : th' = [th EXCEPT ![t].pc = "act", ![t].todo = todo]
                BY <3>5 DEF SwitchRequest
            <4> QED BY <1>1, <4>1, WhoIsWho DEF Idle
        <3> QED BY <1>4, <3>1, <3>2, <3>3, <3>4, <3>5
    <2>2. \A d \in Devices : Pending(d) => Pending(d)'
        BY <1>2, <2>1, PendingElsewhere
    <2> QED BY <1>2, <2>2, PromisesKept
<1> QED BY <1>3, <1>4

\* Steps that leave the runners alone.
LEMMA RunnersStill ==
    ASSUME AllFit, NEW d, reverts' = reverts, \A t \in Runners : th'[t] = th[t], Pending(d)
    PROVE  Pending(d)'
<1>1. Booked(d) => Booked(d)'
    BY DEF Booked
<1>2. Booker(d) => Booker(d)'
    BY DEF Booker
<1>3. Undoing(d) => Undoing(d)'
    BY WhoIsWho DEF Undoing
<1> QED BY <1>1, <1>2, <1>3 DEF Pending

LEMMA DetectorsPromise ==
    ASSUME AllFit, Promised, NEW d \in Detectors, DetectorStep(d) \/ Emit(d)
    PROVE  Promised'
<1>1. d \in Threads /\ DOMAIN th = Threads /\ \A t \in Runners : t \in Threads /\ t # d
    BY WhoIsWho DEF AllFit, ThreadsFit
<1> USE DEF memory, history
<1>2. /\ owed' = owed /\ reverts' = reverts
      /\ \A t \in Runners : th'[t] = th[t]
    <2>1. CASE Emit(d)
        BY <1>1, <2>1 DEF Emit
    <2>2. CASE TestRow(d)
        BY <1>1, <2>2 DEF TestRow, Drop
    <2>3. CASE Grant(d)
        BY <1>1, <2>3 DEF Grant, Drop
    <2>4. CASE Notify(d)
        BY <1>1, <2>4 DEF Notify, Rest, Go
    <2>5. CASE Post(d)
        BY <1>1, <2>5 DEF Post, Rest
    <2>6. CASE ReadClock(d)
        BY <1>1, <2>6 DEF ReadClock
    <2> QED BY <2>1, <2>2, <2>3, <2>4, <2>5, <2>6 DEF DetectorStep
<1>3. \A e \in Devices : Pending(e) => Pending(e)'
    BY <1>2, RunnersStill
<1> QED BY <1>2, <1>3, PromisesKept

LEMMA WorldPromises ==
    ASSUME AllFit, Promised,
           \/ \E a \in Autos : EditAutomation(a)
           \/ \E d \in Devices : EditDevice(d) \/ PressButton(d)
           \/ Tick \/ Restart \/ UNCHANGED vars
    PROVE  Promised'
<1>1. CASE (\E a \in Autos : EditAutomation(a)) \/ (\E d \in Devices : EditDevice(d)) \/ UNCHANGED vars
    <2>1. owed' = owed /\ reverts' = reverts /\ th' = th
        BY <1>1 DEF EditAutomation, EditDevice, vars, memory, history
    <2>2. \A d \in Devices : Pending(d) => Pending(d)'
        BY <2>1, RunnersStill
    <2> QED BY <2>1, <2>2, PromisesKept
<1>2. ASSUME NEW x \in Devices, PressButton(x) PROVE Promised'
    <2>1. owed' = [owed EXCEPT ![x] = FALSE] /\ reverts' = reverts /\ th' = th
        BY <1>2 DEF PressButton, memory
    <2>2. ASSUME NEW d \in Devices, owed'[d] PROVE Pending(d)'
        <3>1. owed[d]
            BY <2>1, <2>2 DEF Promised
        <3>2. Pending(d)
            BY <3>1 DEF Promised, RevertPending, Pending
        <3> QED BY <2>1, <3>2, RunnersStill
    <2> QED BY <2>1, <2>2 DEF Promised, RevertPending, Pending
<1>3. CASE Tick
    <2>1. owed' = owed
        BY <1>3 DEF Tick, history
    <2>2. \A t \in Runners : th'[t] = th[t]
        <3>1. ASSUME NEW t \in Runners PROVE t \in Threads /\ th[t].pc \notin {"grant", "lock"}
            BY WhoIsWho DEF AllFit, ThreadsFit, RunnerFit
        <3> QED BY <1>3, <3>1 DEF Tick, Waiting
    <2>3. DOMAIN reverts' = DOMAIN reverts
          /\ \A i \in DOMAIN reverts : reverts'[i].device = reverts[i].device
                                       /\ reverts'[i].state = reverts[i].state
        <3>1. \A i \in DOMAIN reverts : DOMAIN reverts[i] = {"in", "device", "state"}
            BY DEF AllFit, MemoryFit, Dated
        <3> QED BY <1>3, <3>1 DEF Tick
    <2>4. ASSUME NEW d \in Devices, Pending(d) PROVE Pending(d)'
        <3>1. Booked(d) => Booked(d)'
            BY <2>3 DEF Booked
        <3>2. Booker(d) => Booker(d)'
            BY <2>2 DEF Booker
        <3>3. Undoing(d) => Undoing(d)'
            BY <2>2, WhoIsWho DEF Undoing
        <3> QED BY <2>4, <3>1, <3>2, <3>3 DEF Pending
    <2> QED BY <2>1, <2>4, PromisesKept
<1>4. CASE Restart
    <2>1. owed' = [d \in Devices |-> FALSE]
        BY <1>4 DEF Restart
    <2> QED BY <2>1 DEF Promised, RevertPending
<1> QED BY <1>1, <1>2, <1>3, <1>4

LEMMA PromisedStep == AllFit /\ Promised /\ [Next]_vars => Promised'
<1> SUFFICES ASSUME AllFit, Promised, [Next]_vars PROVE Promised'
    OBVIOUS
<1>1. ASSUME NEW t \in Runners, RunnerStep(t) PROVE Promised'
    BY <1>1, AimPromises, CallPromises, CallFailsPromises, NotePromises, OtherRunnersPromise
       DEF RunnerStep
<1>2. ASSUME NEW d \in Detectors, DetectorStep(d) \/ Emit(d) PROVE Promised'
    BY <1>2, DetectorsPromise
<1>3. CASE Take \/ TakeDue
    BY <1>3, OtherRunnersPromise, TakeDuePromises, WhoIsWho
<1>4. ASSUME NEW r \in Requests,
             \/ \E a \in Autos : RunRequest(r, a)
             \/ \E d \in Devices, state \in Asked : SwitchRequest(r, d, state)
      PROVE  Promised'
    BY <1>4, OtherRunnersPromise, WhoIsWho
<1>5. CASE \/ \E a \in Autos : EditAutomation(a)
           \/ \E d \in Devices : EditDevice(d) \/ PressButton(d)
           \/ Tick \/ Restart \/ UNCHANGED vars
    BY <1>5, WorldPromises
<1> QED BY <1>1, <1>2, <1>3, <1>4, <1>5 DEF Next, Running

\* A device that was switched on for a time is never forgotten: as long as nothing
\* else took it over, a revert that turns it off is booked, about to be booked or
\* under way (_run_device, _apply_due_reverts), for any threads and automations.
THEOREM NothingForgotten == Spec => []RevertPending
<1>1. Init => Promised
    BY DEF Init, Promised, RevertPending
<1>2. AllFit /\ Promised /\ [Next]_vars => AllFit' /\ Promised'
    BY AllFitStep, PromisedStep
<1>3. Promised => RevertPending
    BY DEF Promised
<1> QED BY <1>1, <1>2, <1>3, AllFitInit, PTL DEF Spec

=============================================================================
