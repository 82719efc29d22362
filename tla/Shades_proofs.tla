--------------------------- MODULE Shades_proofs ---------------------------
(***************************************************************************)
(* The coverings show positions of their own motors, for any coverings,    *)
(* requests and bounds.  Inv follows a position from the motor to the      *)
(* table: what a packet on the wire says of a motor (Honest), what a       *)
(* thread holds of the motor it is at (Sound), and what the house does     *)
(* (Housed); all against past, which only grows.  Its Counting says why    *)
(* the failures in a row never pass the limit: a motor at the limit is the *)
(* one that the poller is about to put to rest.                            *)
(***************************************************************************)
EXTENDS Shades, TLAPS, FiniteSetTheorems

Steps == {"off", "idle", "next", "ask", "wait", "answered", "failed", "moved", "skip", "rest"}

ThreadType == [pc : Steps, kind : Kinds \cup {"burst", "full", "rehomed", None},
               command : Positions \cup {Stop, None}, todo : Seq(Coverings),
               answer : Positions \cup Nat \cup {None, Refused}]

PacketType == [to : {"bridge", "us"}, type : {"Read", "List", "Write"},
               mac : Coverings \cup {None}, data : Positions \cup {Stop, None, Refused}]

\* What a thread t with the record r holds, when the motors were at P.
Sound(t, r, P) ==
    /\ r.kind \in {"refresh", "rehomed", "discover"} => r.command = None
    /\ r.pc \in {"ask", "wait", "answered", "failed"} /\ r.todo = <<>>
           => r.kind \in {"refresh", "rehomed", "discover"}
    /\ r.pc \in {"moved", "rest", "skip"} => r.todo # <<>>
    /\ r.pc = "answered" /\ r.todo # <<>> /\ r.command = None
           => r.answer \in P[Head(r.todo)] \cup {None}
    /\ r.pc \in {"wait", "answered", "moved"} /\ r.todo # <<>> /\ r.command \in Positions
           => r.command \in P[Head(r.todo)]
    /\ r.pc = "skip" => r.answer \in 1 .. BACKOFF_PASSES
    /\ r.pc \in {"rest", "skip"} => r.kind = "full"
    /\ r.kind = "full" => t = Poller

\* What a packet p says, when the motors were at P.
Honest(p, P) ==
    /\ p.type \in {"Read", "Write"} => p.mac \in Coverings
    /\ p.to = "us" => p.data \in Positions \cup {None, Refused}
    /\ p.to = "us" /\ p.type = "Read" => p.data \in P[p.mac] \cup {None}
    /\ p.to = "bridge" /\ p.type = "Write" => p.data \in P[p.mac] \cup {Stop}

Housed ==
    /\ past \in [Coverings -> SUBSET Positions]
    /\ motor \in [Coverings -> Positions] /\ goal \in [Coverings -> Positions]
    /\ \A c \in Coverings : {motor[c], goal[c]} \subseteq past[c]

Tabled ==
    /\ row \in [Coverings -> [position : Positions, error : BOOLEAN]]
    /\ enabled \subseteq Coverings /\ watched \subseteq Coverings
    /\ \A c \in Coverings : row[c].position \in past[c]

Wired == \A p \in net : p \in PacketType /\ Honest(p, past)

Locked == lock \in Threads \cup {None} /\ \A t \in Threads : thread[t].pc = "wait" <=> lock = t

Threaded == thread \in [Threads -> ThreadType] /\ \A t \in Threads : Sound(t, thread[t], past)

Counting ==
    /\ failures \in [Coverings -> 0 .. BACKOFF_AFTER]
    /\ resting \in [Coverings -> 0 .. BACKOFF_PASSES]
    /\ \A c \in Coverings : failures[c] = BACKOFF_AFTER =>
           /\ thread[Poller].pc = "rest" /\ thread[Poller].todo # <<>>
           /\ Head(thread[Poller].todo) = c

Inv == Housed /\ Tabled /\ Wired /\ Locked /\ Threaded /\ Counting

-----------------------------------------------------------------------------
(* Lists, and what growth of the past keeps.                               *)

\* SetToSeq lists the members of a finite set.
LEMMA SetToSeqIs ==
    ASSUME NEW S, IsFiniteSet(S)
    PROVE  SetToSeq(S) \in Seq(S)
<1>1. Cardinality(S) \in Nat /\ ExistsBijection(1 .. Cardinality(S), S)
  BY FS_CardinalityType
<1>2. PICK f : f \in Bijection(1 .. Cardinality(S), S)
  BY <1>1 DEF ExistsBijection
<1>3. f \in [1 .. Cardinality(S) -> S] /\ IsInjective(f)
  BY <1>2 DEF Bijection, Injection, IsInjective
<1>4. SetToSeq(S) \in [1 .. Cardinality(S) -> S]
  BY <1>3 DEF SetToSeq
<1> QED
  BY <1>1, <1>4

LEMMA ListsCoverings ==
    ASSUME NEW S \in SUBSET Coverings
    PROVE  SetToSeq(S) \in Seq(Coverings)
<1>1. IsFiniteSet(S)
  BY ShadesAssumption, FS_Subset DEF ShadesAssumption
<1>2. SetToSeq(S) \in Seq(S)
  BY <1>1, SetToSeqIs
<1> QED
  BY <1>2

\* What held of the past holds of a longer one.
LEMMA SoundGrows ==
    ASSUME NEW t, NEW r \in ThreadType, NEW P, NEW Q, Sound(t, r, P),
           \A c \in Coverings : P[c] \subseteq Q[c]
    PROVE  Sound(t, r, Q)
<1>1. r.todo # <<>> => Head(r.todo) \in Coverings
  BY DEF ThreadType
<1> QED
  BY <1>1 DEF Sound

LEMMA HonestGrows ==
    ASSUME NEW p, NEW P, NEW Q, Honest(p, P), \A c \in Coverings : P[c] \subseteq Q[c]
    PROVE  Honest(p, Q)
  BY DEF Honest

\* A covering's past grows by what it is asked to do.
LEMMA RecallGrows ==
    ASSUME past \in [Coverings -> SUBSET Positions], NEW c \in Coverings,
           NEW p \in Positions \cup {Stop}, Recall(c, p)
    PROVE  /\ past' \in [Coverings -> SUBSET Positions]
           /\ \A d \in Coverings : past[d] \subseteq past'[d]
           /\ p \in Positions => p \in past'[c]
  BY ShadesAssumption DEF ShadesAssumption, Recall

\* The rules of the state when only one thread has moved on.
LEMMA OneThread ==
    ASSUME Threaded, NEW t \in Threads, NEW r \in ThreadType,
           thread' = [thread EXCEPT ![t] = r], Sound(t, r, past'),
           \A c \in Coverings : past[c] \subseteq past'[c]
    PROVE  Threaded'
<1>1. thread' \in [Threads -> ThreadType]
  BY DEF Threaded
<1>2. ASSUME NEW s \in Threads PROVE Sound(s, thread'[s], past')
  <2>1. CASE s = t
    BY <2>1 DEF Threaded
  <2>2. CASE s # t
    BY <2>2, SoundGrows DEF Threaded
  <2> QED
    BY <2>1, <2>2
<1> QED
  BY <1>1, <1>2 DEF Threaded

\* One that neither takes nor leaves the lock.
LEMMA LockStays ==
    ASSUME Locked, Threaded, NEW t \in Threads, NEW r, thread' = [thread EXCEPT ![t] = r],
           thread[t].pc # "wait", r.pc # "wait", lock' = lock
    PROVE  Locked'
  BY DEF Locked, Threaded

LEMMA NothingPast ==
    ASSUME Inv, UNCHANGED <<house, wire>>
    PROVE  Housed' /\ Wired' /\ \A c \in Coverings : past[c] \subseteq past'[c]
  BY DEF Inv, Housed, Wired, house, wire

LEMMA SameTable ==
    ASSUME Inv, UNCHANGED <<house, row, enabled, watched>>
    PROVE  Tabled'
  BY DEF Inv, Tabled, house

\* The failures are counted as before while the poller is not at its rest.
LEMMA SameCounts ==
    ASSUME Inv, UNCHANGED <<failures, resting>>, NEW t \in Threads, NEW r,
           thread' = [thread EXCEPT ![t] = r], thread[t].pc # "rest"
    PROVE  Counting'
<1>1. thread[Poller].pc = "rest" => thread'[Poller] = thread[Poller]
  BY DEF Inv, Threaded
<1> QED
  BY <1>1 DEF Inv, Counting

LEMMA Typed ==
    ASSUME Inv, NEW t \in Threads
    PROVE  /\ thread \in [Threads -> ThreadType] /\ thread[t] \in ThreadType
           /\ Sound(t, thread[t], past)
           /\ thread[t].todo # <<>> => At(t) = Head(thread[t].todo) /\ At(t) \in Coverings
           /\ thread[t].todo = <<>> => At(t) = None
           /\ At(t) # None => thread[t].todo # <<>>
<1>1. thread \in [Threads -> ThreadType] /\ thread[t] \in ThreadType /\ Sound(t, thread[t], past)
  BY DEF Inv, Threaded
<1>2. thread[t].todo \in Seq(Coverings)
  BY <1>1 DEF ThreadType
<1> QED
  BY <1>1, <1>2 DEF At

-----------------------------------------------------------------------------
(* The steps of a thread that is at work.                                  *)

\* A thread that goes to the next covering of its loop keeps every rule.
LEMMA PassKeeps ==
    ASSUME Inv, NEW t \in Threads, Pass(t), thread[t].pc # "wait", lock' = lock,
           \A c \in Coverings : past[c] \subseteq past'[c], thread[t].todo # <<>>
    PROVE  Threaded' /\ Locked'
<1> DEFINE r == [thread[t] EXCEPT !.pc = "next", !.todo = Tail(@), !.answer = None]
<1>1. thread' = [thread EXCEPT ![t] = r]
  BY Typed DEF Pass
<1>2. r \in ThreadType
  <2>1. Tail(thread[t].todo) \in Seq(Coverings)
    BY Typed DEF ThreadType
  <2> QED
    BY <2>1, Typed DEF ThreadType, Steps
<1>3. Sound(t, r, past')
  BY Typed DEF ThreadType, Sound
<1>4. r.pc # "wait"
  BY Typed DEF ThreadType
<1> HIDE DEF r
<1>5. Threaded'
  BY <1>1, <1>2, <1>3, OneThread DEF Inv
<1>6. Locked'
  BY <1>1, <1>4, LockStays DEF Inv
<1> QED
  BY <1>5, <1>6

LEMMA RequestKeeps ==
    ASSUME Inv, NEW t \in Threads, Request(t)
    PROVE  Inv'
<1> DEFINE r == [thread[t] EXCEPT !.pc = "wait"]
           c == At(t)
           m == Message(t)
<1>1. /\ thread[t].pc = "ask" /\ lock = None /\ lock' = t /\ net' = net \cup {m}
      /\ thread' = [thread EXCEPT ![t] = r]
      /\ UNCHANGED <<motor, goal, row, enabled, watched, failures, resting>>
  BY Typed DEF Request, Become, tables, poller
<1>2. thread[t].command \in Positions \cup {Stop, None}
  BY Typed DEF ThreadType
<1>3. \/ /\ c = None /\ m = Query("List", None, None)
      \/ /\ c \in Coverings /\ thread[t].command # None
         /\ m = Query("Write", c, thread[t].command)
      \/ /\ c \in Coverings /\ thread[t].command = None /\ m = Query("Read", c, None)
  BY <1>1, Typed, ShadesAssumption DEF Message, Listings, Sound, ShadesAssumption
<1>4. /\ past' \in [Coverings -> SUBSET Positions]
      /\ \A d \in Coverings : past[d] \subseteq past'[d]
      /\ c \in Coverings /\ thread[t].command \in Positions => thread[t].command \in past'[c]
  <2>1. CASE c \in Coverings /\ thread[t].command # None /\ m.type = "Write"
    BY <2>1, <1>2, RecallGrows DEF Request, Inv, Housed
  <2>2. CASE ~(c \in Coverings /\ thread[t].command # None)
    <3>1. UNCHANGED past
      BY <2>2, <1>3 DEF Request, Query
    <3>2. c \in Coverings => thread[t].command = None
      BY <2>2
    <3>3. None \notin Positions
      BY ShadesAssumption DEF ShadesAssumption
    <3> QED
      BY <3>1, <3>2, <3>3 DEF Inv, Housed
  <2>3. c \in Coverings /\ thread[t].command # None => m.type = "Write"
    BY <1>3, ShadesAssumption DEF ShadesAssumption, Query
  <2> QED
    BY <2>1, <2>2, <2>3
<1>5. m \in PacketType /\ Honest(m, past')
  BY <1>2, <1>3, <1>4 DEF Query, PacketType, Honest
<1>6. r \in ThreadType /\ r.pc = "wait"
  BY Typed DEF ThreadType, Steps
<1>7. Sound(t, r, past')
  BY <1>1, <1>4, Typed DEF ThreadType, Sound
<1> HIDE DEF r, c, m
<1>8. Housed'
  BY <1>1, <1>4 DEF Inv, Housed
<1>9. Tabled'
  BY <1>1, <1>4 DEF Inv, Tabled
<1>10. Wired'
  BY <1>1, <1>4, <1>5, HonestGrows DEF Inv, Wired
<1>11. Locked'
  BY <1>1, <1>6, Typed, ShadesAssumption DEF Inv, Locked, ShadesAssumption, Threads
<1>12. Threaded'
  BY <1>1, <1>4, <1>6, <1>7, OneThread DEF Inv
<1>13. Counting'
  BY <1>1, SameCounts
<1> QED
  BY <1>8, <1>9, <1>10, <1>11, <1>12, <1>13 DEF Inv

LEMMA ReceiveKeeps ==
    ASSUME Inv, NEW t \in Threads, NEW m \in net, Receive(t, m)
    PROVE  Inv'
<1>1. /\ lock = t /\ m.to = "us" /\ net' = net \ {m}
      /\ UNCHANGED <<motor, goal, past, row, enabled, watched, failures, resting>>
  BY DEF Receive, house, tables, poller
<1>2. Housed' /\ Tabled'
  BY <1>1 DEF Inv, Housed, Tabled
<1>3. Wired'
  BY <1>1 DEF Inv, Wired
<1>4. CASE Collecting(t) \/ ~Matches(t, m)
  <2>1. UNCHANGED <<lock, thread>>
    BY <1>4 DEF Receive
  <2> QED
    BY <1>1, <1>2, <1>3, <2>1 DEF Inv, Locked, Threaded, Counting
<1>5. CASE ~Collecting(t) /\ Matches(t, m)
  <2> DEFINE r == [thread[t] EXCEPT !.pc = IF m.data = Refused THEN "failed" ELSE "answered",
                                    !.answer = m.data]
  <2>1. lock' = None /\ thread' = [thread EXCEPT ![t] = r]
    BY <1>5, Typed DEF Receive
  <2>2. m \in PacketType /\ Honest(m, past) /\ thread[t].pc = "wait"
    BY <1>1 DEF Inv, Wired, Locked
  <2>3. r \in ThreadType /\ r.pc \in {"failed", "answered"}
    <3>1. m.data \in Positions \cup Nat \cup {None, Refused}
      BY <1>1, <2>2 DEF Honest
    <3> QED
      BY <3>1, Typed DEF ThreadType, Steps
  <2>4. Sound(t, r, past')
    <3>1. CASE At(t) = None
      BY <1>1, <2>2, <3>1, Typed, ShadesAssumption DEF ThreadType, Sound, ShadesAssumption
    <3>2. CASE At(t) # None
      <4>1. At(t) \in Coverings /\ At(t) = Head(thread[t].todo) /\ thread[t].todo # <<>>
        BY <3>2, Typed
      <4>2. thread[t].command = None => m.data \in past[At(t)] \cup {None}
        BY <1>1, <1>5, <2>2, <3>2, <4>1 DEF Matches, Message, Listings, Query, Honest
      <4> QED
        BY <1>1, <2>2, <4>1, <4>2, Typed DEF ThreadType, Sound
    <3> QED
      BY <3>1, <3>2
  <2>5. thread[t].pc # "rest" /\ r.pc # "wait"
    BY <2>2, <2>3
  <2> HIDE DEF r
  <2>6. Threaded'
    BY <1>1, <2>1, <2>3, <2>4, OneThread DEF Inv
  <2>7. Locked'
    BY <1>1, <2>1, <2>5, ShadesAssumption DEF Inv, Threaded, Locked, ShadesAssumption, Threads
  <2>8. Counting'
    BY <1>1, <2>1, <2>5, SameCounts
  <2> QED
    BY <1>2, <1>3, <2>6, <2>7, <2>8 DEF Inv
<1> QED
  BY <1>4, <1>5

\* A step that changes nothing but what its thread does.
LEMMA QuietKeeps ==
    ASSUME Inv, NEW t \in Threads, NEW r \in ThreadType, Sound(t, r, past),
           thread' = [thread EXCEPT ![t] = r], thread[t].pc \notin {"wait", "rest"},
           r.pc # "wait", UNCHANGED <<house, wire, row, enabled, watched, failures, resting>>
    PROVE  Inv'
<1>1. UNCHANGED past /\ UNCHANGED lock
  BY DEF house, wire
<1>2. Housed' /\ Wired'
  BY NothingPast
<1>3. Tabled'
  BY SameTable
<1>4. Locked'
  BY <1>1, LockStays DEF Inv
<1>5. Threaded'
  BY <1>1, OneThread DEF Inv
<1>6. Counting'
  BY SameCounts
<1> QED
  BY <1>2, <1>3, <1>4, <1>5, <1>6 DEF Inv

\* A thread that starts over with a list of coverings and no answer.
LEMMA Fresh ==
    ASSUME NEW t \in Threads, NEW pc \in Steps, NEW kind \in Kinds \cup {"burst", "full", "rehomed", None},
           NEW todo \in Seq(Coverings), NEW command \in Positions \cup {Stop, None},
           pc \in {"idle", "off", "next", "ask"},
           kind \in {"refresh", "rehomed", "discover"} => command = None,
           pc = "ask" /\ todo = <<>> => kind \in {"refresh", "rehomed", "discover"},
           kind = "full" => t = Poller, NEW r,
           r = [pc |-> pc, kind |-> kind, command |-> command, todo |-> todo, answer |-> None]
    PROVE  r \in ThreadType /\ Sound(t, r, past) /\ r.pc # "wait"
  BY DEF ThreadType, Sound

LEMMA IdleFresh ==
    ASSUME NEW t \in Threads
    PROVE  Idle \in ThreadType /\ Sound(t, Idle, past) /\ Idle.pc # "wait"
<1>1. <<>> \in Seq(Coverings) /\ None # "full"
  BY ShadesAssumption DEF ShadesAssumption
<1> QED
  BY <1>1, Fresh DEF Idle, Steps

LEMMA TimeoutKeeps ==
    ASSUME Inv, NEW t \in Threads, Timeout(t)
    PROVE  Inv'
<1>1. /\ lock = t /\ lock' = None /\ UNCHANGED net /\ UNCHANGED house
      /\ UNCHANGED <<row, enabled, watched, failures, resting>>
  BY DEF Timeout, tables, poller
<1>2. thread[t].pc = "wait" /\ UNCHANGED past
  BY <1>1 DEF Inv, Locked, house
<1>3. PICK r \in ThreadType : /\ Sound(t, r, past) /\ r.pc # "wait"
                              /\ thread' = [thread EXCEPT ![t] = r]
  <2>1. CASE Collecting(t)
    BY <2>1, IdleFresh DEF Timeout
  <2>2. CASE ~Collecting(t)
    <3> DEFINE r == [thread[t] EXCEPT !.pc = "failed"]
    <3>1. thread' = [thread EXCEPT ![t] = r]
      BY <2>2, Typed DEF Timeout, Become
    <3>2. r \in ThreadType /\ Sound(t, r, past) /\ r.pc # "wait"
      BY <1>2, Typed DEF ThreadType, Steps, Sound
    <3> QED
      BY <3>1, <3>2
  <2> QED
    BY <2>1, <2>2
<1>4. Housed' /\ Wired' /\ Tabled'
  BY <1>1 DEF Inv, Housed, Wired, Tabled, house
<1>5. Locked'
  BY <1>1, <1>3, ShadesAssumption DEF Inv, Threaded, Locked, ShadesAssumption, Threads
<1>6. Threaded'
  BY <1>2, <1>3, OneThread DEF Inv
<1>7. Counting'
  BY <1>1, <1>2, <1>3, SameCounts
<1> QED
  BY <1>4, <1>5, <1>6, <1>7 DEF Inv

\* A request of a client, with what it may ask.
LEMMA StartKeeps ==
    ASSUME Inv, NEW t, NEW kind, NEW todo \in Seq(Coverings),
           NEW command \in Positions \cup {Stop, None}, NEW pc \in {"next", "ask"},
           kind \in {"refresh", "rehomed", "discover"} => command = None,
           pc = "ask" /\ todo = <<>> => kind \in {"refresh", "rehomed", "discover"},
           Start(t, kind, todo, command, pc)
    PROVE  Inv'
<1> DEFINE r == [Idle EXCEPT !.pc = pc, !.kind = kind, !.todo = todo, !.command = command]
<1>1. /\ t \in Clients /\ thread[t].pc = "idle" /\ kind \in Kinds
      /\ thread' = [thread EXCEPT ![t] = r]
      /\ UNCHANGED <<house, wire, row, enabled, watched, failures, resting>>
  BY ShadesAssumption DEF Start, ShadesAssumption, tables, poller
<1>2. t \in Threads /\ kind # "full" /\ kind \in Kinds \cup {"burst", "full", "rehomed", None}
  BY <1>1 DEF Threads, Kinds
<1>3. Idle \in ThreadType
  BY <1>2, IdleFresh
<1>4. r \in ThreadType
  BY <1>2, <1>3 DEF ThreadType, Steps
<1>5. /\ r.pc = pc /\ r.kind = kind /\ r.command = command /\ r.todo = todo
  BY <1>3 DEF ThreadType
<1> HIDE DEF r
<1>6. Sound(t, r, past) /\ r.pc # "wait"
  BY <1>2, <1>5 DEF Sound
<1> QED
  BY <1>1, <1>2, <1>4, <1>6, QuietKeeps

LEMMA AskKeeps ==
    ASSUME Inv, NEW t \in Threads, Ask(t)
    PROVE  Inv'
<1>1. Addressed \subseteq Coverings /\ Commands \subseteq Positions \cup {Stop}
  BY ShadesAssumption DEF ShadesAssumption
<1>2. <<>> \in Seq(Coverings) /\ \A c \in Coverings : <<c>> \in Seq(Coverings) /\ <<c>> # <<>>
  OBVIOUS
<1>3. ASSUME NEW c \in Addressed, NEW command \in Commands, CommandCovering(t, c, command)
      PROVE  Inv'
  BY <1>1, <1>2, <1>3, StartKeeps DEF CommandCovering
<1>4. ASSUME NEW group \in Groups, NEW command \in Commands, CommandGroup(t, group, command)
      PROVE  Inv'
  <2>1. SetToSeq(group \cap enabled) \in Seq(Coverings)
    BY ListsCoverings DEF Inv, Tabled
  <2> QED
    BY <1>1, <1>4, <2>1, StartKeeps DEF CommandGroup
<1>5. ASSUME NEW c \in Addressed, NEW p \in Commands \ {Stop}, MoveCovering(t, c, p)
      PROVE  Inv'
  BY <1>1, <1>2, <1>5, StartKeeps DEF MoveCovering
<1>6. ASSUME NEW c \in Addressed, PollCovering(t, c) PROVE Inv'
  BY <1>1, <1>2, <1>6, StartKeeps DEF PollCovering
<1>7. CASE RefreshHub(t)
  BY <1>2, <1>7, StartKeeps DEF RefreshHub
<1>8. CASE Discover(t)
  BY <1>2, <1>8, StartKeeps DEF Discover
<1> QED
  BY <1>3, <1>4, <1>5, <1>6, <1>7, <1>8 DEF Ask

LEMMA RehomeKeeps ==
    ASSUME Inv, NEW t \in Threads, Rehome(t)
    PROVE  Inv'
<1> DEFINE r == [thread[t] EXCEPT !.pc = "ask", !.kind = "rehomed"]
<1>1. /\ UNCHANGED <<house, wire, row, enabled, watched, failures, resting>>
      /\ thread[t].kind = "refresh" /\ thread[t].pc = "failed"
  BY DEF Rehome, tables, poller
<1>2. thread' = [thread EXCEPT ![t] = r]
  BY Typed DEF Rehome
<1>3. r \in ThreadType /\ Sound(t, r, past) /\ r.pc # "wait"
  BY <1>1, Typed DEF ThreadType, Steps, Sound
<1> QED
  BY <1>1, <1>2, <1>3, QuietKeeps

LEMMA PollHubKeeps ==
    ASSUME Inv, NEW t \in Threads, PollHub(t)
    PROVE  Inv'
<1>1. /\ UNCHANGED <<house, wire, row, enabled, watched, failures, resting>>
      /\ thread[t].kind \in {"refresh", "rehomed"} /\ thread[t].pc \notin {"wait", "rest"}
  BY DEF PollHub, tables, poller
<1>2. CASE thread' = [thread EXCEPT ![t] = Idle]
  BY <1>1, <1>2, IdleFresh, QuietKeeps
<1>3. CASE thread' = [thread EXCEPT ![t].pc = "next", ![t].kind = "refresh",
                                    ![t].todo = SetToSeq(enabled), ![t].answer = None]
  <2> DEFINE r == [thread[t] EXCEPT !.pc = "next", !.kind = "refresh",
                                    !.todo = SetToSeq(enabled), !.answer = None]
  <2>1. thread' = [thread EXCEPT ![t] = r]
    BY <1>3, Typed
  <2>2. SetToSeq(enabled) \in Seq(Coverings)
    BY ListsCoverings DEF Inv, Tabled
  <2>3. r \in ThreadType
    <3>1. "refresh" \in Kinds /\ "next" \in Steps
      BY DEF Kinds, Steps
    <3> QED
      BY <2>2, <3>1, Typed DEF ThreadType
  <2>4. /\ r.pc = "next" /\ r.kind = "refresh" /\ r.command = thread[t].command
        /\ thread[t].command = None
    BY <1>1, Typed DEF ThreadType, Sound
  <2> HIDE DEF r
  <2>5. Sound(t, r, past) /\ r.pc # "wait"
    BY <2>4 DEF Sound
  <2> QED
    BY <1>1, <2>1, <2>3, <2>5, QuietKeeps
<1> QED
  BY <1>2, <1>3 DEF PollHub

LEMMA FinishKeeps ==
    ASSUME Inv, NEW t \in Threads, Finish(t)
    PROVE  Inv'
  BY IdleFresh, QuietKeeps DEF Finish, tables, poller

LEMMA RestedKeeps ==
    ASSUME Inv, NEW t \in Threads, Rested(t)
    PROVE  Inv'
<1> DEFINE r == [thread[t] EXCEPT !.pc = "skip", !.answer = resting[At(t)]]
<1>1. /\ UNCHANGED <<house, wire, row, enabled, watched, failures, resting>>
      /\ thread[t].kind = "full" /\ thread[t].pc = "next" /\ At(t) # None /\ resting[At(t)] > 0
      /\ thread' = [thread EXCEPT ![t] = r]
  BY Typed DEF Rested, tables, poller
<1>2. BACKOFF_PASSES \in Nat /\ resting[At(t)] \in 1 .. BACKOFF_PASSES
  BY <1>1, Typed, ShadesAssumption DEF ShadesAssumption, Inv, Counting
<1>3. r \in ThreadType
  <2>1. resting[At(t)] \in Nat
    BY <1>2
  <2> QED
    BY <2>1, Typed DEF ThreadType, Steps
<1>4. Sound(t, r, past) /\ r.pc # "wait"
  BY <1>1, <1>2, Typed DEF ThreadType, Sound
<1> QED
  BY <1>1, <1>3, <1>4, QuietKeeps

LEMMA NextCoveringKeeps ==
    ASSUME Inv, NEW t \in Threads, NextCovering(t)
    PROVE  Inv'
<1>1. /\ UNCHANGED <<house, wire, row, enabled, watched, failures, resting>>
      /\ thread[t].pc = "next" /\ At(t) # None /\ thread[t].todo # <<>>
  BY Typed DEF NextCovering, tables, poller
<1>2. CASE Become(t, "ask")
  <2> DEFINE r == [thread[t] EXCEPT !.pc = "ask"]
  <2>1. thread' = [thread EXCEPT ![t] = r]
    BY <1>2, Typed DEF Become
  <2>2. r \in ThreadType /\ Sound(t, r, past) /\ r.pc # "wait"
    BY <1>1, Typed DEF ThreadType, Steps, Sound
  <2> QED
    BY <1>1, <2>1, <2>2, QuietKeeps
<1>3. CASE Pass(t)
  <2>1. Threaded' /\ Locked'
    BY <1>1, <1>3, PassKeeps DEF house, wire
  <2>2. Housed' /\ Wired' /\ Tabled'
    BY <1>1, NothingPast, SameTable
  <2>3. PICK r : thread' = [thread EXCEPT ![t] = r]
    BY <1>3, Typed DEF Pass
  <2>4. Counting'
    BY <1>1, <2>3, SameCounts
  <2> QED
    BY <2>1, <2>2, <2>4 DEF Inv
<1> QED
  BY <1>2, <1>3 DEF NextCovering

-----------------------------------------------------------------------------
(* What the answers and the failures leave behind.                         *)

\* A thread that passes on, with what it did to the counts.
LEMMA PassedOn ==
    ASSUME Inv, NEW t \in Threads, Pass(t), thread[t].pc # "wait", thread[t].todo # <<>>,
           UNCHANGED <<house, wire>>
    PROVE  /\ Threaded' /\ Locked' /\ Housed' /\ Wired'
           /\ t # Poller => thread'[Poller] = thread[Poller]
<1>1. lock' = lock /\ UNCHANGED past
  BY DEF house, wire
<1>2. Threaded' /\ Locked' /\ Housed' /\ Wired'
  BY <1>1, PassKeeps, NothingPast
<1>3. t # Poller => thread'[Poller] = thread[Poller]
  BY Typed DEF Pass, Threads
<1> QED
  BY <1>2, <1>3

LEMMA WatchKeeps ==
    ASSUME Inv, NEW t \in Threads, Watch(t)
    PROVE  Inv'
<1>1. /\ thread[t].pc = "moved" /\ UNCHANGED <<house, wire, row, enabled>> /\ Pass(t)
      /\ watched' = watched \cup {At(t)}
      /\ failures' = [failures EXCEPT ![At(t)] = 0]
      /\ resting' = [resting EXCEPT ![At(t)] = 0]
  BY DEF Watch, tables
<1>2. thread[t].todo # <<>> /\ At(t) \in Coverings
  BY <1>1, Typed DEF Sound
<1>3. Threaded' /\ Locked' /\ Housed' /\ Wired'
  BY <1>1, <1>2, PassedOn
<1>4. Tabled'
  BY <1>1, <1>2 DEF Inv, Tabled, house
<1>5. Counting'
  <2>1. BACKOFF_AFTER \in Nat \ {0} /\ BACKOFF_PASSES \in Nat \ {0}
    BY ShadesAssumption DEF ShadesAssumption
  <2>2. thread[Poller].pc = "rest" => thread'[Poller] = thread[Poller]
    BY <1>1, <1>2, PassedOn
  <2> QED
    BY <1>1, <1>2, <2>1, <2>2 DEF Inv, Counting
<1> QED
  BY <1>3, <1>4, <1>5 DEF Inv

LEMMA SkipKeeps ==
    ASSUME Inv, NEW t \in Threads, Skip(t)
    PROVE  Inv'
<1>1. /\ thread[t].pc = "skip" /\ UNCHANGED <<house, wire, row, enabled, watched, failures>>
      /\ Pass(t) /\ resting' = [resting EXCEPT ![At(t)] = thread[t].answer - 1]
  BY DEF Skip, tables
<1>2. /\ thread[t].todo # <<>> /\ At(t) \in Coverings
      /\ thread[t].answer \in 1 .. BACKOFF_PASSES
  BY <1>1, Typed DEF Sound
<1>3. Threaded' /\ Locked' /\ Housed' /\ Wired'
  BY <1>1, <1>2, PassedOn
<1>4. Tabled'
  BY <1>1, SameTable
<1>5. Counting'
  <2>1. BACKOFF_PASSES \in Nat \ {0}
    BY ShadesAssumption DEF ShadesAssumption
  <2>2. thread[t].answer - 1 \in 0 .. BACKOFF_PASSES
    BY <1>2, <2>1
  <2>3. thread[Poller].pc = "rest" => thread'[Poller] = thread[Poller]
    BY <1>1, <1>2, PassedOn
  <2> QED
    BY <1>1, <1>2, <2>2, <2>3 DEF Inv, Counting
<1> QED
  BY <1>3, <1>4, <1>5 DEF Inv

LEMMA RestKeeps ==
    ASSUME Inv, NEW t \in Threads, Rest(t)
    PROVE  Inv'
<1>1. /\ thread[t].pc = "rest" /\ UNCHANGED <<house, wire, row, enabled, watched>> /\ Pass(t)
      /\ resting' = [resting EXCEPT ![At(t)] = BACKOFF_PASSES]
      /\ failures' = [failures EXCEPT ![At(t)] = 0]
  BY DEF Rest, tables
<1>2. thread[t].todo # <<>> /\ At(t) = Head(thread[t].todo) /\ At(t) \in Coverings /\ t = Poller
  BY <1>1, Typed DEF Sound
<1>3. Threaded' /\ Locked' /\ Housed' /\ Wired'
  BY <1>1, <1>2, PassedOn
<1>4. Tabled'
  BY <1>1, SameTable
<1>5. Counting'
  <2>1. BACKOFF_AFTER \in Nat \ {0} /\ BACKOFF_PASSES \in Nat \ {0}
    BY ShadesAssumption DEF ShadesAssumption
  <2>2. /\ failures' \in [Coverings -> 0 .. BACKOFF_AFTER]
        /\ resting' \in [Coverings -> 0 .. BACKOFF_PASSES]
    BY <1>1, <1>2, <2>1 DEF Inv, Counting
  <2>3. \A c \in Coverings : failures'[c] # BACKOFF_AFTER
    BY <1>1, <1>2, <2>1 DEF Inv, Counting
  <2> QED
    BY <2>2, <2>3 DEF Counting
<1> QED
  BY <1>3, <1>4, <1>5 DEF Inv

LEMMA RememberKeeps ==
    ASSUME Inv, NEW t \in Threads, Remember(t)
    PROVE  Inv'
<1> DEFINE c == At(t)
<1>1. /\ thread[t].pc = "answered" /\ UNCHANGED <<house, wire, enabled, watched, resting>>
      /\ c \in Coverings /\ thread[t].todo # <<>> /\ c = Head(thread[t].todo)
      /\ UNCHANGED past
  BY Typed DEF Remember, tables, house
<1> DEFINE told == IF thread[t].command = None THEN thread[t].answer ELSE thread[t].command
<1>2. PICK position : /\ position = IF told \in {None, Stop} THEN row[c].position ELSE told
                      /\ row' = [row EXCEPT ![c] = [position |-> position, error |-> FALSE]]
                      /\ \/ failures' = [failures EXCEPT ![c] = 0]
                         \/ failures' = failures
  BY DEF Remember
<1>3. position \in past[c]
  <2>1. row[c].position \in past[c]
    BY <1>1 DEF Inv, Tabled
  <2>2. CASE told \in {None, Stop}
    BY <1>2, <2>1, <2>2
  <2>3. CASE told \notin {None, Stop} /\ thread[t].command = None
    BY <1>1, <1>2, <2>3, Typed DEF Sound
  <2>4. CASE told \notin {None, Stop} /\ thread[t].command # None
    <3>1. thread[t].command \in Positions
      BY <2>4, Typed DEF ThreadType
    <3> QED
      BY <1>1, <1>2, <2>4, <3>1, Typed DEF Sound
  <2> QED
    BY <2>2, <2>3, <2>4
<1>4. Tabled'
  <2>1. position \in Positions
    BY <1>1, <1>3 DEF Inv, Housed
  <2> QED
    BY <1>1, <1>2, <1>3, <2>1 DEF Inv, Tabled
<1>5. PICK r : /\ thread' = [thread EXCEPT ![t] = r] /\ r.pc # "wait"
               /\ r \in ThreadType /\ Sound(t, r, past)
  <2>1. CASE Become(t, "moved")
    <3> DEFINE r == [thread[t] EXCEPT !.pc = "moved"]
    <3>1. thread' = [thread EXCEPT ![t] = r]
      BY <2>1, Typed DEF Become
    <3>2. r \in ThreadType /\ Sound(t, r, past) /\ r.pc # "wait"
      BY <1>1, Typed DEF ThreadType, Steps, Sound
    <3> QED
      BY <3>1, <3>2
  <2>2. CASE Pass(t)
    <3> DEFINE r == [thread[t] EXCEPT !.pc = "next", !.todo = Tail(@), !.answer = None]
    <3>1. thread' = [thread EXCEPT ![t] = r]
      BY <2>2, Typed DEF Pass
    <3>2. Tail(thread[t].todo) \in Seq(Coverings)
      BY <1>1, Typed DEF ThreadType
    <3>3. r \in ThreadType
      BY <3>2, Typed DEF ThreadType, Steps
    <3>4. Sound(t, r, past) /\ r.pc # "wait"
      BY Typed DEF ThreadType, Sound
    <3> QED
      BY <3>1, <3>3, <3>4
  <2> QED
    BY <2>1, <2>2 DEF Remember
<1>6. Threaded'
  BY <1>1, <1>5, OneThread DEF Inv
<1>7. Locked'
  BY <1>1, <1>5, LockStays DEF Inv, wire
<1>8. Housed' /\ Wired'
  BY <1>1, NothingPast
<1>9. Counting'
  <2>1. BACKOFF_AFTER \in Nat \ {0}
    BY ShadesAssumption DEF ShadesAssumption
  <2>2. thread[Poller].pc = "rest" => thread'[Poller] = thread[Poller]
    BY <1>1, <1>5, Typed
  <2>3. failures' = [failures EXCEPT ![c] = 0] \/ failures' = failures
    BY <1>2
  <2> HIDE DEF c, told
  <2> QED
    BY <1>1, <2>1, <2>2, <2>3 DEF Inv, Counting
<1> QED
  BY <1>4, <1>6, <1>7, <1>8, <1>9 DEF Inv

LEMMA NoteFailureKeeps ==
    ASSUME Inv, NEW t \in Threads, NoteFailure(t)
    PROVE  Inv'
<1> DEFINE c == At(t)
           count == IF thread[t].kind = "full" THEN failures[c] + 1 ELSE failures[c]
<1>1. /\ thread[t].pc = "failed" /\ UNCHANGED <<house, wire, enabled, watched, resting>>
      /\ c \in Coverings /\ thread[t].todo # <<>> /\ c = Head(thread[t].todo)
      /\ row' = row \/ row' = [row EXCEPT ![c].error = TRUE]
      /\ failures' = [failures EXCEPT ![c] = count]
      /\ UNCHANGED past
  BY Typed DEF NoteFailure, tables, house
<1>2. Tabled'
  BY <1>1 DEF Inv, Tabled
<1>3. Housed' /\ Wired'
  BY <1>1, NothingPast
<1>4. /\ BACKOFF_AFTER \in Nat \ {0} /\ failures[c] \in 0 .. BACKOFF_AFTER
      /\ thread[t].kind = "full" => t = Poller /\ failures[c] < BACKOFF_AFTER
  BY <1>1, Typed, ShadesAssumption DEF ShadesAssumption, Inv, Counting, Sound
<1>5. CASE thread[t].kind = "full" /\ count >= BACKOFF_AFTER
  <2> DEFINE r == [thread[t] EXCEPT !.pc = "rest"]
  <2>1. thread' = [thread EXCEPT ![t] = r]
    BY <1>5, Typed DEF NoteFailure, Become
  <2>2. r \in ThreadType /\ Sound(t, r, past) /\ r.pc = "rest" /\ r.todo = thread[t].todo
    BY <1>1, <1>5, Typed DEF ThreadType, Steps, Sound
  <2> HIDE DEF r
  <2>3. Threaded'
    BY <1>1, <2>1, <2>2, OneThread DEF Inv
  <2>4. Locked'
    BY <1>1, <2>1, <2>2, LockStays DEF Inv, wire
  <2>5. t = Poller /\ count = BACKOFF_AFTER
    BY <1>4, <1>5
  <2>6. thread'[Poller] = r
    BY <2>1, <2>5, Typed
  <2>7. \A d \in Coverings : d # c => failures[d] # BACKOFF_AFTER
    BY <1>1, <2>5 DEF Inv, Counting
  <2>8. Counting'
    BY <1>1, <1>4, <2>2, <2>5, <2>6, <2>7 DEF Inv, Counting
  <2> QED
    BY <1>2, <1>3, <2>3, <2>4, <2>8 DEF Inv
<1>6. CASE ~(thread[t].kind = "full" /\ count >= BACKOFF_AFTER)
  <2>1. Pass(t)
    BY <1>6 DEF NoteFailure
  <2>2. Threaded' /\ Locked'
    BY <1>1, <2>1, PassedOn
  <2>3. thread[Poller].pc = "rest" => thread'[Poller] = thread[Poller]
    BY <1>1, <2>1, PassedOn
  <2>4. count \in 0 .. BACKOFF_AFTER
    BY <1>4, <1>6
  <2>5. count = BACKOFF_AFTER => failures[c] = BACKOFF_AFTER
    BY <1>4, <1>6
  <2>6. Counting'
    BY <1>1, <2>3, <2>4, <2>5 DEF Inv, Counting
  <2> QED
    BY <1>2, <1>3, <2>2, <2>6 DEF Inv
<1> QED
  BY <1>5, <1>6

-----------------------------------------------------------------------------
(* The poller's own turns, the house and the bridge.                       *)

LEMMA RunBurstsKeeps ==
    ASSUME Inv, RunBursts
    PROVE  Inv'
<1>1. Poller \in Threads /\ Poller \notin Clients /\ None # "full"
  BY ShadesAssumption DEF ShadesAssumption, Threads
<1>2. PICK due \in SUBSET watched, over \in SUBSET watched :
        /\ watched' = watched \ over
        /\ thread' = [thread EXCEPT ![Poller] =
                [Idle EXCEPT !.pc = "next", !.kind = "burst", !.todo = SetToSeq(due)]]
  BY DEF RunBursts
<1> DEFINE r == [Idle EXCEPT !.pc = "next", !.kind = "burst", !.todo = SetToSeq(due)]
<1>3. /\ thread[Poller].pc = "idle" /\ UNCHANGED <<house, wire, row, enabled, failures, resting>>
      /\ thread' = [thread EXCEPT ![Poller] = r] /\ UNCHANGED <<past, lock>>
  BY <1>2 DEF RunBursts, tables, house, wire
<1>4. SetToSeq(due) \in Seq(Coverings)
  BY ListsCoverings DEF Inv, Tabled
<1>5. Idle \in ThreadType
  BY <1>1, IdleFresh
<1>6. r \in ThreadType
  BY <1>4, <1>5 DEF ThreadType, Steps
<1>7. r.pc = "next" /\ r.kind = "burst"
  BY <1>5 DEF ThreadType
<1> HIDE DEF r
<1>8. Sound(Poller, r, past) /\ r.pc # "wait"
  BY <1>7 DEF Sound
<1>9. Housed' /\ Wired'
  BY <1>3, NothingPast
<1>10. Tabled'
  BY <1>2, <1>3 DEF Inv, Tabled
<1>11. Locked'
  BY <1>1, <1>3, <1>8, LockStays DEF Inv
<1>12. Threaded'
  BY <1>1, <1>3, <1>6, <1>8, OneThread DEF Inv
<1>13. Counting'
  BY <1>1, <1>3, SameCounts
<1> QED
  BY <1>9, <1>10, <1>11, <1>12, <1>13 DEF Inv

LEMMA PollAllKeeps ==
    ASSUME Inv, PollAll
    PROVE  Inv'
<1>1. Poller \in Threads
  BY DEF Threads
<1> DEFINE r == [Idle EXCEPT !.pc = "next", !.kind = "full", !.todo = SetToSeq(enabled)]
<1>2. /\ thread[Poller].pc = "next" /\ thread' = [thread EXCEPT ![Poller] = r]
      /\ UNCHANGED <<house, wire, row, enabled, watched, failures, resting>>
  BY DEF PollAll, tables, poller
<1>3. SetToSeq(enabled) \in Seq(Coverings)
  BY ListsCoverings DEF Inv, Tabled
<1>4. Idle \in ThreadType
  BY <1>1, IdleFresh
<1>5. r \in ThreadType
  BY <1>3, <1>4 DEF ThreadType, Steps
<1>6. r.pc = "next" /\ r.kind = "full" /\ r.command = None
  BY <1>4 DEF ThreadType, Idle
<1> HIDE DEF r
<1>7. Sound(Poller, r, past) /\ r.pc # "wait"
  BY <1>6 DEF Sound
<1> QED
  BY <1>1, <1>2, <1>5, <1>7, QuietKeeps

LEMMA WorkKeeps ==
    ASSUME Inv, NEW t \in Threads, Work(t)
    PROVE  Inv'
  BY RequestKeeps, TimeoutKeeps, RehomeKeeps, PollHubKeeps, WatchKeeps, FinishKeeps, RestedKeeps, SkipKeeps,
     NextCoveringKeeps, RememberKeeps, NoteFailureKeeps, RestKeeps DEF Work

\* A step of the house leaves the threads and their lock alone.
LEMMA ElsewhereKeeps ==
    ASSUME Inv, UNCHANGED <<thread, lock, row, watched, failures, resting>>,
           Housed', Wired', enabled' \subseteq Coverings,
           \A c \in Coverings : past[c] \subseteq past'[c]
    PROVE  Inv'
<1>1. Tabled'
  BY DEF Inv, Tabled
<1>2. Locked' /\ Counting'
  BY DEF Inv, Locked, Counting
<1>3. Threaded'
  BY SoundGrows DEF Inv, Threaded
<1> QED
  BY <1>1, <1>2, <1>3 DEF Inv

LEMMA HomeKeeps ==
    ASSUME Inv, Home
    PROVE  Inv'
<1>1. enabled \subseteq Coverings /\ Addressed \subseteq Coverings
  BY ShadesAssumption DEF ShadesAssumption, Inv, Tabled
<1>2. ASSUME NEW c \in Coverings, Travel(c) PROVE Inv'
  <2>1. /\ motor' = [motor EXCEPT ![c] = goal[c]]
        /\ UNCHANGED <<goal, past, net, lock, row, enabled, watched, failures, resting, thread>>
    BY <1>2 DEF Travel, wire, tables, poller
  <2>2. Housed' /\ Wired'
    BY <2>1 DEF Inv, Housed, Wired
  <2> QED
    BY <1>1, <2>1, <2>2, ElsewhereKeeps
<1>3. ASSUME NEW c \in Addressed, UpdateCovering(c) PROVE Inv'
  <2>1. /\ enabled' \subseteq Coverings /\ UNCHANGED <<motor, goal, past, net>>
        /\ UNCHANGED <<lock, row, watched, failures, resting, thread>>
    BY <1>1, <1>3 DEF UpdateCovering, house, wire, poller
  <2>2. Housed' /\ Wired'
    BY <2>1 DEF Inv, Housed, Wired
  <2> QED
    BY <2>1, <2>2, ElsewhereKeeps
<1>4. ASSUME NEW c \in Addressed, NEW p \in Positions, WallRemote(c, p) PROVE Inv'
  <2>1. /\ Recall(c, p) /\ goal' = [goal EXCEPT ![c] = p]
        /\ UNCHANGED <<motor, net, lock, row, enabled, watched, failures, resting, thread>>
    BY <1>4, ShadesAssumption DEF ShadesAssumption, WallRemote, Turn, wire, tables, poller
  <2>2. /\ past' \in [Coverings -> SUBSET Positions]
        /\ \A d \in Coverings : past[d] \subseteq past'[d]
        /\ p \in past'[c]
    BY <1>1, <2>1, RecallGrows DEF Inv, Housed
  <2>3. Housed'
    BY <1>1, <2>1, <2>2 DEF Inv, Housed
  <2>4. Wired'
    BY <2>1, <2>2, HonestGrows DEF Inv, Wired
  <2> QED
    BY <1>1, <2>1, <2>2, <2>3, <2>4, ElsewhereKeeps
<1>5. ASSUME NEW p \in net, Lose(p) PROVE Inv'
  <2>1. /\ net' = net \ {p} /\ UNCHANGED <<motor, goal, past>>
        /\ UNCHANGED <<lock, row, enabled, watched, failures, resting, thread>>
    BY <1>5 DEF Lose, house, tables, poller
  <2>2. Housed' /\ Wired'
    BY <2>1 DEF Inv, Housed, Wired
  <2> QED
    BY <1>1, <2>1, <2>2, ElsewhereKeeps
<1>6. CASE UpdateHub
  <2>1. /\ UNCHANGED <<motor, goal, past, net, enabled>>
        /\ UNCHANGED <<lock, row, watched, failures, resting, thread>>
    BY <1>6 DEF UpdateHub, house, wire, poller
  <2>2. Housed' /\ Wired'
    BY <2>1 DEF Inv, Housed, Wired
  <2> QED
    BY <1>1, <2>1, <2>2, ElsewhereKeeps
<1> QED
  BY <1>2, <1>3, <1>4, <1>5, <1>6 DEF Home

\* The bridge says where the motor is, and turns it to where it was asked to.
LEMMA HubAnswersKeeps ==
    ASSUME Inv, NEW p \in net, HubAnswers(p)
    PROVE  Inv'
<1>1. /\ p \in PacketType /\ Honest(p, past) /\ p.to = "bridge"
      /\ UNCHANGED <<motor, past, lock, row, enabled, watched, failures, resting, thread>>
  BY DEF HubAnswers, Inv, Wired, tables, poller
<1>2. Housed'
  <2>1. CASE UNCHANGED goal
    BY <1>1, <2>1 DEF Inv, Housed
  <2>2. CASE p.type = "Write" /\ Turn(p.mac, p.data)
    <3>1. p.mac \in Coverings /\ p.data \in past[p.mac] \cup {Stop}
      BY <1>1, <2>2 DEF Honest
    <3>2. PICK to \in past[p.mac] : goal' = [goal EXCEPT ![p.mac] = to]
      BY <2>2, <3>1 DEF Turn, Inv, Housed
    <3> QED
      BY <1>1, <3>1, <3>2 DEF Inv, Housed
  <2> QED
    BY <2>1, <2>2 DEF HubAnswers
<1>3. PICK m : net' = (net \ {p}) \cup {m} /\ m \in PacketType /\ Honest(m, past)
  <2>1. ASSUME NEW d \in {motor[p.mac], None}, p.type = "Read",
               net' = (net \ {p}) \cup {Ack("Read", p.mac, d)}
        PROVE  \E m : net' = (net \ {p}) \cup {m} /\ m \in PacketType /\ Honest(m, past)
    <3>1. p.mac \in Coverings /\ motor[p.mac] \in past[p.mac] /\ motor[p.mac] \in Positions
      BY <1>1, <2>1 DEF Honest, Inv, Housed
    <3>2. Ack("Read", p.mac, d) \in PacketType /\ Honest(Ack("Read", p.mac, d), past)
      BY <2>1, <3>1 DEF Ack, PacketType, Honest
    <3> QED
      BY <2>1, <3>2
  <2>2. CASE net' = (net \ {p}) \cup {Ack("List", None, None)}
    <3>1. Ack("List", None, None) \in PacketType /\ Honest(Ack("List", None, None), past)
      BY DEF Ack, PacketType, Honest
    <3> QED
      BY <2>2, <3>1
  <2>3. ASSUME NEW d \in {None, Refused}, p.type = "Write",
               net' = (net \ {p}) \cup {Ack("Write", p.mac, d)}
        PROVE  \E m : net' = (net \ {p}) \cup {m} /\ m \in PacketType /\ Honest(m, past)
    <3>1. p.mac \in Coverings
      BY <1>1, <2>3 DEF Honest
    <3>2. Ack("Write", p.mac, d) \in PacketType /\ Honest(Ack("Write", p.mac, d), past)
      BY <3>1 DEF Ack, PacketType, Honest
    <3> QED
      BY <2>3, <3>2
  <2> QED
    BY <2>1, <2>2, <2>3 DEF HubAnswers
<1>4. Wired'
  BY <1>1, <1>3 DEF Inv, Wired
<1>5. enabled' \subseteq Coverings
  BY <1>1 DEF Inv, Tabled
<1> QED
  BY <1>1, <1>2, <1>4, <1>5, ElsewhereKeeps

LEMMA BridgeKeeps ==
    ASSUME Inv, Bridge
    PROVE  Inv'
<1>1. ASSUME NEW p \in net, Drain(p) PROVE Inv'
  <2>1. /\ net' = net \ {p} /\ UNCHANGED <<motor, goal, past>>
        /\ UNCHANGED <<lock, row, enabled, watched, failures, resting, thread>>
    BY <1>1 DEF Drain, house, tables, poller
  <2>2. Housed' /\ Wired' /\ enabled' \subseteq Coverings
    BY <2>1 DEF Inv, Housed, Wired, Tabled
  <2> QED
    BY <2>1, <2>2, ElsewhereKeeps
<1> QED
  BY <1>1, HubAnswersKeeps, ReceiveKeeps DEF Bridge

-----------------------------------------------------------------------------
(* The results.                                                            *)

LEMMA InitInv ==
    ASSUME NEW pc \in {"off", "idle"}, ShadesInit(pc)
    PROVE  Inv
<1>1. FirstPosition \in Positions /\ BACKOFF_AFTER \in Nat \ {0} /\ BACKOFF_PASSES \in Nat \ {0}
  BY ShadesAssumption DEF ShadesAssumption
<1>2. Housed /\ Tabled /\ Wired
  BY <1>1 DEF ShadesInit, Housed, Tabled, Wired
<1>3. \A t \in Threads : Idle \in ThreadType /\ Sound(t, Idle, past)
  BY IdleFresh
<1>4. \A t \in Threads : /\ thread[t] \in ThreadType /\ thread[t].pc \in {"off", "idle"}
                         /\ thread[t].kind = None /\ None # "full" /\ thread[t].command = None
  BY <1>3, ShadesAssumption DEF ShadesAssumption, ShadesInit, ThreadType, Steps, Idle
<1>5. Threaded
  <2>1. \A t \in Threads : Sound(t, thread[t], past)
    BY <1>4 DEF Sound
  <2>2. thread \in [Threads -> ThreadType]
    BY <1>4 DEF ShadesInit
  <2> QED
    BY <2>1, <2>2 DEF Threaded
<1>6. Locked
  BY <1>4, ShadesAssumption DEF ShadesAssumption, ShadesInit, Locked, Threads
<1>7. Counting
  BY <1>1 DEF ShadesInit, Counting
<1> QED
  BY <1>2, <1>5, <1>6, <1>7 DEF Inv

LEMMA NextInv ==
    ASSUME Inv, [ShadesNext]_shadeVars
    PROVE  Inv'
<1>1. CASE UNCHANGED shadeVars
  BY <1>1 DEF shadeVars, Inv, Housed, Tabled, Wired, Locked, Threaded, Counting
<1>2. CASE ShadesNext
  BY <1>2, HomeKeeps, BridgeKeeps, RunBurstsKeeps, PollAllKeeps, AskKeeps, WorkKeeps
     DEF ShadesNext
<1> QED
  BY <1>1, <1>2

LEMMA Invariance == ShadesSpec => []Inv
<1>1. (\E pc \in {"off", "idle"} : ShadesInit(pc)) => Inv
  BY InitInv
<1>2. Inv /\ [ShadesNext]_shadeVars => Inv'
  BY NextInv
<1> QED
  BY <1>1, <1>2, PTL DEF ShadesSpec

\* Whatever is lost, late or refused, and whoever shares the socket, the
\* position stored for a covering (nvr/main.py, _remember_covering) is one that
\* its own motor had or was sent to.
THEOREM OwnMotorShown == ShadesSpec => []OwnMotor
<1>1. Inv => OwnMotor
  BY DEF Inv, Tabled, OwnMotor
<1> QED
  BY <1>1, Invariance, PTL

\* Every variable of the coverings keeps its range: the lock of the transport is
\* with the one thread that waits, and no motor counts more failures in a row,
\* or rests for more passes, than the poller's limits (nvr/shadepoll.py) say.
THEOREM TypeInvariant == ShadesSpec => []ShadesTypeOK
<1>1. Inv => ShadesTypeOK
  BY DEF Inv, Housed, Tabled, Locked, Counting, ShadesTypeOK
<1> QED
  BY <1>1, Invariance, PTL

=============================================================================
