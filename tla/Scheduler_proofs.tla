-------------------------- MODULE Scheduler_proofs --------------------------
(***************************************************************************)
(* What the scheduler's rules mean, and what a pass makes of them.         *)
(* in_window() asks three questions about the day, the start and the end.  *)
(* For weeks and days of any length its answer is the one a calendar gives:*)
(* windows begin on the rule's days and last until the clock next shows    *)
(* their end, over midnight and over the end of the week.                  *)
(* A pass leaves cameras and relays as the rules want them, and moves each *)
(* shade once per opening, for any number of rules, targets and edits.     *)
(***************************************************************************)
EXTENDS Scheduler, TLAPS

\* A week has days and a day has minutes.
LEMMA DayNat == Week \in Nat /\ Day \in Nat /\ Week > 0 /\ Day > 0
  BY SchedulerAssumption

\* A later day begins at least a day later.
LEMMA Product ==
    ASSUME NEW a \in Nat, NEW b \in Nat, a < b
    PROVE  a * Day + Day <= b * Day
  <1>1. PICK d \in Nat : b = a + 1 + d
    <2>1. b - a - 1 \in Nat
      OBVIOUS
    <2> QED BY <2>1
  <1>2. b * Day = a * Day + Day + d * Day
    BY <1>1, DayNat, Z3
  <1>3. d * Day \in Nat
    BY DayNat, Z3
  <1>4. a * Day \in Nat /\ b * Day \in Nat
    BY DayNat, Z3
  <1> QED BY <1>2, <1>3, <1>4, DayNat

\* The minutes of a week, counted from its beginning, name one day and one minute.
LEMMA Unique ==
    ASSUME NEW a \in Nat, NEW b \in Nat, NEW m \in Minutes, NEW n \in Minutes,
           a * Day + m = b * Day + n
    PROVE  a = b /\ m = n
  <1>0. a * Day \in Nat /\ b * Day \in Nat
    BY DayNat, Z3
  <1>1. ~(a < b)
    BY <1>0, Product, DayNat DEF Minutes
  <1>2. ~(b < a)
    BY <1>0, Product, DayNat DEF Minutes
  <1>3. a = b
    BY <1>1, <1>2
  <1> QED BY <1>0, <1>3, DayNat DEF Minutes

\* A number below the modulus is left as it is.
LEMMA SmallMod ==
    ASSUME NEW x \in Nat, NEW y \in Nat, x < y
    PROVE  x % y = x
  BY Z3

\* One time round is taken off.
LEMMA OnceRound ==
    ASSUME NEW x \in Nat, NEW y \in Nat, x < y
    PROVE  (y + x) % y = x
  BY Z3

\* One step back over zero comes round from the top.
LEMMA OnceBack ==
    ASSUME NEW x \in Nat, NEW y \in Nat, 0 < x, x <= y
    PROVE  (0 - x) % y = y - x
  BY Z3

\* (weekday - 1) % 7, which in_window() asks about, is the day whose next is today.
LEMMA NextDay ==
    ASSUME NEW a \in Days, NEW b \in Days
    PROVE  (a + 1) % Week = b <=> a = (b - 1) % Week
  <1>0. a \in Nat /\ b \in Nat /\ a < Week /\ b < Week /\ Week \in Nat
    BY DayNat DEF Days
  <1>1. (a + 1) % Week = IF a + 1 < Week THEN a + 1 ELSE 0
    <2>1. CASE a + 1 < Week
      BY <1>0, <2>1, SmallMod
    <2>2. CASE ~(a + 1 < Week)
      <3>1. a + 1 = Week + 0
        BY <1>0, <2>2
      <3>2. (Week + 0) % Week = 0
        BY <1>0, DayNat, OnceRound
      <3> QED BY <3>1, <3>2, <2>2
    <2> QED BY <2>1, <2>2
  <1>2. (b - 1) % Week = IF b = 0 THEN Week - 1 ELSE b - 1
    <2>1. CASE b = 0
      <3>1. (0 - 1) % Week = Week - 1
        BY <1>0, DayNat, OnceBack
      <3> QED BY <3>1, <2>1
    <2>2. CASE b # 0
      <3>1. b - 1 \in Nat /\ b - 1 < Week
        BY <1>0, <2>2
      <3>2. (b - 1) % Week = b - 1
        BY <1>0, <3>1, SmallMod
      <3> QED BY <3>2, <2>2
    <2> QED BY <2>1, <2>2
  <1> QED BY <1>0, <1>1, <1>2

\* Minutes past the end of a day belong to the next day, and after the last comes
\* the first.
LEMMA Moment ==
    ASSUME NEW d \in Days, NEW m \in Nat, m < Day + Day
    PROVE  (d * Day + m) % (Week * Day) =
               IF m < Day THEN d * Day + m ELSE ((d + 1) % Week) * Day + (m - Day)
  <1>0. d \in Nat /\ d < Week /\ d * Day \in Nat /\ Week * Day \in Nat
    BY DayNat, Z3 DEF Days
  <1>1. d * Day + Day <= Week * Day
    BY <1>0, DayNat, Product
  <1>2. CASE m < Day
    <2>1. d * Day + m \in Nat /\ d * Day + m < Week * Day
      BY <1>0, <1>1, <1>2, DayNat
    <2> QED BY <1>0, <1>2, <2>1, SmallMod
  <1>3. CASE ~(m < Day) /\ d + 1 < Week
    <2>1. (d + 1) * Day = d * Day + Day
      BY <1>0, DayNat, Z3
    <2>2. (d + 1) * Day + Day <= Week * Day
      BY <1>0, <1>3, DayNat, Product
    <2>3. (d + 1) % Week = d + 1
      BY <1>0, <1>3, DayNat, SmallMod
    <2>4. d * Day + m \in Nat /\ d * Day + m < Week * Day
      BY <1>0, <2>1, <2>2, DayNat
    <2>5. (d * Day + m) % (Week * Day) = d * Day + m
      BY <1>0, <2>4, SmallMod
    <2>6. d * Day + m = (d + 1) * Day + (m - Day)
      BY <1>0, <2>1, DayNat
    <2> QED BY <1>3, <2>3, <2>5, <2>6
  <1>4. CASE ~(m < Day) /\ ~(d + 1 < Week)
    <2>1. d + 1 = Week
      BY <1>0, <1>4, DayNat
    <2>2. Week * Day = d * Day + Day
      BY <1>0, <2>1, DayNat, Z3
    <2>3. (d + 1) % Week = 0
      <3>1. (Week + 0) % Week = 0
        BY DayNat, OnceRound
      <3> QED BY <3>1, <2>1, DayNat
    <2>4. m - Day \in Nat /\ m - Day < Week * Day
      BY <1>0, <1>1, <1>4, DayNat
    <2>5. (Week * Day + (m - Day)) % (Week * Day) = m - Day
      BY <1>0, <2>4, OnceRound
    <2>6. d * Day + m = Week * Day + (m - Day)
      BY <1>0, <2>2, DayNat
    <2>7. 0 * Day + (m - Day) = m - Day
      BY DayNat, <2>4
    <2> QED BY <1>4, <2>3, <2>5, <2>6, <2>7
  <1> QED BY <1>2, <1>3, <1>4

\* How long a window is, whether or not it crosses midnight.
LEMMA Length ==
    ASSUME NEW s \in Minutes, NEW e \in Minutes, s # e
    PROVE  (e - s) % Day = IF s < e THEN e - s ELSE Day + e - s
  <1>1. CASE s < e
    <2>1. e - s \in Nat /\ e - s < Day
      BY <1>1, DayNat DEF Minutes
    <2> QED BY <1>1, <2>1, DayNat, SmallMod
  <1>2. CASE e < s
    <2>1. s - e \in Nat /\ 0 < s - e /\ s - e <= Day
      BY <1>2, DayNat DEF Minutes
    <2>2. (0 - (s - e)) % Day = Day - (s - e)
      BY <2>1, DayNat, OnceBack
    <2>3. 0 - (s - e) = e - s /\ Day - (s - e) = Day + e - s
      BY DayNat DEF Minutes
    <2> QED BY <1>2, <2>2, <2>3 DEF Minutes
  <1> QED BY <1>1, <1>2, DayNat DEF Minutes

\* in_window() answers as the calendar does, for one rule and one moment.
LEMMA Window ==
    ASSUME NEW r, r.days \subseteq Days, r.start \in Minutes, r.end \in Minutes,
           r.start # r.end, NEW at \in [day : Days, minute : Minutes]
    PROVE  InWindow(r, at) <=> Covers(r, at)
  <1> DEFINE L == (r.end - r.start) % Day
  <1>0. at.day \in Days /\ at.minute \in Minutes /\ Days \subseteq Nat /\ Minutes \subseteq Nat
    BY DEF Days, Minutes
  <1>1. L = IF r.start < r.end THEN r.end - r.start ELSE Day + r.end - r.start
    BY Length
  <1>2. L \in Nat /\ L < Day
    BY <1>1, DayNat DEF Minutes
  <1>3. ASSUME NEW d \in Days, NEW k \in 0 .. L - 1
        PROVE  (d * Day + r.start + k) % (Week * Day) = at.day * Day + at.minute
               <=> \/ r.start + k < Day /\ d = at.day /\ r.start + k = at.minute
                   \/ ~(r.start + k < Day) /\ d = (at.day - 1) % Week
                      /\ r.start + k - Day = at.minute
    <2> DEFINE m == r.start + k
    <2>1. m \in Nat /\ m < Day + Day /\ d \in Nat /\ d * Day \in Nat
      <3>1. d \in Nat
        BY DEF Days
      <3>2. d * Day \in Nat
        BY <3>1, DayNat, Z3
      <3> QED BY <3>1, <3>2, <1>2, DayNat DEF Minutes
    <2>2. d * Day + r.start + k = d * Day + m
      BY <2>1, <1>2 DEF Minutes
    <2>3. (d * Day + m) % (Week * Day) =
             IF m < Day THEN d * Day + m ELSE ((d + 1) % Week) * Day + (m - Day)
      BY <2>1, Moment
    <2>4. CASE m < Day
      <3>1. m \in Minutes
        BY <2>1, <2>4, DayNat DEF Minutes
      <3> HIDE DEF m
      <3>2. d * Day + m = at.day * Day + at.minute => d = at.day /\ m = at.minute
        BY <1>0, <2>1, <3>1, Unique
      <3> USE DEF m
      <3> QED BY <2>2, <2>3, <2>4, <3>2
    <2>5. CASE ~(m < Day)
      <3>1. m - Day \in Minutes
        BY <2>1, <2>5, DayNat DEF Minutes
      <3>2. (d + 1) % Week \in Days
        BY <2>1, DayNat DEF Days
      <3> DEFINE e == (d + 1) % Week
                 n == m - Day
      <3> HIDE DEF e, n
      <3>3. e * Day + n = at.day * Day + at.minute => e = at.day /\ n = at.minute
        <4>1. e \in Nat /\ n \in Minutes
          BY <1>0, <3>1, <3>2 DEF e, n
        <4> QED BY <1>0, <4>1, Unique
      <3> USE DEF e, n
      <3>4. (d + 1) % Week = at.day <=> d = (at.day - 1) % Week
        BY <1>0, NextDay
      <3>5. (d * Day + r.start + k) % (Week * Day) = e * Day + n
        BY <2>2, <2>3, <2>5
      <3>6. ~(r.start + k < Day) /\ n = r.start + k - Day
        BY <1>2, <2>5, DayNat DEF Minutes
      <3>7. (e * Day + n = at.day * Day + at.minute) <=> (e = at.day /\ n = at.minute)
        BY <3>3
      <3>8. e = at.day <=> d = (at.day - 1) % Week
        BY <3>4
      <3> HIDE DEF e, n, m
      <3> QED BY <3>5, <3>6, <3>7, <3>8
    <2> QED BY <2>4, <2>5
  <1>4. ASSUME InWindow(r, at) PROVE Covers(r, at)
    <2>1. CASE r.start <= at.minute /\ at.day \in r.days /\ at.minute - r.start < L
      <3>1. at.minute - r.start \in 0 .. L - 1
        BY <1>0, <1>2, <2>1 DEF Minutes
      <3>2. r.start + (at.minute - r.start) = at.minute /\ at.minute < Day
        BY <1>0, DayNat DEF Minutes
      <3>3. (at.day * Day + r.start + (at.minute - r.start)) % (Week * Day)
              = at.day * Day + at.minute
        BY <1>0, <1>3, <3>1, <3>2
      <3> QED BY <2>1, <3>1, <3>3 DEF Covers
    <2>2. CASE r.end < r.start /\ at.minute < r.end /\ (at.day - 1) % Week \in r.days
      <3> DEFINE k == at.minute + Day - r.start
      <3>1. k \in 0 .. L - 1
        BY <1>0, <1>1, <2>2, DayNat DEF Minutes
      <3>2. ~(r.start + k < Day) /\ r.start + k - Day = at.minute
        BY <1>0, DayNat DEF Minutes
      <3>3. (at.day - 1) % Week \in Days
        BY <2>2
      <3>4. (((at.day - 1) % Week) * Day + r.start + k) % (Week * Day)
              = at.day * Day + at.minute
        BY <1>3, <3>1, <3>2, <3>3
      <3> QED BY <2>2, <3>1, <3>4 DEF Covers
    <2> QED BY <1>0, <1>1, <1>4, <2>1, <2>2, DayNat DEF InWindow, DayEnabled, Minutes
  <1>5. ASSUME Covers(r, at) PROVE InWindow(r, at)
    <2>1. PICK d \in r.days, k \in 0 .. L - 1 :
             (d * Day + r.start + k) % (Week * Day) = at.day * Day + at.minute
      BY <1>5 DEF Covers
    <2>2. d \in Days
      BY <2>1
    <2>3. CASE r.start + k < Day /\ d = at.day /\ r.start + k = at.minute
      BY <1>0, <1>1, <2>1, <2>3, DayNat DEF InWindow, DayEnabled, Minutes
    <2>4. CASE ~(r.start + k < Day) /\ d = (at.day - 1) % Week
               /\ r.start + k - Day = at.minute
      BY <1>0, <1>1, <2>1, <2>4, DayNat DEF InWindow, DayEnabled, Minutes
    <2> QED BY <1>3, <2>1, <2>2, <2>3, <2>4
  <1> QED BY <1>4, <1>5

\* The clock shows a time of the week.
OnTime == now \in [day : Days, minute : Minutes]

\* No step of the program or of the world takes the clock off the week.
LEMMA OnTimeStep == OnTime /\ [Next]_vars => OnTime'
  <1> SUFFICES ASSUME OnTime, [Next]_vars PROVE OnTime'
    OBVIOUS
  <1>1. CASE Tick
    <2>1. After(now) \in [day : Days, minute : Minutes]
      BY DayNat DEF OnTime, After, Days, Minutes
    <2> QED BY <1>1, <2>1 DEF Tick, OnTime
  <1>2. CASE Restart
    BY <1>2 DEF Restart, OnTime
  <1>3. CASE PassBegin \/ Pass \/ UNCHANGED vars
    BY <1>3 DEF OnTime, PassBegin, Pass, PassNext, RecordRead, RecordWrite,
                LightFlip, LightCall,
                Rise, NightCall, PowerRead, PowerCall, CoverMove, CoverDone, vars, world
  <1>4. ASSUME NEW r \in Rules, AddSchedule(r) \/ SetScheduleEnabled(r) \/ DeleteSchedule(r)
        PROVE  OnTime'
    BY <1>4 DEF OnTime, AddSchedule, SetScheduleEnabled, DeleteSchedule
  <1>5. ASSUME NEW c \in Cameras,
               SetCamera(c, "archived") \/ SetCamera(c, "record") \/ SetLight(c)
        PROVE  OnTime'
    BY <1>5 DEF OnTime, SetCamera, SetLight
  <1>6. ASSUME NEW d \in Devices, SetRelay(d) \/ SetDeviceEnabled(d)
        PROVE  OnTime'
    BY <1>6 DEF OnTime, SetRelay, SetDeviceEnabled
  <1> QED BY <1>1, <1>2, <1>3, <1>4, <1>5, <1>6 DEF Next, World

\* At every moment every rule is in force exactly when its weekday mask and its
\* times say: the window test of scheduler.py:56 is right.
THEOREM WindowsAreRight == Spec => []WindowsMatch
  <1>1. Init => OnTime
    BY DEF Init, OnTime
  <1>2. OnTime => WindowsMatch
    <2> SUFFICES ASSUME OnTime, NEW r \in Rules
                 PROVE  Active(r, now) <=> Covers(RuleOf[r], now)
      BY DEF WindowsMatch
    <2>1. /\ RuleOf[r].days \subseteq Days /\ RuleOf[r].start \in Minutes
          /\ RuleOf[r].end \in Minutes /\ RuleOf[r].start # RuleOf[r].end
      BY SchedulerAssumption
    <2> QED BY <2>1, Window DEF Active, OnTime
  <1> QED BY <1>1, <1>2, OnTimeStep, PTL DEF Spec

-----------------------------------------------------------------------------
(* What a pass goes through. *)

Times == [day : Days, minute : Minutes]

\* What the stage says about the targets left and the call under way.
StageOK ==
    /\ pass.stage \in {"record", "light"} =>
          pass.todo \subseteq Cameras /\ pass.call \in Cameras \cup {None}
    /\ pass.stage = "power" => pass.todo \subseteq Devices /\ pass.call \in Devices \cup {None}
    /\ pass.stage \in {"nightvision", "cover"} =>
          /\ \A r \in pass.todo : r \in Rules /\ RuleOf[r].action = pass.stage
          /\ pass.call # None => pass.call \in Rules /\ RuleOf[pass.call].action = pass.stage
    /\ pass.stage = "idle" => pass = Idle
    /\ pass.moves # {} => pass.stage = "cover" /\ pass.call # None

Shape == TypeOK /\ StageOK

LEMMA Kinds ==
  ASSUME NEW r \in Rules
  PROVE  /\ RuleOf[r].action \in {"record", "light", "nightvision"} => RuleOf[r].target \in Cameras
         /\ RuleOf[r].action = "power" => RuleOf[r].target \in Devices
         /\ RuleOf[r].action = "cover" => RuleOf[r].target \subseteq Shades
  <1>1. RuleOf[r].action \in Actions /\ RuleOf[r].target \in Targets(RuleOf[r].action)
    BY SchedulerAssumption
  <1> QED BY <1>1 DEF Targets, Actions

LEMMA ItemsAre ==
  ASSUME NEW action \in Actions, NEW rows \in SUBSET Rules
  PROVE  /\ action \in {"record", "light"} => Items(action, rows) \subseteq Cameras
         /\ action = "power" => Items(action, rows) \subseteq Devices
         /\ action \in {"nightvision", "cover"} =>
               Items(action, rows) = {r \in rows : RuleOf[r].action = action}
         /\ action \notin {"nightvision", "cover"} =>
               \A x : RulesFor(action, x, rows) # {} => x \in Items(action, rows)
  BY Kinds DEF Items, RulesFor, Actions

LEMMA OrderIs ==
  /\ Len(Order) = 5 /\ DOMAIN Order = 1 .. 5
  /\ Order[1] = "record" /\ Order[2] = "light" /\ Order[3] = "nightvision"
  /\ Order[4] = "power" /\ Order[5] = "cover"
  /\ \A i \in 1 .. 5 : Order[i] \in Actions
  BY DEF Order, Actions

LEMMA Least ==
  ASSUME NEW S \in SUBSET (1 .. 5), S # {}
  PROVE  \E i \in S : \A j \in S : i <= j
  <1>1. CASE 1 \in S
    BY <1>1
  <1>2. CASE 1 \notin S /\ 2 \in S
    BY <1>2
  <1>3. CASE 1 \notin S /\ 2 \notin S /\ 3 \in S
    BY <1>3
  <1>4. CASE 1 \notin S /\ 2 \notin S /\ 3 \notin S /\ 4 \in S
    BY <1>4
  <1>5. CASE 1 \notin S /\ 2 \notin S /\ 3 \notin S /\ 4 \notin S
    <2>1. \A i \in S : i \in 1 .. 5 /\ i \notin {1, 2, 3, 4}
      BY <1>5
    <2>2. PICK i \in S : TRUE
      OBVIOUS
    <2>3. \A j \in S : j = 5
      BY <2>1
    <2>4. \A j \in S : i <= j
      BY <2>2, <2>3
    <2> QED BY <2>2, <2>4
  <1> QED BY <1>1, <1>2, <1>3, <1>4, <1>5

\* Enter goes to the next kind of rule there is, and ends the pass if there is none.
LEMMA EnterStep ==
  ASSUME NEW p \in PassType, NEW from \in 1 .. 6
  PROVE  \/ /\ Enter(p, from) = Idle
            /\ \A i \in from .. 5 : Items(Order[i], p.rows) = {}
         \/ \E k \in from .. 5 :
              /\ Enter(p, from) = [p EXCEPT !.stage = Order[k],
                                            !.todo = Items(Order[k], p.rows)]
              /\ \A i \in from .. k - 1 : Items(Order[i], p.rows) = {}
  <1> DEFINE left == {i \in from .. Len(Order) : Items(Order[i], p.rows) # {}}
             k == CHOOSE i \in left : \A j \in left : i <= j
  <1>1. CASE left = {}
    BY <1>1, OrderIs DEF Enter
  <1>2. CASE left # {}
    <2>1. left \subseteq 1 .. 5
      BY OrderIs
    <2>2. \E i \in left : \A j \in left : i <= j
      BY <1>2, <2>1, Least
    <2>3. k \in left /\ \A j \in left : k <= j
      BY <2>2
    <2>4. k \in from .. 5 /\ \A i \in from .. k - 1 : Items(Order[i], p.rows) = {}
      <3>1. Len(Order) = 5
        BY OrderIs
      <3> HIDE DEF k
      <3>2. k \in from .. 5
        BY <2>3, <3>1
      <3>3. ASSUME NEW i \in from .. k - 1
            PROVE  i \notin left /\ i \in from .. 5
        <4>1. i \in Int /\ k \in Int /\ ~(k <= i) /\ i \in from .. 5
          BY <3>2, <3>3
        <4> HIDE DEF left
        <4> QED BY <2>3, <4>1
      <3> QED BY <3>1, <3>2, <3>3
    <2>5. Enter(p, from) = [p EXCEPT !.stage = Order[k], !.todo = Items(Order[k], p.rows)]
      BY <1>2 DEF Enter
    <2> HIDE DEF k
    <2> QED BY <2>4, <2>5
  <1> QED BY <1>1, <1>2

\* The pass moves on to stage k, over kinds of which there is no rule.
EnterAt(q, p, from, k) ==
    /\ q.stage = Order[k] /\ q.todo = Items(Order[k], p.rows)
    /\ q.rows = p.rows /\ q.at = p.at /\ q.call = None /\ q.moves = {}
    /\ \A i \in from .. k - 1 : Items(Order[i], p.rows) = {}

LEMMA EnterType ==
  ASSUME NEW p \in PassType, NEW from \in 1 .. 6, p.call = None, p.moves = {},
         pass' = Enter(p, from)
  PROVE  /\ pass' \in PassType /\ StageOK'
         /\ \/ /\ pass' = Idle
               /\ \A i \in from .. 5 : Items(Order[i], p.rows) = {}
            \/ \E k \in from .. 5 : EnterAt(pass', p, from, k)
  <1>1. Idle \in PassType /\ Idle.stage = "idle" /\ Idle.moves = {}
    BY DayNat DEF Idle, PassType, Days, Minutes
  <1>2. CASE pass' = Idle /\ \A i \in from .. 5 : Items(Order[i], p.rows) = {}
    BY <1>1, <1>2 DEF StageOK
  <1>3. ASSUME NEW k \in from .. 5,
               pass' = [p EXCEPT !.stage = Order[k], !.todo = Items(Order[k], p.rows)],
               \A i \in from .. k - 1 : Items(Order[i], p.rows) = {}
        PROVE  pass' \in PassType /\ StageOK' /\ EnterAt(pass', p, from, k)
    <2>1. Order[k] \in Actions /\ p.rows \in SUBSET Rules
      BY OrderIs DEF PassType
    <2>2. Items(Order[k], p.rows) \subseteq Cameras \cup Devices \cup Rules
      BY <2>1, ItemsAre DEF Actions
    <2>3. PICK items, stage : items = Items(Order[k], p.rows) /\ stage = Order[k]
      OBVIOUS
    <2>4. pass' = [stage |-> stage, rows |-> p.rows, at |-> p.at, todo |-> items,
                   call |-> None, moves |-> {}]
      BY <1>3, <2>3 DEF PassType
    <2>5. pass' \in PassType
      BY <2>1, <2>2, <2>3, <2>4 DEF PassType
    <2>6. StageOK'
      BY <2>1, <2>3, <2>4, ItemsAre DEF StageOK, Actions
    <2>7. EnterAt(pass', p, from, k)
      BY <1>3, <2>3, <2>4 DEF EnterAt
    <2> QED BY <2>5, <2>6, <2>7
  <1> QED BY <1>2, <1>3, EnterStep

\* A step inside a stage keeps what the pass began with.
SamePass == /\ pass'.stage = pass.stage /\ pass'.rows = pass.rows /\ pass'.at = pass.at
            /\ pass' \in PassType

LEMMA DoneIs ==
  ASSUME pass \in PassType, NEW x \in pass.todo
  PROVE  /\ Done(x) => /\ SamePass /\ pass'.todo = pass.todo \ {x}
                       /\ pass'.call = pass.call /\ pass'.moves = pass.moves
         /\ Call(x) => /\ SamePass /\ pass'.todo = pass.todo \ {x}
                       /\ pass'.call = x /\ pass'.moves = pass.moves
  BY DEF Done, Call, SamePass, PassType

LEMMA ReturnedIs ==
  ASSUME pass \in PassType, Returned
  PROVE  SamePass /\ pass'.todo = pass.todo /\ pass'.call = None /\ pass'.moves = pass.moves
  BY DEF Returned, SamePass, PassType

\* One step of a kind that goes by rising edges.
LEMMA RiseIs ==
  ASSUME Shape, NEW stage \in {"nightvision", "cover"}, Rise(stage)
  PROVE  \E r \in pass.todo :
           /\ r \in Rules /\ RuleOf[r].action = stage /\ pass.stage = stage
           /\ inside' = [inside EXCEPT ![r] = Active(r, pass.at)]
           /\ SamePass /\ pass.call = None /\ pass'.todo = pass.todo \ {r}
           /\ \/ pass'.call = None /\ pass'.moves = {}
              \/ /\ pass'.call = r /\ Active(r, pass.at) /\ ~inside[r]
                 /\ pass'.moves = IF stage = "cover" THEN RuleOf[r].target ELSE {}
           /\ UNCHANGED <<kept, world, seen, history, budget>>
  <1>1. pass \in PassType /\ StageOK /\ pass.stage = stage /\ pass.call = None
    BY DEF Shape, TypeOK, Rise, At
  <1>2. PICK r \in pass.todo :
           /\ inside' = [inside EXCEPT ![r] = Active(r, pass.at)]
           /\ IF Active(r, pass.at) /\ ~inside[r]
              THEN pass' = [pass EXCEPT !.todo = @ \ {r}, !.call = r,
                              !.moves = IF stage = "cover" THEN RuleOf[r].target ELSE {}]
              ELSE Done(r)
    BY DEF Rise
  <1>3. r \in Rules /\ RuleOf[r].action = stage /\ pass.moves = {}
    BY <1>1 DEF StageOK
  <1>4. UNCHANGED <<kept, world, seen, history, budget>>
    BY DEF Rise
  <1>5. CASE Done(r)
    BY <1>1, <1>2, <1>3, <1>4, <1>5, DoneIs
  <1>6. CASE ~Done(r)
    <2>1. PICK moves : moves = IF stage = "cover" THEN RuleOf[r].target ELSE {}
      OBVIOUS
    <2>2. moves \subseteq Shades
      BY <1>3, <2>1, Kinds
    <2>3. pass' = [pass EXCEPT !.todo = @ \ {r}, !.call = r, !.moves = moves]
          /\ Active(r, pass.at) /\ ~inside[r]
      BY <1>2, <1>6, <2>1
    <2>4. SamePass /\ pass'.todo = pass.todo \ {r} /\ pass'.call = r /\ pass'.moves = moves
      BY <1>1, <1>3, <2>2, <2>3 DEF SamePass, PassType
    <2> QED BY <1>1, <1>2, <1>3, <1>4, <2>1, <2>3, <2>4
  <1> QED BY <1>5, <1>6

LEMMA CoverIs ==
  ASSUME Shape, CoverMove
  PROVE  \E v \in pass.moves :
           /\ v \in Shades /\ pass.stage = "cover" /\ pass.call \in Rules
           /\ RuleOf[pass.call].action = "cover"
           /\ SamePass /\ pass'.todo = pass.todo /\ pass'.call = pass.call
           /\ pass'.moves = pass.moves \ {v} /\ Serve(v)
  BY DEF Shape, TypeOK, StageOK, CoverMove, SamePass, PassType

LEMMA ShapePass ==
  ASSUME Shape, PassBegin \/ Pass
  PROVE  Shape'
  <1>0. /\ pass \in PassType /\ StageOK /\ edits \in 0 .. MaxEdits /\ faults \in 0 .. MaxFaults
        /\ cam \in [Cameras -> [archived : BOOLEAN, record : BOOLEAN, light : BOOLEAN]]
        /\ dev \in [Devices -> [enabled : BOOLEAN, on : BOOLEAN]]
        /\ seen \in [Cameras \cup Devices -> BOOLEAN \cup {None}]
        /\ inside \in [Rules -> BOOLEAN] /\ now \in Times
        /\ served \subseteq Rules \X (Cameras \cup Shades)
        /\ table \in [Rules -> {"absent", "enabled", "disabled", "deleted"}]
        /\ {kept, quiet, refused} \subseteq BOOLEAN
        /\ byhand \subseteq Cameras \cup Devices /\ unheard \subseteq Devices
        /\ toggled \subseteq Rules
    BY DEF Shape, TypeOK, Times
  <1>a. MaxFaults \in Nat
    BY SchedulerAssumption
  <1>b. faults' \in 0 .. MaxFaults /\ refused' \in BOOLEAN
    <2>1. \/ Fails
          \/ faults' = faults /\ refused' = refused
          \/ faults' = faults /\ refused' = FALSE
      BY DEF PassBegin, Pass, PassNext, RecordRead, RecordWrite, LightFlip, LightCall,
         Rise, NightCall, PowerRead, PowerCall, Accepted, Unanswered, CoverMove, CoverDone,
         budget, history
    <2>2. Fails => faults' \in 0 .. MaxFaults /\ refused' \in BOOLEAN
      BY <1>0, <1>a DEF Fails
    <2>3. refused \in BOOLEAN
      BY <1>0
    <2> QED BY <1>0, <2>1, <2>2, <2>3
  <1> USE DEF world, memory, history, budget
  <1>1. CASE PassBegin
    <2>1. [Idle EXCEPT !.rows = Enabled, !.at = now] \in PassType
          /\ [Idle EXCEPT !.rows = Enabled, !.at = now].call = None
          /\ [Idle EXCEPT !.rows = Enabled, !.at = now].moves = {}
      BY <1>0 DEF Idle, PassType, Enabled, Times
    <2>2. PICK p : p = [Idle EXCEPT !.rows = Enabled, !.at = now]
      OBVIOUS
    <2>3. pass' = Enter(p, 1) /\ 1 \in 1 .. 6
      BY <1>1, <2>2 DEF PassBegin
    <2>4. pass' \in PassType /\ StageOK'
      BY <2>1, <2>2, <2>3, EnterType
    <2> QED BY <1>0, <1>1, <2>4 DEF PassBegin, Shape, TypeOK, Times
  <1>2. CASE PassNext
    <2>1. PICK i \in DOMAIN Order : Order[i] = pass.stage /\ pass' = Enter(pass, i + 1)
      BY <1>2 DEF PassNext
    <2>2. i + 1 \in 1 .. 6 /\ pass.call = None /\ pass.moves = {}
      BY <1>0, <1>2, <2>1, OrderIs DEF PassNext, StageOK
    <2>3. pass' \in PassType /\ StageOK'
      BY <1>0, <2>1, <2>2, EnterType
    <2> QED BY <1>0, <1>2, <2>3 DEF PassNext, Shape, TypeOK, Times
  <1>3. CASE RecordRead \/ PowerRead
    <2>1. PICK x \in pass.todo : Done(x) \/ Call(x)
      BY <1>3 DEF RecordRead, PowerRead
    <2>2. pass.stage \in {"record", "power"}
      BY <1>3 DEF RecordRead, PowerRead, At
    <2>3. pass' \in PassType /\ StageOK'
      BY <1>0, <2>1, <2>2, DoneIs DEF SamePass, StageOK
    <2> QED BY <1>0, <1>3, <2>3 DEF RecordRead, PowerRead, Shape, TypeOK, Times
  <1>4. CASE RecordWrite \/ LightCall \/ NightCall \/ PowerCall \/ CoverDone
    <2>1. Returned /\ pass.stage # "idle"
          /\ (pass.stage = "cover" => pass.moves = {} \/ ~CoverDone)
      BY <1>4 DEF RecordWrite, LightCall, NightCall, PowerCall, CoverDone
    <2>2. pass' \in PassType /\ StageOK'
      <3>1. pass.moves = {}
        BY <1>0, <1>4 DEF RecordWrite, LightCall, NightCall, PowerCall, CoverDone, StageOK
      <3> QED BY <1>0, <2>1, <3>1, ReturnedIs DEF SamePass, StageOK
    <2>3. CASE RecordWrite
      <3>1. pass.call \in Cameras /\ Want(pass.call) \in BOOLEAN
        BY <1>0, <2>3 DEF RecordWrite, StageOK, Want, Wants
      <3>2. cam' \in [Cameras -> [archived : BOOLEAN, record : BOOLEAN, light : BOOLEAN]]
        BY <1>0, <2>3, <3>1 DEF RecordWrite
      <3> QED BY <1>0, <2>2, <2>3, <3>2 DEF RecordWrite, Shape, TypeOK, Times
    <2>4. CASE LightCall
      <3>1. pass.call \in Cameras /\ Want(pass.call) \in BOOLEAN
        BY <1>0, <2>4 DEF LightCall, StageOK, Want, Wants
      <3>2. /\ cam' \in [Cameras -> [archived : BOOLEAN, record : BOOLEAN, light : BOOLEAN]]
            /\ byhand' \subseteq Cameras \cup Devices
        BY <1>0, <2>4, <3>1 DEF LightCall
      <3> QED BY <1>0, <1>b, <2>2, <2>4, <3>2 DEF LightCall, Shape, TypeOK, Times
    <2>5. CASE NightCall
      <3>1. pass.call \in Rules /\ RuleOf[pass.call].target \in Cameras
        BY <1>0, <2>5, Kinds DEF NightCall, StageOK
      <3>2. served' \subseteq Rules \X (Cameras \cup Shades)
        BY <1>0, <2>5, <3>1 DEF NightCall, Serve
      <3> QED BY <1>0, <1>b, <2>2, <2>5, <3>2 DEF NightCall, Shape, TypeOK, Times
    <2>6. CASE PowerCall
      <3>1. pass.call \in Devices /\ Want(pass.call) \in BOOLEAN
        BY <1>0, <2>6 DEF PowerCall, StageOK, Want, Wants
      <3>2. /\ dev' \in [Devices -> [enabled : BOOLEAN, on : BOOLEAN]]
            /\ seen' \in [Cameras \cup Devices -> BOOLEAN \cup {None}]
            /\ byhand' \subseteq Cameras \cup Devices /\ unheard' \subseteq Devices
        BY <1>0, <2>6, <3>1 DEF PowerCall, Accepted, Unanswered
      <3> QED BY <1>0, <1>b, <2>2, <2>6, <3>2 DEF PowerCall, Shape, TypeOK, Times
    <2>7. CASE CoverDone
      BY <1>0, <2>2, <2>7 DEF CoverDone, Shape, TypeOK, Times
    <2> QED BY <1>4, <2>3, <2>4, <2>5, <2>6, <2>7
  <1>5. CASE LightFlip
    <2>1. PICK c \in pass.todo : \/ Done(c) /\ UNCHANGED seen
                                 \/ Call(c) /\ seen' = [seen EXCEPT ![c] = Want(c)]
      BY <1>5 DEF LightFlip
    <2>2. pass.stage = "light" /\ c \in Cameras /\ Want(c) \in BOOLEAN
      BY <1>0, <1>5, <2>1 DEF LightFlip, At, StageOK, Want, Wants
    <2>3. pass' \in PassType /\ StageOK'
      BY <1>0, <2>1, <2>2, DoneIs DEF SamePass, StageOK
    <2>4. seen' \in [Cameras \cup Devices -> BOOLEAN \cup {None}]
      BY <1>0, <2>1, <2>2
    <2> QED BY <1>0, <1>5, <2>3, <2>4 DEF LightFlip, Shape, TypeOK, Times
  <1>6. ASSUME NEW stage \in {"nightvision", "cover"}, Rise(stage)
        PROVE  Shape'
    <2>1. PICK r \in pass.todo :
            /\ r \in Rules /\ RuleOf[r].action = stage /\ pass.stage = stage
            /\ inside' = [inside EXCEPT ![r] = Active(r, pass.at)]
            /\ SamePass /\ pass'.todo = pass.todo \ {r}
            /\ \/ pass'.call = None /\ pass'.moves = {}
               \/ /\ pass'.call = r
                  /\ pass'.moves = IF stage = "cover" THEN RuleOf[r].target ELSE {}
      BY <1>6, RiseIs
    <2>2. Active(r, pass.at) \in BOOLEAN
      BY DEF Active, InWindow
    <2>3. inside' \in [Rules -> BOOLEAN]
      BY <1>0, <2>1, <2>2
    <2>4. None \notin Rules
      BY SchedulerAssumption
    <2>5. pass' \in PassType /\ StageOK'
      BY <1>0, <2>1, <2>4 DEF SamePass, StageOK
    <2> QED BY <1>0, <1>6, <2>3, <2>5 DEF Rise, Shape, TypeOK, Times
  <1>7. CASE CoverMove
    <2>1. PICK v \in pass.moves :
           /\ v \in Shades /\ pass.stage = "cover" /\ pass.call \in Rules
           /\ SamePass /\ pass'.todo = pass.todo /\ pass'.call = pass.call
           /\ pass'.moves = pass.moves \ {v} /\ Serve(v)
      BY <1>7, CoverIs
    <2>2. pass' \in PassType /\ StageOK'
      BY <1>0, <2>1 DEF SamePass, StageOK
    <2>3. served' \subseteq Rules \X (Cameras \cup Shades)
      BY <1>0, <2>1 DEF Serve
    <2> QED BY <1>0, <1>b, <1>7, <2>2, <2>3 DEF CoverMove, Shape, TypeOK, Times
  <1> QED BY <1>1, <1>2, <1>3, <1>4, <1>5, <1>6, <1>7 DEF Pass

LEMMA ShapeWorld ==
  ASSUME Shape, World
  PROVE  Shape'
  <1>0. /\ pass \in PassType /\ StageOK /\ edits \in 0 .. MaxEdits
        /\ cam \in [Cameras -> [archived : BOOLEAN, record : BOOLEAN, light : BOOLEAN]]
        /\ dev \in [Devices -> [enabled : BOOLEAN, on : BOOLEAN]]
        /\ served \subseteq Rules \X (Cameras \cup Shades) /\ now \in Times
        /\ table \in [Rules -> {"absent", "enabled", "disabled", "deleted"}]
        /\ byhand \subseteq Cameras \cup Devices /\ unheard \subseteq Devices
        /\ toggled \subseteq Rules
    BY DEF Shape, TypeOK, Times
  <1>a. Edit => edits' \in 0 .. MaxEdits /\ quiet' = FALSE
    BY <1>0, SchedulerAssumption DEF Edit
  <1> USE DEF Shape, TypeOK, memory, budget
  <1>1. CASE Tick
    <2>1. now' \in Times
      BY <1>0, <1>1, DayNat DEF Tick, After, Times, Days, Minutes
    <2>2. served' \subseteq served
      BY <1>1 DEF Tick
    <2> QED BY <1>0, <1>1, <2>1, <2>2 DEF Tick, Times, StageOK
  <1>2. CASE Restart
    <2>1. /\ pass' \in PassType /\ StageOK' /\ now' \in Times
          /\ seen' \in [Cameras \cup Devices -> BOOLEAN \cup {None}]
          /\ inside' \in [Rules -> BOOLEAN]
      BY <1>2, DayNat
      DEF Restart, Idle, PassType, StageOK, Forgotten, Outside, Times, Days, Minutes
    <2> QED BY <1>0, <1>a, <1>2, <2>1 DEF Restart, Times
  <1>3. ASSUME NEW r \in Rules, AddSchedule(r) \/ SetScheduleEnabled(r) \/ DeleteSchedule(r)
        PROVE  Shape'
    BY <1>0, <1>a, <1>3
    DEF AddSchedule, SetScheduleEnabled, DeleteSchedule, StageOK
  <1>4. ASSUME NEW c \in Cameras,
               SetCamera(c, "archived") \/ SetCamera(c, "record") \/ SetLight(c)
        PROVE  Shape'
    <2>1. /\ cam' \in [Cameras -> [archived : BOOLEAN, record : BOOLEAN, light : BOOLEAN]]
          /\ byhand' \subseteq Cameras \cup Devices
      <3>2. \E b \in BOOLEAN : \/ cam' = [cam EXCEPT ![c].archived = b]
                               \/ cam' = [cam EXCEPT ![c].record = b]
                               \/ cam' = [cam EXCEPT ![c].light = b]
        BY <1>4 DEF SetCamera, SetLight
      <3>3. byhand' = byhand \/ byhand' = byhand \cup {c}
        BY <1>4 DEF SetCamera, SetLight
      <3>4. cam' \in [Cameras -> [archived : BOOLEAN, record : BOOLEAN, light : BOOLEAN]]
        BY <1>0, <3>2
      <3> QED BY <1>0, <3>3, <3>4
    <2> QED BY <1>0, <1>a, <1>4, <2>1 DEF SetCamera, SetLight, StageOK
  <1>5. ASSUME NEW d \in Devices, SetRelay(d) \/ SetDeviceEnabled(d)
        PROVE  Shape'
    <2>1. /\ dev' \in [Devices -> [enabled : BOOLEAN, on : BOOLEAN]]
          /\ byhand' \subseteq Cameras \cup Devices
      <3>2. \E b \in BOOLEAN : \/ dev' = [dev EXCEPT ![d].on = b]
                               \/ dev' = [dev EXCEPT ![d].enabled = b]
        BY <1>5 DEF SetRelay, SetDeviceEnabled
      <3>3. byhand' = byhand \/ byhand' = byhand \cup {d}
        BY <1>5 DEF SetRelay, SetDeviceEnabled
      <3>4. dev' \in [Devices -> [enabled : BOOLEAN, on : BOOLEAN]]
        BY <1>0, <3>2
      <3> QED BY <1>0, <3>3, <3>4
    <2> QED BY <1>0, <1>a, <1>5, <2>1 DEF SetRelay, SetDeviceEnabled, StageOK
  <1> QED BY <1>1, <1>2, <1>3, <1>4, <1>5 DEF World

LEMMA ShapeAlways == Spec => []Shape
  <1>1. Init => Shape
    <2> SUFFICES ASSUME Init PROVE Shape
      OBVIOUS
    <2>1. Idle \in PassType /\ StageOK
      BY DayNat DEF Init, Idle, PassType, StageOK, Days, Minutes
    <2>2. StartTables \subseteq [Rules -> {"absent", "enabled", "disabled", "deleted"}]
          /\ MaxEdits \in Nat /\ MaxFaults \in Nat
      BY SchedulerAssumption
    <2>3. /\ seen \in [Cameras \cup Devices -> BOOLEAN \cup {None}]
          /\ inside \in [Rules -> BOOLEAN]
          /\ dev \in [Devices -> [enabled : BOOLEAN, on : BOOLEAN]]
      BY DEF Init, Forgotten, Outside
    <2>4. cam \in [Cameras -> [archived : BOOLEAN, record : BOOLEAN, light : BOOLEAN]]
      BY DEF Init
    <2>5. /\ now \in [day : Days, minute : Minutes] /\ edits = 0 /\ faults = 0
          /\ table \in StartTables /\ byhand = {} /\ unheard = {} /\ served = {}
          /\ toggled = {}
          /\ kept = FALSE /\ quiet = FALSE /\ refused = FALSE /\ pass = Idle
      BY DEF Init
    <2>6. /\ byhand \subseteq Cameras \cup Devices /\ unheard \subseteq Devices
          /\ toggled \subseteq Rules
          /\ served \subseteq Rules \X (Cameras \cup Shades)
          /\ {kept, quiet, refused} \subseteq BOOLEAN
      BY <2>5
    <2>7. edits \in 0 .. MaxEdits /\ faults \in 0 .. MaxFaults
      BY <2>2, <2>5
    <2>8. table \in [Rules -> {"absent", "enabled", "disabled", "deleted"}]
      BY <2>2, <2>5
    <2>9. now \in [day : Days, minute : Minutes] /\ pass \in PassType
      BY <2>1, <2>5
    <2>10. TypeOK
      BY <2>3, <2>4, <2>6, <2>7, <2>8, <2>9 DEF TypeOK
    <2> QED BY <2>1, <2>10 DEF Shape
  <1>2. Shape /\ UNCHANGED vars => Shape'
    BY DEF Shape, TypeOK, StageOK, vars, world, memory, history, budget
  <1>3. Shape /\ [Next]_vars => Shape'
    BY <1>2, ShapePass, ShapeWorld DEF Next
  <1> QED BY <1>1, <1>3, PTL DEF Spec

\* The clock, the rules, the cameras and relays, and the locals of the pass stay in
\* their ranges.
THEOREM TypeInvariant == Spec => []TypeOK
  <1>1. Shape => TypeOK
    BY DEF Shape
  <1> QED BY <1>1, ShapeAlways, PTL

-----------------------------------------------------------------------------
(* What a pass that nobody disturbs leaves behind. *)

\* A pass that nothing disturbed still works from the rules and the clock as they are.
Reads == quiet /\ pass.stage # "idle" => pass.rows = Enabled /\ pass.at = now

\* x is still to be seen to in this stage.
Left(stage, x) == pass.stage = stage /\ (x \in pass.todo \/ x = pass.call)

\* The cameras behind it record as they should.
RecordDone ==
    quiet => \A c \in Cameras :
        Scheduled("record", c) /\ ~cam[c].archived /\ ~Left("record", c) =>
            cam[c].record = WantsNow("record", c)

\* What a relay has accepted is what it does, but for the hand of a person and a call
\* that it obeyed unheard.
Told == \A d \in Devices :
    seen[d] # None /\ d \notin byhand \cup unheard => dev[d].on = seen[d]

\* The relays behind it were told what they should be.
RelayDone ==
    quiet /\ ~refused /\ pass.stage \in {"power", "cover", "idle"} => \A d \in Devices :
        Scheduled("power", d) /\ dev[d].enabled /\ ~Left("power", d) =>
            seen[d] = WantsNow("power", d)

\* Everything but the pass disturbs it.
LEMMA Disturbed == World => quiet' = FALSE
  BY DEF World, Tick, Restart, AddSchedule, SetScheduleEnabled, DeleteSchedule, SetCamera,
     SetLight, SetRelay, SetDeviceEnabled, Edit

\* What a step of the pass leaves as it is.
LEMMA Stays ==
  ASSUME Shape, Pass
  PROVE  /\ now' = now /\ table' = table /\ quiet' = quiet /\ pass.stage # "idle"
         /\ Enabled' = Enabled
         /\ refused => refused'
         /\ PassNext \/ SamePass
  <1> USE DEF world, memory, history, budget
  <1>1. now' = now /\ table' = table /\ quiet' = quiet /\ (refused => refused')
    <2>1. CASE PassNext \/ RecordRead \/ RecordWrite \/ LightFlip \/ Rise("nightvision")
                 \/ Rise("cover") \/ PowerRead \/ CoverDone
      <3>1. UNCHANGED <<now, table>> /\ UNCHANGED history
        <4>1. CASE Rise("nightvision") \/ Rise("cover")
          BY <4>1 DEF Rise
        <4>2. CASE PassNext \/ RecordRead \/ PowerRead
          BY <4>2 DEF PassNext, RecordRead, PowerRead
        <4>3. CASE RecordWrite \/ LightFlip \/ CoverDone
          BY <4>3 DEF RecordWrite, LightFlip, CoverDone
        <4> QED BY <2>1, <4>1, <4>2, <4>3
      <3> QED BY <3>1
    <2>2. CASE LightCall \/ PowerCall
      BY <2>2 DEF LightCall, PowerCall, Accepted, Unanswered, Fails
    <2>3. CASE NightCall \/ CoverMove
      BY <2>3 DEF NightCall, CoverMove, Fails
    <2> QED BY <2>1, <2>2, <2>3 DEF Pass
  <1>2. pass.stage # "idle"
    BY DEF Pass, PassNext, RecordRead, RecordWrite, LightFlip, LightCall, Rise,
       NightCall, PowerRead, PowerCall, CoverMove, CoverDone, At
  <1>3. pass \in PassType
    BY DEF Shape, TypeOK
  <1>4. PassNext \/ SamePass
    <2>1. CASE RecordRead \/ LightFlip \/ PowerRead
      <3>1. \E x \in pass.todo : Done(x) \/ Call(x)
        BY <2>1 DEF RecordRead, LightFlip, PowerRead
      <3> QED BY <1>3, <3>1, DoneIs
    <2>2. CASE RecordWrite \/ LightCall \/ NightCall \/ PowerCall \/ CoverDone
      BY <1>3, <2>2, ReturnedIs DEF RecordWrite, LightCall, NightCall, PowerCall, CoverDone
    <2>3. CASE Rise("nightvision") \/ Rise("cover")
      BY <2>3, RiseIs
    <2>4. CASE CoverMove
      BY <2>4, CoverIs
    <2> QED BY <2>1, <2>2, <2>3, <2>4 DEF Pass
  <1> QED BY <1>1, <1>2, <1>4 DEF Enabled

\* The next kind of rule: what was still to be done of this kind is done.
LEMMA NextIs ==
  ASSUME Shape, PassNext
  PROVE  \E i \in 1 .. 5 :
           /\ Order[i] = pass.stage /\ pass.todo = {} /\ pass.call = None
           /\ \/ /\ pass' = Idle
                 /\ \A j \in i + 1 .. 5 : Items(Order[j], pass.rows) = {}
              \/ \E k \in i + 1 .. 5 : EnterAt(pass', pass, i + 1, k)
  <1>1. PICK i \in DOMAIN Order : Order[i] = pass.stage /\ pass' = Enter(pass, i + 1)
    BY DEF PassNext
  <1>2. /\ i \in 1 .. 5 /\ i + 1 \in 1 .. 6 /\ pass \in PassType
        /\ pass.todo = {} /\ pass.call = None /\ pass.moves = {}
    BY <1>1, OrderIs DEF PassNext, Shape, TypeOK, StageOK
  <1>3. \/ /\ pass' = Idle
           /\ \A j \in i + 1 .. 5 : Items(Order[j], pass.rows) = {}
        \/ \E k \in i + 1 .. 5 : EnterAt(pass', pass, i + 1, k)
    BY <1>1, <1>2, EnterType
  <1> QED BY <1>1, <1>2, <1>3

\* The first kind of rule there is.
LEMMA BeginIs ==
  ASSUME Shape, PassBegin
  PROVE  /\ now' = now /\ Enabled' = Enabled /\ quiet' /\ ~refused'
         /\ UNCHANGED <<cam, dev, seen, inside, byhand, unheard, served>>
         /\ \/ /\ pass' = Idle
               /\ \A j \in 1 .. 5 : Items(Order[j], Enabled) = {}
            \/ \E k \in 1 .. 5 :
                 /\ pass'.stage = Order[k] /\ pass'.todo = Items(Order[k], Enabled)
                 /\ pass'.rows = Enabled /\ pass'.at = now /\ pass'.call = None
                 /\ \A j \in 1 .. k - 1 : Items(Order[j], Enabled) = {}
  <1>1. PICK p : p = [Idle EXCEPT !.rows = Enabled, !.at = now]
    OBVIOUS
  <1>2. p \in PassType /\ p.call = None /\ p.moves = {} /\ p.rows = Enabled /\ p.at = now
    BY <1>1 DEF Idle, PassType, Enabled, Shape, TypeOK
  <1>3. pass' = Enter(p, 1) /\ 1 \in 1 .. 6
    BY <1>1 DEF PassBegin
  <1>4. \/ /\ pass' = Idle
           /\ \A j \in 1 .. 5 : Items(Order[j], p.rows) = {}
        \/ \E k \in 1 .. 5 : EnterAt(pass', p, 1, k)
    BY <1>2, <1>3, EnterType
  <1>5. /\ now' = now /\ Enabled' = Enabled /\ quiet' /\ ~refused'
        /\ UNCHANGED <<cam, dev, seen, inside, byhand, unheard, served>>
    BY DEF PassBegin, Enabled, world, memory
  <1> QED BY <1>2, <1>4, <1>5 DEF EnterAt

LEMMA ReadsStep == Shape /\ Reads /\ [Next]_vars => Reads'
  <1> SUFFICES ASSUME Shape, Reads, [Next]_vars PROVE Reads'
    OBVIOUS
  <1>1. CASE PassBegin
    BY <1>1, BeginIs DEF Reads, Idle
  <1>2. CASE Pass
    <2>1. CASE PassNext
      <3>1. pass'.stage = "idle" \/ (pass'.rows = pass.rows /\ pass'.at = pass.at)
        BY <2>1, NextIs DEF EnterAt, Idle
      <3> QED BY <1>2, <3>1, Stays DEF Reads
    <2>2. CASE SamePass
      BY <1>2, <2>2, Stays DEF Reads, SamePass
    <2> QED BY <1>2, <2>1, <2>2, Stays
  <1>3. CASE World
    BY <1>3, Disturbed DEF Reads
  <1>4. CASE UNCHANGED vars
    BY <1>4 DEF Reads, Enabled, vars, world, history
  <1> QED BY <1>1, <1>2, <1>3, <1>4 DEF Next

\* Nothing but the pass's own writes touches what a camera records, between two
\* passes that nothing disturbs.
LEMMA RecordDoneStep == Shape /\ Reads /\ RecordDone /\ [Next]_vars => RecordDone'
  <1> SUFFICES ASSUME Shape, Reads, RecordDone, [Next]_vars PROVE RecordDone'
    OBVIOUS
  <1>0. /\ pass \in PassType /\ StageOK /\ None \notin Cameras
        /\ cam \in [Cameras -> [archived : BOOLEAN, record : BOOLEAN, light : BOOLEAN]]
    BY SchedulerAssumption DEF Shape, TypeOK
  <1>1. CASE PassBegin
    <2>1. ASSUME NEW c \in Cameras, Scheduled("record", c)', ~Left("record", c)'
          PROVE  FALSE
      <3>1. RulesFor("record", c, Enabled) # {}
        BY <1>1, <2>1, BeginIs DEF Scheduled
      <3>2. c \in Items("record", Enabled)
        BY <3>1, ItemsAre DEF Actions, Enabled
      <3>3. Items(Order[1], Enabled) # {}
        BY <3>2, OrderIs
      <3>4. PICK k \in 1 .. 5 :
              /\ pass'.stage = Order[k] /\ pass'.todo = Items(Order[k], Enabled)
              /\ \A j \in 1 .. k - 1 : Items(Order[j], Enabled) = {}
        BY <1>1, <3>3, BeginIs
      <3>5. k = 1
        BY <3>3, <3>4
      <3> QED BY <2>1, <3>2, <3>4, <3>5, OrderIs DEF Left
    <2> QED BY <2>1 DEF RecordDone
  <1>2. CASE Pass
    <2> SUFFICES ASSUME quiet', NEW c \in Cameras, Scheduled("record", c)',
                        ~cam'[c].archived, ~Left("record", c)'
                 PROVE  cam'[c].record = WantsNow("record", c)'
      BY DEF RecordDone
    <2>1. /\ quiet /\ Scheduled("record", c) /\ pass.rows = Enabled /\ pass.at = now
          /\ WantsNow("record", c)' = WantsNow("record", c)
      BY <1>2, Stays DEF Reads, Scheduled, WantsNow
    <2>2. ~cam[c].archived /\ ~Left("record", c) => cam[c].record = WantsNow("record", c)
      BY <2>1 DEF RecordDone
    <2>3. CASE RecordRead
      <3>1. PICK x \in pass.todo :
              IF cam[x].archived \/ cam[x].record = Want(x) THEN Done(x) ELSE Call(x)
        BY <2>3 DEF RecordRead
      <3>2. cam' = cam /\ pass.stage = "record" /\ pass.call = None
        BY <2>3 DEF RecordRead, At, world
      <3>3. pass'.stage = "record" /\ pass'.todo = pass.todo \ {x}
            /\ (Done(x) \/ pass'.call = x)
        BY <1>0, <3>1, <3>2, DoneIs DEF SamePass
      <3>4. CASE c = x
        <4>1. Done(x)
          BY <3>1, <3>3, <3>4 DEF Left
        <4>2. cam[c].record = Want(c)
          <5>1. cam[c].archived \/ cam[c].record = Want(c) \/ Call(x)
            BY <3>1, <3>4
          <5>2. ~Call(x)
            BY <1>0, <3>1, <3>3, <3>4, DoneIs DEF Left
          <5> QED BY <3>2, <5>1, <5>2
        <4> QED BY <2>1, <3>2, <4>2 DEF Want, WantsNow
      <3>5. CASE c # x
        BY <1>0, <2>1, <2>2, <3>2, <3>3, <3>5 DEF Left
      <3> QED BY <3>4, <3>5
    <2>4. CASE RecordWrite
      <3>1. /\ pass.stage = "record" /\ pass.call \in Cameras /\ Returned
            /\ cam' = [cam EXCEPT ![pass.call].record = Want(pass.call)]
        BY <1>0, <2>4 DEF RecordWrite, StageOK
      <3>2. pass'.stage = "record" /\ pass'.todo = pass.todo
        BY <1>0, <3>1, ReturnedIs DEF SamePass
      <3>3. CASE c = pass.call
        <4>1. cam'[c].record = Want(c)
          BY <1>0, <3>1, <3>3
        <4> QED BY <2>1, <3>1, <4>1 DEF Want, WantsNow
      <3>4. CASE c # pass.call
        BY <1>0, <2>1, <2>2, <3>1, <3>2, <3>4 DEF Left
      <3> QED BY <3>3, <3>4
    <2>5. CASE PassNext
      <3>1. cam' = cam /\ ~Left("record", c)
        BY <1>0, <2>5 DEF PassNext, world, Left
      <3> QED BY <2>1, <2>2, <3>1
    <2>6. CASE ~RecordRead /\ ~RecordWrite /\ ~PassNext
      <3>1. pass.stage # "record"
        BY <1>2, <2>6 DEF Pass, LightFlip, LightCall, Rise, NightCall, PowerRead, PowerCall,
           CoverMove, CoverDone, At
      <3>2. cam'[c].record = cam[c].record /\ cam'[c].archived = cam[c].archived
        <4>1. CASE LightCall
          <5>1. pass.call \in Cameras
            BY <1>0, <4>1 DEF LightCall, StageOK
          <5>2. cam' = cam \/ cam' = [cam EXCEPT ![pass.call].light = Want(pass.call)]
            BY <4>1 DEF LightCall
          <5> QED BY <1>0, <5>1, <5>2
        <4>2. CASE ~LightCall
          <5>1. cam' = cam
            BY <1>2, <2>6, <4>2 DEF Pass, LightFlip, Rise, NightCall, PowerRead, PowerCall,
               CoverMove, CoverDone, world
          <5> QED BY <5>1
        <4> QED BY <4>1, <4>2
      <3> QED BY <2>1, <2>2, <3>1, <3>2 DEF Left
    <2> QED BY <2>3, <2>4, <2>5, <2>6
  <1>3. CASE World
    BY <1>3, Disturbed DEF RecordDone
  <1>4. CASE UNCHANGED vars
    BY <1>4 DEF RecordDone, Scheduled, WantsNow, Enabled, Left, vars, world, history
  <1> QED BY <1>1, <1>2, <1>3, <1>4 DEF Next

\* What the scheduler remembers of a relay and what the relay does part only when
\* a person comes between, or an answer does not come.
LEMMA ToldStep == Shape /\ Told /\ [Next]_vars => Told'
  <1> SUFFICES ASSUME Shape, Told, [Next]_vars PROVE Told'
    OBVIOUS
  <1>0. /\ StageOK /\ None \notin BOOLEAN /\ Cameras \cap Devices = {}
        /\ None \notin Cameras \cup Devices
        /\ dev \in [Devices -> [enabled : BOOLEAN, on : BOOLEAN]]
        /\ seen \in [Cameras \cup Devices -> BOOLEAN \cup {None}]
    BY SchedulerAssumption DEF Shape, TypeOK
  <1>1. CASE PowerCall
    <2>1. pass.call \in Devices
      BY <1>0, <1>1 DEF PowerCall, StageOK
    <2>2. CASE Unanswered(pass.call) /\ UNCHANGED seen
      <3>1. /\ byhand' = byhand /\ unheard \subseteq unheard' /\ seen' = seen
            /\ \A d \in Devices : dev'[d].on = dev[d].on \/ d \in unheard'
        <4>1. CASE UNCHANGED <<dev, unheard>>
          BY <2>2, <4>1 DEF Unanswered
        <4>2. CASE /\ dev' = [dev EXCEPT ![pass.call].on = Want(pass.call)]
                   /\ unheard' = unheard \cup {pass.call}
          BY <1>0, <2>1, <2>2, <4>2 DEF Unanswered
        <4> QED BY <2>2, <4>1, <4>2 DEF Unanswered
      <3> QED BY <3>1 DEF Told
    <2>3. CASE Accepted(pass.call) /\ seen' = [seen EXCEPT ![pass.call] = Want(pass.call)]
      <3>1. /\ dev' = [dev EXCEPT ![pass.call].on = Want(pass.call)]
            /\ seen' = [seen EXCEPT ![pass.call] = Want(pass.call)]
            /\ byhand' = byhand \ {pass.call} /\ unheard' = unheard \ {pass.call}
        BY <2>3 DEF Accepted
      <3>2. dev'[pass.call].on = seen'[pass.call]
        BY <1>0, <2>1, <3>1
      <3>3. \A d \in Devices : d # pass.call =>
              /\ dev'[d].on = dev[d].on /\ seen'[d] = seen[d]
              /\ d \in byhand' <=> d \in byhand
              /\ d \in unheard' <=> d \in unheard
        BY <1>0, <2>1, <3>1
      <3> QED BY <3>2, <3>3 DEF Told
    <2> QED BY <1>1, <2>2, <2>3 DEF PowerCall
  <1>2. CASE LightFlip \/ LightCall
    <2>1. dev' = dev /\ unheard' = unheard
          /\ (byhand' = byhand \/ byhand' = byhand \ {pass.call})
          /\ (byhand' # byhand => pass.call \in Cameras)
      BY <1>0, <1>2 DEF LightFlip, LightCall, world, history, StageOK
    <2>2. \A d \in Devices : seen'[d] = seen[d]
      <3>1. CASE LightFlip
        <4>1. PICK c \in pass.todo : seen' = seen \/ seen' = [seen EXCEPT ![c] = Want(c)]
          BY <3>1 DEF LightFlip
        <4>2. c \in Cameras
          BY <1>0, <3>1, <4>1 DEF LightFlip, At, StageOK
        <4> QED BY <1>0, <4>1, <4>2
      <3>2. CASE LightCall
        BY <3>2 DEF LightCall, memory
      <3> QED BY <1>2, <3>1, <3>2
    <2> QED BY <1>0, <2>1, <2>2 DEF Told
  <1>3. CASE Pass /\ ~PowerCall /\ ~LightFlip /\ ~LightCall
    <2>1. UNCHANGED <<dev, seen, byhand, unheard>>
      <3>1. CASE Rise("nightvision") \/ Rise("cover")
        BY <3>1 DEF Rise, world, history
      <3>2. CASE PassNext \/ RecordRead \/ RecordWrite \/ PowerRead \/ CoverDone
        BY <3>2 DEF PassNext, RecordRead, RecordWrite, PowerRead, CoverDone, world, memory,
           history
      <3>3. CASE NightCall \/ CoverMove
        BY <3>3 DEF NightCall, CoverMove, world, memory
      <3> QED BY <1>3, <3>1, <3>2, <3>3 DEF Pass
    <2> QED BY <2>1 DEF Told
  <1>4. CASE PassBegin
    BY <1>4, BeginIs DEF Told
  <1>5. ASSUME NEW d \in Devices, SetRelay(d) \/ SetDeviceEnabled(d)
        PROVE  Told'
    <2>1. seen' = seen /\ byhand \subseteq byhand' /\ unheard' = unheard
      BY <1>5 DEF SetRelay, SetDeviceEnabled, memory
    <2>2. \A x \in Devices : dev'[x].on = dev[x].on \/ x \in byhand'
      <3>1. CASE SetRelay(d)
        <4>1. dev' = [dev EXCEPT ![d].on = ~@] /\ d \in byhand'
          BY <3>1 DEF SetRelay
        <4> QED BY <1>0, <4>1
      <3>2. CASE SetDeviceEnabled(d)
        <4>1. PICK b \in BOOLEAN : dev' = [dev EXCEPT ![d].enabled = b]
          BY <3>2 DEF SetDeviceEnabled
        <4> QED BY <1>0, <4>1
      <3> QED BY <1>5, <3>1, <3>2
    <2> QED BY <1>0, <2>1, <2>2 DEF Told
  <1>6. CASE Restart
    BY <1>6 DEF Restart, Forgotten, Told
  <1>7. CASE Tick
    BY <1>7 DEF Tick, memory, Told
  <1>8. ASSUME NEW r \in Rules, AddSchedule(r) \/ SetScheduleEnabled(r) \/ DeleteSchedule(r)
        PROVE  Told'
    BY <1>8 DEF AddSchedule, SetScheduleEnabled, DeleteSchedule, memory, Told
  <1>9. ASSUME NEW c \in Cameras,
               SetCamera(c, "archived") \/ SetCamera(c, "record") \/ SetLight(c)
        PROVE  Told'
    <2>1. dev' = dev /\ seen' = seen /\ byhand \subseteq byhand' /\ unheard' = unheard
      BY <1>9 DEF SetCamera, SetLight, memory
    <2> QED BY <2>1 DEF Told
  <1>10. CASE UNCHANGED vars
    BY <1>10 DEF Told, vars, world, memory, history
  <1> QED BY <1>1, <1>2, <1>3, <1>4, <1>5, <1>6, <1>7, <1>8, <1>9, <1>10 DEF Next, World

\* Until a call fails, each relay the pass has been to was told what the rules say.
LEMMA RelayDoneStep == Shape /\ Reads /\ RelayDone /\ [Next]_vars => RelayDone'
  <1> SUFFICES ASSUME Shape, Reads, RelayDone, [Next]_vars PROVE RelayDone'
    OBVIOUS
  <1>0. /\ pass \in PassType /\ StageOK /\ Cameras \cap Devices = {}
        /\ None \notin Devices
        /\ dev \in [Devices -> [enabled : BOOLEAN, on : BOOLEAN]]
        /\ seen \in [Cameras \cup Devices -> BOOLEAN \cup {None}]
    BY SchedulerAssumption DEF Shape, TypeOK
  <1>1. ASSUME NEW d \in Devices, RulesFor("power", d, pass.rows) # {}
        PROVE  d \in Items("power", pass.rows)
    BY <1>0, <1>1, ItemsAre DEF Actions, PassType
  <1>2. CASE PassBegin
    <2>1. ASSUME NEW d \in Devices, Scheduled("power", d)', ~Left("power", d)',
                 pass'.stage \in {"power", "cover", "idle"}
          PROVE  FALSE
      <3>1. RulesFor("power", d, Enabled) # {}
        BY <1>2, <2>1, BeginIs DEF Scheduled
      <3>2. d \in Items("power", Enabled)
        BY <3>1, ItemsAre DEF Actions, Enabled
      <3>3. Items(Order[4], Enabled) # {}
        BY <3>2, OrderIs
      <3>4. PICK k \in 1 .. 5 :
              /\ pass'.stage = Order[k] /\ pass'.todo = Items(Order[k], Enabled)
              /\ \A j \in 1 .. k - 1 : Items(Order[j], Enabled) = {}
        BY <1>2, <3>3, BeginIs
      <3>5. k = 4
        <4>1. k # 5
          BY <3>3, <3>4
        <4> QED BY <2>1, <3>4, <4>1, OrderIs
      <3> QED BY <2>1, <3>2, <3>4, <3>5, OrderIs DEF Left
    <2> QED BY <2>1 DEF RelayDone
  <1>3. CASE Pass
    <2> SUFFICES ASSUME quiet', ~refused', pass'.stage \in {"power", "cover", "idle"},
                        NEW d \in Devices, Scheduled("power", d)',
                        dev'[d].enabled, ~Left("power", d)'
                 PROVE  seen'[d] = WantsNow("power", d)'
      BY DEF RelayDone
    <2>1. /\ quiet /\ ~refused /\ Scheduled("power", d)
          /\ pass.rows = Enabled /\ pass.at = now
          /\ WantsNow("power", d)' = WantsNow("power", d)
      BY <1>3, Stays DEF Reads, Scheduled, WantsNow
    <2>2. dev[d].enabled /\ ~Left("power", d) /\ pass.stage \in {"power", "cover"} =>
            seen[d] = WantsNow("power", d)
      BY <2>1 DEF RelayDone
    <2>3. CASE PassNext
      <3>1. dev' = dev /\ seen' = seen
        BY <2>3 DEF PassNext, world, memory
      <3>2. PICK i \in 1 .. 5 :
           /\ Order[i] = pass.stage /\ pass.todo = {} /\ pass.call = None
           /\ \/ /\ pass' = Idle
                 /\ \A j \in i + 1 .. 5 : Items(Order[j], pass.rows) = {}
              \/ \E k \in i + 1 .. 5 : EnterAt(pass', pass, i + 1, k)
        BY <2>3, NextIs
      <3>3. d \in Items(Order[4], pass.rows)
        BY <1>1, <2>1, OrderIs DEF Scheduled
      <3>4. CASE i >= 4
        <4>1. pass.stage \in {"power", "cover"} /\ ~Left("power", d)
          BY <1>0, <3>2, <3>4, OrderIs DEF Left
        <4> QED BY <2>1, <2>2, <3>1, <4>1
      <3>5. CASE i < 4
        <4>1. Items(Order[4], pass.rows) # {} /\ 4 \in i + 1 .. 5
          BY <3>3, <3>5
        <4>2. PICK k \in i + 1 .. 5 : EnterAt(pass', pass, i + 1, k)
          BY <3>2, <4>1
        <4>3. k # 5
          BY <3>5, <4>1, <4>2 DEF EnterAt
        <4>4. k = 4
          BY <4>2, <4>3, <3>2, OrderIs DEF EnterAt
        <4>5. d \in pass'.todo /\ pass'.stage = "power"
          BY <3>3, <4>2, <4>4, OrderIs DEF EnterAt
        <4> QED BY <4>5 DEF Left
      <3> QED BY <3>4, <3>5
    <2>4. CASE PowerRead
      <3>1. PICK x \in pass.todo :
              IF seen[x] = Want(x) \/ ~dev[x].enabled THEN Done(x) ELSE Call(x)
        BY <2>4 DEF PowerRead
      <3>2. dev' = dev /\ seen' = seen /\ pass.stage = "power" /\ pass.call = None
        BY <2>4 DEF PowerRead, At, world, memory
      <3>3. /\ pass'.stage = "power" /\ pass'.todo = pass.todo \ {x}
            /\ Call(x) => pass'.call = x
        BY <1>0, <3>1, <3>2, DoneIs DEF SamePass
      <3>4. CASE d = x
        <4>1. ~Call(x)
          BY <3>3, <3>4 DEF Left
        <4>2. seen[d] = Want(d)
          BY <3>1, <3>2, <3>4, <4>1
        <4> QED BY <2>1, <3>2, <4>2 DEF Want, WantsNow
      <3>5. CASE d # x
        BY <1>0, <2>1, <2>2, <3>2, <3>3, <3>5 DEF Left
      <3> QED BY <3>4, <3>5
    <2>5. CASE PowerCall
      <3>1. /\ pass.stage = "power" /\ pass.call \in Devices /\ Returned
            /\ dev' = [dev EXCEPT ![pass.call].on = Want(pass.call)]
            /\ seen' = [seen EXCEPT ![pass.call] = Want(pass.call)]
        BY <1>0, <2>5 DEF PowerCall, Accepted, Unanswered, StageOK, Fails
      <3>2. pass'.stage = "power" /\ pass'.todo = pass.todo
        BY <1>0, <3>1, ReturnedIs DEF SamePass
      <3>3. CASE d = pass.call
        <4>1. seen'[d] = Want(d)
          BY <1>0, <3>1, <3>3
        <4> QED BY <2>1, <3>1, <4>1 DEF Want, WantsNow
      <3>4. CASE d # pass.call
        <4>1. seen'[d] = seen[d] /\ dev'[d].enabled = dev[d].enabled
          BY <1>0, <3>1, <3>4
        <4> QED BY <2>1, <2>2, <3>1, <3>2, <3>4, <4>1 DEF Left
      <3> QED BY <3>3, <3>4
    <2>6. CASE ~PassNext /\ ~PowerRead /\ ~PowerCall
      <3>1. pass'.stage = pass.stage /\ pass.stage \in {"power", "cover"}
        BY <1>3, <2>6, Stays DEF SamePass
      <3>2. Rise("cover") \/ CoverMove \/ CoverDone
        BY <1>3, <2>6, <3>1 DEF Pass, RecordRead, RecordWrite, LightFlip, LightCall, Rise,
           NightCall, At
      <3>3. dev' = dev /\ seen' = seen /\ pass.stage = "cover"
        BY <3>2 DEF Rise, CoverMove, CoverDone, At, world, memory
      <3> QED BY <2>1, <2>2, <3>3 DEF Left
    <2> QED BY <2>3, <2>4, <2>5, <2>6
  <1>4. CASE World
    BY <1>4, Disturbed DEF RelayDone
  <1>5. CASE UNCHANGED vars
    BY <1>5 DEF RelayDone, Scheduled, WantsNow, Enabled, Left, vars, world, memory, history
  <1> QED BY <1>2, <1>3, <1>4, <1>5 DEF Next

LEMMA PassLeaves == Spec => [](Shape /\ Reads /\ RecordDone /\ Told /\ RelayDone)
  <1>1. Init => Reads /\ RecordDone /\ Told /\ RelayDone
    BY DEF Init, Reads, RecordDone, Told, RelayDone, Forgotten
  <1>2. Shape /\ Reads /\ RecordDone /\ Told /\ RelayDone /\ [Next]_vars =>
            Reads' /\ RecordDone' /\ Told' /\ RelayDone'
    BY ReadsStep, RecordDoneStep, ToldStep, RelayDoneStep
  <1> QED BY <1>1, <1>2, ShapeAlways, PTL DEF Spec

\* A camera with a recording rule records, or not, as its rules say when a pass has
\* gone over it undisturbed (_apply_record): whatever it was set to by hand before,
\* and whichever passes were disturbed.
THEOREM CamerasFollowRules == Spec => []RecordsAsScheduled
  <1>1. RecordDone => RecordsAsScheduled
    BY DEF RecordDone, RecordsAsScheduled, PassWentWell, Left
  <1> QED BY <1>1, PassLeaves, PTL

\* A relay with a power rule is on, or not, as its rules say when a pass of which no
\* call failed has gone over it: a refusal on an earlier pass is made good
\* (_apply_device_power).  Only a person who has switched it since it last accepted a
\* call, or a call since that it obeyed without being heard, can leave it otherwise.
THEOREM RelaysFollowRules == Spec => []RelaysAsScheduled
  <1>1. ASSUME Told, RelayDone, PassWentWell, NEW d \in Devices,
               Scheduled("power", d), dev[d].enabled, d \notin byhand \cup unheard
        PROVE  dev[d].on = WantsNow("power", d)
    <2>1. seen[d] = WantsNow("power", d)
      BY <1>1 DEF RelayDone, PassWentWell, Left
    <2>2. WantsNow("power", d) \in BOOLEAN
      BY DEF WantsNow, Wants
    <2>3. seen[d] # None
      BY <2>1, <2>2, SchedulerAssumption
    <2> QED BY <1>1, <2>1, <2>3 DEF Told
  <1>2. Told /\ RelayDone => RelaysAsScheduled
    BY <1>1 DEF RelaysAsScheduled
  <1> QED BY <1>2, PassLeaves, PTL

-----------------------------------------------------------------------------
(* Each shade once in an opening. *)

\* A rule that was carried out is remembered as inside, and its window is open, both
\* by the clock and by the clock the pass goes by.  A rule that is being carried out
\* was not, and a shade it has moved is not among those it will still move.
Once ==
    /\ \A s \in served : /\ inside[s[1]] /\ Active(s[1], now)
                         /\ pass.stage # "idle" => Active(s[1], pass.at)
    /\ pass.stage \in {"nightvision", "cover"} /\ pass.call # None =>
         /\ Active(pass.call, pass.at) /\ inside[pass.call]
         /\ \A s \in served :
              s[1] = pass.call => pass.stage = "cover" /\ s[2] \notin pass.moves

LEMMA OnceStep == Shape /\ Once /\ [Next]_vars => Once'
  <1> SUFFICES ASSUME Shape, Once, [Next]_vars PROVE Once'
    OBVIOUS
  <1>0. /\ pass \in PassType /\ StageOK /\ None \notin Rules
        /\ inside \in [Rules -> BOOLEAN]
        /\ served \subseteq Rules \X (Cameras \cup Shades)
    BY SchedulerAssumption DEF Shape, TypeOK
  <1>1. CASE PassBegin
    <2>1. /\ served' = served /\ inside' = inside /\ now' = now /\ pass'.call = None
          /\ pass'.stage # "idle" => pass'.at = now
      BY <1>1, BeginIs DEF Idle
    <2> QED BY <2>1 DEF Once, Active
  <1>2. CASE PassNext
    <2>1. /\ served' = served /\ inside' = inside /\ now' = now /\ pass.stage # "idle"
      BY <1>2 DEF PassNext, history, memory, world
    <2>2. pass'.call = None /\ (pass'.stage # "idle" => pass'.at = pass.at)
      BY <1>2, NextIs DEF EnterAt, Idle
    <2> QED BY <2>1, <2>2 DEF Once, Active
  <1>3. ASSUME NEW stage \in {"nightvision", "cover"}, Rise(stage)
        PROVE  Once'
    <2>1. PICK r \in pass.todo :
           /\ r \in Rules /\ RuleOf[r].action = stage /\ pass.stage = stage
           /\ inside' = [inside EXCEPT ![r] = Active(r, pass.at)]
           /\ SamePass /\ pass.call = None /\ pass'.todo = pass.todo \ {r}
           /\ \/ pass'.call = None /\ pass'.moves = {}
              \/ /\ pass'.call = r /\ Active(r, pass.at) /\ ~inside[r]
                 /\ pass'.moves = IF stage = "cover" THEN RuleOf[r].target ELSE {}
           /\ UNCHANGED <<kept, world, seen, history, budget>>
      BY <1>3, RiseIs
    <2>2. now' = now /\ served' = served /\ pass'.at = pass.at /\ pass'.stage = pass.stage
      BY <2>1 DEF world, history, SamePass
    <2>3. \A s \in served : s[1] \in Rules /\ inside[s[1]] /\ Active(s[1], now)
                            /\ Active(s[1], pass.at)
      BY <1>0, <1>3, <2>1 DEF Once
    <2>4. \A s \in served : inside'[s[1]]
      BY <1>0, <2>1, <2>3
    <2>5. pass'.call # None =>
             /\ Active(pass'.call, pass.at) /\ inside'[pass'.call]
             /\ \A s \in served : s[1] # pass'.call
      BY <1>0, <2>1, <2>3
    <2> QED BY <2>2, <2>3, <2>4, <2>5 DEF Once, Active
  <1>4. CASE NightCall
    <2>1. /\ pass.call \in Rules /\ pass.stage = "nightvision" /\ Returned
          /\ inside' = inside /\ now' = now
      BY <1>0, <1>4 DEF NightCall, StageOK, memory, world
    <2>2. pass'.stage = pass.stage /\ pass'.at = pass.at /\ pass'.call = None
      BY <1>0, <2>1, ReturnedIs DEF SamePass
    <2>3. \A s \in served' : s \in served \/ (s[1] = pass.call /\ Active(pass.call, now))
      BY <1>4 DEF NightCall, Serve
    <2>4. Active(pass.call, pass.at) /\ inside[pass.call]
      BY <1>0, <1>4, <2>1 DEF Once, NightCall
    <2> QED BY <2>1, <2>2, <2>3, <2>4 DEF Once, Active
  <1>5. CASE CoverMove
    <2>1. PICK v \in pass.moves :
           /\ v \in Shades /\ pass.stage = "cover" /\ pass.call \in Rules
           /\ SamePass /\ pass'.todo = pass.todo /\ pass'.call = pass.call
           /\ pass'.moves = pass.moves \ {v} /\ Serve(v)
      BY <1>5, CoverIs
    <2>2. inside' = inside /\ now' = now /\ pass'.at = pass.at /\ pass'.stage = pass.stage
      BY <1>5, <2>1 DEF CoverMove, memory, world, SamePass
    <2>3. \A s \in served' :
            s \in served \/ (s[1] = pass.call /\ s[2] = v /\ Active(pass.call, now))
      BY <2>1 DEF Serve
    <2>4. Active(pass.call, pass.at) /\ inside[pass.call]
          /\ \A s \in served : s[1] = pass.call => s[2] \notin pass.moves
      BY <1>0, <2>1 DEF Once
    <2> QED BY <2>1, <2>2, <2>3, <2>4 DEF Once, Active
  <1>6. CASE RecordRead \/ LightFlip \/ PowerRead \/ RecordWrite \/ LightCall \/ PowerCall
               \/ CoverDone
    <2>1. /\ served' = served /\ inside' = inside /\ now' = now /\ pass.stage # "idle"
      BY <1>6 DEF RecordRead, LightFlip, PowerRead, RecordWrite, LightCall, PowerCall,
         CoverDone, history, memory, world, At
    <2>2. pass'.stage = pass.stage /\ pass'.at = pass.at
      <3>1. pass \in PassType
        BY <1>0
      <3>2. CASE RecordRead \/ LightFlip \/ PowerRead
        <4>1. \E x \in pass.todo : Done(x) \/ Call(x)
          BY <3>2 DEF RecordRead, LightFlip, PowerRead
        <4> QED BY <3>1, <4>1, DoneIs DEF SamePass
      <3>3. CASE RecordWrite \/ LightCall \/ PowerCall \/ CoverDone
        BY <3>1, <3>3, ReturnedIs DEF RecordWrite, LightCall, PowerCall, CoverDone, SamePass
      <3> QED BY <1>6, <3>2, <3>3
    <2>3. pass'.call = None \/ pass'.stage \notin {"nightvision", "cover"}
      <3>1. CASE CoverDone
        BY <1>0, <3>1, ReturnedIs DEF CoverDone
      <3>2. CASE ~CoverDone
        BY <1>6, <2>2, <3>2 DEF RecordRead, LightFlip, PowerRead, RecordWrite, LightCall,
           PowerCall, At
      <3> QED BY <3>1, <3>2
    <2> QED BY <2>1, <2>2, <2>3 DEF Once, Active
  <1>7. CASE Tick
    <2>1. /\ served' \subseteq served /\ inside' = inside /\ pass' = pass
          /\ \A s \in served' : Active(s[1], now)'
      BY <1>7 DEF Tick, memory, Active
    <2> QED BY <2>1 DEF Once, Active
  <1>8. CASE Restart
    BY <1>8 DEF Restart, Idle, Once
  <1>9. CASE World /\ ~Tick /\ ~Restart
    <2>1. UNCHANGED <<now, served, inside, pass>>
      <3>1. ASSUME NEW r \in Rules,
                   AddSchedule(r) \/ SetScheduleEnabled(r) \/ DeleteSchedule(r)
            PROVE  UNCHANGED <<now, served, inside, pass>>
        BY <3>1 DEF AddSchedule, SetScheduleEnabled, DeleteSchedule, memory
      <3>2. ASSUME NEW c \in Cameras,
                   SetCamera(c, "archived") \/ SetCamera(c, "record") \/ SetLight(c)
            PROVE  UNCHANGED <<now, served, inside, pass>>
        BY <3>2 DEF SetCamera, SetLight, memory
      <3>3. ASSUME NEW d \in Devices, SetRelay(d) \/ SetDeviceEnabled(d)
            PROVE  UNCHANGED <<now, served, inside, pass>>
        BY <3>3 DEF SetRelay, SetDeviceEnabled, memory
      <3> QED BY <1>9, <3>1, <3>2, <3>3 DEF World
    <2> QED BY <2>1 DEF Once, Active
  <1>10. CASE UNCHANGED vars
    BY <1>10 DEF Once, Active, vars, world, memory, history
  <1> QED BY <1>1, <1>2, <1>3, <1>4, <1>5, <1>6, <1>7, <1>8, <1>9, <1>10 DEF Next, Pass

\* Between two restarts a rule moves each of its shades, and sets its camera's mode,
\* at most once while its window stays open (_apply_covers, _apply_nightvision),
\* however the clock, the edits and the calls fall in a pass.
THEOREM EachOnce == Spec => OncePerOpening
  <1>1. Init => Once
    BY DEF Init, Once, Idle
  <1>2. ASSUME Shape, Once, NEW s \in served, pass.call = s[1], s[1] \in Rules,
               pass.stage = "nightvision" \/ s[2] \in pass.moves
        PROVE  FALSE
    <2>1. None \notin Rules
      BY SchedulerAssumption
    <2>2. StageOK
      BY <1>2 DEF Shape
    <2>3. pass.stage \in {"nightvision", "cover"} /\ pass.call # None
      BY <1>2, <2>1, <2>2 DEF StageOK
    <2> QED BY <1>2, <2>3 DEF Once
  <1>3. Shape /\ Once =>
          \A s \in served : ~(pass.call = s[1] /\ s[1] \in Rules
                              /\ \/ pass.stage = "nightvision" /\ pass'.call = None
                                 \/ s[2] \in pass.moves \ pass'.moves)
                            \/ pass' = Idle
    <2> SUFFICES ASSUME Shape, Once, NEW s \in served, pass.call = s[1], s[1] \in Rules,
                        \/ pass.stage = "nightvision" /\ pass'.call = None
                        \/ s[2] \in pass.moves \ pass'.moves
                 PROVE  FALSE
      OBVIOUS
    <2>1. pass.stage = "nightvision" \/ s[2] \in pass.moves
      OBVIOUS
    <2> QED BY <1>2, <2>1
  <1> QED BY <1>1, <1>3, OnceStep, ShapeAlways, PTL DEF Spec, OncePerOpening

=============================================================================
