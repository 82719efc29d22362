------------------------------ MODULE Registry ------------------------------
(***************************************************************************)
(* nvr/db.py and the requests of nvr/main.py, nvr/auth.py and nvr/admin.py *)
(* that edit it: accounts, sessions, cameras, devices, rooms, hubs, motors *)
(* schedules, tasks, calendars and the devices of the network.             *)
(*                                                                         *)
(* Each SQL statement is a transaction of its own, so a request is a       *)
(* sequence of statements and others come between any two of them.  The    *)
(* handlers that are coroutines share one event loop and let go of it only *)
(* at an await; the others, and the command line, run in threads.          *)
(*                                                                         *)
(* A request is data: the list of its statements.  Each definition of the  *)
(* second part is a handler, or a method of Database that handlers share.  *)
(***************************************************************************)
EXTENDS Integers, Sequences, FiniteSets, FiniteSetsExt, SequencesExt

CONSTANTS
    Requests,       \* each is made once; AUTOINCREMENT ids are their names
    Known,          \* table -> ids that browsers may name
    Free,           \* table -> ids a name may get, in the order they are tried
    Motors,         \* hub -> what its device_list answers; no motor leaves its hub
    Addresses,      \* MACs a scan of the network finds
    StartTables,    \* databases the program may start with
    Orders,         \* orders in which browsers may drop the rows of a page
    MaxCrashes,     \* bound
    None

Tables == {"users", "sessions", "cameras", "virtual", "segments", "schedules", "devices",
           "rooms", "hubs", "coverings", "lists", "tasks", "calendars", "events", "lan"}

\* Columns that name a row of another table, for as long as it is there.  The
\* session's is the only foreign key of the schema; the others are cleared, or
\* their rows deleted, by the handlers.  Not here are the columns that no delete
\* looks at: the owner of a calendar, who made an event or a task, and the camera
\* of a detection or of a saved clip.
FootageRefs  == {<<"segments", "camera", "cameras">>, <<"virtual", "parent", "cameras">>}
ScheduleRefs == {<<"schedules", "camera", "cameras">>, <<"schedules", "device", "devices">>,
                 <<"schedules", "covering", "coverings">>, <<"schedules", "room", "rooms">>}
CoveringRefs == {<<"coverings", "hub", "hubs">>, <<"coverings", "room", "rooms">>}
TaskRefs     == {<<"tasks", "list", "lists">>, <<"tasks", "assignee", "users">>}
Refs == {<<"sessions", "user", "users">>, <<"events", "calendar", "calendars">>}
        \cup FootageRefs \cup ScheduleRefs \cup CoveringRefs \cup TaskRefs

VARIABLES
    db,         \* table -> id -> row
    th,         \* request -> its locals and the statements left of it
    loop,       \* the coroutine on the event loop, or None
    late,       \* rows written when what they rely on was going or gone
    clash,      \* inserts of an id that was there, and whether another request
                \* had changed the accounts under the one that made it
    crashes

vars == <<db, th, loop, late, clash, crashes>>

Running(r) == th[r].todo # <<>>

Admins(d) == {u \in DOMAIN d.users : d.users[u].role = "admin"}

\* The pages whose rows are dropped into an order, and those rows: cameras and
\* their views are ranked together.
Pages == {"cameras", "rooms", "coverings", "tasks"}
PageTables(t) == IF t \in {"cameras", "virtual"} THEN {"cameras", "virtual"} ELSE {t}
RowsOf(d, p) == UNION {{t} \X DOMAIN d[t] : t \in PageTables(p)}
RankIn(d, x) == d[x[1]][x[2]].rank

---------------------------------------------------------------------------
(* Statements *)

Await               == [op |-> "await"]
Auth(token, admin)  == [op |-> "auth", token |-> token, admin |-> admin]
Need(tab, id)       == [op |-> "need", tab |-> tab, id |-> id]
NeedOf(tab, id, col, val) == [op |-> "needof", tab |-> tab, id |-> id, col |-> col, val |-> val]
Absent(tab, id)     == [op |-> "absent", tab |-> tab, id |-> id]
NoUsers             == [op |-> "nousers"]
OneOfMany           == [op |-> "oneofmany"]
NotMe(u)            == [op |-> "notme", id |-> u]
KeepAdmin(role)     == [op |-> "keepadmin", role |-> role]
Verify(pw)          == [op |-> "verify", pw |-> pw]
MayWrite(y)         == [op |-> "maywrite", id |-> y]
MayDelete(y)        == [op |-> "maydelete", id |-> y]
Unique(tab)         == [op |-> "unique", tab |-> tab]
Seed(tab, id)       == [op |-> "seed", tab |-> tab, id |-> id]
Listed(tab, col, val) == [op |-> "listed", tab |-> tab, col |-> col, val |-> val]
Put(tab, id, row)   == [op |-> "put", tab |-> tab, id |-> id, row |-> row]
PutPicked(tab, row) == [op |-> "putpicked", tab |-> tab, row |-> row]
PutNew(tab, id, row) == [op |-> "putnew", tab |-> tab, id |-> id, row |-> row]
Upsert(tab, id, row) == [op |-> "upsert", tab |-> tab, id |-> id, row |-> row]
Set(tab, id, col, val) == [op |-> "set", tab |-> tab, id |-> id, col |-> col, val |-> val]
Place(tab, id, rank) == [op |-> "place", tab |-> tab, id |-> id, rank |-> rank]
Del(tab, col, val)  == [op |-> "del", tab |-> tab, col |-> col, val |-> val, but |-> None]
DelBut(tab, col, val, id) == [op |-> "del", tab |-> tab, col |-> col, val |-> val, but |-> id]
DelListed(tab, col, val) == [op |-> "dellisted", tab |-> tab, col |-> col, val |-> val]
Null(tab, col, val) == [op |-> "null", tab |-> tab, col |-> col, val |-> val]
MarkAll             == [op |-> "markall"]

\* A handler that is a coroutine, one that is a thread, and the row it deletes
\* or the user it is about.
Async(todo) == [todo |-> todo, async |-> TRUE, kills |-> {}, on |-> None]
Sync(todo)  == [todo |-> todo, async |-> FALSE, kills |-> {}, on |-> None]
Kills(rows, program)    == [program EXCEPT !.kills = rows]
On(u, program)          == [program EXCEPT !.on = u]

---------------------------------------------------------------------------
(* Accounts: nvr/main.py, nvr/auth.py, nvr/admin.py *)

\* pw is the password of a user, and the one of a session when it was opened;
\* "given" is one an admin chose for somebody.
User(role, pw)     == [role |-> role, pw |-> pw]
Session(user, pw)  == [user |-> user, pw |-> pw]

SetupSubmit(r) == Sync(<<NoUsers, Put("users", "first", User("admin", "start")),
                         Put("sessions", r, Session("first", "start"))>>)
LoginSubmit(r, u) == Sync(<<Need("users", u), Verify("start"),
                            Put("sessions", r, Session(u, "start"))>>)
Logout(s) == Sync(<<Del("sessions", "id", s)>>)

\* The other sessions are signed out first.
ChangePasswordLast(r, s, u) == On(u, Async(<<Auth(s, FALSE), Await, Verify("start"),
    DelBut("sessions", "user", u, s), Set("users", u, "pw", r)>>))

\* The user is the one the middleware read, before the body arrived.
ChangePassword(r, s, u) == On(u, Async(<<Auth(s, FALSE), Await, Verify("start"),
    Set("users", u, "pw", r), DelBut("sessions", "user", u, s)>>))

CreateUser(r, s, role) == Async(<<Auth(s, TRUE), Await, Absent("users", "eve"),
                                  Put("users", "eve", User(role, r))>>)

\* The last admin is looked for before the body arrives.
UpdateUserEarly(r, s, u, role) == On(u, Async(<<Auth(s, TRUE), Need("users", u),
    KeepAdmin(role), Await, Set("users", u, "role", role)>>))

UpdateUser(r, s, u, role) == On(u, Async(<<Auth(s, TRUE), Need("users", u), Await,
    KeepAdmin(role), Set("users", u, "role", role)>>))
ResetUser(s, u) == On(u, Async(<<Auth(s, TRUE), Need("users", u), Await,
    Set("users", u, "pw", "given")>>))

DbDeleteUser(u) == <<Del("sessions", "user", u), Null("tasks", "assignee", u),
                     Del("users", "id", u)>>
DeleteUser(s, u) == Kills({<<"users", u>>}, On(u, Sync(<<Auth(s, TRUE), Need("users", u), NotMe(u),
                              KeepAdmin("gone")>> \o DbDeleteUser(u))))

CmdResetPassword(r, u) == On(u, Sync(<<Need("users", u), Set("users", u, "pw", r),
                                       Del("sessions", "user", u)>>))
CmdAddUser(r)    == Sync(<<Absent("users", "eve"), Put("users", "eve", User("admin", r))>>)
CmdDeleteUser(u) == Kills({<<"users", u>>}, On(u, Sync(<<Need("users", u), OneOfMany,
                              Del("sessions", "user", u), Del("users", "id", u)>>)))

---------------------------------------------------------------------------
(* Cameras, their views and their schedules.  a is an admin's session.  The *)
(* columns no property reads are not kept: such an update writes nothing.  *)

Schedule(camera, device, covering, room) ==
    [camera |-> camera, device |-> device, covering |-> covering, room |-> room, enabled |-> "yes"]

AddCamera(a) == Async(<<Auth(a, TRUE), Await, Unique("cameras"),
                        PutPicked("cameras", [archived |-> "no", rank |-> 0])>>)
UpdateCamera(a, c)  == Async(<<Auth(a, TRUE), Need("cameras", c), Await>>)
ArchiveCamera(a, c) == Sync(<<Auth(a, TRUE), Need("cameras", c), Set("cameras", c, "archived", "yes")>>)
RestoreCamera(a, c) == Sync(<<Auth(a, TRUE), Need("cameras", c), Set("cameras", c, "archived", "no")>>)

DbDeleteCamera(c) == <<Del("cameras", "id", c), Del("segments", "camera", c),
                       Del("virtual", "parent", c), Del("schedules", "camera", c)>>
DeleteCamera(a, c) == Kills({<<"cameras", c>>},
    Sync(<<Auth(a, TRUE), Need("cameras", c)>> \o DbDeleteCamera(c)))

CreateSchedule(r, a, c) == Async(<<Auth(a, TRUE), Need("cameras", c), Await,
                                   Put("schedules", r, Schedule(c, None, None, None))>>)
UpdateSchedule(a, c, x) == Async(<<Auth(a, TRUE), NeedOf("schedules", x, "camera", c), Await,
                                   Set("schedules", x, "enabled", "no")>>)
DeleteSchedule(a, c, x) == Sync(<<Auth(a, TRUE), NeedOf("schedules", x, "camera", c),
                                  Del("schedules", "id", x)>>)

CreateVirtual(r, a, c) == Async(<<Auth(a, TRUE), Need("cameras", c), Await,
                                  Put("virtual", r, [parent |-> c, rank |-> 0])>>)
UpdateVirtual(a, w) == Async(<<Auth(a, TRUE), Need("virtual", w), Await>>)
DeleteVirtual(a, w) == Sync(<<Auth(a, TRUE), Need("virtual", w), Del("virtual", "id", w)>>)

---------------------------------------------------------------------------
(* Devices *)

UniqueDeviceId == Unique("devices")
AddDevice(a) == Async(<<Auth(a, TRUE), Await, UniqueDeviceId,
                        PutPicked("devices", [enabled |-> "yes"])>>)
UpdateDevice(a, p) == Async(<<Auth(a, TRUE), Need("devices", p), Await,
                              Set("devices", p, "enabled", "no")>>)

\* The schedules of the device are left.
DbDeleteDeviceAlone(p) == <<Del("devices", "id", p)>>

DbDeleteDevice(p) == <<Del("devices", "id", p), Del("schedules", "device", p)>>
DeleteDevice(a, p) == Kills({<<"devices", p>>},
    Sync(<<Auth(a, TRUE), Need("devices", p)>> \o DbDeleteDevice(p)))
CreateDeviceSchedule(r, a, p) == Async(<<Auth(a, TRUE), Need("devices", p), Await,
                                         Put("schedules", r, Schedule(None, p, None, None))>>)
UpdateDeviceSchedule(a, p, x) == Async(<<Auth(a, TRUE), NeedOf("schedules", x, "device", p),
                                         Await, Set("schedules", x, "enabled", "no")>>)
DeleteDeviceSchedule(a, p, x) == Sync(<<Auth(a, TRUE), NeedOf("schedules", x, "device", p),
                                        Del("schedules", "id", x)>>)

---------------------------------------------------------------------------
(* Rooms, hubs and the motors behind them *)

Covering(hub, room) == [hub |-> hub, room |-> room, rank |-> 0]

AddRoom(r, a)    == Async(<<Auth(a, TRUE), Await, Put("rooms", r, [rank |-> 0])>>)
UpdateRoom(a, m) == Async(<<Auth(a, TRUE), Need("rooms", m), Await>>)
DbDeleteRoom(m)  == <<Del("rooms", "id", m), Null("coverings", "room", m),
                      Del("schedules", "room", m)>>
DeleteRoom(a, m) == Kills({<<"rooms", m>>}, Sync(<<Auth(a, TRUE), Need("rooms", m)>> \o DbDeleteRoom(m)))

\* _sync_hub_coverings: only motors it does not know, and it removes none.
SyncHubCoverings(h) ==
    <<Listed("coverings", "hub", h)>> \o
    [i \in DOMAIN Motors[h] |-> PutNew("coverings", Motors[h][i], Covering(h, None))]

AddHub(a, h) == Async(<<Auth(a, TRUE), Await, Await, Seed("hubs", h),
                        PutPicked("hubs", [enabled |-> "yes"])>> \o SyncHubCoverings(h))
RefreshHub(a, h) == Async(<<Auth(a, TRUE), Need("hubs", h), Await>> \o SyncHubCoverings(h))
UpdateHub(a, h)  == Async(<<Auth(a, TRUE), Need("hubs", h), Await,
                            Set("hubs", h, "enabled", "no")>>)
DbDeleteShadeHub(h) ==
    <<Listed("coverings", "hub", h)>> \o
    [i \in DOMAIN Motors[h] |-> DelListed("schedules", "covering", Motors[h][i])] \o
    <<Del("coverings", "hub", h), Del("hubs", "id", h)>>
DeleteHub(a, h) == Kills({<<"hubs", h>>} \cup {<<"coverings", Motors[h][i]>> : i \in DOMAIN Motors[h]},
    Sync(<<Auth(a, TRUE), Need("hubs", h)>> \o DbDeleteShadeHub(h)))

UpdateCovering(a, k, m) == Async(<<Auth(a, TRUE), Need("coverings", k), Await, Need("rooms", m),
                                   Set("coverings", k, "room", m)>>)
DbDeleteCovering(k) == <<Del("coverings", "id", k), Del("schedules", "covering", k)>>
DeleteCovering(a, k) == Kills({<<"coverings", k>>},
    Sync(<<Auth(a, TRUE), Need("coverings", k)>> \o DbDeleteCovering(k)))

AddCoverSchedule(r, a, k) == Async(<<Auth(a, TRUE), Await, Need("coverings", k),
                                     Put("schedules", r, Schedule(None, None, k, None))>>)
AddRoomSchedule(r, a, m)  == Async(<<Auth(a, TRUE), Await, Need("rooms", m),
                                     Put("schedules", r, Schedule(None, None, None, m))>>)
UpdateCoverSchedule(a, x) == Async(<<Auth(a, TRUE), NeedOf("schedules", x, "camera", None),
                                     NeedOf("schedules", x, "device", None), Await,
                                     Set("schedules", x, "enabled", "no")>>)
DeleteCoverSchedule(a, x) == Sync(<<Auth(a, TRUE), NeedOf("schedules", x, "camera", None),
                                    NeedOf("schedules", x, "device", None),
                                    Del("schedules", "id", x)>>)

---------------------------------------------------------------------------
(* Tasks, calendars and the inventory of the network *)

\* _ensure_task_lists, on the page and in its feed; three lists are one here.
TasksPage(r, s) == Sync(<<Auth(s, FALSE), Seed("lists", r), PutPicked("lists", [rank |-> 0])>>)

Task(list, assignee) == [list |-> list, assignee |-> assignee, rank |-> 0]
AddTask(r, s, l, u)  == Async(<<Auth(s, FALSE), Await, Need("lists", l), Need("users", u),
                                Put("tasks", r, Task(l, u))>>)
UpdateTask(s, t, tab, col, val) == Async(<<Auth(s, FALSE), Need("tasks", t), Await,
                                           Need(tab, val), Set("tasks", t, col, val)>>)
DeleteTask(s, t) == Sync(<<Auth(s, FALSE), Need("tasks", t), Del("tasks", "id", t)>>)
AddTaskList(r, a)    == Async(<<Auth(a, TRUE), Await, Put("lists", r, [rank |-> 0])>>)
UpdateTaskList(a, l) == Async(<<Auth(a, TRUE), Need("lists", l), Await>>)
DbDeleteTaskList(l)  == <<Del("lists", "id", l), Null("tasks", "list", l)>>
DeleteTaskList(a, l) == Kills({<<"lists", l>>},
    Sync(<<Auth(a, TRUE), Need("lists", l)>> \o DbDeleteTaskList(l)))

\* _ensure_shared_calendar.
EnsureShared == <<Seed("calendars", "family"), PutPicked("calendars", [owner |-> None])>>
CalendarPage(s) == Sync(<<Auth(s, FALSE)>> \o EnsureShared)

\* The list of names is looked at before the body arrives.
AddCalendarEarly(s, owner) == Async(<<Auth(s, owner = None), Unique("calendars"), Await,
                                      PutPicked("calendars", [owner |-> owner])>>)

AddCalendar(s, owner) == Async(<<Auth(s, owner = None), Await, Unique("calendars"),
                                 PutPicked("calendars", [owner |-> owner])>>)
UpdateCalendar(s, y)   == Async(<<Auth(s, FALSE), MayWrite(y), Await>>)
DbDeleteCalendar(y)    == <<Del("calendars", "id", y), Del("events", "calendar", y)>>
DeleteCalendar(s, y)   == Kills({<<"calendars", y>>},
    Sync(<<Auth(s, FALSE), MayDelete(y)>> \o DbDeleteCalendar(y)))
AddEvent(r, s, y) == Async(<<Auth(s, FALSE), Await>> \o EnsureShared \o
                           <<MayWrite(y), Put("events", r, [calendar |-> y])>>)
UpdateEvent(s, e, y) == Async(<<Auth(s, FALSE), Need("events", e), MayWrite(None), Await,
                                MayWrite(y), Set("events", e, "calendar", y)>>)
DeleteEvent(s, e) == Sync(<<Auth(s, FALSE), Need("events", e), MayWrite(None),
                            Del("events", "id", e)>>)

\* _annotate of what a scan found: the first scan ever is the baseline.
Sighting(label) == [baseline |-> "no", label |-> label]
NetworkScan(a) == Async(<<Auth(a, TRUE), Await, Seed("lan", "first")>> \o
    [i \in DOMAIN Addresses |-> Upsert("lan", Addresses[i], Sighting("no"))] \o <<MarkAll>>)
UpdateNetworkDevice(a, n) == Async(<<Auth(a, TRUE), Await, Upsert("lan", n, Sighting("yes")),
                                     Set("lan", n, "label", "yes")>>)
ForgetNetworkDevice(a, n) == Sync(<<Auth(a, TRUE), Need("lan", n), Del("lan", "id", n)>>)


\* The orders in which rows are dropped.  Cameras and their views share one, as
\* <<table, id>>; their handler skips what is gone and closes the ranks.
SetCameraSort(pairs)  == [i \in DOMAIN pairs |-> Place(pairs[i][1], pairs[i][2], i - 1)]
Ranks(tab, ids)       == [i \in DOMAIN ids |-> Place(tab, ids[i], i - 1)]
SetRoomOrder(ids)     == Ranks("rooms", ids)
SetCoveringOrder(ids) == Ranks("coverings", ids)
SetTaskOrder(ids)     == Ranks("tasks", ids)

CameraOrder(a, pairs) == Async(<<Auth(a, TRUE), Await>> \o SetCameraSort(pairs))

\* The loop is let go between two rows.
RoomOrderSlowly(a, ids) == Async(<<Auth(a, TRUE), Await>> \o
    FlattenSeq([i \in DOMAIN ids |-> <<SetRoomOrder(ids)[i], Await>>]))

RoomOrder(a, ids)     == Async(<<Auth(a, TRUE), Await>> \o SetRoomOrder(ids))
CoveringOrder(a, ids) == Async(<<Auth(a, TRUE), Await>> \o SetCoveringOrder(ids))
TaskOrder(s, ids)     == Async(<<Auth(s, FALSE), Await>> \o SetTaskOrder(ids))
---------------------------------------------------------------------------
(* What may be asked *)

Tokens == Known["sessions"]
Bosses == {s \in Tokens : Known["admin"][s]}

AccountRequests(r) ==
    {SetupSubmit(r), CmdAddUser(r)} \cup {Logout(s) : s \in Tokens}
    \cup (UNION {{LoginSubmit(r, u), CmdResetPassword(r, u), CmdDeleteUser(u)} : u \in Known["users"]})
    \cup {ChangePassword(r, s, Known["owner"][s]) : s \in Tokens}
    \cup (UNION {{CreateUser(r, a, role), UpdateUser(r, a, u, role), ResetUser(a, u), DeleteUser(a, u)} :
                 a \in Bosses, u \in Known["users"], role \in {"admin", "viewer"}})

CameraRequests(r, a) ==
    {AddCamera(a)} \cup {CameraOrder(a, o) : o \in Orders["cameras"]}
    \cup (UNION {{UpdateCamera(a, c), ArchiveCamera(a, c), RestoreCamera(a, c), DeleteCamera(a, c),
                 CreateSchedule(r, a, c), CreateVirtual(r, a, c)} : c \in Known["cameras"]})
    \cup (UNION {{UpdateSchedule(a, c, x), DeleteSchedule(a, c, x)} :
                 c \in Known["cameras"], x \in Known["schedules"]})
    \cup (UNION {{UpdateVirtual(a, w), DeleteVirtual(a, w)} : w \in Known["virtual"]})

DeviceRequests(r, a) ==
    {AddDevice(a)}
    \cup (UNION {{UpdateDevice(a, p), DeleteDevice(a, p), CreateDeviceSchedule(r, a, p)} :
                 p \in Known["devices"]})
    \cup (UNION {{UpdateDeviceSchedule(a, p, x), DeleteDeviceSchedule(a, p, x)} :
                 p \in Known["devices"], x \in Known["schedules"]})

BlindRequests(r, a) ==
    {AddRoom(r, a)}
    \cup {RoomOrder(a, o) : o \in Orders["rooms"]} \cup {CoveringOrder(a, o) : o \in Orders["coverings"]}
    \cup (UNION {{UpdateRoom(a, m), DeleteRoom(a, m), AddRoomSchedule(r, a, m)} : m \in Known["rooms"]})
    \cup (UNION {{AddHub(a, h), RefreshHub(a, h), UpdateHub(a, h), DeleteHub(a, h)} : h \in Known["hubs"]})
    \cup (UNION {{UpdateCovering(a, k, m), DeleteCovering(a, k), AddCoverSchedule(r, a, k)} :
                 k \in Known["coverings"], m \in Known["rooms"]})
    \cup (UNION {{UpdateCoverSchedule(a, x), DeleteCoverSchedule(a, x)} : x \in Known["schedules"]})

FamilyRequests(r, s, a) ==
    {TasksPage(r, s), CalendarPage(s), AddTaskList(r, a)}
    \cup {AddCalendar(s, None), AddCalendar(s, Known["owner"][s])}
    \cup {TaskOrder(s, o) : o \in Orders["tasks"]}
    \cup {AddTask(r, s, l, u) : l \in Known["lists"], u \in Known["users"]}
    \cup {UpdateTask(s, t, "lists", "list", l) : t \in Known["tasks"], l \in Known["lists"]}
    \cup {UpdateTask(s, t, "users", "assignee", u) : t \in Known["tasks"], u \in Known["users"]}
    \cup {DeleteTask(s, t) : t \in Known["tasks"]}
    \cup (UNION {{UpdateTaskList(a, l), DeleteTaskList(a, l)} : l \in Known["lists"]})
    \cup (UNION {{UpdateCalendar(s, y), DeleteCalendar(s, y), AddEvent(r, s, y)} : y \in Known["calendars"]})
    \cup (UNION {{UpdateEvent(s, e, y), DeleteEvent(s, e)} : e \in Known["events"], y \in Known["calendars"]})

NetworkRequests(a) ==
    {NetworkScan(a)} \cup (UNION {{UpdateNetworkDevice(a, n), ForgetNetworkDevice(a, n)} : n \in Known["lan"]})

\* Two requests that share no table commute, so each behaviour has the requests
\* of one part of the house.
Parts(r) ==
    LET a == CHOOSE s \in Bosses : TRUE IN
    <<AccountRequests(r) \cup FamilyRequests(r, a, a),
     CameraRequests(r, a) \cup DeviceRequests(r, a),
     BlindRequests(r, a),
     NetworkRequests(a)>>

---------------------------------------------------------------------------
(* The database and the loop *)

\* A thread is free to go on; a coroutine when the event loop is its own.
MayStep(r) == th[r].todo # <<>> /\ (th[r].async => loop \in {r, None})
Now(r) == Head(th[r].todo)

\* The loop is given back at an await and at the end.
Goes(r, locals, overtaken) ==
    LET rest == Tail(th[r].todo) IN
    /\ th' = [o \in Requests |->
               IF o = r THEN [locals EXCEPT !.todo = rest, !.begun = TRUE]
               ELSE [th[o] EXCEPT !.stale = @ \/ o \in overtaken]]
    /\ loop' = IF ~th[r].async THEN loop
               ELSE IF rest = <<>> \/ (rest # <<>> /\ Head(rest).op = "await") THEN None ELSE r
Refused(r) ==
    /\ th' = [th EXCEPT ![r] = [@ EXCEPT !.todo = <<>>, !.begun = TRUE]]
    /\ loop' = IF th[r].async THEN None ELSE loop

Row(tab, id)  == db[tab][id]
Is(tab, id)   == id \in DOMAIN db[tab]
Matching(tab, col, val) == {id \in DOMAIN db[tab] : IF col = "id" THEN id = val
                                                    ELSE db[tab][id][col] = val}

\* Whose calendar it is may delete it, and an admin one that is nobody's.
MayDrop(y, u, role) ==
    LET owner == Row("calendars", y).owner IN owner = u \/ (owner = None /\ role = "admin")

\* A check a request makes of the database, by its name.
Holds(r, c) ==
    CASE c.op = "auth" -> /\ Is("sessions", c.token)
                          /\ Is("users", Row("sessions", c.token).user)
                          /\ c.admin => Row("users", Row("sessions", c.token).user).role = "admin"
      [] c.op = "need"      -> Is(c.tab, c.id)
      [] c.op = "needof"    -> Is(c.tab, c.id) /\ Row(c.tab, c.id)[c.col] = c.val
      [] c.op = "absent"    -> ~Is(c.tab, c.id)
      [] c.op = "nousers"   -> DOMAIN db.users = {}
      [] c.op = "oneofmany" -> Cardinality(DOMAIN db.users) # 1
      [] c.op = "notme"     -> th[r].me.id # c.id
      [] c.op = "keepadmin" -> \/ c.role = "admin" \/ th[r].row.role # "admin"
                               \/ Cardinality(Admins(db)) > 1
      [] c.op = "verify"    -> th[r].row.pw = c.pw
      [] c.op = "maywrite"  -> LET y == IF c.id = None THEN th[r].row.calendar ELSE c.id
                               IN  Is("calendars", y) /\ Row("calendars", y).owner \in {None, th[r].me.id}
      [] c.op = "maydelete" -> Is("calendars", c.id) /\ MayDrop(c.id, th[r].me.id, th[r].me.role)
Checks == {"auth", "need", "needof", "absent", "nousers", "oneofmany", "notme", "keepadmin",
           "verify", "maywrite", "maydelete"}

\* What the request remembers of it.
Learnt(r, c) ==
    LET u == Row("sessions", c.token).user IN
    CASE c.op = "auth" -> [th[r] EXCEPT !.me = [id |-> u, role |-> Row("users", u).role],
                                        !.row = Row("users", u)]
      [] c.op \in {"need", "needof"} -> [th[r] EXCEPT !.row = Row(c.tab, c.id)]
      [] OTHER -> th[r]

Check(r) ==
    /\ MayStep(r) /\ Now(r).op \in Checks
    /\ IF Holds(r, Now(r)) THEN Goes(r, Learnt(r, Now(r)), {}) ELSE Refused(r)
    /\ UNCHANGED <<db, late, clash, crashes>>

\* The names and rows a request looks for and uses later.
Picked(c) ==
    CASE c.op = "listed" -> Matching(c.tab, c.col, c.val)
      [] c.op = "unique" -> LET free == {i \in DOMAIN Free[c.tab] : ~Is(c.tab, Free[c.tab][i])}
                            IN  IF free = {} THEN {} ELSE {Free[c.tab][Min(free)]}
      [] c.op = "seed"   ->
            IF CASE c.tab = "calendars" -> Matching(c.tab, "owner", None) # {}
                 [] c.tab = "hubs" -> Is(c.tab, c.id)
                 [] OTHER -> DOMAIN db[c.tab] # {}
            THEN {} ELSE {c.id}

Choose(r) ==
    /\ MayStep(r) /\ Now(r).op \in {"listed", "unique", "seed"}
    /\ Goes(r, [th[r] EXCEPT !.pick = Picked(Now(r))], {})
    /\ UNCHANGED <<db, late, clash, crashes>>

Resume(r) ==
    /\ MayStep(r) /\ Now(r).op = "await"
    /\ Goes(r, th[r], {})
    /\ UNCHANGED <<db, late, clash, crashes>>

\* Rows another request is deleting.
Dying(r) == UNION {th[o].kills : o \in {q \in Requests \ {r} : Running(q) /\ th[q].begun}}

\* A row that names what is gone or going, or a session of an outdated password.
Belated(r, tab, row) ==
    \/ \E f \in Refs : /\ f[1] = tab /\ row[f[2]] # None
                       /\ \/ ~Is(f[3], row[f[2]])
                          \/ <<f[3], row[f[2]]>> \in Dying(r)
    \/ /\ tab = "sessions"
       /\ Is("users", row.user) => row.pw # Row("users", row.user).pw

\* Requests in flight whose view of the accounts another has overtaken: one of
\* the two is a thread, or the change is to the very user they are about.
Overtaken(r, d) ==
    {o \in Requests \ {r} : /\ Running(o) /\ th[o].begun /\ d.users # db.users
                            /\ \/ ~(th[r].async /\ th[o].async)
                               \/ th[o].on # None /\ (th[o].on \in DOMAIN db.users
                                       => th[o].on \notin DOMAIN d.users
                                          \/ d.users[th[o].on] # Row("users", th[o].on))}
\* The statement leaves database d and marks some rows.
Becomes(r, d, marks) ==
    /\ db' = d
    /\ Goes(r, th[r], Overtaken(r, d))
    /\ late' = {x \in late \cup marks : x[2] \in DOMAIN d[x[1]]}
    /\ UNCHANGED crashes
Keeps(r) == Becomes(r, db, {}) /\ UNCHANGED clash

\* New rows come last; the seeded list has the first rank.
Ranked(c) ==
    LET ranks == {RankIn(db, x) : x \in RowsOf(db, c.tab)}
    IN  IF "rank" \in DOMAIN c.row /\ ~(c.tab = "lists" /\ c.op = "putpicked")
        THEN [c.row EXCEPT !.rank = Max(ranks \cup {-1}) + 1] ELSE c.row

Inserted(r) == IF Now(r).op # "putpicked" THEN Now(r).id
               ELSE IF th[r].pick = {} THEN None ELSE CHOOSE id \in th[r].pick : TRUE
Needless(r) ==
    LET c == Now(r) IN
    \/ Inserted(r) = None
    \/ c.op = "putnew" /\ c.id \in th[r].pick
    \/ c.op = "upsert" /\ Is(c.tab, c.id)

\* An id that is taken or a user that is not there is an error of SQLite.
Insert(r) ==
    LET c == Now(r)
        id == Inserted(r)
        row == Ranked(c)
        seeds == c.tab = "lists" /\ c.op = "putpicked"
        taken == Is(c.tab, id) \/ (seeds /\ DOMAIN db.lists # {})
    IN
    /\ MayStep(r) /\ c.op \in {"put", "putpicked", "putnew", "upsert"}
    /\ \/ Needless(r) /\ Keeps(r)
       \/ /\ ~Needless(r)
          /\ clash' = IF taken THEN clash \cup {[tab |-> c.tab, id |-> id, overtaken |-> th[r].stale]}
                      ELSE clash
          /\ IF Is(c.tab, id) \/ (c.tab = "sessions" /\ ~Is("users", row.user))
             THEN Refused(r) /\ UNCHANGED <<db, late, crashes>>
             ELSE Becomes(r, [db EXCEPT ![c.tab] =
                              [x \in DOMAIN @ \cup {id} |-> IF x = id THEN row ELSE @[x]]],
                          IF Belated(r, c.tab, row) THEN {<<c.tab, id>>} ELSE {})

Update(r) ==
    LET c == Now(r) IN
    /\ MayStep(r) /\ c.op \in {"set", "place"}
    /\ IF ~Is(c.tab, c.id) THEN Keeps(r)
       ELSE LET row == IF c.op = "place" THEN [Row(c.tab, c.id) EXCEPT !.rank = c.rank]
                       ELSE [Row(c.tab, c.id) EXCEPT ![c.col] = c.val]
                names == c.op = "set" /\ \E f \in Refs : f[1] = c.tab /\ f[2] = c.col
            IN  /\ Becomes(r, [db EXCEPT ![c.tab][c.id] = row],
                           IF names /\ Belated(r, c.tab, row) THEN {<<c.tab, c.id>>} ELSE {})
                /\ UNCHANGED clash

\* Every row at once: the links to val are cleared, or all devices are known.
UpdateAll(r) ==
    LET c == Now(r) IN
    /\ MayStep(r)
    /\ \/ /\ c.op = "null"
          /\ Becomes(r, [db EXCEPT ![c.tab] =
                 [id \in DOMAIN @ |-> IF @[id][c.col] = c.val THEN [@[id] EXCEPT ![c.col] = None]
                                      ELSE @[id]]], {})
       \/ /\ c.op = "markall"
          /\ Becomes(r, IF th[r].pick = {} THEN db ELSE
                 [db EXCEPT !.lan = [n \in DOMAIN @ |-> [@[n] EXCEPT !.baseline = "yes"]]], {})
    /\ UNCHANGED clash

\* SQLite ignores a foreign key on a connection that does not ask for it.
CascadedNot(d, users) == d

\* The schema's ON DELETE CASCADE.
Cascaded(d, users) ==
    [d EXCEPT !.sessions = [s \in {x \in DOMAIN @ : @[x].user \notin users} |-> @[s]]]

\* The session that is kept when the others go has just shown the password.
\* The command that deletes a user leaves the tasks.
Delete(r) ==
    LET c == Now(r)
        gone == IF c.op = "del" THEN Matching(c.tab, c.col, c.val) \ {c.but}
                ELSE IF c.val \in th[r].pick THEN Matching(c.tab, c.col, c.val) ELSE {}
        Without(t, ids) == [id \in DOMAIN db[t] \ ids |-> db[t][id]]
        kept == IF c.op = "del" /\ c.but # None /\ Is("users", c.val)
                THEN {c.but} \cap DOMAIN db.sessions ELSE {}
        cut == [db EXCEPT ![c.tab] = Without(c.tab, gone)]
        left == IF c.tab = "users" THEN {t \in DOMAIN db.tasks : db.tasks[t].assignee \in gone} ELSE {}
    IN
    /\ MayStep(r) /\ c.op \in {"del", "dellisted"}
    /\ Becomes(r,
           IF c.tab = "users" THEN Cascaded(cut, gone)
           ELSE [cut EXCEPT !.sessions = [s \in DOMAIN @ |->
                     IF s \in kept THEN [@[s] EXCEPT !.pw = Row("users", c.val).pw] ELSE @[s]]],
           IF th[r].me = None THEN {<<"tasks", t>> : t \in left} ELSE {})
    /\ UNCHANGED clash

\* The machine stops: what every request had left is not done.
Crash ==
    LET lost == {q \in Requests : Running(q) /\ th[q].begun}
        dying == UNION {th[q].kills : q \in lost}
        half == UNION {{<<f[1], id>> : id \in {i \in DOMAIN db[f[1]] :
                            <<f[3], db[f[1]][i][f[2]]>> \in dying}} : f \in Refs}
        signed == {<<"sessions", s>> : s \in {x \in DOMAIN db.sessions :
                            \E q \in lost : th[q].on = db.sessions[x].user}}
    IN
    /\ crashes < MaxCrashes /\ lost # {}
    /\ crashes' = crashes + 1
    /\ th' = [q \in Requests |-> IF q \in lost THEN [th[q] EXCEPT !.todo = <<>>] ELSE th[q]]
    /\ loop' = None
    /\ late' = late \cup half \cup signed
    /\ UNCHANGED <<db, clash>>

Ready(program) == [todo |-> program.todo, async |-> program.async, kills |-> program.kills,
                   on |-> program.on, me |-> None, row |-> None, pick |-> {},
                   stale |-> FALSE, begun |-> FALSE]

Roles == {"admin", "viewer"}
Listing(s) == s \in Seq({s[i] : i \in DOMAIN s})

\* A database in order: every row names what is there, nobody holds a session of
\* an older password, the motors are their hubs', and the rows of a page are
\* numbered, as the migration leaves them.
InOrder(d) ==
    /\ DOMAIN d = Tables
    /\ \A f \in Refs : \A id \in DOMAIN d[f[1]] :
           f[2] \in DOMAIN d[f[1]][id] /\ d[f[1]][id][f[2]] \in {None} \cup DOMAIN d[f[3]]
    /\ \A u \in DOMAIN d.users : DOMAIN d.users[u] = {"role", "pw"} /\ d.users[u].role \in Roles
    /\ \A s \in DOMAIN d.sessions :
           /\ DOMAIN d.sessions[s] = {"user", "pw"} /\ d.sessions[s].user \in DOMAIN d.users
           /\ d.sessions[s].pw = d.users[d.sessions[s].user].pw
           /\ s \in Tokens => d.sessions[s].user = Known["owner"][s]
    /\ \A k \in DOMAIN d.coverings : \E h \in DOMAIN Motors : \E i \in DOMAIN Motors[h] :
           Motors[h][i] = k /\ d.coverings[k].hub = h
    /\ \A t \in Tables : DOMAIN d[t] \cap (Requests \cup {None}) = {}
    /\ \A p \in Pages : /\ \A t \in PageTables(p) : IsFiniteSet(DOMAIN d[t])
                        /\ \A x \in RowsOf(d, p) : "rank" \in DOMAIN d[x[1]][x[2]] /\ RankIn(d, x) \in Nat
                        /\ \A x, y \in RowsOf(d, p) : RankIn(d, x) = RankIn(d, y) => x = y

ASSUME RegistryAssumption ==
    /\ None \notin Requests \cup Tokens \cup Known["users"] /\ Tokens \cap Requests = {}
    /\ Bosses # {} /\ MaxCrashes \in Nat
    /\ Known["hubs"] \subseteq DOMAIN Motors /\ Listing(Addresses)
    /\ \A g, h \in DOMAIN Motors : Listing(Motors[h]) /\ \A i \in DOMAIN Motors[g] :
           \A j \in DOMAIN Motors[h] : Motors[g][i] = Motors[h][j] => g = h /\ i = j
    /\ \A p \in Pages : \A o \in Orders[p] : Listing(o)
    /\ \A o \in Orders["cameras"] : \A i \in DOMAIN o : o[i][1] \in {"cameras", "virtual"}
                                                       /\ o[i] = <<o[i][1], o[i][2]>>
    /\ \A t \in {"cameras", "devices", "calendars"} : DOMAIN Free[t] \subseteq Nat
    /\ \A d \in StartTables : InOrder(d)

Init ==
    /\ db \in StartTables
    /\ \E n \in 1..4 :
           th \in {f \in [Requests -> {Ready(p) : p \in UNION {Parts(r)[n] : r \in Requests}}] :
                       \A r \in Requests : \E p \in Parts(r)[n] : f[r] = Ready(p)}
    /\ loop = None /\ late = {} /\ clash = {} /\ crashes = 0

Next ==
    \/ \E r \in Requests : Check(r) \/ Choose(r) \/ Resume(r) \/ Insert(r) \/ Update(r)
                           \/ UpdateAll(r) \/ Delete(r)
    \/ Crash

Spec == Init /\ [][Next]_vars

---------------------------------------------------------------------------
(* Properties *)

\* Rows sit in the tables of the schema, a request waits for its turn with what
\* is left of it, and only a coroutine holds the event loop.
TypeOK ==
    /\ DOMAIN db = Tables
    /\ \A f \in Refs : \A id \in DOMAIN db[f[1]] : f[2] \in DOMAIN db[f[1]][id]
    /\ \A u \in DOMAIN db.users : db.users[u].role \in Roles
    /\ \A s \in DOMAIN db.sessions : db.sessions[s].user \in DOMAIN db.users
    /\ loop \in Requests \cup {None}
    /\ loop # None => Running(loop) /\ th[loop].async
    /\ crashes \in 0..MaxCrashes

\* The house is never left without an admin by requests that see each other:
\* the role is counted and written before the loop runs another coroutine.  It
\* can be when one of them runs in a thread, or from the command line.
AdminKept ==
    [][Admins(db) # {} /\ Admins(db') = {} =>
         \E r \in Requests : th'[r] # th[r] /\ (th[r].stale \/ th[r].me = None)]_vars

AtRest == \A r \in Requests : ~Running(r)

\* A changed password signs out whoever knew the old one, except at the browser
\* that changed it, and unless a login was half-way or an admin chose it.
SessionsRevoked ==
    AtRest => \A s \in DOMAIN db.sessions :
        LET u == Row("sessions", s).user IN
        \/ Row("sessions", s).pw = Row("users", u).pw
        \/ Row("users", u).pw = "given"
        \/ <<"sessions", s>> \in late

\* What a column of Refs names exists: a delete that is done has taken along or
\* cleared what named its row there, but for what was written beside it.  The
\* calendars of a user who is deleted are no part of this: they stay.
NoOrphans ==
    \A f \in Refs : \A id \in DOMAIN db[f[1]] :
        LET named == Row(f[1], id)[f[2]] IN
        \/ named = None \/ Is(f[3], named)
        \/ <<f[1], id>> \in late
        \/ \E r \in Requests : Running(r) /\ <<f[3], named>> \in th[r].kills

\* However many browsers add a camera, a device, a hub or a calendar of the same
\* name at once, none inserts an id that another has just taken.  What is seeded on
\* first use, by threads as by coroutines, can meet itself, or a calendar that was
\* given the name of the seeded one; and an account one that a thread made.
NoConflict ==
    \A x \in clash : \/ x.tab = "calendars" /\ x.id = "family"
                     \/ x.tab = "lists"
                     \/ x.tab = "users" /\ x.overtaken

\* The rows a browser had before it when it sent the order o of page p.
Shown(p, o) == IF p = "cameras" THEN Range(o) ELSE {p} \X Range(o)

\* However many browsers reorder a page at once, two of its rows have different
\* ranks, unless one of the browsers had only one of the two before it.
OneOrder ==
    AtRest /\ crashes = 0 =>
        \A p \in Pages : \A x, y \in RowsOf(db, p) :
            (\A o \in Orders[p] : x \in Shown(p, o) <=> y \in Shown(p, o)) =>
                (RankIn(db, x) = RankIn(db, y) => x = y)

=============================================================================
