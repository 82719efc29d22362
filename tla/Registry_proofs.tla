-------------------------- MODULE Registry_proofs --------------------------
(***************************************************************************)
(* Requests against the database, any number of them at once.  A request   *)
(* is the list of its statements, so the proofs have two halves.  The laws *)
(* (Lawful) say what a list may hold and in which order: each is closed    *)
(* under taking a statement off the front, and each handler is shown to    *)
(* obey them.  The invariants say what a request with such a list still    *)
(* ahead of it makes true of the rows: Held of the event loop, Counted of  *)
(* the admins, Fresh and Chosen of the names about to be taken, Signed of  *)
(* the sessions of an old password, Cleared of the rows that name what is  *)
(* going or gone.  The ranks of a page and the names that two requests may *)
(* want at once have laws and invariants of their own on top of these:     *)
(* LawfulPlaces, Numbered and Sorted; LawfulNames and Claimed.             *)
(***************************************************************************)
EXTENDS Registry, TLAPS, FiniteSetTheorems, WellFoundedInduction

L(r) == th[r].todo

Reads == Checks \cup {"await", "listed", "unique", "seed"}
Inserts == {"put", "putpicked", "putnew", "upsert"}
Writes == Inserts \cup {"set", "place", "null", "markall", "del", "dellisted"}

\* What the statements may name.
PutTables == {"sessions", "schedules", "virtual", "rooms", "tasks", "lists", "events"}
PickTables == {"cameras", "devices", "hubs", "lists", "calendars"}
RankTables == {"cameras", "virtual", "rooms", "coverings", "tasks"}
SetColumns == {<<"users", "pw">>, <<"users", "role">>, <<"cameras", "archived">>,
               <<"schedules", "enabled">>, <<"devices", "enabled">>, <<"hubs", "enabled">>,
               <<"coverings", "room">>, <<"tasks", "list">>, <<"tasks", "assignee">>,
               <<"events", "calendar">>, <<"lan", "label">>}
NullColumns == {<<"tasks", "list">>, <<"tasks", "assignee">>, <<"coverings", "room">>}
Targets == {f[3] : f \in Refs}

HasColumns(tab, row) == \A f \in Refs : f[1] = tab => f[2] \in DOMAIN row

Demotes(c) == c.op = "set" /\ c.tab = "users" /\ c.col = "role" /\ c.val # "admin"
Fires(c) == c.op \in {"del", "dellisted"} /\ c.tab = "users"

\* A statement by itself, of request r.
LawfulStatement(r, c) ==
    /\ c.op \in Reads \cup Writes
    /\ c.op = "put" =>
           /\ c.tab \in PutTables \cup {"users"} /\ HasColumns(c.tab, c.row)
           /\ c.tab = "users" => DOMAIN c.row = {"role", "pw"} /\ c.row.role \in Roles
           /\ c.tab = "sessions" => DOMAIN c.row = {"user", "pw"}
           /\ c.tab # "users" => c.id = r
    /\ c.op = "putpicked" => c.tab \in PickTables
    /\ c.op = "putnew" =>
           /\ c.tab = "coverings" /\ HasColumns("coverings", c.row) /\ c.row.hub \in DOMAIN Motors
           /\ \E i \in DOMAIN Motors[c.row.hub] : c.id = Motors[c.row.hub][i]
    /\ c.op = "upsert" => c.tab = "lan"
    /\ c.op = "set" =>
           /\ <<c.tab, c.col>> \in SetColumns
           /\ c.tab = "users" /\ c.col = "role" => c.val \in Roles
    /\ c.op = "place" => c.tab \in RankTables
    /\ c.op = "null" => <<c.tab, c.col>> \in NullColumns
    /\ c.op = "del" =>
           /\ c.tab \in Tables
           /\ c.but # None => /\ c.tab = "sessions" /\ c.col = "user" /\ c.but \in Tokens
                              /\ c.val = Known["owner"][c.but]
    /\ c.op = "unique" => c.tab \in {"cameras", "devices", "calendars"}
    /\ c.op = "dellisted" => c.tab = "schedules" /\ c.col = "covering"

\* An id of its own is used once in a table.
LawfulPuts(l) ==
    \A i, j \in DOMAIN l : l[i].op = "put" /\ l[j].op = "put" /\ l[i].tab = l[j].tab => i = j

\* A name that was looked for is taken at once, by a coroutine.
LawfulPicks(l, async) ==
    \A i \in DOMAIN l : l[i].op = "putpicked" /\ l[i].tab \in {"cameras", "devices", "hubs"} =>
        async /\ (i > 1 => l[i - 1].op \in {"unique", "seed"} /\ l[i - 1].tab = l[i].tab)

\* So are the motors of a hub, all of them different.
LawfulMotors(l, async) ==
    \A i \in DOMAIN l : l[i].op = "putnew" =>
        /\ async
        /\ \A j \in DOMAIN l : l[j].op = "putnew" =>
               l[j].row.hub = l[i].row.hub /\ (l[j].id = l[i].id => i = j)
        /\ i > 1 => \/ l[i - 1].op = "putnew"
                    \/ /\ l[i - 1].op = "listed" /\ l[i - 1].tab = "coverings"
                       /\ l[i - 1].col = "hub" /\ l[i - 1].val = l[i].row.hub

\* A role is written right after the admins were counted, of a user who is there.
LawfulRoles(l, async, on) ==
    \A i \in DOMAIN l : Demotes(l[i]) =>
        /\ async /\ on = l[i].id /\ on # None /\ i \leq 5
        /\ i > 1 => l[i - 1].op = "keepadmin" /\ l[i - 1].role # "admin"
        /\ i > 2 => l[i - 2].op = "await"
        /\ i > 3 => l[i - 3].op = "need" /\ l[i - 3].tab = "users" /\ l[i - 3].id = l[i].id

\* A user is deleted three statements after.
LawfulFiring(l, async, on) ==
    \A i \in DOMAIN l : Fires(l[i]) =>
        /\ l[i].op = "del" /\ l[i].col = "id" /\ ~async /\ i \leq 7 /\ l[i].but = None
        /\ i > 1 => l[i - 1].op = "null"
        /\ i > 2 => l[i - 2].op = "del" /\ l[i - 2].tab = "sessions"
        /\ i > 3 => l[i - 3].op = "keepadmin" /\ l[i - 3].role # "admin"
        /\ i > 4 => l[i - 4].op = "notme"
        /\ i > 5 => l[i - 5].op = "need" /\ l[i - 5].tab = "users" /\ l[i - 5].id = l[i].val

NoAuth(l) == \A i \in DOMAIN l : l[i].op # "auth"

\* A password that is set signs the other sessions out next.
Settled(l) == \A i \in DOMAIN l : l[i].op \notin Checks \cup Inserts
SignsOut(c, u) == c.op = "del" /\ c.tab = "sessions" /\ c.col = "user" /\ c.val = u
LawfulPasswords(l, on) ==
    \A i \in DOMAIN l :
        l[i].op = "set" /\ l[i].tab = "users" /\ l[i].col = "pw" /\ l[i].val # "given" =>
            /\ on = l[i].id /\ i < Len(l) /\ SignsOut(l[i + 1], l[i].id)
            /\ \A j \in DOMAIN l : j > i => l[j].op \notin Checks \cup Inserts

\* What is deleted was announced, nothing is checked any more, and nothing is written.
LawfulKills(l, kills) ==
    /\ kills # {} => \A i \in DOMAIN l : l[i].op \in
           Checks \cup {"await", "listed", "null", "del", "dellisted"}
    /\ \A i \in DOMAIN l : l[i].op = "del" /\ l[i].tab \in Targets =>
           /\ \/ l[i].col = "id" /\ <<l[i].tab, l[i].val>> \in kills
              \/ /\ l[i].tab = "coverings" /\ l[i].col = "hub" /\ l[i].val \in DOMAIN Motors
                 /\ \A j \in DOMAIN Motors[l[i].val] :
                        <<"coverings", Motors[l[i].val][j]>> \in kills
           /\ \A j \in DOMAIN l : j > i => l[j].op \notin Checks \cup {"listed"}
    /\ \A i \in DOMAIN l : l[i].op = "listed" /\ kills # {} =>
           /\ l[i].tab = "coverings" /\ l[i].col = "hub" /\ l[i].val \in DOMAIN Motors
           /\ \A j \in DOMAIN l : l[j].op = "dellisted" => \E k \in DOMAIN Motors[l[i].val] :
                  l[j].val = Motors[l[i].val][k]
    /\ \A i, j \in DOMAIN l : l[i].op = "listed" /\ l[j].op = "listed" /\ kills # {} => i = j

Clears(c, f, v) ==
    /\ c.op \in {"del", "null", "dellisted"} /\ c.tab = f[1] /\ c.col = f[2] /\ c.val = v
    /\ c.op = "del" => c.but = None

\* The rest of a list clears what names v; what it deletes as listed is listed before.
Clearing(l, pick, f, v) ==
    \E i \in DOMAIN l : /\ Clears(l[i], f, v)
                        /\ l[i].op = "dellisted" =>
                               v \in pick \/ \E j \in DOMAIN l : j < i /\ l[j].op = "listed"

Lawful(r, l, async, on, kills) ==
    /\ Listing(l)
    /\ \A i \in DOMAIN l : LawfulStatement(r, l[i])
    /\ LawfulPuts(l) /\ LawfulPicks(l, async) /\ LawfulMotors(l, async)
    /\ LawfulRoles(l, async, on) /\ LawfulPasswords(l, on) /\ LawfulKills(l, kills)

\* What names a row that is going is cleared; the command leaves the tasks.
LawfulStart(l, async, on, kills) ==
    /\ l # <<>> /\ l[1].op \notin {"putpicked", "putnew"}
    /\ \A i \in DOMAIN l : Demotes(l[i]) => i = 5
    /\ \A i \in DOMAIN l : Fires(l[i]) => NoAuth(l) \/ (i = 7 /\ LawfulFiring(l, async, on))
    /\ kills # {} => l[1].op \in {"auth", "need"}
    /\ \A f \in Refs : \A v \in {k[2] : k \in kills} :
           f[1] # "sessions" /\ <<f[3], v>> \in kills =>
               Clearing(l, {}, f, v) \/ (f[1] = "tasks" /\ f[2] = "assignee" /\ NoAuth(l))

-----------------------------------------------------------------------------
Fields == {"todo", "async", "kills", "on", "me", "row", "pick", "stale", "begun"}

Shaped ==
    /\ DOMAIN th = Requests
    /\ \A r \in Requests :
           /\ DOMAIN th[r] = Fields /\ th[r].begun \in BOOLEAN /\ th[r].stale \in BOOLEAN
           /\ th[r].async \in BOOLEAN
           /\ Lawful(r, L(r), th[r].async, th[r].on, th[r].kills)

\* A coroutine between two awaits has the loop.
Mid(r) == Running(r) /\ th[r].async /\ th[r].begun /\ Now(r).op # "await"
Held == loop \in Requests \cup {None} /\ \A r \in Requests : loop = r <=> Mid(r)

Kept ==
    /\ DOMAIN db = Tables
    /\ \A t \in Tables : \A id \in DOMAIN db[t] : HasColumns(t, db[t][id])
    /\ \A u \in DOMAIN db.users : DOMAIN db.users[u] = {"role", "pw"} /\ db.users[u].role \in Roles
    /\ \A s \in DOMAIN db.sessions :
           DOMAIN db.sessions[s] = {"user", "pw"} /\ db.sessions[s].user \in DOMAIN db.users

Named == \A t \in Tables : None \notin DOMAIN db[t]

\* Unless another has changed the users since, r has read the user it demotes or
\* deletes, and has counted the admins.
Read(r, u) == th[r].begun /\ u \in DOMAIN db.users /\ th[r].row = db.users[u]
Enough(r) == th[r].row.role # "admin" \/ Cardinality(Admins(db)) > 1
Counted ==
    \A r \in Requests : \A i \in DOMAIN L(r) :
        /\ Demotes(L(r)[i]) /\ ~th[r].stale =>
               /\ i \leq 3 => Read(r, L(r)[i].id)
               /\ i = 1 => Enough(r)
        /\ Fires(L(r)[i]) =>
               \/ th[r].me = None /\ NoAuth(L(r))
               \/ /\ LawfulFiring(L(r), th[r].async, th[r].on)
                  /\ ~th[r].stale => /\ i \leq 5 => Read(r, L(r)[i].val)
                                     /\ i \leq 3 => Enough(r)

\* No id of a row to come is there yet.
Fresh ==
    \A r \in Requests : \A i \in DOMAIN L(r) :
        L(r)[i].op = "put" /\ L(r)[i].tab \notin {"users", "lists"} =>
            r \notin DOMAIN db[L(r)[i].tab]
Chosen ==
    \A r \in Requests : Running(r) =>
        /\ Now(r).op \in {"putpicked", "putnew"} => th[r].begun
        /\ Now(r).op = "putpicked" /\ Now(r).tab \in {"cameras", "devices", "hubs"} =>
               th[r].pick \cap DOMAIN db[Now(r).tab] = {}
        /\ Now(r).op = "putnew" => \A i \in DOMAIN L(r) : L(r)[i].op = "putnew" =>
               (L(r)[i].id \in DOMAIN db.coverings => L(r)[i].id \in th[r].pick)
Wired ==
    \A k \in DOMAIN db.coverings : \E h \in DOMAIN Motors : \E i \in DOMAIN Motors[h] :
        Motors[h][i] = k /\ db.coverings[k].hub = h

\* A session of an outdated password is about to be signed out.
Signed ==
    \A s \in DOMAIN db.sessions :
        LET u == db.sessions[s].user IN
        \/ db.sessions[s].pw = db.users[u].pw
        \/ db.users[u].pw = "given"
        \/ <<"sessions", s>> \in late
        \/ \E r \in Requests : /\ th[r].begun /\ th[r].on = u /\ Settled(L(r))
                               /\ \E i \in DOMAIN L(r) : SignsOut(L(r)[i], u)
Owned == \A s \in DOMAIN db.sessions \cap Tokens : db.sessions[s].user = Known["owner"][s]

\* What names a row that is gone, or going, is about to be cleared.
Firm(r) == th[r].begun /\ \A i \in DOMAIN L(r) : L(r)[i].op \notin Checks \cup {"listed"}
Pending(r, f, v) == <<f[3], v>> \in th[r].kills /\ Clearing(L(r), th[r].pick, f, v)
Covered(f, id, v) ==
    <<f[1], id>> \in late \/ \E r \in Requests : Firm(r) /\ Pending(r, f, v)
Spares(r, f) == th[r].me = None /\ NoAuth(L(r)) /\ f[1] = "tasks" /\ f[2] = "assignee"
Cleared ==
    \A f \in Refs : f[1] # "sessions" => \A id \in DOMAIN db[f[1]] :
        LET v == db[f[1]][id][f[2]] IN v # None =>
        /\ v \notin DOMAIN db[f[3]] => Covered(f, id, v)
        /\ \A r \in Requests :
               Running(r) /\ th[r].begun /\ <<f[3], v>> \in th[r].kills /\ ~Spares(r, f) =>
                   Covered(f, id, v) \/ Pending(r, f, v)
\* What a request will clear before it has begun.
Announced ==
    \A r \in Requests : ~th[r].begun => th[r].me = None /\ th[r].pick = {}
                                        /\ LawfulStart(L(r), th[r].async, th[r].on, th[r].kills)

-----------------------------------------------------------------------------
(* Lists of statements.                                                    *)

\* A sequence lists what it holds.
LEMMA SequenceLists ==
    ASSUME NEW S, NEW k \in Seq(S)
    PROVE  Listing(k) /\ Len(k) \in Nat /\ DOMAIN k = 1 .. Len(k)
<1> DEFINE T == {k[i] : i \in DOMAIN k}
<1>1. k \in [1 .. Len(k) -> S] /\ Len(k) \in Nat /\ DOMAIN k = 1 .. Len(k)
  OBVIOUS
<1>2. \A i \in 1 .. Len(k) : k[i] \in T
  BY <1>1
<1> HIDE DEF T
<1>3. k \in [1 .. Len(k) -> T]
  BY <1>1, <1>2
<1>4. ASSUME NEW n \in Nat, k \in [1 .. n -> T]
      PROVE  k \in Seq(T)
  BY <1>4
<1>5. k \in Seq(T)
  BY <1>1, <1>3, <1>4
<1> QED
  BY <1>1, <1>5 DEF Listing, T

\* The list without its first statement.
LEMMA ListOf ==
    ASSUME NEW l, Listing(l), l # <<>>
    PROVE  /\ Len(l) \in Nat /\ Len(l) > 0 /\ DOMAIN l = 1 .. Len(l) /\ Head(l) = l[1]
           /\ Len(Tail(l)) = Len(l) - 1 /\ DOMAIN Tail(l) = 1 .. Len(l) - 1
           /\ \A i \in 1 .. Len(l) - 1 : Tail(l)[i] = l[i + 1]
           /\ Listing(Tail(l))
<1> DEFINE S == {l[i] : i \in DOMAIN l}
<1>1. l \in Seq(S)
  BY DEF Listing
<1> HIDE DEF S
<1>2. /\ Len(l) \in Nat /\ Len(l) > 0 /\ DOMAIN l = 1 .. Len(l) /\ Head(l) = l[1]
      /\ Len(Tail(l)) = Len(l) - 1 /\ DOMAIN Tail(l) = 1 .. Len(l) - 1
      /\ \A i \in 1 .. Len(l) - 1 : Tail(l)[i] = l[i + 1]
      /\ Tail(l) \in Seq(S)
  BY <1>1
<1>3. Listing(Tail(l))
  BY <1>2, SequenceLists
<1> QED
  BY <1>2, <1>3

LEMMA EmptyListing == Listing(<<>>) /\ DOMAIN <<>> = {}
BY DEF Listing

\* Each law holds of the rest of a list.
LEMMA LawfulTail ==
    ASSUME NEW r, NEW l, NEW async, NEW on, NEW kills, l # <<>>, Lawful(r, l, async, on, kills)
    PROVE  Lawful(r, Tail(l), async, on, kills)
<1> DEFINE k == Tail(l)
<1>1. /\ Len(l) \in Nat /\ Len(l) > 0 /\ DOMAIN l = 1 .. Len(l)
      /\ Len(k) = Len(l) - 1 /\ DOMAIN k = 1 .. Len(l) - 1
      /\ \A i \in 1 .. Len(l) - 1 : k[i] = l[i + 1]
      /\ Listing(k)
  BY ListOf DEF Lawful
<1>2. \A i \in DOMAIN k : i \in Nat /\ i \geq 1 /\ i + 1 \in DOMAIN l /\ k[i] = l[i + 1]
                          /\ (i + 1) - 1 = i
  BY <1>1
<1>3. \A i \in DOMAIN k : i > 1 => i - 1 \in DOMAIN k /\ k[i - 1] = l[(i + 1) - 1]
  BY <1>1
<1>4. \A i \in DOMAIN k : i > 2 => k[i - 2] = l[(i + 1) - 2]
  BY <1>1
<1>5. \A i \in DOMAIN k : i > 3 => k[i - 3] = l[(i + 1) - 3]
  BY <1>1
<1> HIDE DEF k
<1>6. \A i \in DOMAIN k : LawfulStatement(r, k[i])
  BY <1>2 DEF Lawful
<1>7. LawfulPuts(k)
  BY <1>2 DEF Lawful, LawfulPuts
<1>8. LawfulPicks(k, async)
  BY <1>2, <1>3 DEF Lawful, LawfulPicks
<1>9. LawfulMotors(k, async)
  <2> SUFFICES ASSUME NEW i \in DOMAIN k, k[i].op = "putnew"
               PROVE  /\ async
                      /\ \A j \in DOMAIN k : k[j].op = "putnew" =>
                             k[j].row.hub = k[i].row.hub /\ (k[j].id = k[i].id => i = j)
                      /\ i > 1 => \/ k[i - 1].op = "putnew"
                                  \/ /\ k[i - 1].op = "listed" /\ k[i - 1].tab = "coverings"
                                     /\ k[i - 1].col = "hub" /\ k[i - 1].val = k[i].row.hub
    BY DEF LawfulMotors
  <2>1. i + 1 \in DOMAIN l /\ l[i + 1] = k[i] /\ i \in Nat
    BY <1>2
  <2>2. async /\ \A j \in DOMAIN l : l[j].op = "putnew" =>
            l[j].row.hub = k[i].row.hub /\ (l[j].id = k[i].id => i + 1 = j)
    BY <2>1 DEF Lawful, LawfulMotors
  <2>3. ASSUME NEW j \in DOMAIN k, k[j].op = "putnew"
        PROVE  k[j].row.hub = k[i].row.hub /\ (k[j].id = k[i].id => i = j)
    <3>1. j + 1 \in DOMAIN l /\ l[j + 1] = k[j] /\ j \in Nat
      BY <1>2
    <3>2. k[j].row.hub = k[i].row.hub /\ (k[j].id = k[i].id => i + 1 = j + 1)
      BY <3>1, <2>2, <2>3
    <3> QED
      BY <3>1, <3>2, <2>1
  <2>4. ASSUME i > 1
        PROVE  \/ k[i - 1].op = "putnew"
               \/ /\ k[i - 1].op = "listed" /\ k[i - 1].tab = "coverings"
                  /\ k[i - 1].col = "hub" /\ k[i - 1].val = k[i].row.hub
    <3>1. i + 1 > 1 /\ k[i - 1] = l[(i + 1) - 1]
      BY <2>1, <2>4, <1>3
    <3> QED
      BY <3>1, <2>1 DEF Lawful, LawfulMotors
  <2> QED
    BY <2>2, <2>3, <2>4
<1>10. LawfulRoles(k, async, on)
  <2> SUFFICES ASSUME NEW i \in DOMAIN k, Demotes(k[i])
               PROVE  /\ async /\ on = k[i].id /\ on # None /\ i \leq 5
                      /\ i > 1 => k[i - 1].op = "keepadmin" /\ k[i - 1].role # "admin"
                      /\ i > 2 => k[i - 2].op = "await"
                      /\ i > 3 => k[i - 3].op = "need" /\ k[i - 3].tab = "users"
                                  /\ k[i - 3].id = k[i].id
    BY DEF LawfulRoles
  <2>1. i + 1 \in DOMAIN l /\ l[i + 1] = k[i] /\ i \in Nat
    BY <1>2
  <2>2. /\ async /\ on = k[i].id /\ on # None /\ i + 1 \leq 5
        /\ i + 1 > 1 => l[(i + 1) - 1].op = "keepadmin" /\ l[(i + 1) - 1].role # "admin"
        /\ i + 1 > 2 => l[(i + 1) - 2].op = "await"
        /\ i + 1 > 3 => l[(i + 1) - 3].op = "need" /\ l[(i + 1) - 3].tab = "users"
                        /\ l[(i + 1) - 3].id = k[i].id
    BY <2>1 DEF Lawful, LawfulRoles
  <2>3. i > 1 => k[i - 1].op = "keepadmin" /\ k[i - 1].role # "admin"
    BY <2>1, <2>2, <1>3
  <2>4. i > 2 => k[i - 2].op = "await"
    BY <2>1, <2>2, <1>4
  <2>5. i > 3 => k[i - 3].op = "need" /\ k[i - 3].tab = "users" /\ k[i - 3].id = k[i].id
    BY <2>1, <2>2, <1>5
  <2> QED
    BY <2>1, <2>2, <2>3, <2>4, <2>5
<1>11. LawfulPasswords(k, on)
  <2> SUFFICES ASSUME NEW i \in DOMAIN k,
                      k[i].op = "set" /\ k[i].tab = "users" /\ k[i].col = "pw" /\ k[i].val # "given"
               PROVE  /\ on = k[i].id /\ i < Len(k) /\ SignsOut(k[i + 1], k[i].id)
                      /\ \A j \in DOMAIN k : j > i => k[j].op \notin Checks \cup Inserts
    BY DEF LawfulPasswords
  <2>1. /\ on = k[i].id /\ i + 1 < Len(l) /\ SignsOut(l[i + 1 + 1], k[i].id)
        /\ \A j \in DOMAIN l : j > i + 1 => l[j].op \notin Checks \cup Inserts
    BY <1>2 DEF Lawful, LawfulPasswords
  <2>2. i < Len(k) /\ i + 1 \in DOMAIN k /\ k[i + 1] = l[i + 1 + 1]
    BY <2>1, <1>1, <1>2
  <2>3. ASSUME NEW j \in DOMAIN k, j > i
        PROVE  k[j].op \notin Checks \cup Inserts
    <3>1. j + 1 \in DOMAIN l /\ k[j] = l[j + 1] /\ j + 1 > i + 1
      BY <1>2, <2>3
    <3> QED
      BY <3>1, <2>1
  <2> QED
    BY <2>1, <2>2, <2>3
<1>12. LawfulKills(k, kills)
  BY <1>2 DEF Lawful, LawfulKills
<1> QED
  BY <1>1, <1>6, <1>7, <1>8, <1>9, <1>10, <1>11, <1>12 DEF Lawful, k

LEMMA LawfulEmpty ==
    ASSUME NEW r, NEW async, NEW on, NEW kills
    PROVE  Lawful(r, <<>>, async, on, kills)
BY EmptyListing DEF Lawful, LawfulPuts, LawfulPicks, LawfulMotors, LawfulRoles, LawfulPasswords,
                    LawfulKills

\* What counts the admins comes three statements before what deletes one of them.
LEMMA FiringTail ==
    ASSUME NEW l, NEW async, NEW on, l # <<>>, Listing(l), LawfulFiring(l, async, on)
    PROVE  LawfulFiring(Tail(l), async, on)
<1> DEFINE k == Tail(l)
<1>1. /\ Len(l) \in Nat /\ DOMAIN l = 1 .. Len(l) /\ DOMAIN k = 1 .. Len(l) - 1
      /\ \A i \in 1 .. Len(l) - 1 : k[i] = l[i + 1]
  BY ListOf
<1>2. \A i \in DOMAIN k : i \in Nat /\ i + 1 \in DOMAIN l /\ k[i] = l[i + 1]
  BY <1>1
<1>3. \A i \in DOMAIN k : i > 1 => k[i - 1] = l[(i + 1) - 1]
  BY <1>1
<1>4. \A i \in DOMAIN k : i > 2 => k[i - 2] = l[(i + 1) - 2]
  BY <1>1
<1>5. \A i \in DOMAIN k : i > 3 => k[i - 3] = l[(i + 1) - 3]
  BY <1>1
<1>6. \A i \in DOMAIN k : i > 4 => k[i - 4] = l[(i + 1) - 4]
  BY <1>1
<1>7. \A i \in DOMAIN k : i > 5 => k[i - 5] = l[(i + 1) - 5]
  BY <1>1
<1> HIDE DEF k
<1>8. LawfulFiring(k, async, on)
  <2> SUFFICES ASSUME NEW i \in DOMAIN k, Fires(k[i])
               PROVE  /\ k[i].op = "del" /\ k[i].col = "id" /\ ~async /\ i \leq 7
                      /\ k[i].but = None
                      /\ i > 1 => k[i - 1].op = "null"
                      /\ i > 2 => k[i - 2].op = "del" /\ k[i - 2].tab = "sessions"
                      /\ i > 3 => k[i - 3].op = "keepadmin" /\ k[i - 3].role # "admin"
                      /\ i > 4 => k[i - 4].op = "notme"
                      /\ i > 5 => k[i - 5].op = "need" /\ k[i - 5].tab = "users"
                                  /\ k[i - 5].id = k[i].val
    BY DEF LawfulFiring
  <2>1. i + 1 \in DOMAIN l /\ l[i + 1] = k[i] /\ i \in Nat
    BY <1>2
  <2>2. /\ k[i].op = "del" /\ k[i].col = "id" /\ ~async /\ i + 1 \leq 7
        /\ k[i].but = None
        /\ i + 1 > 1 => l[(i + 1) - 1].op = "null"
        /\ i + 1 > 2 => l[(i + 1) - 2].op = "del" /\ l[(i + 1) - 2].tab = "sessions"
        /\ i + 1 > 3 => l[(i + 1) - 3].op = "keepadmin" /\ l[(i + 1) - 3].role # "admin"
        /\ i + 1 > 4 => l[(i + 1) - 4].op = "notme"
        /\ i + 1 > 5 => l[(i + 1) - 5].op = "need" /\ l[(i + 1) - 5].tab = "users"
                        /\ l[(i + 1) - 5].id = k[i].val
    BY <2>1 DEF LawfulFiring
  <2>3. i > 1 => k[i - 1].op = "null"
    BY <2>1, <2>2, <1>3
  <2>4. i > 2 => k[i - 2].op = "del" /\ k[i - 2].tab = "sessions"
    BY <2>1, <2>2, <1>4
  <2>5. i > 3 => k[i - 3].op = "keepadmin" /\ k[i - 3].role # "admin"
    BY <2>1, <2>2, <1>5
  <2>6. i > 4 => k[i - 4].op = "notme"
    BY <2>1, <2>2, <1>6
  <2>7. i > 5 => k[i - 5].op = "need" /\ k[i - 5].tab = "users" /\ k[i - 5].id = k[i].val
    BY <2>1, <2>2, <1>7
  <2> QED
    BY <2>1, <2>2, <2>3, <2>4, <2>5, <2>6, <2>7
<1> QED
  BY <1>8 DEF k

-----------------------------------------------------------------------------
(* What a step does to the requests.                                       *)

\* Another request steps: o only learns that it was overtaken.
Unmoved(o) ==
    /\ DOMAIN th'[o] = Fields /\ th'[o].todo = th[o].todo /\ th'[o].async = th[o].async
    /\ th'[o].kills = th[o].kills /\ th'[o].on = th[o].on /\ th'[o].me = th[o].me
    /\ th'[o].row = th[o].row /\ th'[o].pick = th[o].pick /\ th'[o].begun = th[o].begun
    /\ th'[o].stale \in BOOLEAN /\ (th[o].stale => th'[o].stale)

\* r takes a statement off its list, or drops the list.
Same(r) ==
    /\ DOMAIN th'[r] = Fields /\ th'[r].async = th[r].async /\ th'[r].kills = th[r].kills
    /\ th'[r].on = th[r].on /\ th'[r].stale = th[r].stale /\ th'[r].begun = TRUE
Onward(r)  == Same(r) /\ th'[r].todo = Tail(th[r].todo)
Dropped(r) == /\ Same(r) /\ th'[r].todo = <<>> /\ th'[r].me = th[r].me /\ th'[r].row = th[r].row
              /\ th'[r].pick = th[r].pick

\* The loop is the coroutine's that is between two awaits.
Loops(r) ==
    loop' = IF ~th[r].async THEN loop
            ELSE IF th'[r].todo = <<>> \/ Head(th'[r].todo).op = "await" THEN None ELSE r

Turn(r) ==
    /\ r \in Requests /\ MayStep(r) /\ DOMAIN th' = Requests
    /\ \A o \in Requests \ {r} : Unmoved(o)
    /\ Onward(r) \/ Dropped(r)
    /\ Loops(r)

LEMMA GoesTurns ==
    ASSUME Shaped, NEW r \in Requests, MayStep(r), NEW locals, NEW overtaken,
           DOMAIN locals = Fields, locals.async = th[r].async, locals.kills = th[r].kills,
           locals.on = th[r].on, locals.stale = th[r].stale, Goes(r, locals, overtaken)
    PROVE  /\ Turn(r) /\ Onward(r)
           /\ th'[r].me = locals.me /\ th'[r].row = locals.row /\ th'[r].pick = locals.pick
           /\ \A o \in Requests \ {r} : th'[o].stale <=> th[o].stale \/ o \in overtaken
<1>1. th' = [o \in Requests |->
               IF o = r THEN [locals EXCEPT !.todo = Tail(th[r].todo), !.begun = TRUE]
               ELSE [th[o] EXCEPT !.stale = th[o].stale \/ o \in overtaken]]
  BY DEF Goes
<1>2. DOMAIN th' = Requests /\ th'[r] = [locals EXCEPT !.todo = Tail(th[r].todo), !.begun = TRUE]
      /\ \A o \in Requests \ {r} : th'[o] = [th[o] EXCEPT !.stale = th[o].stale \/ o \in overtaken]
  BY <1>1
<1>3. Onward(r) /\ th'[r].me = locals.me /\ th'[r].row = locals.row /\ th'[r].pick = locals.pick
  BY <1>2 DEF Onward, Same, Fields
<1>4. ASSUME NEW o \in Requests \ {r}
      PROVE  Unmoved(o) /\ (th'[o].stale <=> th[o].stale \/ o \in overtaken)
  <2>1. DOMAIN th[o] = Fields /\ th[o].stale \in BOOLEAN
    BY DEF Shaped
  <2>2. th'[o] = [th[o] EXCEPT !.stale = th[o].stale \/ o \in overtaken]
    BY <1>2
  <2> QED
    BY <2>1, <2>2 DEF Unmoved, Fields
<1>5. Loops(r)
  <2>1. loop' = IF ~th[r].async THEN loop
                ELSE IF Tail(th[r].todo) = <<>> \/ (Tail(th[r].todo) # <<>>
                         /\ Head(Tail(th[r].todo)).op = "await") THEN None ELSE r
    BY DEF Goes
  <2>2. th'[r].todo = Tail(th[r].todo)
    BY <1>3 DEF Onward
  <2> QED
    BY <2>1, <2>2 DEF Loops
<1> QED
  BY <1>2, <1>3, <1>4, <1>5 DEF Turn

LEMMA RefusedTurns ==
    ASSUME Shaped, NEW r \in Requests, MayStep(r), Refused(r)
    PROVE  /\ Turn(r) /\ Dropped(r)
           /\ \A o \in Requests \ {r} : th'[o] = th[o]
<1>1. DOMAIN th = Requests /\ DOMAIN th[r] = Fields
  BY DEF Shaped
<1>2. DOMAIN th' = Requests /\ (\A o \in Requests \ {r} : th'[o] = th[o])
      /\ th'[r] = [th[r] EXCEPT !.todo = <<>>, !.begun = TRUE]
  BY <1>1 DEF Refused
<1>3. Dropped(r)
  BY <1>1, <1>2 DEF Dropped, Same, Fields
<1>4. ASSUME NEW o \in Requests \ {r}
      PROVE  Unmoved(o)
  <2>1. DOMAIN th[o] = Fields /\ th[o].stale \in BOOLEAN
    BY DEF Shaped
  <2> QED
    BY <2>1, <1>2 DEF Unmoved
<1>5. Loops(r)
  <2>1. loop' = IF th[r].async THEN None ELSE loop
    BY DEF Refused
  <2>2. th'[r].todo = <<>>
    BY <1>3 DEF Dropped
  <2> QED
    BY <2>1, <2>2 DEF Loops
<1> QED
  BY <1>2, <1>3, <1>4, <1>5 DEF Turn

\* Each list is lawful, and the loop is held as before.
LEMMA TurnKeeps ==
    ASSUME RegistryAssumption, Shaped, Held, NEW r, Turn(r)
    PROVE  Shaped' /\ Held'
<1>1. r \in Requests /\ Running(r) /\ (th[r].async => loop \in {r, None}) /\ None \notin Requests
  BY DEF Turn, MayStep, Running, RegistryAssumption
<1>2. \A o \in Requests : o = r \/ Unmoved(o)
  BY DEF Turn
<1>3. Same(r) /\ (th'[r].todo = Tail(th[r].todo) \/ th'[r].todo = <<>>)
  BY DEF Turn, Onward, Dropped
<1>4. Shaped'
  <2>1. DOMAIN th' = Requests
    BY DEF Turn
  <2>2. ASSUME NEW o \in Requests, o # r
        PROVE  /\ DOMAIN th'[o] = Fields /\ th'[o].begun \in BOOLEAN /\ th'[o].stale \in BOOLEAN
               /\ th'[o].async \in BOOLEAN
               /\ Lawful(o, th'[o].todo, th'[o].async, th'[o].on, th'[o].kills)
    <3>1. Lawful(o, th[o].todo, th[o].async, th[o].on, th[o].kills) /\ th[o].begun \in BOOLEAN
          /\ th[o].async \in BOOLEAN
      BY DEF Shaped, L
    <3>2. Unmoved(o)
      BY <2>2, <1>2
    <3> QED
      BY <3>1, <3>2 DEF Unmoved
  <2>3. /\ DOMAIN th'[r] = Fields /\ th'[r].begun \in BOOLEAN /\ th'[r].stale \in BOOLEAN
        /\ th'[r].async \in BOOLEAN
        /\ Lawful(r, th'[r].todo, th'[r].async, th'[r].on, th'[r].kills)
    <3>1. Lawful(r, th[r].todo, th[r].async, th[r].on, th[r].kills) /\ th[r].stale \in BOOLEAN
          /\ th[r].async \in BOOLEAN /\ th[r].todo # <<>>
      BY <1>1 DEF Shaped, L, Running
    <3>2. /\ Lawful(r, Tail(th[r].todo), th[r].async, th[r].on, th[r].kills)
          /\ Lawful(r, <<>>, th[r].async, th[r].on, th[r].kills)
      BY <3>1, LawfulTail, LawfulEmpty
    <3> QED
      BY <3>1, <3>2, <1>3 DEF Same
  <2> QED
    BY <2>1, <2>2, <2>3 DEF Shaped, L
<1>5. Held'
  <2>1. \A o \in Requests \ {r} : Mid(o)' <=> Mid(o)
    BY <1>2 DEF Mid, Running, Now, Unmoved
  <2>2. CASE th[r].async
    <3>1. \A o \in Requests \ {r} : ~Mid(o)'
      BY <2>1, <2>2, <1>1 DEF Held
    <3>2. Mid(r)' <=> ~(th'[r].todo = <<>> \/ Head(th'[r].todo).op = "await")
      BY <2>2, <1>3 DEF Mid, Running, Now, Same
    <3>3. loop' = IF th'[r].todo = <<>> \/ Head(th'[r].todo).op = "await" THEN None ELSE r
      BY <2>2 DEF Turn, Loops
    <3> QED
      BY <3>1, <3>2, <3>3, <1>1 DEF Held
  <2>3. CASE ~th[r].async
    <3>1. loop' = loop
      BY <2>3 DEF Turn, Loops
    <3>2. ~Mid(r) /\ ~Mid(r)'
      BY <2>3, <1>3 DEF Mid, Same
    <3> QED
      BY <3>1, <3>2, <2>1 DEF Held
  <2> QED
    BY <2>2, <2>3
<1> QED
  BY <1>4, <1>5

-----------------------------------------------------------------------------
(* What a step does to the rows: each action by its outcomes.              *)

\* A mark of lateness lasts as long as its row.
Lasts == \A x \in late : x[2] \in DOMAIN db'[x[1]] => x \in late'

Quiet(r) ==
    /\ Turn(r) /\ db' = db /\ Lasts /\ crashes' = crashes
    /\ \A o \in Requests \ {r} : th'[o].stale <=> th[o].stale

Recalls(r) == th'[r].me = th[r].me /\ th'[r].row = th[r].row
Recollects(r) == Recalls(r) /\ th'[r].pick = th[r].pick

Checked(r) ==
    /\ Quiet(r) /\ Now(r).op \in Checks
    /\ \/ Dropped(r)
       \/ /\ Onward(r) /\ Holds(r, Now(r)) /\ th'[r].pick = th[r].pick
          /\ Now(r).op # "auth" => th'[r].me = th[r].me
          /\ Now(r).op \notin {"auth", "need", "needof"} => th'[r].row = th[r].row
          /\ Now(r).op \in {"need", "needof"} => /\ Now(r).id \in DOMAIN db[Now(r).tab]
                                                 /\ th'[r].row = db[Now(r).tab][Now(r).id]

Looked(r) ==
    /\ Quiet(r) /\ Now(r).op \in {"listed", "unique", "seed"} /\ Onward(r) /\ Recalls(r)
    /\ th'[r].pick = Picked(Now(r))

Resumed(r) == Quiet(r) /\ Now(r).op = "await" /\ Onward(r) /\ Recollects(r)

\* A write that has nothing to do, and one that SQLite refuses.
Skipped(r) ==
    /\ Quiet(r) /\ Now(r).op \in Inserts \cup {"set", "place"} /\ Onward(r) /\ Recollects(r)
    /\ Now(r).op = "place" => Now(r).id \notin DOMAIN db[Now(r).tab]
Failed(r) == Quiet(r) /\ Now(r).op \in Inserts /\ Dropped(r)

Loud(r) ==
    /\ Turn(r) /\ Onward(r) /\ Recollects(r) /\ Lasts /\ DOMAIN db' = Tables /\ crashes' = crashes
    /\ \A o \in Requests \ {r} : th'[o].stale <=> th[o].stale \/ o \in Overtaken(r, db')

Others(tab) == \A t \in Tables \ {tab} : db'[t] = db[t]

Added(r) ==
    LET c == Now(r)
        id == Inserted(r)
        row == Ranked(c)
    IN
    /\ Loud(r) /\ c.op \in Inserts /\ c.tab \in Tables /\ Others(c.tab) /\ ~Needless(r)
    /\ id \notin DOMAIN db[c.tab] /\ DOMAIN db'[c.tab] = DOMAIN db[c.tab] \cup {id}
    /\ db'[c.tab][id] = row /\ \A x \in DOMAIN db[c.tab] : db'[c.tab][x] = db[c.tab][x]
    /\ Belated(r, c.tab, row) => <<c.tab, id>> \in late'
    /\ c.tab = "sessions" => row.user \in DOMAIN db.users

Column(c) == IF c.op = "place" THEN "rank" ELSE c.col
Value(c) == IF c.op = "place" THEN c.rank ELSE c.val

Rewritten(r) ==
    LET c == Now(r)
        row == [db[c.tab][c.id] EXCEPT ![Column(c)] = Value(c)]
    IN
    /\ Loud(r) /\ c.op \in {"set", "place"} /\ c.tab \in Tables /\ Others(c.tab)
    /\ c.id \in DOMAIN db[c.tab] /\ DOMAIN db'[c.tab] = DOMAIN db[c.tab]
    /\ db'[c.tab][c.id] = row
    /\ \A x \in DOMAIN db[c.tab] \ {c.id} : db'[c.tab][x] = db[c.tab][x]
    /\ c.op = "set" /\ (\E f \in Refs : f[1] = c.tab /\ f[2] = c.col) /\ Belated(r, c.tab, row)
           => <<c.tab, c.id>> \in late'

Nulled(r) ==
    LET c == Now(r) IN
    /\ Loud(r) /\ c.op = "null" /\ c.tab \in Tables /\ Others(c.tab)
    /\ DOMAIN db'[c.tab] = DOMAIN db[c.tab]
    /\ \A x \in DOMAIN db[c.tab] :
           db'[c.tab][x] = IF db[c.tab][x][c.col] = c.val THEN [db[c.tab][x] EXCEPT ![c.col] = None]
                           ELSE db[c.tab][x]

Marked(r) ==
    /\ Loud(r) /\ Now(r).op = "markall" /\ Others("lan") /\ DOMAIN db'.lan = DOMAIN db.lan

Gone(r) ==
    LET c == Now(r) IN
    IF c.op = "del" THEN Matching(c.tab, c.col, c.val) \ {c.but}
    ELSE IF c.val \in th[r].pick THEN Matching(c.tab, c.col, c.val) ELSE {}

Spared(r) ==
    LET c == Now(r) IN
    IF c.op = "del" /\ c.but # None /\ Is("users", c.val)
    THEN {c.but} \cap DOMAIN db.sessions ELSE {}

Deleted(r) ==
    LET c == Now(r) IN
    /\ Loud(r) /\ c.op \in {"del", "dellisted"} /\ c.tab \in Tables
    /\ \A t \in Tables \ {c.tab, "sessions"} : db'[t] = db[t]
    /\ DOMAIN db'[c.tab] = DOMAIN db[c.tab] \ Gone(r)
    /\ c.tab # "sessions" => \A x \in DOMAIN db'[c.tab] : db'[c.tab][x] = db[c.tab][x]
    /\ IF c.tab = "users"
       THEN /\ \A s \in DOMAIN db'.sessions : s \in DOMAIN db.sessions
            /\ \A s \in DOMAIN db.sessions :
                   s \in DOMAIN db'.sessions <=> db.sessions[s].user \notin Gone(r)
            /\ \A s \in DOMAIN db'.sessions : db'.sessions[s] = db.sessions[s]
       ELSE /\ c.tab # "sessions" => DOMAIN db'.sessions = DOMAIN db.sessions
            /\ \A s \in DOMAIN db'.sessions :
                   db'.sessions[s] = IF s \in Spared(r)
                                     THEN [db.sessions[s] EXCEPT !.pw = db.users[c.val].pw]
                                     ELSE db.sessions[s]
    /\ c.tab = "users" /\ th[r].me = None =>
           \A t \in DOMAIN db.tasks : db.tasks[t].assignee \in Gone(r) => <<"tasks", t>> \in late'

Lost == {q \in Requests : Running(q) /\ th[q].begun}
Crashed ==
    /\ db' = db /\ late \subseteq late' /\ loop' = None /\ DOMAIN th' = Requests
    /\ crashes' \in 1 .. MaxCrashes
    /\ \A q \in Requests \ Lost : th'[q] = th[q]
    /\ \A q \in Lost : th'[q] = [th[q] EXCEPT !.todo = <<>>]
    /\ \A q \in Lost : \A f \in Refs : \A id \in DOMAIN db[f[1]] :
           <<f[3], db[f[1]][id][f[2]]>> \in th[q].kills => <<f[1], id>> \in late'
    /\ \A q \in Lost : \A s \in DOMAIN db.sessions :
           th[q].on = db.sessions[s].user => <<"sessions", s>> \in late'

Acts(r) == \/ Checked(r) \/ Looked(r) \/ Resumed(r) \/ Skipped(r) \/ Failed(r)
           \/ Added(r) \/ Rewritten(r) \/ Nulled(r) \/ Marked(r) \/ Deleted(r)

\* The statement that is next.
LEMMA NowIs ==
    ASSUME Shaped, NEW r \in Requests, Running(r)
    PROVE  /\ L(r) # <<>> /\ Listing(L(r)) /\ Len(L(r)) \in Nat /\ Len(L(r)) > 0
           /\ DOMAIN L(r) = 1 .. Len(L(r)) /\ 1 \in DOMAIN L(r) /\ Now(r) = L(r)[1]
           /\ LawfulStatement(r, Now(r))
           /\ Len(Tail(L(r))) = Len(L(r)) - 1 /\ DOMAIN Tail(L(r)) = 1 .. Len(L(r)) - 1
           /\ \A i \in 1 .. Len(L(r)) - 1 : Tail(L(r))[i] = L(r)[i + 1]
<1>1. L(r) # <<>> /\ Listing(L(r))
  BY DEF Running, L, Shaped, Lawful
<1>2. /\ Len(L(r)) \in Nat /\ Len(L(r)) > 0 /\ DOMAIN L(r) = 1 .. Len(L(r))
      /\ Head(L(r)) = L(r)[1]
      /\ Len(Tail(L(r))) = Len(L(r)) - 1 /\ DOMAIN Tail(L(r)) = 1 .. Len(L(r)) - 1
      /\ \A i \in 1 .. Len(L(r)) - 1 : Tail(L(r))[i] = L(r)[i + 1]
  BY <1>1, ListOf
<1>3. 1 \in DOMAIN L(r)
  BY <1>2
<1>4. LawfulStatement(r, L(r)[1])
  BY <1>3 DEF Shaped, Lawful
<1>5. Now(r) = L(r)[1]
  BY <1>2 DEF Now, L
<1> QED
  BY <1>1, <1>2, <1>3, <1>4, <1>5

LEMMA MayStepRuns == ASSUME NEW r, MayStep(r) PROVE Running(r)
BY DEF MayStep, Running

LEMMA LawfulTables ==
    ASSUME NEW r, NEW c, LawfulStatement(r, c), c.op \in Writes \ {"markall"}
    PROVE  c.tab \in Tables
<1>1. c.op \in Inserts \cup {"set", "place", "null", "del", "dellisted"}
  BY DEF Writes, Inserts
<1>2. CASE c.op \in Inserts
  BY <1>2 DEF LawfulStatement, Inserts, PutTables, PickTables, Tables
<1>3. CASE c.op = "set"
  BY <1>3 DEF LawfulStatement, SetColumns, Tables
<1>4. CASE c.op = "place"
  BY <1>4 DEF LawfulStatement, RankTables, Tables
<1>5. CASE c.op = "null"
  BY <1>5 DEF LawfulStatement, NullColumns, Tables
<1>6. CASE c.op \in {"del", "dellisted"}
  BY <1>6 DEF LawfulStatement, Tables
<1> QED
  BY <1>1, <1>2, <1>3, <1>4, <1>5, <1>6

LEMMA CheckActs ==
    ASSUME Shaped, NEW r \in Requests, Check(r)
    PROVE  Checked(r)
<1> DEFINE c == Now(r)
<1>1. MayStep(r) /\ c.op \in Checks /\ db' = db /\ late' = late /\ crashes' = crashes
  BY DEF Check
<1>2. Lasts
  BY <1>1 DEF Lasts
<1>3. DOMAIN th[r] = Fields /\ \A o \in Requests : th[o].stale \in BOOLEAN
  BY DEF Shaped
<1>4. CASE ~Holds(r, c)
  <2>1. Refused(r)
    BY <1>4 DEF Check
  <2>2. Turn(r) /\ Dropped(r) /\ \A o \in Requests \ {r} : th'[o] = th[o]
    BY <2>1, <1>1, RefusedTurns
  <2> QED
    BY <2>2, <1>1, <1>2 DEF Checked, Quiet
<1>5. CASE Holds(r, c)
  <2>1. Goes(r, Learnt(r, c), {})
    BY <1>5 DEF Check
  <2> DEFINE k == Learnt(r, c)
  <2>2. /\ DOMAIN k = Fields /\ k.async = th[r].async /\ k.kills = th[r].kills
        /\ k.on = th[r].on /\ k.stale = th[r].stale /\ k.pick = th[r].pick
        /\ c.op # "auth" => k.me = th[r].me
        /\ c.op \notin {"auth", "need", "needof"} => k.row = th[r].row
        /\ c.op \in {"need", "needof"} => k.row = db[c.tab][c.id]
    <3>1. CASE c.op = "auth"
      BY <3>1, <1>3 DEF Learnt, Fields
    <3>2. CASE c.op \in {"need", "needof"}
      BY <3>2, <1>3 DEF Learnt, Fields, Row
    <3>3. CASE c.op \notin {"auth", "need", "needof"}
      BY <3>3, <1>3 DEF Learnt
    <3> QED
      BY <3>1, <3>2, <3>3
  <2> HIDE DEF k
  <2>3. Goes(r, k, {})
    BY <2>1 DEF k
  <2>4. /\ Turn(r) /\ Onward(r)
        /\ th'[r].me = k.me /\ th'[r].row = k.row /\ th'[r].pick = k.pick
        /\ \A o \in Requests \ {r} : th'[o].stale <=> th[o].stale \/ o \in {}
    BY <2>2, <2>3, <1>1, GoesTurns
  <2>5. c.op \in {"need", "needof"} => c.id \in DOMAIN db[c.tab]
    BY <1>5 DEF Holds, Is
  <2> QED
    BY <2>2, <2>4, <2>5, <1>1, <1>2, <1>5 DEF Checked, Quiet
<1> QED
  BY <1>4, <1>5

LEMMA ChooseActs ==
    ASSUME Shaped, NEW r \in Requests, Choose(r)
    PROVE  Looked(r)
<1>1. /\ MayStep(r) /\ Now(r).op \in {"listed", "unique", "seed"}
      /\ db' = db /\ late' = late /\ crashes' = crashes
  BY DEF Choose
<1>2. Lasts
  BY <1>1 DEF Lasts
<1>3. DOMAIN th[r] = Fields /\ \A o \in Requests : th[o].stale \in BOOLEAN
  BY DEF Shaped
<1> DEFINE k == [th[r] EXCEPT !.pick = Picked(Now(r))]
<1>4. /\ DOMAIN k = Fields /\ k.async = th[r].async /\ k.kills = th[r].kills
      /\ k.on = th[r].on /\ k.stale = th[r].stale /\ k.pick = Picked(Now(r))
      /\ k.me = th[r].me /\ k.row = th[r].row
  BY <1>3 DEF Fields
<1>5. Goes(r, k, {})
  BY DEF Choose
<1> HIDE DEF k
<1>6. /\ Turn(r) /\ Onward(r)
      /\ th'[r].me = k.me /\ th'[r].row = k.row /\ th'[r].pick = k.pick
      /\ \A o \in Requests \ {r} : th'[o].stale <=> th[o].stale \/ o \in {}
  BY <1>4, <1>5, <1>1, GoesTurns
<1> QED
  BY <1>1, <1>2, <1>4, <1>6 DEF Looked, Quiet, Recalls

LEMMA ResumeActs ==
    ASSUME Shaped, NEW r \in Requests, Resume(r)
    PROVE  Resumed(r)
<1>1. /\ MayStep(r) /\ Now(r).op = "await" /\ db' = db /\ late' = late /\ crashes' = crashes
      /\ Goes(r, th[r], {})
  BY DEF Resume
<1>2. Lasts
  BY <1>1 DEF Lasts
<1>3. DOMAIN th[r] = Fields /\ \A o \in Requests : th[o].stale \in BOOLEAN
  BY DEF Shaped
<1>4. /\ Turn(r) /\ Onward(r)
      /\ th'[r].me = th[r].me /\ th'[r].row = th[r].row /\ th'[r].pick = th[r].pick
      /\ \A o \in Requests \ {r} : th'[o].stale <=> th[o].stale \/ o \in {}
  BY <1>1, <1>3, GoesTurns
<1> QED
  BY <1>1, <1>2, <1>4 DEF Resumed, Quiet, Recollects, Recalls

LEMMA BecomesLoud ==
    ASSUME Shaped, NEW r \in Requests, MayStep(r), NEW d, NEW marks, Becomes(r, d, marks),
           DOMAIN d = Tables
    PROVE  /\ Loud(r) /\ db' = d
           /\ \A x \in marks : x[2] \in DOMAIN d[x[1]] => x \in late'
<1>1. /\ db' = d /\ Goes(r, th[r], Overtaken(r, d)) /\ crashes' = crashes
      /\ late' = {x \in late \cup marks : x[2] \in DOMAIN d[x[1]]}
  BY DEF Becomes
<1>2. Lasts
  BY <1>1 DEF Lasts
<1>3. DOMAIN th[r] = Fields
  BY DEF Shaped
<1>4. /\ Turn(r) /\ Onward(r)
      /\ th'[r].me = th[r].me /\ th'[r].row = th[r].row /\ th'[r].pick = th[r].pick
      /\ \A o \in Requests \ {r} : th'[o].stale <=> th[o].stale \/ o \in Overtaken(r, d)
  BY <1>1, <1>3, GoesTurns
<1> QED
  BY <1>1, <1>2, <1>4 DEF Loud, Recollects, Recalls

LEMMA KeepsQuiet ==
    ASSUME Shaped, NEW r \in Requests, MayStep(r), Becomes(r, db, {}), DOMAIN db = Tables
    PROVE  Quiet(r) /\ Onward(r) /\ Recollects(r)
<1>1. Loud(r) /\ db' = db
  BY BecomesLoud
<1>2. \A o \in Requests \ {r} : th'[o].stale <=> th[o].stale
  <2>1. Overtaken(r, db') = {}
    BY <1>1 DEF Overtaken
  <2>2. \A o \in Requests : th[o].stale \in BOOLEAN
    BY DEF Shaped
  <2>3. \A o \in Requests \ {r} : th'[o].stale <=> th[o].stale \/ o \in Overtaken(r, db')
    BY <1>1 DEF Loud
  <2> QED
    BY <2>1, <2>2, <2>3
<1> QED
  BY <1>1, <1>2 DEF Loud, Quiet

LEMMA CrashActs ==
    ASSUME RegistryAssumption, Shaped, crashes \in 0 .. MaxCrashes, Crash
    PROVE  Crashed
<1> DEFINE lost == {q \in Requests : Running(q) /\ th[q].begun}
           dying == UNION {th[q].kills : q \in lost}
           half == UNION {{<<f[1], id>> : id \in {i \in DOMAIN db[f[1]] :
                            <<f[3], db[f[1]][i][f[2]]>> \in dying}} : f \in Refs}
           signed == {<<"sessions", s>> : s \in {x \in DOMAIN db.sessions :
                            \E q \in lost : th[q].on = db.sessions[x].user}}
<1>1. /\ crashes < MaxCrashes /\ crashes' = crashes + 1
      /\ th' = [q \in Requests |-> IF q \in lost THEN [th[q] EXCEPT !.todo = <<>>] ELSE th[q]]
      /\ loop' = None /\ late' = late \cup half \cup signed /\ db' = db
  BY DEF Crash
<1>2. lost = Lost
  BY DEF Lost
<1>3. ASSUME NEW q \in lost, NEW f \in Refs, NEW id \in DOMAIN db[f[1]],
             <<f[3], db[f[1]][id][f[2]]>> \in th[q].kills
      PROVE  <<f[1], id>> \in half
  <2>1. <<f[3], db[f[1]][id][f[2]]>> \in dying
    BY <1>3
  <2> QED
    BY <2>1
<1>4. ASSUME NEW q \in lost, NEW s \in DOMAIN db.sessions, th[q].on = db.sessions[s].user
      PROVE  <<"sessions", s>> \in signed
  BY <1>4
<1> HIDE DEF half, signed, dying
<1>5. crashes' \in 1 .. MaxCrashes
  BY <1>1 DEF RegistryAssumption
<1>6. \A q \in Lost : th'[q] = [th[q] EXCEPT !.todo = <<>>]
  BY <1>1, <1>2 DEF Lost
<1>7. DOMAIN th' = Requests /\ \A q \in Requests \ Lost : th'[q] = th[q]
  BY <1>1, <1>2
<1> HIDE DEF lost
<1>8. \A q \in Lost : \A f \in Refs : \A id \in DOMAIN db[f[1]] :
           <<f[3], db[f[1]][id][f[2]]>> \in th[q].kills => <<f[1], id>> \in late'
  BY <1>1, <1>2, <1>3
<1>9. \A q \in Lost : \A s \in DOMAIN db.sessions :
           th[q].on = db.sessions[s].user => <<"sessions", s>> \in late'
  BY <1>1, <1>2, <1>4
<1> QED
  BY <1>1, <1>5, <1>6, <1>7, <1>8, <1>9 DEF Crashed

\* A row gets its rank, and no other column changes.
LEMMA RankedIs ==
    ASSUME NEW c
    PROVE  /\ DOMAIN Ranked(c) = DOMAIN c.row
           /\ \A f \in DOMAIN c.row : f # "rank" => Ranked(c)[f] = c.row[f]
<1>1. \A n : DOMAIN [c.row EXCEPT !.rank = n] = DOMAIN c.row
             /\ \A f \in DOMAIN c.row : f # "rank" => [c.row EXCEPT !.rank = n][f] = c.row[f]
  OBVIOUS
<1>2. Ranked(c) = c.row \/ \E n : Ranked(c) = [c.row EXCEPT !.rank = n]
  BY DEF Ranked
<1> QED
  BY <1>1, <1>2

LEMMA InsertActs ==
    ASSUME Shaped, DOMAIN db = Tables, NEW r \in Requests, Insert(r)
    PROVE  Skipped(r) \/ Failed(r) \/ Added(r)
<1> DEFINE c == Now(r)
           id == Inserted(r)
           row == Ranked(c)
           new == [x \in DOMAIN db[c.tab] \cup {id} |-> IF x = id THEN row ELSE db[c.tab][x]]
           d == [db EXCEPT ![c.tab] = new]
           marks == IF Belated(r, c.tab, row) THEN {<<c.tab, id>>} ELSE {}
<1>1. MayStep(r) /\ c.op \in Inserts
  BY DEF Insert, Inserts
<1>2. c.tab \in Tables
  <2>1. LawfulStatement(r, c)
    BY <1>1, MayStepRuns, NowIs
  <2>2. c.op \in Writes \ {"markall"}
    BY <1>1 DEF Writes, Inserts
  <2> QED
    BY <2>1, <2>2, LawfulTables
<1>3. CASE Needless(r) /\ Keeps(r)
  <2>1. Becomes(r, db, {})
    BY <1>3 DEF Keeps
  <2>2. c.op # "place"
    BY <1>1 DEF Inserts
  <2> QED
    BY <2>1, <2>2, <1>1, KeepsQuiet DEF Skipped
<1>4. CASE ~Needless(r) /\ Refused(r) /\ UNCHANGED <<db, late, crashes>>
  <2>1. Turn(r) /\ Dropped(r) /\ \A o \in Requests \ {r} : th'[o] = th[o]
    BY <1>4, <1>1, RefusedTurns
  <2>2. Lasts
    BY <1>4 DEF Lasts
  <2> QED
    BY <2>1, <2>2, <1>4, <1>1 DEF Failed, Quiet
<1>5. CASE /\ ~Needless(r) /\ id \notin DOMAIN db[c.tab]
           /\ (c.tab = "sessions" => row.user \in DOMAIN db.users)
           /\ Becomes(r, d, marks)
  <2>1. DOMAIN d = Tables /\ d[c.tab] = new /\ \A t \in Tables \ {c.tab} : d[t] = db[t]
    BY <1>2
  <2>2. /\ DOMAIN new = DOMAIN db[c.tab] \cup {id} /\ new[id] = row
        /\ \A x \in DOMAIN db[c.tab] : new[x] = db[c.tab][x]
    BY <1>5
  <2> HIDE DEF d, new
  <2>3. /\ Loud(r) /\ db' = d
        /\ \A x \in marks : x[2] \in DOMAIN d[x[1]] => x \in late'
    BY <1>1, <1>5, <2>1, BecomesLoud
  <2>4. Belated(r, c.tab, row) => <<c.tab, id>> \in late'
    <3> SUFFICES ASSUME Belated(r, c.tab, row)
                 PROVE  <<c.tab, id>> \in late'
      OBVIOUS
    <3>1. <<c.tab, id>> \in marks
      OBVIOUS
    <3>2. id \in DOMAIN d[c.tab]
      BY <2>1, <2>2
    <3> HIDE DEF marks, c, id
    <3> QED
      BY <3>1, <3>2, <2>3
  <2> HIDE DEF marks
  <2>5. Others(c.tab)
    BY <2>1, <2>3 DEF Others
  <2> QED
    BY <1>1, <1>2, <1>5, <2>1, <2>2, <2>3, <2>4, <2>5 DEF Added
<1> QED
  BY <1>3, <1>4, <1>5 DEF Insert, Is

LEMMA UpdateActs ==
    ASSUME Shaped, DOMAIN db = Tables, NEW r \in Requests, Update(r)
    PROVE  Skipped(r) \/ Rewritten(r)
<1> DEFINE c == Now(r)
           row == [db[c.tab][c.id] EXCEPT ![Column(c)] = Value(c)]
           d == [db EXCEPT ![c.tab][c.id] = row]
           names == c.op = "set" /\ \E f \in Refs : f[1] = c.tab /\ f[2] = c.col
           marks == IF names /\ Belated(r, c.tab, row) THEN {<<c.tab, c.id>>} ELSE {}
<1>1. MayStep(r) /\ c.op \in {"set", "place"}
  BY DEF Update
<1>2. c.tab \in Tables
  <2>1. LawfulStatement(r, c)
    BY <1>1, MayStepRuns, NowIs
  <2>2. c.op \in Writes \ {"markall"}
    BY <1>1 DEF Writes
  <2> QED
    BY <2>1, <2>2, LawfulTables
<1>3. CASE ~Is(c.tab, c.id) /\ Keeps(r)
  <2>1. Becomes(r, db, {})
    BY <1>3 DEF Keeps
  <2>2. c.id \notin DOMAIN db[c.tab]
    BY <1>3 DEF Is
  <2> QED
    BY <2>1, <2>2, <1>1, KeepsQuiet DEF Skipped
<1>4. CASE Is(c.tab, c.id)
  <2>1. row = IF c.op = "place" THEN [Row(c.tab, c.id) EXCEPT !.rank = c.rank]
              ELSE [Row(c.tab, c.id) EXCEPT ![c.col] = c.val]
    BY DEF Column, Value, Row
  <2>2. Becomes(r, d, marks)
    BY <1>4, <2>1 DEF Update
  <2>3. c.id \in DOMAIN db[c.tab]
    BY <1>4 DEF Is
  <2> HIDE DEF row
  <2>4. DOMAIN d = Tables /\ d[c.tab] = [db[c.tab] EXCEPT ![c.id] = row]
        /\ \A t \in Tables \ {c.tab} : d[t] = db[t]
    BY <1>2
  <2>5. /\ DOMAIN d[c.tab] = DOMAIN db[c.tab] /\ d[c.tab][c.id] = row
        /\ \A x \in DOMAIN db[c.tab] \ {c.id} : d[c.tab][x] = db[c.tab][x]
    BY <2>3, <2>4
  <2> HIDE DEF d
  <2>6. /\ Loud(r) /\ db' = d
        /\ \A x \in marks : x[2] \in DOMAIN d[x[1]] => x \in late'
    BY <1>1, <2>2, <2>4, BecomesLoud
  <2>7. names /\ Belated(r, c.tab, row) => <<c.tab, c.id>> \in late'
    <3> SUFFICES ASSUME names, Belated(r, c.tab, row)
                 PROVE  <<c.tab, c.id>> \in late'
      OBVIOUS
    <3>1. <<c.tab, c.id>> \in marks
      OBVIOUS
    <3>2. c.id \in DOMAIN d[c.tab]
      BY <2>3, <2>5
    <3> HIDE DEF marks, c
    <3> QED
      BY <3>1, <3>2, <2>6
  <2> HIDE DEF marks
  <2>8. Others(c.tab)
    BY <2>4, <2>6 DEF Others
  <2> USE DEF row
  <2> QED
    BY <1>1, <1>2, <2>3, <2>5, <2>6, <2>7, <2>8 DEF Rewritten
<1> QED
  BY <1>3, <1>4 DEF Update

LEMMA UpdateAllActs ==
    ASSUME Shaped, DOMAIN db = Tables, NEW r \in Requests, UpdateAll(r)
    PROVE  Nulled(r) \/ Marked(r)
<1> DEFINE c == Now(r)
<1>1. MayStep(r)
  BY DEF UpdateAll
<1>2. CASE c.op = "null"
  <2> DEFINE new == [id \in DOMAIN db[c.tab] |->
                        IF db[c.tab][id][c.col] = c.val THEN [db[c.tab][id] EXCEPT ![c.col] = None]
                        ELSE db[c.tab][id]]
             d == [db EXCEPT ![c.tab] = new]
  <2>1. c.tab \in Tables
    <3>1. LawfulStatement(r, c)
      BY <1>1, MayStepRuns, NowIs
    <3>2. c.op \in Writes \ {"markall"}
      BY <1>2 DEF Writes
    <3> QED
      BY <3>1, <3>2, LawfulTables
  <2>2. Becomes(r, d, {})
    BY <1>2 DEF UpdateAll
  <2>3. DOMAIN d = Tables /\ d[c.tab] = new /\ \A t \in Tables \ {c.tab} : d[t] = db[t]
    BY <2>1
  <2> HIDE DEF d
  <2>4. Loud(r) /\ db' = d
    BY <1>1, <2>2, <2>3, BecomesLoud
  <2>5. Others(c.tab)
    BY <2>3, <2>4 DEF Others
  <2> QED
    BY <1>2, <2>1, <2>3, <2>4, <2>5 DEF Nulled
<1>3. CASE c.op = "markall"
  <2> DEFINE new == [n \in DOMAIN db.lan |-> [db.lan[n] EXCEPT !.baseline = "yes"]]
             d == IF th[r].pick = {} THEN db ELSE [db EXCEPT !.lan = new]
  <2>1. Becomes(r, d, {})
    BY <1>3 DEF UpdateAll
  <2>2. DOMAIN d = Tables /\ DOMAIN d.lan = DOMAIN db.lan /\ \A t \in Tables \ {"lan"} : d[t] = db[t]
    <3>1. "lan" \in Tables
      BY DEF Tables
    <3>2. [db EXCEPT !.lan = new].lan = new
      BY <3>1
    <3> QED
      BY <3>1, <3>2
  <2> HIDE DEF d
  <2>3. Loud(r) /\ db' = d
    BY <1>1, <2>1, <2>2, BecomesLoud
  <2> QED
    BY <1>3, <2>2, <2>3 DEF Marked, Others
<1> QED
  BY <1>2, <1>3 DEF UpdateAll

LEMMA DeleteActs ==
    ASSUME Shaped, DOMAIN db = Tables, NEW r \in Requests, Delete(r)
    PROVE  Deleted(r)
<1> DEFINE c == Now(r)
           gone == Gone(r)
           kept == Spared(r)
           cut == [db EXCEPT ![c.tab] = [id \in DOMAIN db[c.tab] \ gone |-> db[c.tab][id]]]
           left == IF c.tab = "users" THEN {t \in DOMAIN db.tasks : db.tasks[t].assignee \in gone} ELSE {}
           signed == [s \in DOMAIN cut.sessions |->
                        IF s \in kept THEN [cut.sessions[s] EXCEPT !.pw = db.users[c.val].pw]
                        ELSE cut.sessions[s]]
           d == IF c.tab = "users" THEN Cascaded(cut, gone) ELSE [cut EXCEPT !.sessions = signed]
           marks == IF th[r].me = None THEN {<<"tasks", t>> : t \in left} ELSE {}
<1>1. MayStep(r) /\ c.op \in {"del", "dellisted"}
  BY DEF Delete
<1>2. c.tab \in Tables
  <2>1. LawfulStatement(r, c)
    BY <1>1, MayStepRuns, NowIs
  <2>2. c.op \in Writes \ {"markall"}
    BY <1>1 DEF Writes
  <2> QED
    BY <2>1, <2>2, LawfulTables
<1>3. Becomes(r, d, marks)
  BY DEF Delete, Gone, Spared, Row
<1>4. {"sessions", "users", "tasks"} \subseteq Tables
  BY DEF Tables
<1>5. /\ DOMAIN cut = Tables /\ \A t \in Tables \ {c.tab} : cut[t] = db[t]
      /\ cut[c.tab] = [id \in DOMAIN db[c.tab] \ gone |-> db[c.tab][id]]
  BY <1>2
<1> HIDE DEF cut
<1>6. DOMAIN d = Tables /\ \A t \in Tables \ {"sessions"} : d[t] = cut[t]
  BY <1>4, <1>5 DEF Cascaded
<1>7. c.tab = "users" => d["sessions"] = [s \in {x \in DOMAIN db.sessions : db.sessions[x].user \notin gone}
                                          |-> db.sessions[s]]
  BY <1>4, <1>5 DEF Cascaded
<1>8. c.tab # "users" => d["sessions"] = signed
  BY <1>4, <1>5
<1> HIDE DEF d
<1>9. /\ Loud(r) /\ db' = d
      /\ \A x \in marks : x[2] \in DOMAIN d[x[1]] => x \in late'
  BY <1>1, <1>3, <1>6, BecomesLoud
<1>10. \A t \in Tables \ {c.tab, "sessions"} : db'[t] = db[t]
  BY <1>5, <1>6, <1>9
<1>11. DOMAIN d[c.tab] = DOMAIN db[c.tab] \ gone
  <2>1. CASE c.tab = "sessions"
    BY <2>1, <1>8, <1>5
  <2>2. CASE c.tab # "sessions"
    BY <2>2, <1>2, <1>5, <1>6
  <2> QED
    BY <2>1, <2>2
<1>12. c.tab # "sessions" => \A x \in DOMAIN d[c.tab] : d[c.tab][x] = db[c.tab][x]
  BY <1>2, <1>5, <1>6
<1>13. ASSUME c.tab = "users"
       PROVE  /\ \A s \in DOMAIN d["sessions"] : s \in DOMAIN db.sessions
              /\ \A s \in DOMAIN db.sessions :
                     s \in DOMAIN d["sessions"] <=> db.sessions[s].user \notin gone
              /\ \A s \in DOMAIN d["sessions"] : d["sessions"][s] = db.sessions[s]
  BY <1>7, <1>13
<1>14. ASSUME c.tab # "users"
       PROVE  /\ c.tab # "sessions" => DOMAIN d["sessions"] = DOMAIN db.sessions
              /\ \A s \in DOMAIN d["sessions"] :
                     d["sessions"][s] = IF s \in kept
                                        THEN [db.sessions[s] EXCEPT !.pw = db.users[c.val].pw]
                                        ELSE db.sessions[s]
  <2>1. DOMAIN signed = DOMAIN cut["sessions"] /\ \A s \in DOMAIN cut["sessions"] : signed[s] =
            IF s \in kept THEN [cut["sessions"][s] EXCEPT !.pw = db.users[c.val].pw]
            ELSE cut["sessions"][s]
    OBVIOUS
  <2>2. d["sessions"] = signed
    BY <1>8, <1>14
  <2> HIDE DEF signed, kept, gone
  <2>3. CASE c.tab = "sessions"
    <3>1. \A s \in DOMAIN cut["sessions"] : cut["sessions"][s] = db.sessions[s]
      BY <2>3, <1>5
    <3> QED
      BY <2>1, <2>2, <2>3, <3>1
  <2>4. CASE c.tab # "sessions"
    <3>1. cut["sessions"] = db["sessions"]
      BY <2>4, <1>4, <1>5
    <3> QED
      BY <2>1, <2>2, <2>4, <3>1
  <2> QED
    BY <2>3, <2>4
<1>15. ASSUME c.tab = "users", th[r].me = None, NEW t \in DOMAIN db.tasks,
              db.tasks[t].assignee \in gone
       PROVE  <<"tasks", t>> \in late'
  <2>1. <<"tasks", t>> \in marks
    BY <1>15
  <2>2. d["tasks"] = db["tasks"]
    BY <1>4, <1>5, <1>6, <1>15
  <2> HIDE DEF marks
  <2> QED
    BY <1>9, <2>1, <2>2
<1> HIDE DEF marks, signed, left
<1>16. IF c.tab = "users"
       THEN /\ \A s \in DOMAIN db'.sessions : s \in DOMAIN db.sessions
            /\ \A s \in DOMAIN db.sessions :
                   s \in DOMAIN db'.sessions <=> db.sessions[s].user \notin gone
            /\ \A s \in DOMAIN db'.sessions : db'.sessions[s] = db.sessions[s]
       ELSE /\ c.tab # "sessions" => DOMAIN db'.sessions = DOMAIN db.sessions
            /\ \A s \in DOMAIN db'.sessions :
                   db'.sessions[s] = IF s \in kept
                                     THEN [db.sessions[s] EXCEPT !.pw = db.users[c.val].pw]
                                     ELSE db.sessions[s]
  <2> HIDE DEF gone, kept, c
  <2> QED
    BY <1>9, <1>13, <1>14
<1> QED
  BY <1>1, <1>2, <1>9, <1>10, <1>11, <1>12, <1>15, <1>16 DEF Deleted

\* Each step is one of these.
LEMMA NextActs ==
    ASSUME RegistryAssumption, Shaped, DOMAIN db = Tables, crashes \in 0 .. MaxCrashes, Next
    PROVE  (\E r \in Requests : Acts(r)) \/ Crashed
<1>1. CASE Crash
  BY <1>1, CrashActs
<1>2. ASSUME NEW r \in Requests, Check(r) \/ Choose(r) \/ Resume(r) \/ Insert(r) \/ Update(r)
                                 \/ UpdateAll(r) \/ Delete(r)
      PROVE  Acts(r)
  BY <1>2, CheckActs, ChooseActs, ResumeActs, InsertActs, UpdateActs, UpdateAllActs, DeleteActs
     DEF Acts
<1> QED
  BY <1>1, <1>2 DEF Next

LEMMA ActsTurn ==
    ASSUME NEW r, Acts(r), DOMAIN db = Tables
    PROVE  /\ Turn(r) /\ r \in Requests /\ Running(r) /\ Lasts /\ DOMAIN db' = Tables
           /\ crashes' = crashes /\ (Recalls(r) \/ Checked(r))
<1>1. Quiet(r) \/ Loud(r)
  BY DEF Acts, Checked, Looked, Resumed, Skipped, Failed, Added, Rewritten, Nulled, Marked, Deleted
<1>2. Turn(r) /\ Lasts /\ DOMAIN db' = Tables /\ crashes' = crashes
  BY <1>1 DEF Quiet, Loud
<1>3. r \in Requests /\ Running(r)
  BY <1>2, MayStepRuns DEF Turn
<1>4. Recalls(r) \/ Checked(r)
  BY DEF Acts, Looked, Resumed, Skipped, Failed, Added, Rewritten, Nulled, Marked, Deleted,
         Loud, Recollects, Dropped, Recalls
<1> QED
  BY <1>2, <1>3, <1>4

LEMMA CrashKeeps ==
    ASSUME RegistryAssumption, Shaped, Held, Crashed
    PROVE  Shaped' /\ Held'
<1>1. \A q \in Requests : /\ DOMAIN th'[q] = Fields /\ th'[q].begun = th[q].begun
                          /\ th'[q].stale = th[q].stale /\ th'[q].async = th[q].async
                          /\ th'[q].on = th[q].on /\ th'[q].kills = th[q].kills
                          /\ th'[q].todo = IF q \in Lost THEN <<>> ELSE th[q].todo
  <2> SUFFICES ASSUME NEW q \in Requests
               PROVE  /\ DOMAIN th'[q] = Fields /\ th'[q].begun = th[q].begun
                      /\ th'[q].stale = th[q].stale /\ th'[q].async = th[q].async
                      /\ th'[q].on = th[q].on /\ th'[q].kills = th[q].kills
                      /\ th'[q].todo = IF q \in Lost THEN <<>> ELSE th[q].todo
    OBVIOUS
  <2>1. DOMAIN th[q] = Fields
    BY DEF Shaped
  <2>2. CASE q \in Lost
    <3>1. th'[q] = [th[q] EXCEPT !.todo = <<>>]
      BY <2>2 DEF Crashed
    <3> QED
      BY <3>1, <2>1, <2>2 DEF Fields
  <2>3. CASE q \notin Lost
    <3>1. th'[q] = th[q]
      BY <2>3 DEF Crashed
    <3> QED
      BY <3>1, <2>1, <2>3
  <2> QED
    BY <2>2, <2>3
<1>2. DOMAIN th' = Requests /\ loop' = None
  BY DEF Crashed
<1>3. Shaped'
  <2>1. ASSUME NEW q \in Requests
        PROVE  Lawful(q, th'[q].todo, th'[q].async, th'[q].on, th'[q].kills)
               /\ th'[q].begun \in BOOLEAN /\ th'[q].stale \in BOOLEAN /\ th'[q].async \in BOOLEAN
    <3>1. Lawful(q, th[q].todo, th[q].async, th[q].on, th[q].kills)
          /\ th[q].begun \in BOOLEAN /\ th[q].stale \in BOOLEAN /\ th[q].async \in BOOLEAN
      BY DEF Shaped, L
    <3>2. Lawful(q, <<>>, th[q].async, th[q].on, th[q].kills)
      BY LawfulEmpty
    <3> QED
      BY <3>1, <3>2, <1>1
  <2> QED
    BY <2>1, <1>1, <1>2 DEF Shaped, L
<1>4. Held'
  <2>1. ASSUME NEW q \in Requests
        PROVE  ~Mid(q)'
    BY <1>1 DEF Mid, Running, Lost
  <2> QED
    BY <2>1, <1>2 DEF Held, RegistryAssumption
<1> QED
  BY <1>3, <1>4

\* The row that is added.
LEMMA AddedRow ==
    ASSUME Shaped, NEW r \in Requests, Added(r)
    PROVE  LET c == Now(r)
               row == Ranked(c)
           IN  /\ HasColumns(c.tab, row) /\ LawfulStatement(r, c)
               /\ c.tab \in {"users", "sessions"} => c.op = "put" /\ Inserted(r) = c.id
               /\ c.tab = "users" => DOMAIN row = {"role", "pw"} /\ row.role \in Roles
               /\ c.tab = "sessions" => DOMAIN row = {"user", "pw"} /\ c.id = r
               /\ c.tab = "coverings" => /\ c.op = "putnew" /\ Inserted(r) = c.id
                                         /\ row.hub = c.row.hub
<1> DEFINE c == Now(r)
           row == Ranked(c)
<1>1. c.op \in Inserts /\ MayStep(r)
  BY DEF Added, Loud, Turn
<1>2. LawfulStatement(r, c)
  BY <1>1, MayStepRuns, NowIs
<1>3. DOMAIN row = DOMAIN c.row /\ \A f \in DOMAIN c.row : f # "rank" => row[f] = c.row[f]
  BY RankedIs
<1> HIDE DEF c, row
<1>4. c.tab \in {"users", "sessions"} => c.op = "put"
  BY <1>1, <1>2 DEF LawfulStatement, Inserts, PickTables
<1>5. c.op # "putpicked" => Inserted(r) = c.id
  BY DEF Inserted, c
<1>6. HasColumns(c.tab, row)
  <2>1. CASE c.op \in {"put", "putnew"}
    BY <2>1, <1>2, <1>3 DEF LawfulStatement, HasColumns
  <2>2. CASE c.op \in {"putpicked", "upsert"}
    <3>1. c.tab \in PickTables \cup {"lan"}
      BY <2>2, <1>2 DEF LawfulStatement
    <3>2. \A f \in Refs : f[1] \notin PickTables \cup {"lan"}
      BY DEF Refs, FootageRefs, ScheduleRefs, CoveringRefs, TaskRefs, PickTables
    <3> QED
      BY <3>1, <3>2 DEF HasColumns
  <2> QED
    BY <1>1, <2>1, <2>2 DEF Inserts
<1>7. c.tab = "users" => DOMAIN row = {"role", "pw"} /\ row.role \in Roles
  <2> HAVE c.tab = "users"
  <2>1. DOMAIN c.row = {"role", "pw"} /\ c.row.role \in Roles
    BY <1>2, <1>4 DEF LawfulStatement
  <2> QED
    BY <2>1, <1>3
<1>8. c.tab = "sessions" => DOMAIN row = {"user", "pw"} /\ c.id = r
  BY <1>2, <1>3, <1>4 DEF LawfulStatement
<1>9. c.tab = "coverings" => c.op = "putnew"
  BY <1>1, <1>2 DEF LawfulStatement, Inserts, PickTables, PutTables
<1>10. c.tab = "coverings" => row.hub = c.row.hub
  <2> HAVE c.tab = "coverings"
  <2>1. HasColumns("coverings", c.row)
    BY <1>2, <1>9 DEF LawfulStatement
  <2>2. "hub" \in DOMAIN c.row
    <3>1. <<"coverings", "hub", "hubs">> \in Refs
      BY DEF Refs, FootageRefs, ScheduleRefs, CoveringRefs, TaskRefs
    <3> QED
      BY <2>1, <3>1 DEF HasColumns
  <2> QED
    BY <2>2, <1>3
<1> QED
  BY <1>2, <1>4, <1>5, <1>6, <1>7, <1>8, <1>9, <1>10 DEF c, row

\* A row that is rewritten keeps its columns.
LEMMA RewrittenRow ==
    ASSUME Shaped, NEW r \in Requests, Rewritten(r)
    PROVE  LET c == Now(r)
               old == db[c.tab][c.id]
               row == db'[c.tab][c.id]
           IN  /\ DOMAIN row = DOMAIN old /\ LawfulStatement(r, c)
               /\ \A f \in DOMAIN old : f # Column(c) => row[f] = old[f]
               /\ Column(c) \in DOMAIN old => row[Column(c)] = Value(c)
               /\ c.tab # "sessions"
               /\ c.tab = "users" => /\ c.op = "set" /\ Column(c) = c.col /\ c.col \in {"pw", "role"}
                                     /\ c.col = "role" => c.val \in Roles
               /\ c.tab = "coverings" => Column(c) \in {"room", "rank"}
<1> DEFINE c == Now(r)
           old == db[c.tab][c.id]
           row == db'[c.tab][c.id]
<1>1. c.op \in {"set", "place"} /\ MayStep(r) /\ row = [old EXCEPT ![Column(c)] = Value(c)]
  BY DEF Rewritten, Loud, Turn
<1>2. LawfulStatement(r, c)
  BY <1>1, MayStepRuns, NowIs
<1> HIDE DEF c, row, old
<1>3. /\ c.tab # "sessions"
      /\ c.tab = "users" => /\ c.op = "set" /\ Column(c) = c.col /\ c.col \in {"pw", "role"}
                            /\ c.col = "role" => c.val \in Roles
      /\ c.tab = "coverings" => Column(c) \in {"room", "rank"}
  <2>1. CASE c.op = "set"
    BY <2>1, <1>2 DEF LawfulStatement, SetColumns, Column
  <2>2. CASE c.op = "place"
    BY <2>2, <1>2 DEF LawfulStatement, RankTables, Column
  <2> QED
    BY <1>1, <2>1, <2>2
<1>4. /\ DOMAIN row = DOMAIN old
      /\ \A f \in DOMAIN old : f # Column(c) => row[f] = old[f]
      /\ Column(c) \in DOMAIN old => row[Column(c)] = Value(c)
  BY <1>1
<1> QED
  BY <1>2, <1>3, <1>4 DEF c, row, old

-----------------------------------------------------------------------------
(* Rows have their columns, and a session its user.                        *)

\* What a delete leaves is as it was, but for the password of a session.
LEMMA DeletedRows ==
    ASSUME NEW r, Deleted(r), NEW t \in Tables, NEW x \in DOMAIN db'[t]
    PROVE  /\ x \in DOMAIN db[t] /\ (t # "sessions" => db'[t][x] = db[t][x])
           /\ DOMAIN db'[t][x] = DOMAIN db[t][x]
           /\ \A f \in DOMAIN db[t][x] : t # "sessions" \/ f # "pw" => db'[t][x][f] = db[t][x][f]
<1> DEFINE c == Now(r)
<1>1. CASE t \notin {c.tab, "sessions"}
  BY <1>1 DEF Deleted
<1>2. CASE t = c.tab /\ t # "sessions"
  BY <1>2 DEF Deleted
<1>3. CASE t = "sessions" /\ c.tab = "users"
  BY <1>3 DEF Deleted
<1>4. CASE t = "sessions" /\ c.tab # "users"
  <2>1. x \in DOMAIN db.sessions
    <3>1. CASE c.tab = "sessions"
      BY <1>4, <3>1 DEF Deleted
    <3>2. CASE c.tab # "sessions"
      BY <1>4, <3>2 DEF Deleted
    <3> QED
      BY <3>1, <3>2
  <2>2. db'.sessions[x] = IF x \in Spared(r)
                          THEN [db.sessions[x] EXCEPT !.pw = db.users[c.val].pw] ELSE db.sessions[x]
    BY <1>4 DEF Deleted
  <2> QED
    BY <1>4, <2>1, <2>2
<1> QED
  BY <1>1, <1>2, <1>3, <1>4

LEMMA KeptNext ==
    ASSUME Shaped, Kept, NEW r \in Requests, Acts(r)
    PROVE  Kept'
<1> DEFINE c == Now(r)
           U(u) == DOMAIN db'.users[u] = {"role", "pw"} /\ db'.users[u].role \in Roles
           S(s) == DOMAIN db'.sessions[s] = {"user", "pw"} /\ db'.sessions[s].user \in DOMAIN db'.users
<1>0. /\ DOMAIN db = Tables /\ \A t \in Tables : \A id \in DOMAIN db[t] : HasColumns(t, db[t][id])
      /\ \A u \in DOMAIN db.users : DOMAIN db.users[u] = {"role", "pw"} /\ db.users[u].role \in Roles
      /\ \A s \in DOMAIN db.sessions : DOMAIN db.sessions[s] = {"user", "pw"}
                                       /\ db.sessions[s].user \in DOMAIN db.users
      /\ "users" \in Tables /\ "sessions" \in Tables
  BY DEF Kept, Tables
<1>1. DOMAIN db' = Tables
  BY <1>0, ActsTurn
<1>2. CASE Quiet(r)
  <2>1. db' = db
    BY <1>2 DEF Quiet
  <2> QED
    BY <2>1 DEF Kept, HasColumns
<1>3. CASE Added(r)
  <2>1. LET row == Ranked(c)
        IN  /\ HasColumns(c.tab, row)
            /\ c.tab = "users" => DOMAIN row = {"role", "pw"} /\ row.role \in Roles
            /\ c.tab = "sessions" => DOMAIN row = {"user", "pw"} /\ c.id = r
    BY <1>3, AddedRow
  <2> DEFINE row == Ranked(c)
             id == Inserted(r)
  <2>2. /\ c.tab \in Tables /\ \A t \in Tables \ {c.tab} : db'[t] = db[t]
        /\ DOMAIN db'[c.tab] = DOMAIN db[c.tab] \cup {id}
        /\ db'[c.tab][id] = row /\ \A x \in DOMAIN db[c.tab] : db'[c.tab][x] = db[c.tab][x]
        /\ c.tab = "sessions" => row.user \in DOMAIN db.users
    BY <1>3 DEF Added, Others
  <2> HIDE DEF c, row, id
  <2>3. ASSUME NEW t \in Tables, NEW x \in DOMAIN db'[t]
        PROVE  HasColumns(t, db'[t][x])
    <3>1. CASE t # c.tab
      BY <3>1, <2>2, <1>0
    <3>2. CASE t = c.tab /\ x # id
      BY <3>2, <2>2, <1>0
    <3>3. CASE t = c.tab /\ x = id
      BY <3>3, <2>2, <2>1 DEF row
    <3> QED
      BY <3>1, <3>2, <3>3
  <2>4. ASSUME NEW u \in DOMAIN db'.users
        PROVE  U(u)
    <3>1. CASE c.tab # "users"
      BY <3>1, <2>2, <1>0
    <3>2. CASE c.tab = "users" /\ u # id
      BY <3>2, <2>2, <1>0
    <3>3. CASE c.tab = "users" /\ u = id
      BY <3>3, <2>2, <2>1 DEF row
    <3> QED
      BY <3>1, <3>2, <3>3
  <2>5. DOMAIN db.users \subseteq DOMAIN db'.users
    BY <2>2, <1>0
  <2>6. ASSUME NEW s \in DOMAIN db'.sessions
        PROVE  S(s)
    <3>1. CASE c.tab # "sessions"
      BY <3>1, <2>2, <2>5, <1>0
    <3>2. CASE c.tab = "sessions" /\ s # id
      BY <3>2, <2>2, <2>5, <1>0
    <3>3. CASE c.tab = "sessions" /\ s = id
      BY <3>3, <2>2, <2>1, <2>5 DEF row
    <3> QED
      BY <3>1, <3>2, <3>3
  <2> QED
    BY <1>1, <2>3, <2>4, <2>6 DEF Kept
<1>4. CASE Rewritten(r)
  <2> DEFINE old == db[c.tab][c.id]
             row == db'[c.tab][c.id]
  <2>1. /\ DOMAIN row = DOMAIN old
        /\ \A f \in DOMAIN old : f # Column(c) => row[f] = old[f]
        /\ Column(c) \in DOMAIN old => row[Column(c)] = Value(c)
        /\ c.tab # "sessions"
        /\ c.tab = "users" => /\ c.op = "set" /\ Column(c) = c.col /\ c.col \in {"pw", "role"}
                              /\ c.col = "role" => c.val \in Roles
    BY <1>4, RewrittenRow
  <2>2. /\ c.tab \in Tables /\ (\A t \in Tables \ {c.tab} : db'[t] = db[t])
        /\ c.id \in DOMAIN db[c.tab] /\ DOMAIN db'[c.tab] = DOMAIN db[c.tab]
        /\ \A x \in DOMAIN db[c.tab] \ {c.id} : db'[c.tab][x] = db[c.tab][x]
    BY <1>4 DEF Rewritten, Others
  <2>3. c.op = "set" => Value(c) = c.val
    BY DEF Value
  <2> HIDE DEF c
  <2>4. ASSUME NEW t \in Tables, NEW x \in DOMAIN db'[t]
        PROVE  HasColumns(t, db'[t][x])
    <3>1. CASE t # c.tab
      BY <3>1, <2>2, <1>0
    <3>2. CASE t = c.tab /\ x # c.id
      BY <3>2, <2>2, <1>0
    <3>3. CASE t = c.tab /\ x = c.id
      <4>1. HasColumns(c.tab, old)
        BY <2>2, <1>0
      <4> QED
        BY <3>3, <4>1, <2>1 DEF HasColumns
    <3> QED
      BY <3>1, <3>2, <3>3
  <2>5. ASSUME NEW u \in DOMAIN db'.users
        PROVE  U(u)
    <3>1. CASE c.tab # "users"
      BY <3>1, <2>2, <1>0
    <3>2. CASE c.tab = "users" /\ u # c.id
      BY <3>2, <2>2, <1>0
    <3>3. CASE c.tab = "users" /\ u = c.id
      <4>1. DOMAIN old = {"role", "pw"} /\ old.role \in Roles
        BY <3>3, <2>2, <1>0
      <4>2. row.role \in Roles
        BY <4>1, <2>1, <2>3, <3>3
      <4> QED
        BY <4>1, <4>2, <2>1, <3>3
    <3> QED
      BY <3>1, <3>2, <3>3
  <2>6. DOMAIN db'.users = DOMAIN db.users /\ db'.sessions = db.sessions
    BY <2>1, <2>2, <1>0
  <2> QED
    BY <1>0, <1>1, <2>4, <2>5, <2>6 DEF Kept
<1>5. CASE Nulled(r)
  <2>1. /\ c.tab \in Tables /\ (\A t \in Tables \ {c.tab} : db'[t] = db[t])
        /\ DOMAIN db'[c.tab] = DOMAIN db[c.tab]
        /\ \A x \in DOMAIN db[c.tab] :
              db'[c.tab][x] = IF db[c.tab][x][c.col] = c.val
                              THEN [db[c.tab][x] EXCEPT ![c.col] = None] ELSE db[c.tab][x]
    BY <1>5 DEF Nulled, Others
  <2>2. LawfulStatement(r, c)
    BY <1>5, MayStepRuns, NowIs DEF Nulled, Loud, Turn
  <2>3. c.tab \notin {"users", "sessions"}
    BY <2>2, <1>5 DEF Nulled, LawfulStatement, NullColumns
  <2> HIDE DEF c
  <2>4. ASSUME NEW t \in Tables, NEW x \in DOMAIN db'[t]
        PROVE  HasColumns(t, db'[t][x])
    <3>1. x \in DOMAIN db[t] /\ DOMAIN db'[t][x] = DOMAIN db[t][x]
      BY <2>1
    <3> QED
      BY <3>1, <1>0 DEF HasColumns
  <2>5. db'.users = db.users /\ db'.sessions = db.sessions
    BY <2>1, <2>3, <1>0
  <2> QED
    BY <1>0, <1>1, <2>4, <2>5 DEF Kept
<1>6. CASE Marked(r)
  <2>1. \A t \in Tables \ {"lan"} : db'[t] = db[t]
    BY <1>6 DEF Marked, Others
  <2>2. ASSUME NEW t \in Tables, NEW x \in DOMAIN db'[t]
        PROVE  HasColumns(t, db'[t][x])
    <3>1. CASE t # "lan"
      BY <3>1, <2>1, <1>0
    <3>2. CASE t = "lan"
      BY <3>2 DEF HasColumns, Refs, FootageRefs, ScheduleRefs, CoveringRefs, TaskRefs
    <3> QED
      BY <3>1, <3>2
  <2>3. db'.users = db.users /\ db'.sessions = db.sessions
    BY <2>1, <1>0
  <2> QED
    BY <1>0, <1>1, <2>2, <2>3 DEF Kept
<1>7. CASE Deleted(r)
  <2>1. ASSUME NEW t \in Tables, NEW x \in DOMAIN db'[t]
        PROVE  /\ x \in DOMAIN db[t] /\ (t # "sessions" => db'[t][x] = db[t][x])
               /\ DOMAIN db'[t][x] = DOMAIN db[t][x]
               /\ \A f \in DOMAIN db[t][x] : t # "sessions" \/ f # "pw" => db'[t][x][f] = db[t][x][f]
    BY <1>7, DeletedRows
  <2>2. \A t \in Tables : \A x \in DOMAIN db'[t] : HasColumns(t, db'[t][x])
    BY <2>1, <1>0 DEF HasColumns
  <2>3. \A u \in DOMAIN db'.users : U(u)
    BY <2>1, <1>0
  <2>4. ASSUME NEW s \in DOMAIN db'.sessions
        PROVE  S(s)
    <3>1. s \in DOMAIN db.sessions /\ DOMAIN db'.sessions[s] = {"user", "pw"}
          /\ db'.sessions[s].user = db.sessions[s].user
      BY <2>1, <1>0
    <3>2. db.sessions[s].user \in DOMAIN db.users
      BY <3>1, <1>0
    <3>3. CASE c.tab # "users"
      <4>1. db'.users = db.users
        BY <3>3, <1>7, <1>0 DEF Deleted
      <4> QED
        BY <3>1, <3>2, <4>1
    <3>4. CASE c.tab = "users"
      <4>1. db.sessions[s].user \notin Gone(r)
        BY <3>4, <3>1, <1>7 DEF Deleted
      <4>2. DOMAIN db'.users = DOMAIN db.users \ Gone(r)
        BY <3>4, <1>7 DEF Deleted
      <4> QED
        BY <3>1, <3>2, <4>1, <4>2
    <3> QED
      BY <3>3, <3>4
  <2> QED
    BY <1>1, <2>2, <2>3, <2>4 DEF Kept
<1> QED
  BY <1>2, <1>3, <1>4, <1>5, <1>6, <1>7 DEF Acts, Checked, Looked, Resumed, Skipped, Failed

-----------------------------------------------------------------------------
(* The admins that were counted are still there.                           *)

\* The statement tells which step it is.
LEMMA ActsByOp ==
    ASSUME NEW r, Acts(r)
    PROVE  /\ Now(r).op \in Checks => Checked(r)
           /\ Now(r).op \in {"listed", "unique", "seed"} => Looked(r)
           /\ Now(r).op = "await" => Resumed(r)
           /\ Now(r).op \in Inserts => Skipped(r) \/ Failed(r) \/ Added(r)
           /\ Now(r).op \in {"set", "place"} => Skipped(r) \/ Rewritten(r)
           /\ Now(r).op = "null" => Nulled(r)
           /\ Now(r).op = "markall" => Marked(r)
           /\ Now(r).op \in {"del", "dellisted"} => Deleted(r)
BY DEF Acts, Checked, Looked, Resumed, Skipped, Failed, Added, Rewritten, Nulled, Marked, Deleted,
       Checks, Inserts

\* What is left of the list of the request that moves.
LEMMA Leftover ==
    ASSUME Shaped, NEW r, Turn(r)
    PROVE  /\ r \in Requests /\ Running(r) /\ Same(r)
           /\ Dropped(r) => DOMAIN L(r)' = {} /\ L(r)' = <<>>
           /\ ~Dropped(r) => Onward(r)
           /\ Onward(r) => /\ L(r)' = Tail(L(r)) /\ DOMAIN L(r)' = 1 .. Len(L(r)) - 1
                           /\ Len(L(r)') = Len(L(r)) - 1
                           /\ \A i \in DOMAIN L(r)' : L(r)'[i] = L(r)[i + 1]
           /\ \A i \in DOMAIN L(r)' : /\ Onward(r) \/ ~Dropped(r)
                                      /\ i \in Nat /\ i \geq 1 /\ i + 1 \in DOMAIN L(r)
                                      /\ L(r)'[i] = L(r)[i + 1]
           /\ DOMAIN L(r) = 1 .. Len(L(r)) /\ Len(L(r)) \in Nat /\ Now(r) = L(r)[1]
           /\ 1 \in DOMAIN L(r)
<1>1. r \in Requests /\ Running(r)
  BY MayStepRuns DEF Turn
<1>2. /\ Len(L(r)) \in Nat /\ Len(L(r)) > 0 /\ Now(r) = L(r)[1]
      /\ Len(Tail(L(r))) = Len(L(r)) - 1 /\ DOMAIN Tail(L(r)) = 1 .. Len(L(r)) - 1
      /\ \A i \in 1 .. Len(L(r)) - 1 : Tail(L(r))[i] = L(r)[i + 1]
      /\ DOMAIN L(r) = 1 .. Len(L(r))
  BY <1>1, NowIs
<1>3. Same(r) /\ (Onward(r) \/ Dropped(r))
  BY DEF Turn, Onward, Dropped
<1>4. Dropped(r) => DOMAIN L(r)' = {} /\ L(r)' = <<>>
  BY EmptyListing DEF Dropped, L
<1>5. Onward(r) => /\ L(r)' = Tail(L(r)) /\ DOMAIN L(r)' = 1 .. Len(L(r)) - 1
                   /\ Len(L(r)') = Len(L(r)) - 1
                   /\ \A i \in DOMAIN L(r)' : L(r)'[i] = L(r)[i + 1]
  BY <1>2 DEF Onward, L
<1>6. ASSUME NEW i \in DOMAIN L(r)'
      PROVE  /\ Onward(r) \/ ~Dropped(r)
             /\ i \in Nat /\ i \geq 1 /\ i + 1 \in DOMAIN L(r) /\ L(r)'[i] = L(r)[i + 1]
  <2>1. ~Dropped(r) /\ Onward(r)
    BY <1>3, <1>4, <1>6
  <2> QED
    BY <2>1, <1>2, <1>5, <1>6
<1>7. ~Dropped(r) => Onward(r)
  BY <1>3
<1>8. 1 \in DOMAIN L(r)
  BY <1>2
<1>9. \A i \in DOMAIN L(r)' : /\ Onward(r) \/ ~Dropped(r)
                              /\ i \in Nat /\ i \geq 1 /\ i + 1 \in DOMAIN L(r)
                              /\ L(r)'[i] = L(r)[i + 1]
  BY <1>6
<1> QED
  BY <1>1, <1>2, <1>3, <1>4, <1>5, <1>7, <1>8, <1>9

CountedOf(q, i) ==
    /\ Demotes(L(q)[i]) /\ ~th[q].stale =>
           /\ i \leq 3 => Read(q, L(q)[i].id)
           /\ i = 1 => Enough(q)
    /\ Fires(L(q)[i]) =>
           \/ th[q].me = None /\ NoAuth(L(q))
           \/ /\ LawfulFiring(L(q), th[q].async, th[q].on)
              /\ ~th[q].stale => /\ i \leq 5 => Read(q, L(q)[i].val)
                                 /\ i \leq 3 => Enough(q)

LEMMA SameAdmins ==
    ASSUME db'.users = db.users
    PROVE  Admins(db)' = Admins(db)
BY DEF Admins

\* Another request moves: either the users are the same, or it overtakes.
LEMMA CountedOfOthers ==
    ASSUME RegistryAssumption, Shaped, Held, NEW r, Acts(r), DOMAIN db = Tables,
           NEW q \in Requests, q # r, NEW i \in DOMAIN L(q), CountedOf(q, i)
    PROVE  CountedOf(q, i)'
<1>1. Turn(r) /\ Unmoved(q) /\ r \in Requests /\ None \notin Requests
  BY ActsTurn DEF Turn, RegistryAssumption
<1>2. /\ L(q)' = L(q) /\ th'[q].me = th[q].me /\ th'[q].row = th[q].row /\ th'[q].on = th[q].on
      /\ th'[q].begun = th[q].begun /\ th'[q].async = th[q].async
      /\ (th[q].stale => th'[q].stale) /\ th'[q].stale \in BOOLEAN
  BY <1>1 DEF Unmoved, L
<1>3. CASE db'.users = db.users
  <2>1. Admins(db)' = Admins(db)
    BY <1>3, SameAdmins
  <2>2. \A u : Read(q, u)' <=> Read(q, u)
    BY <1>2, <1>3 DEF Read
  <2>3. Enough(q)' <=> Enough(q)
    BY <1>2, <2>1 DEF Enough
  <2>4. NoAuth(L(q))' <=> NoAuth(L(q))
    BY <1>2 DEF NoAuth
  <2>5. LawfulFiring(L(q), th[q].async, th[q].on)' <=> LawfulFiring(L(q), th[q].async, th[q].on)
    BY <1>2 DEF LawfulFiring
  <2> QED
    BY <1>2, <2>2, <2>3, <2>4, <2>5 DEF CountedOf
<1>4. CASE db'.users # db.users
  <2>1. Loud(r)
    BY <1>4 DEF Acts, Checked, Looked, Resumed, Skipped, Failed, Quiet, Added, Rewritten, Nulled,
                Marked, Deleted
  <2>2. Running(q)
    BY EmptyListing DEF Running, L
  <2>3. ASSUME ~th'[q].stale, th[q].begun
        PROVE  /\ th[r].async /\ th[q].async
               /\ th[q].on # None => /\ th[q].on \in DOMAIN db.users /\ th[q].on \in DOMAIN db'.users
                                     /\ db'.users[th[q].on] = db.users[th[q].on]
    <3>1. q \notin Overtaken(r, db')
      BY <2>1, <2>3 DEF Loud
    <3> QED
      BY <3>1, <2>2, <2>3, <1>4 DEF Overtaken, Row
  <2>4. ASSUME Demotes(L(q)[i]), ~th'[q].stale
        PROVE  /\ i \leq 3 => Read(q, L(q)[i].id)'
               /\ i = 1 => Enough(q)'
    <3>1. th[q].async /\ th[q].on = L(q)[i].id /\ th[q].on # None
      BY <2>4 DEF Shaped, Lawful, LawfulRoles
    <3>2. i \leq 3 => Read(q, L(q)[i].id)
      BY <2>4, <1>2 DEF CountedOf
    <3>3. i \leq 3 => Read(q, L(q)[i].id)'
      BY <3>1, <3>2, <2>3, <2>4, <1>2 DEF Read
    <3>4. ASSUME i = 1
          PROVE  FALSE
      <4>1. th[q].begun /\ Now(q).op # "await"
        <5>1. Now(q) = L(q)[1]
          BY <2>2, NowIs
        <5> QED
          BY <5>1, <3>2, <3>4, <2>4 DEF Read, Demotes
      <4>2. Mid(q)
        BY <4>1, <3>1, <2>2 DEF Mid
      <4>3. loop = q
        BY <4>2 DEF Held
      <4>4. loop \in {r, None}
        BY <2>3, <2>4, <4>1, <1>1 DEF Turn, MayStep
      <4> QED
        BY <4>3, <4>4, <1>1
    <3> QED
      BY <3>3, <3>4
  <2>5. ASSUME Fires(L(q)[i]), LawfulFiring(L(q), th[q].async, th[q].on),
               ~th[q].stale /\ i \leq 5 => Read(q, L(q)[i].val), ~th'[q].stale, i \leq 5
        PROVE  FALSE
    <3>1. ~th[q].async
      BY <2>5 DEF LawfulFiring
    <3>2. th[q].begun
      BY <2>5, <1>2 DEF Read
    <3> QED
      BY <3>1, <3>2, <2>3, <2>5
  <2>6. NoAuth(L(q))' <=> NoAuth(L(q))
    BY <1>2 DEF NoAuth
  <2>7. LawfulFiring(L(q), th[q].async, th[q].on)' <=> LawfulFiring(L(q), th[q].async, th[q].on)
    BY <1>2 DEF LawfulFiring
  <2>8. i \in Nat
    BY <2>2, NowIs
  <2>9. ASSUME Fires(L(q)[i]), LawfulFiring(L(q), th[q].async, th[q].on),
               ~th[q].stale /\ i \leq 5 => Read(q, L(q)[i].val), ~th'[q].stale
        PROVE  ~(i \leq 5) /\ ~(i \leq 3)
    BY <2>5, <2>8, <2>9
  <2>10. Demotes(L(q)[i]) /\ ~th'[q].stale => /\ i \leq 3 => Read(q, L(q)[i].id)'
                                              /\ i = 1 => Enough(q)'
    BY <2>4
  <2>11. Fires(L(q)[i]) =>
             \/ th'[q].me = None /\ NoAuth(L(q))'
             \/ /\ LawfulFiring(L(q), th[q].async, th[q].on)'
                /\ ~th'[q].stale => ~(i \leq 5) /\ ~(i \leq 3)
    BY <1>2, <2>6, <2>7, <2>9 DEF CountedOf
  <2> HIDE DEF Demotes, Fires
  <2> QED
    BY <1>2, <2>10, <2>11 DEF CountedOf
<1> QED
  BY <1>3, <1>4

\* The request itself moves on to the statement that relies on the count.
LEMMA CountedOfMover ==
    ASSUME Shaped, Counted, NEW r, Acts(r), DOMAIN db = Tables, NEW i \in DOMAIN L(r)'
    PROVE  CountedOf(r, i)'
<1>1. Turn(r) /\ r \in Requests /\ (Recalls(r) \/ Checked(r))
  BY ActsTurn
<1> DEFINE l == L(r)
           k == L(r)'
<1>2. /\ ~Dropped(r) /\ Onward(r) /\ Same(r) /\ i \in Nat /\ i \geq 1 /\ i + 1 \in DOMAIN l
      /\ k[i] = l[i + 1] /\ k = Tail(l) /\ Now(r) = l[1] /\ l # <<>> /\ Listing(l)
      /\ DOMAIN l = 1 .. Len(l) /\ 1 \in DOMAIN l
      /\ \A j \in DOMAIN k : k[j] = l[j + 1] /\ j + 1 \in DOMAIN l
  <2>1. Running(r)
    BY <1>1, Leftover
  <2> QED
    BY <1>1, <2>1, Leftover, NowIs
<1>0. PICK c : c = l[i + 1]
  OBVIOUS
<1>3. CountedOf(r, i + 1) /\ k[i] = c /\ l[i + 1] = c
  BY <1>0, <1>1, <1>2 DEF Counted, CountedOf
<1>4. /\ th'[r].stale = th[r].stale /\ th'[r].begun = TRUE /\ th'[r].async = th[r].async
      /\ th'[r].on = th[r].on
  BY <1>2 DEF Same
<1>5. LawfulRoles(l, th[r].async, th[r].on)
  BY <1>1 DEF Shaped, Lawful
<1>6. Now(r).op = "need" => /\ Now(r).id \in DOMAIN db[Now(r).tab] /\ db' = db
                            /\ th'[r].row = db[Now(r).tab][Now(r).id]
  <2> HAVE Now(r).op = "need"
  <2>1. Checked(r)
    BY ActsByOp DEF Checks
  <2> QED
    BY <2>1, <1>2 DEF Checked, Quiet
<1>7. Now(r).op \in {"await", "keepadmin", "notme"} => db' = db /\ th'[r].row = th[r].row
  <2>1. ASSUME Now(r).op = "await"
        PROVE  db' = db /\ th'[r].row = th[r].row
    <3>1. Resumed(r)
      BY <2>1, ActsByOp
    <3> QED
      BY <3>1 DEF Resumed, Quiet, Recollects, Recalls
  <2>2. ASSUME Now(r).op \in {"keepadmin", "notme"}
        PROVE  db' = db /\ th'[r].row = th[r].row
    <3>1. Checked(r)
      BY <2>2, ActsByOp DEF Checks
    <3> QED
      BY <3>1, <2>2, <1>2 DEF Checked, Quiet
  <2> QED
    BY <2>1, <2>2
<1>8. Now(r).op = "keepadmin" /\ Now(r).role # "admin" => Enough(r)
  <2> HAVE Now(r).op = "keepadmin" /\ Now(r).role # "admin"
  <2>1. Checked(r)
    BY ActsByOp DEF Checks
  <2>2. Holds(r, Now(r))
    BY <2>1, <1>2 DEF Checked
  <2> QED
    BY <2>2 DEF Holds, Enough
<1>9. Now(r).op = "null" \/ (Now(r).op = "del" /\ Now(r).tab = "sessions")
          => db'.users = db.users /\ th'[r].row = th[r].row
  <2>1. "users" \in Tables
    BY DEF Tables
  <2>2. ASSUME Now(r).op = "null"
        PROVE  db'.users = db.users /\ th'[r].row = th[r].row
    <3>1. Nulled(r)
      BY <2>2, ActsByOp
    <3>2. Now(r).tab # "users"
      <4>1. LawfulStatement(r, Now(r))
        BY <1>1, Leftover, NowIs
      <4> QED
        BY <4>1, <2>2 DEF LawfulStatement, NullColumns
    <3> QED
      BY <3>1, <3>2, <2>1 DEF Nulled, Loud, Recollects, Recalls, Others
  <2>3. ASSUME Now(r).op = "del", Now(r).tab = "sessions"
        PROVE  db'.users = db.users /\ th'[r].row = th[r].row
    <3>1. Deleted(r)
      BY <2>3, ActsByOp
    <3> QED
      BY <3>1, <2>1, <2>3 DEF Deleted, Loud, Recollects, Recalls
  <2> QED
    BY <2>2, <2>3
<1>10. ASSUME NEW u, db'.users = db.users, th'[r].row = th[r].row
       PROVE  (Read(r, u) => Read(r, u)') /\ (Enough(r) => Enough(r)')
  BY <1>4, <1>10, SameAdmins DEF Read, Enough
<1>11. ASSUME Demotes(c), ~th[r].stale
       PROVE  /\ i \leq 3 => Read(r, c.id)'
              /\ i = 1 => Enough(r)'
  <2>1. /\ i + 1 > 1 => l[i + 1 - 1].op = "keepadmin" /\ l[i + 1 - 1].role # "admin"
        /\ i + 1 > 2 => l[i + 1 - 2].op = "await"
        /\ i + 1 > 3 => l[i + 1 - 3].op = "need" /\ l[i + 1 - 3].tab = "users"
                        /\ l[i + 1 - 3].id = c.id
    BY <1>2, <1>3, <1>5, <1>11 DEF LawfulRoles
  <2>2. i + 1 \leq 3 => Read(r, c.id)
    BY <1>2, <1>3, <1>11 DEF CountedOf
  <2>3. CASE i = 3
    <3>1. l[1].op = "need" /\ l[1].tab = "users" /\ l[1].id = c.id
      BY <2>1, <2>3, <1>2
    <3>2. Read(r, c.id)'
      BY <3>1, <1>2, <1>4, <1>6 DEF Read
    <3> QED
      BY <3>2, <2>3
  <2>4. CASE i = 2
    <3>1. l[1].op = "await"
      BY <2>1, <2>4, <1>2
    <3>2. Read(r, c.id)
      BY <2>2, <2>4
    <3>3. Read(r, c.id)'
      BY <3>1, <3>2, <1>2, <1>7, <1>10
    <3> QED
      BY <3>3, <2>4
  <2>5. CASE i = 1
    <3>1. l[1].op = "keepadmin" /\ l[1].role # "admin"
      BY <2>1, <2>5, <1>2
    <3>2. Read(r, c.id)
      BY <2>2, <2>5
    <3>3. Enough(r)
      BY <3>1, <1>2, <1>8
    <3>4. Read(r, c.id)' /\ Enough(r)'
      BY <3>1, <3>2, <3>3, <1>2, <1>7, <1>10
    <3> QED
      BY <3>4
  <2> QED
    BY <2>3, <2>4, <2>5, <1>2
<1>12. ASSUME Fires(c), th[r].me = None, NoAuth(l)
       PROVE  th'[r].me = None /\ NoAuth(k)
  <2>1. Now(r).op # "auth"
    BY <1>2, <1>12 DEF NoAuth
  <2>2. th'[r].me = th[r].me
    BY <2>1, <1>1, <1>2 DEF Recalls, Checked
  <2> QED
    BY <2>2, <1>2, <1>12 DEF NoAuth
<1>13. ASSUME Fires(c), LawfulFiring(l, th[r].async, th[r].on),
              ~th[r].stale => /\ i + 1 \leq 5 => Read(r, c.val)
                              /\ i + 1 \leq 3 => Enough(r)
       PROVE  /\ LawfulFiring(k, th[r].async, th[r].on)
              /\ ~th[r].stale => /\ i \leq 5 => Read(r, c.val)'
                                 /\ i \leq 3 => Enough(r)'
  <2>1. LawfulFiring(k, th[r].async, th[r].on)
    BY <1>2, <1>13, FiringTail
  <2>2. /\ i + 1 > 1 => l[i + 1 - 1].op = "null"
        /\ i + 1 > 2 => l[i + 1 - 2].op = "del" /\ l[i + 1 - 2].tab = "sessions"
        /\ i + 1 > 3 => l[i + 1 - 3].op = "keepadmin" /\ l[i + 1 - 3].role # "admin"
        /\ i + 1 > 4 => l[i + 1 - 4].op = "notme"
        /\ i + 1 > 5 => l[i + 1 - 5].op = "need" /\ l[i + 1 - 5].tab = "users"
                        /\ l[i + 1 - 5].id = c.val
    <3>1. i + 1 \in DOMAIN l /\ l[i + 1] = c /\ Fires(l[i + 1]) /\ i \in Nat
      BY <1>2, <1>3, <1>13
    <3>2. LawfulFiring(l, th[r].async, th[r].on)
      BY <1>13
    <3> HIDE DEF l
    <3>3. \A j \in DOMAIN l : j = i + 1 /\ Fires(l[j]) =>
              /\ j > 1 => l[j - 1].op = "null"
              /\ j > 2 => l[j - 2].op = "del" /\ l[j - 2].tab = "sessions"
              /\ j > 3 => l[j - 3].op = "keepadmin" /\ l[j - 3].role # "admin"
              /\ j > 4 => l[j - 4].op = "notme"
              /\ j > 5 => l[j - 5].op = "need" /\ l[j - 5].tab = "users"
                          /\ l[j - 5].id = l[j].val
      BY <3>2 DEF LawfulFiring
    <3> QED
      BY <3>1, <3>3
  <2>3. ASSUME ~th[r].stale
        PROVE  /\ i \leq 5 => Read(r, c.val)'
               /\ i \leq 3 => Enough(r)'
    <3>1. CASE i = 5
      <4>1. l[1].op = "need" /\ l[1].tab = "users" /\ l[1].id = c.val
        BY <2>2, <3>1, <1>2
      <4>2. Read(r, c.val)'
        BY <4>1, <1>2, <1>4, <1>6 DEF Read
      <4> QED
        BY <4>2, <3>1
    <3>2. CASE i = 4
      <4>1. l[1].op = "notme"
        BY <2>2, <3>2, <1>2
      <4>2. Read(r, c.val)
        BY <1>13, <2>3, <3>2
      <4>3. Read(r, c.val)'
        BY <4>1, <4>2, <1>2, <1>7, <1>10
      <4> QED
        BY <4>3, <3>2
    <3>3. CASE i = 3
      <4>1. l[1].op = "keepadmin" /\ l[1].role # "admin"
        BY <2>2, <3>3, <1>2
      <4>2. Read(r, c.val) /\ Enough(r)
        BY <1>13, <2>3, <3>3, <4>1, <1>2, <1>8
      <4>3. Read(r, c.val)' /\ Enough(r)'
        BY <4>1, <4>2, <1>2, <1>7, <1>10
      <4> QED
        BY <4>3
    <3>4. CASE i \in {1, 2}
      <4>1. l[1].op = "null" \/ (l[1].op = "del" /\ l[1].tab = "sessions")
        <5>1. CASE i = 1
          BY <5>1, <2>2
        <5>2. CASE i = 2
          BY <5>2, <2>2
        <5> QED
          BY <5>1, <5>2, <3>4
      <4>2. Read(r, c.val) /\ Enough(r)
        BY <1>13, <2>3, <3>4
      <4>3. Read(r, c.val)' /\ Enough(r)'
        BY <4>1, <4>2, <1>2, <1>9, <1>10
      <4> QED
        BY <4>3
    <3> QED
      BY <3>1, <3>2, <3>3, <3>4, <1>2
  <2> QED
    BY <2>1, <2>3
<1>14. Demotes(c) /\ ~th'[r].stale => /\ i \leq 3 => Read(r, c.id)'
                                      /\ i = 1 => Enough(r)'
  BY <1>4, <1>11
<1>15. Fires(c) =>
           \/ th'[r].me = None /\ NoAuth(k)
           \/ /\ LawfulFiring(k, th'[r].async, th'[r].on)
              /\ ~th'[r].stale => /\ i \leq 5 => Read(r, c.val)'
                                  /\ i \leq 3 => Enough(r)'
  <2> HAVE Fires(c)
  <2>1. \/ th[r].me = None /\ NoAuth(l)
        \/ /\ LawfulFiring(l, th[r].async, th[r].on)
           /\ ~th[r].stale => /\ i + 1 \leq 5 => Read(r, c.val)
                              /\ i + 1 \leq 3 => Enough(r)
    BY <1>2, <1>3 DEF CountedOf
  <2> QED
    BY <2>1, <1>4, <1>12, <1>13
<1> HIDE DEF k
<1>16. L(r)' = k /\ L(r)'[i] = c
  BY <1>3 DEF k
<1>17. NoAuth(k) <=> NoAuth(L(r))'
  BY <1>16 DEF NoAuth
<1>18. LawfulFiring(k, th'[r].async, th'[r].on) <=> LawfulFiring(L(r), th[r].async, th[r].on)'
  BY <1>16 DEF LawfulFiring
<1>19. Demotes(L(r)[i])' <=> Demotes(c)
  BY <1>16 DEF Demotes
<1>20. Fires(L(r)[i])' <=> Fires(c)
  BY <1>16 DEF Fires
<1>21. Read(r, L(r)[i].id)' <=> Read(r, c.id)'
  BY <1>16 DEF Read
<1>22. Read(r, L(r)[i].val)' <=> Read(r, c.val)'
  BY <1>16 DEF Read
<1> QED
  BY <1>14, <1>15, <1>17, <1>18, <1>19, <1>20, <1>21, <1>22 DEF CountedOf

LEMMA CountedNext ==
    ASSUME RegistryAssumption, Shaped, Held, Counted, DOMAIN db = Tables,
           (\E r \in Requests : Acts(r)) \/ Crashed
    PROVE  Counted'
<1>1. \A q \in Requests : \A i \in DOMAIN L(q) : CountedOf(q, i)
  BY DEF Counted, CountedOf
<1>2. ASSUME NEW r \in Requests, Acts(r), NEW q \in Requests, NEW i \in DOMAIN L(q)'
      PROVE  CountedOf(q, i)'
  <2>1. CASE q = r
    BY <1>2, <2>1, CountedOfMover
  <2>2. CASE q # r
    <3>1. L(q)' = L(q)
      BY <1>2, <2>2, ActsTurn DEF Turn, Unmoved, L
    <3> QED
      BY <3>1, <1>1, <1>2, <2>2, CountedOfOthers
  <2> QED
    BY <2>1, <2>2
<1>3. ASSUME Crashed, NEW q \in Requests, NEW i \in DOMAIN L(q)'
      PROVE  CountedOf(q, i)'
  <2>1. CASE q \in Lost
    <3>1. th'[q] = [th[q] EXCEPT !.todo = <<>>] /\ DOMAIN th[q] = Fields
      BY <1>3, <2>1 DEF Crashed, Shaped
    <3>2. L(q)' = <<>>
      BY <3>1 DEF L, Fields
    <3> QED
      BY <3>2, <1>3, EmptyListing
  <2>2. CASE q \notin Lost
    <3>1. th'[q] = th[q] /\ db' = db
      BY <1>3, <2>2 DEF Crashed
    <3>2. L(q)' = L(q)
      BY <3>1 DEF L
    <3>3. CountedOf(q, i)
      BY <3>2, <1>1, <1>3
    <3> QED
      BY <3>1, <3>2, <3>3 DEF CountedOf, Read, Enough, NoAuth, LawfulFiring, Admins
  <2> QED
    BY <2>1, <2>2
<1>4. \A q \in Requests : \A i \in DOMAIN L(q)' : CountedOf(q, i)'
  BY <1>2, <1>3
<1> QED
  BY <1>4 DEF Counted, CountedOf

\* Somebody else is an admin.
LEMMA OtherAdmin ==
    ASSUME NEW r, NEW u, Read(r, u), Enough(r), Admins(db) # {}
    PROVE  \E a \in Admins(db) : a # u
<1> SUFFICES ASSUME Admins(db) \subseteq {u}
             PROVE  FALSE
  OBVIOUS
<1>1. Admins(db) = {u}
  OBVIOUS
<1>2. Cardinality({u}) = 1
  BY FS_Singleton
<1>3. ~(Cardinality(Admins(db)) > 1)
  BY <1>1, <1>2
<1>4. db.users[u].role = "admin"
  BY <1>1 DEF Admins
<1> QED
  BY <1>3, <1>4 DEF Read, Enough

LEMMA AdminStep ==
    ASSUME Shaped, Kept, Counted, NEW r \in Requests, Acts(r), Admins(db) # {}, Admins(db') = {}
    PROVE  th'[r] # th[r] /\ (th[r].stale \/ th[r].me = None)
<1> DEFINE c == Now(r)
<1>1. DOMAIN db = Tables /\ "users" \in Tables
  BY DEF Kept, Tables
<1>2. Turn(r)
  BY <1>1, ActsTurn
<1>3. /\ Running(r) /\ 1 \in DOMAIN L(r) /\ c = L(r)[1] /\ LawfulStatement(r, c)
      /\ Len(L(r)) \in Nat /\ Len(L(r)) > 0 /\ Len(Tail(L(r))) = Len(L(r)) - 1
  BY <1>2, Leftover, NowIs
<1>4. th'[r] # th[r]
  <2>1. L(r)' # L(r)
    <3>1. CASE L(r)' = <<>>
      BY <3>1, <1>3 DEF Running, L
    <3>2. CASE L(r)' = Tail(L(r))
      BY <3>2, <1>3
    <3> QED
      BY <3>1, <3>2, <1>2 DEF Turn, Onward, Dropped, L
  <2> QED
    BY <2>1 DEF L
<1>5. CountedOf(r, 1)
  BY <1>3 DEF Counted, CountedOf
<1>6. db'.users # db.users
  BY SameAdmins DEF Admins
<1>7. PICK a : a \in DOMAIN db.users /\ db.users[a].role = "admin"
  BY DEF Admins
<1>8. \A u \in DOMAIN db'.users : db'.users[u].role # "admin"
  BY DEF Admins
<1>9. CASE Added(r)
  <2>1. CASE c.tab = "users"
    BY <2>1, <1>7, <1>8, <1>9 DEF Added
  <2>2. CASE c.tab # "users"
    BY <2>2, <1>1, <1>6, <1>9 DEF Added, Others
  <2> QED
    BY <2>1, <2>2
<1>10. CASE Rewritten(r)
  <2>1. c.tab = "users"
    BY <1>1, <1>6, <1>10 DEF Rewritten, Others
  <2> DEFINE u == c.id
  <2>2. /\ u \in DOMAIN db.users /\ DOMAIN db'.users = DOMAIN db.users
        /\ \A x \in DOMAIN db.users \ {u} : db'.users[x] = db.users[x]
    BY <2>1, <1>10 DEF Rewritten
  <2>3. /\ \A f \in DOMAIN db.users[u] : f # c.col => db'.users[u][f] = db.users[u][f]
        /\ c.op = "set" /\ c.col \in {"pw", "role"}
        /\ c.col \in DOMAIN db.users[u] => db'.users[u][c.col] = c.val
    BY <2>1, <1>10, RewrittenRow DEF Value
  <2>4. DOMAIN db.users[u] = {"role", "pw"}
    BY <2>2 DEF Kept
  <2>5. CASE c.col = "pw"
    <3>1. db'.users[u].role = db.users[u].role
      BY <2>3, <2>4, <2>5
    <3> QED
      BY <3>1, <2>2, <1>7, <1>8
  <2>6. CASE c.col = "role"
    <3>1. c.val # "admin"
      BY <2>2, <2>3, <2>4, <2>6, <1>8
    <3>2. Demotes(L(r)[1]) /\ L(r)[1].id = u
      BY <3>1, <2>1, <2>3, <2>6, <1>3 DEF Demotes
    <3>3. ASSUME ~th[r].stale
          PROVE  FALSE
      <4>1. Read(r, u) /\ Enough(r)
        BY <3>2, <3>3, <1>5 DEF CountedOf
      <4>2. PICK b \in Admins(db) : b # u
        BY <4>1, OtherAdmin
      <4>3. b \in DOMAIN db.users /\ db.users[b].role = "admin"
        BY <4>2 DEF Admins
      <4> QED
        BY <4>2, <4>3, <2>2, <1>8
    <3> QED
      BY <3>3, <1>4
  <2> QED
    BY <2>3, <2>5, <2>6
<1>11. CASE Nulled(r)
  <2>1. c.tab # "users"
    BY <1>3, <1>11 DEF Nulled, LawfulStatement, NullColumns
  <2> QED
    BY <2>1, <1>1, <1>6, <1>11 DEF Nulled, Others
<1>12. CASE Marked(r)
  BY <1>1, <1>6, <1>12 DEF Marked, Others
<1>13. CASE Deleted(r)
  <2>1. c.tab = "users"
    BY <1>1, <1>6, <1>13 DEF Deleted
  <2>2. Fires(L(r)[1])
    BY <2>1, <1>3, <1>13 DEF Fires, Deleted
  <2>3. CASE th[r].me = None
    BY <2>3, <1>4
  <2>4. CASE LawfulFiring(L(r), th[r].async, th[r].on) /\ ~th[r].stale
             /\ Read(r, L(r)[1].val) /\ Enough(r)
    <3>1. c.op = "del" /\ c.col = "id" /\ c.but = None
      BY <2>2, <2>4, <1>3 DEF LawfulFiring
    <3>2. Gone(r) \subseteq {c.val}
      BY <3>1 DEF Gone, Matching
    <3>3. PICK b \in Admins(db) : b # c.val
      BY <2>4, <1>3, OtherAdmin
    <3>4. b \in DOMAIN db.users /\ db.users[b].role = "admin"
      BY <3>3 DEF Admins
    <3>5. b \in DOMAIN db'.users /\ db'.users[b] = db.users[b]
      BY <2>1, <3>2, <3>3, <3>4, <1>13 DEF Deleted
    <3> QED
      BY <3>4, <3>5, <1>8
  <2> QED
    BY <2>2, <2>3, <2>4, <1>4, <1>5 DEF CountedOf
<1> QED
  BY <1>6, <1>9, <1>10, <1>11, <1>12, <1>13
     DEF Acts, Checked, Looked, Resumed, Skipped, Failed, Quiet

-----------------------------------------------------------------------------
(* Two requests never take the same id.                                    *)

LEMMA MinIs ==
    ASSUME NEW S \in SUBSET Nat, S # {}
    PROVE  Min(S) \in S
<1> DEFINE R == OpToRel(<, Nat)
<1>1. \A x, y \in Nat : <<y, x>> \in R <=> y < x
  BY DEF OpToRel
<1>2. IsWellFoundedOn(R, Nat)
  BY NatLessThanWellFounded
<1> HIDE DEF R
<1>3. PICK x \in S : \A y \in S : ~(<<y, x>> \in R)
  BY <1>2, WFMin
<1>4. ASSUME NEW y \in S
      PROVE  x <= y
  <2>1. x \in Nat /\ y \in Nat /\ ~(y < x)
    BY <1>1, <1>3
  <2> QED
    BY <2>1
<1> QED
  BY <1>4 DEF Min

\* Only an insert adds a row.
LEMMA OnlyAdded ==
    ASSUME Kept, NEW r, Acts(r), NEW t \in Tables, NEW x \in DOMAIN db'[t], x \notin DOMAIN db[t]
    PROVE  Added(r) /\ Now(r).tab = t /\ Inserted(r) = x
<1>1. "lan" \in Tables
  BY DEF Tables
<1>2. CASE Added(r)
  BY <1>2 DEF Added, Others
<1>3. CASE Rewritten(r)
  BY <1>3 DEF Rewritten, Others
<1>4. CASE Nulled(r)
  BY <1>4 DEF Nulled, Others
<1>5. CASE Marked(r)
  <2>1. t # "lan" => db'[t] = db[t]
    BY <1>5 DEF Marked, Others
  <2>2. DOMAIN db'["lan"] = DOMAIN db["lan"]
    BY <1>5 DEF Marked
  <2> QED
    BY <2>1, <2>2
<1>6. CASE Deleted(r)
  BY <1>6, DeletedRows
<1>7. CASE Quiet(r)
  BY <1>7 DEF Quiet
<1> QED
  BY <1>2, <1>3, <1>4, <1>5, <1>6, <1>7 DEF Acts, Checked, Looked, Resumed, Skipped, Failed

LEMMA FreshNext ==
    ASSUME Shaped, Kept, Fresh, NEW r \in Requests, Acts(r)
    PROVE  Fresh'
<1>1. Turn(r)
  BY ActsTurn DEF Kept
<1> SUFFICES ASSUME NEW q \in Requests, NEW i \in DOMAIN L(q)', L(q)'[i].op = "put",
                    L(q)'[i].tab \notin {"users", "lists"}, q \in DOMAIN db'[L(q)'[i].tab]
             PROVE  FALSE
  BY DEF Fresh
<1>2. PICK j \in DOMAIN L(q) : L(q)'[i] = L(q)[j] /\ (q = r => j # 1)
  <2>1. CASE q = r
    BY <2>1, <1>1, Leftover
  <2>2. CASE q # r
    BY <2>2, <1>1 DEF Turn, Unmoved, L
  <2> QED
    BY <2>1, <2>2
<1> DEFINE t == L(q)[j].tab
<1>3. LawfulStatement(q, L(q)[j])
  BY DEF Shaped, Lawful
<1>4. t \in PutTables \ {"lists"} /\ t \in Tables
  BY <1>2, <1>3 DEF LawfulStatement, PutTables, Tables
<1>5. q \notin DOMAIN db[t] /\ q \in DOMAIN db'[t]
  BY <1>2 DEF Fresh
<1>6. Added(r) /\ Now(r).tab = t /\ Inserted(r) = q
  BY <1>4, <1>5, OnlyAdded
<1>7. /\ Now(r).op \in Inserts /\ LawfulStatement(r, Now(r)) /\ Now(r) = L(r)[1] /\ 1 \in DOMAIN L(r)
  BY <1>1, <1>6, Leftover, NowIs DEF Added
<1>8. Now(r).op = "put"
  BY <1>4, <1>6, <1>7 DEF LawfulStatement, Inserts, PickTables, PutTables
<1>9. q = r
  BY <1>4, <1>6, <1>7, <1>8 DEF LawfulStatement, Inserted, PutTables
<1>10. LawfulPuts(L(r))
  BY DEF Shaped, Lawful
<1> QED
  BY <1>2, <1>6, <1>7, <1>8, <1>9, <1>10 DEF LawfulPuts

LEMMA WiredNext ==
    ASSUME Shaped, Kept, Wired, NEW r \in Requests, Acts(r)
    PROVE  Wired'
<1> SUFFICES ASSUME NEW k \in DOMAIN db'.coverings
             PROVE  \E h \in DOMAIN Motors : \E i \in DOMAIN Motors[h] :
                        Motors[h][i] = k /\ db'.coverings[k].hub = h
  BY DEF Wired
<1>1. "coverings" \in Tables /\ DOMAIN db = Tables /\ \A x \in DOMAIN db.coverings :
          "hub" \in DOMAIN db.coverings[x]
  <2>1. "coverings" \in Tables /\ <<"coverings", "hub", "hubs">> \in Refs
    BY DEF Tables, Refs, FootageRefs, ScheduleRefs, CoveringRefs, TaskRefs
  <2> QED
    BY <2>1 DEF Kept, HasColumns
<1>2. CASE k \notin DOMAIN db.coverings
  <2>1. Added(r) /\ Now(r).tab = "coverings" /\ Inserted(r) = k
    BY <1>1, <1>2, OnlyAdded
  <2>2. /\ Now(r).op = "putnew" /\ Now(r).id = k /\ LawfulStatement(r, Now(r))
        /\ db'.coverings[k].hub = Now(r).row.hub
    BY <2>1, AddedRow DEF Added
  <2> QED
    BY <2>2 DEF LawfulStatement
<1>3. CASE k \in DOMAIN db.coverings
  <2>1. db'.coverings[k].hub = db.coverings[k].hub
    <3>1. CASE Added(r)
      BY <3>1, <1>1, <1>3 DEF Added, Others
    <3>2. CASE Rewritten(r)
      <4>1. CASE Now(r).tab # "coverings"
        BY <3>2, <4>1, <1>1 DEF Rewritten, Others
      <4>2. CASE Now(r).tab = "coverings" /\ Now(r).id # k
        BY <3>2, <4>2, <1>3 DEF Rewritten
      <4>3. CASE Now(r).tab = "coverings" /\ Now(r).id = k
        BY <3>2, <4>3, <1>1, <1>3, RewrittenRow
      <4> QED
        BY <4>1, <4>2, <4>3
    <3>3. CASE Nulled(r)
      <4>1. CASE Now(r).tab # "coverings"
        BY <3>3, <4>1, <1>1 DEF Nulled, Others
      <4>2. CASE Now(r).tab = "coverings"
        <5>1. LawfulStatement(r, Now(r))
          BY <3>3, MayStepRuns, NowIs DEF Nulled, Loud, Turn
        <5>2. Now(r).col = "room"
          BY <5>1, <4>2, <3>3 DEF LawfulStatement, NullColumns, Nulled
        <5>3. \/ db'.coverings[k] = db.coverings[k]
              \/ db'.coverings[k] = [db.coverings[k] EXCEPT !["room"] = None]
          BY <3>3, <4>2, <5>2, <1>3 DEF Nulled
        <5> QED
          BY <5>3, <1>1, <1>3
      <4> QED
        BY <4>1, <4>2
    <3>4. CASE Marked(r)
      BY <3>4, <1>1 DEF Marked, Others
    <3>5. CASE Deleted(r)
      BY <3>5, <1>1, DeletedRows
    <3>6. CASE Quiet(r)
      BY <3>6 DEF Quiet
    <3> QED
      BY <3>1, <3>2, <3>3, <3>4, <3>5, <3>6 DEF Acts, Checked, Looked, Resumed, Skipped, Failed
  <2> QED
    BY <2>1, <1>3 DEF Wired
<1> QED
  BY <1>2, <1>3

\* What is looked for is not there yet.
LEMMA PickedIsFree ==
    ASSUME RegistryAssumption, NEW c, NEW r, LawfulStatement(r, c),
           c.op = "unique" \/ (c.op = "seed" /\ c.tab \in {"cameras", "devices", "hubs"})
    PROVE  Picked(c) \cap DOMAIN db[c.tab] = {}
<1>1. CASE c.op = "unique"
  <2> DEFINE free == {i \in DOMAIN Free[c.tab] : ~Is(c.tab, Free[c.tab][i])}
  <2>1. free \in SUBSET Nat
    BY <1>1 DEF RegistryAssumption, LawfulStatement
  <2>2. Picked(c) = IF free = {} THEN {} ELSE {Free[c.tab][Min(free)]}
    BY <1>1 DEF Picked
  <2>3. free # {} => Min(free) \in free
    BY <2>1, MinIs
  <2>4. \A i \in free : Free[c.tab][i] \notin DOMAIN db[c.tab]
    BY DEF Is
  <2> HIDE DEF free
  <2> QED
    BY <2>2, <2>3, <2>4
<1>2. CASE c.op = "seed"
  <2>1. CASE c.tab = "hubs"
    BY <1>2, <2>1 DEF Picked, Is
  <2>2. CASE c.tab \in {"cameras", "devices"}
    <3>1. Picked(c) = IF DOMAIN db[c.tab] # {} THEN {} ELSE {c.id}
      BY <1>2, <2>2 DEF Picked
    <3> QED
      BY <3>1
  <2>3. c.tab \in {"cameras", "devices", "hubs"}
    BY <1>2
  <2> QED
    BY <2>1, <2>2, <2>3
<1> QED
  BY <1>1, <1>2

ChosenOf(q) ==
    /\ Now(q).op \in {"putpicked", "putnew"} => th[q].begun
    /\ Now(q).op = "putpicked" /\ Now(q).tab \in {"cameras", "devices", "hubs"} =>
           th[q].pick \cap DOMAIN db[Now(q).tab] = {}
    /\ Now(q).op = "putnew" => \A i \in DOMAIN L(q) : L(q)[i].op = "putnew" =>
           (L(q)[i].id \in DOMAIN db.coverings => L(q)[i].id \in th[q].pick)

\* Nobody else inserts between the look and the row.
LEMMA ChosenOfOthers ==
    ASSUME RegistryAssumption, Shaped, Held, Kept, NEW r \in Requests, Acts(r),
           NEW q \in Requests, q # r, Running(q), ChosenOf(q)
    PROVE  ChosenOf(q)'
<1>1. Turn(r) /\ Unmoved(q) /\ None \notin Requests
  BY ActsTurn DEF Turn, RegistryAssumption, Kept
<1>2. /\ L(q)' = L(q) /\ Now(q)' = Now(q) /\ th'[q].pick = th[q].pick /\ th'[q].begun = th[q].begun
  BY <1>1 DEF Unmoved, L, Now
<1>3. Now(q) = L(q)[1] /\ 1 \in DOMAIN L(q) /\ LawfulPicks(L(q), th[q].async)
      /\ LawfulMotors(L(q), th[q].async) /\ LawfulStatement(q, Now(q))
  BY NowIs DEF Shaped, Lawful
<1>4. ASSUME th[q].begun, th[q].async, Now(q).op # "await", th[r].async
      PROVE  FALSE
  <2>1. loop = q
    BY <1>4 DEF Held, Mid
  <2> QED
    BY <2>1, <1>1, <1>4 DEF Turn, MayStep
<1>5. ASSUME NEW t \in {"cameras", "devices", "hubs", "coverings"}, NEW x \in DOMAIN db'[t],
             x \notin DOMAIN db[t]
      PROVE  th[r].async
  <2>1. Added(r) /\ Now(r).tab = t
    BY <1>5, OnlyAdded DEF Tables
  <2>2. /\ Now(r).op \in Inserts /\ LawfulStatement(r, Now(r)) /\ Now(r) = L(r)[1] /\ 1 \in DOMAIN L(r)
    BY <1>1, <2>1, Leftover, NowIs DEF Added
  <2>3. Now(r).op = "putnew" \/ (Now(r).op = "putpicked" /\ t \in {"cameras", "devices", "hubs"})
    BY <2>1, <2>2 DEF LawfulStatement, Inserts, PutTables, PickTables
  <2>4. LawfulPicks(L(r), th[r].async) /\ LawfulMotors(L(r), th[r].async)
    BY DEF Shaped, Lawful
  <2> QED
    BY <2>1, <2>2, <2>3, <2>4 DEF LawfulPicks, LawfulMotors
<1>6. ASSUME Now(q).op = "putpicked", Now(q).tab \in {"cameras", "devices", "hubs"}
      PROVE  th[q].pick \cap DOMAIN db'[Now(q).tab] = {}
  <2>1. th[q].begun /\ th[q].async /\ th[q].pick \cap DOMAIN db[Now(q).tab] = {}
    BY <1>3, <1>6 DEF ChosenOf, LawfulPicks
  <2>2. \A x \in DOMAIN db'[Now(q).tab] : x \in DOMAIN db[Now(q).tab]
    BY <2>1, <1>4, <1>5, <1>6
  <2> QED
    BY <2>1, <2>2
<1>7. ASSUME Now(q).op = "putnew", NEW i \in DOMAIN L(q), L(q)[i].op = "putnew",
             L(q)[i].id \in DOMAIN db'.coverings
      PROVE  L(q)[i].id \in th[q].pick
  <2>1. th[q].begun /\ th[q].async
    BY <1>3, <1>7 DEF ChosenOf, LawfulMotors
  <2>2. L(q)[i].id \in DOMAIN db.coverings
    BY <2>1, <1>4, <1>5, <1>7
  <2> QED
    BY <2>2, <1>7 DEF ChosenOf
<1>8. Now(q).op \in {"putpicked", "putnew"} => th[q].begun
  BY DEF ChosenOf
<1> QED
  BY <1>2, <1>6, <1>7, <1>8 DEF ChosenOf

LEMMA ChosenOfMover ==
    ASSUME RegistryAssumption, Shaped, Kept, Wired, NEW r \in Requests, Acts(r), ChosenOf(r),
           Running(r)'
    PROVE  ChosenOf(r)'
<1> DEFINE l == L(r)
<1>1. Turn(r)
  BY ActsTurn DEF Kept
<1>2. Running(r) /\ Same(r) /\ Now(r) = l[1] /\ 1 \in DOMAIN l /\ l # <<>> /\ Listing(l)
  BY <1>1, Leftover, NowIs
<1>3. L(r)' # <<>>
  BY DEF Running, L
<1>4. ~Dropped(r) /\ Onward(r) /\ L(r)' = Tail(l)
  BY <1>1, <1>3, Leftover
<1>5. Listing(L(r)')
  BY <1>2, <1>4, ListOf
<1>6. /\ 1 \in DOMAIN L(r)' /\ Now(r)' = L(r)'[1] /\ L(r)'[1] = l[2] /\ 2 \in DOMAIN l
      /\ \A i \in DOMAIN L(r)' : L(r)'[i] = l[i + 1] /\ i + 1 \in DOMAIN l /\ i \in Nat /\ i >= 1
  <2>1. Head(L(r)') = L(r)'[1] /\ 1 \in DOMAIN L(r)'
    BY <1>3, <1>5, ListOf
  <2>2. \A i \in DOMAIN L(r)' : L(r)'[i] = l[i + 1] /\ i + 1 \in DOMAIN l /\ i \in Nat /\ i >= 1
    BY <1>1, <1>4, Leftover
  <2>3. Now(r)' = L(r)'[1]
    BY <2>1 DEF Now, L
  <2> QED
    BY <2>1, <2>2, <2>3
<1>7. th'[r].begun
  BY <1>2 DEF Same
<1>8. LawfulPicks(l, th[r].async) /\ LawfulMotors(l, th[r].async) /\ LawfulStatement(r, l[1])
      /\ LawfulStatement(r, l[2])
  BY <1>2, <1>6 DEF Shaped, Lawful
<1>9. ASSUME l[2].op = "putpicked", l[2].tab \in {"cameras", "devices", "hubs"}
      PROVE  th'[r].pick \cap DOMAIN db'[l[2].tab] = {}
  <2>1. l[1].op \in {"unique", "seed"} /\ l[1].tab = l[2].tab
    <3>1. l[2 - 1].op \in {"unique", "seed"} /\ l[2 - 1].tab = l[2].tab
      BY <1>6, <1>8, <1>9 DEF LawfulPicks
    <3> QED
      BY <3>1
  <2>2. Looked(r)
    BY <2>1, <1>2, ActsByOp
  <2>3. db' = db /\ th'[r].pick = Picked(l[1])
    BY <2>2, <1>2 DEF Looked, Quiet
  <2> QED
    BY <2>1, <2>3, <1>8, <1>9, PickedIsFree
<1>10. ASSUME l[2].op = "putnew", NEW i \in DOMAIN L(r)', l[i + 1].op = "putnew",
              l[i + 1].id \in DOMAIN db'.coverings
       PROVE  l[i + 1].id \in th'[r].pick
  <2>1. \/ l[1].op = "putnew"
        \/ /\ l[1].op = "listed" /\ l[1].tab = "coverings"
           /\ l[1].col = "hub" /\ l[1].val = l[2].row.hub
    <3>1. \/ l[2 - 1].op = "putnew"
          \/ /\ l[2 - 1].op = "listed" /\ l[2 - 1].tab = "coverings"
             /\ l[2 - 1].col = "hub" /\ l[2 - 1].val = l[2].row.hub
      BY <1>6, <1>8, <1>10 DEF LawfulMotors
    <3> QED
      BY <3>1
  <2>2. i + 1 \in DOMAIN l /\ i + 1 # 1 /\ LawfulStatement(r, l[i + 1])
    BY <1>6 DEF Shaped, Lawful
  <2>3. CASE l[1].op = "putnew"
    <3>1. Skipped(r) \/ Added(r)
      BY <2>3, <1>2, <1>4, ActsByOp DEF Inserts, Failed
    <3>2. th'[r].pick = th[r].pick
      BY <3>1 DEF Skipped, Added, Loud, Recollects
    <3>3. l[i + 1].id \in DOMAIN db.coverings
      <4>1. CASE Skipped(r)
        BY <4>1, <1>10 DEF Skipped, Quiet
      <4>2. CASE Added(r)
        <5>1. Inserted(r) = l[1].id
          BY <2>3, <1>2 DEF Inserted
        <5>2. l[i + 1].id # l[1].id
          BY <2>2, <2>3, <1>2, <1>8, <1>10 DEF LawfulMotors
        <5> QED
          BY <4>2, <5>1, <5>2, <1>10, OnlyAdded DEF Tables
      <4> QED
        BY <3>1, <4>1, <4>2
    <3> QED
      BY <3>2, <3>3, <2>2, <2>3, <1>2, <1>10 DEF ChosenOf
  <2>4. CASE l[1].op = "listed" /\ l[1].tab = "coverings" /\ l[1].col = "hub"
             /\ l[1].val = l[2].row.hub
    <3>1. Looked(r)
      BY <2>4, <1>2, ActsByOp
    <3>2. db' = db /\ th'[r].pick = Matching("coverings", "hub", l[2].row.hub)
      BY <3>1, <2>4, <1>2 DEF Looked, Quiet, Picked
    <3> DEFINE k == l[i + 1].id
    <3>3. k \in DOMAIN db.coverings
      BY <3>2, <1>10
    <3>4. l[i + 1].row.hub = l[2].row.hub
      BY <2>2, <1>6, <1>8, <1>10 DEF LawfulMotors
    <3>5. PICK h \in DOMAIN Motors, m \in DOMAIN Motors[l[2].row.hub] :
              l[2].row.hub = h /\ Motors[h][m] = k
      BY <2>2, <3>4, <1>10 DEF LawfulStatement
    <3>6. PICK g \in DOMAIN Motors : \E n \in DOMAIN Motors[g] :
              Motors[g][n] = k /\ db.coverings[k].hub = g
      BY <3>3 DEF Wired
    <3>7. g = h
      BY <3>5, <3>6 DEF RegistryAssumption
    <3> QED
      BY <3>2, <3>3, <3>5, <3>6, <3>7 DEF Matching
  <2> QED
    BY <2>1, <2>3, <2>4
<1> QED
  BY <1>6, <1>7, <1>9, <1>10 DEF ChosenOf

LEMMA ChosenNext ==
    ASSUME RegistryAssumption, Shaped, Held, Kept, Wired, Chosen,
           (\E r \in Requests : Acts(r)) \/ Crashed
    PROVE  Chosen'
<1> SUFFICES ASSUME NEW q \in Requests, Running(q)'
             PROVE  ChosenOf(q)'
  BY DEF Chosen, ChosenOf
<1>1. Running(q) => ChosenOf(q)
  BY DEF Chosen, ChosenOf
<1>2. ASSUME NEW r \in Requests, Acts(r)
      PROVE  ChosenOf(q)'
  <2>1. Turn(r)
    BY <1>2, ActsTurn DEF Kept
  <2>2. CASE q = r
    <3>1. Running(r)
      BY <2>1, Leftover
    <3> QED
      BY <2>2, <3>1, <1>1, <1>2, ChosenOfMover
  <2>3. CASE q # r
    <3>1. Running(q)
      BY <2>1, <2>3 DEF Turn, Unmoved, Running
    <3> QED
      BY <2>3, <3>1, <1>1, <1>2, ChosenOfOthers
  <2> QED
    BY <2>2, <2>3
<1>3. ASSUME Crashed
      PROVE  ChosenOf(q)'
  <2>1. q \notin Lost
    <3> SUFFICES ASSUME q \in Lost
                 PROVE  FALSE
      OBVIOUS
    <3>1. th'[q] = [th[q] EXCEPT !.todo = <<>>] /\ DOMAIN th[q] = Fields
      BY <1>3 DEF Crashed, Shaped
    <3> QED
      BY <3>1 DEF Running, Fields
  <2>2. th'[q] = th[q] /\ db' = db
    BY <2>1, <1>3 DEF Crashed
  <2>3. ChosenOf(q)
    BY <2>2, <1>1 DEF Running
  <2> QED
    BY <2>2, <2>3 DEF ChosenOf, Now, L
<1> QED
  BY <1>2, <1>3

LEMMA FreshCrash ==
    ASSUME Shaped, Kept, Fresh, Crashed
    PROVE  Fresh'
<1> SUFFICES ASSUME NEW q \in Requests, NEW i \in DOMAIN L(q)', L(q)'[i].op = "put",
                    L(q)'[i].tab \notin {"users", "lists"}
             PROVE  q \notin DOMAIN db'[L(q)'[i].tab]
  BY DEF Fresh
<1>1. q \notin Lost
  <2> SUFFICES ASSUME q \in Lost
               PROVE  FALSE
    OBVIOUS
  <2>1. th'[q] = [th[q] EXCEPT !.todo = <<>>] /\ DOMAIN th[q] = Fields
    BY DEF Crashed, Shaped
  <2>2. L(q)' = <<>>
    BY <2>1 DEF L, Fields
  <2> QED
    BY <2>2, EmptyListing
<1>2. th'[q] = th[q] /\ db' = db
  BY <1>1 DEF Crashed
<1> QED
  BY <1>2 DEF Fresh, L

LEMMA NamedNext ==
    ASSUME Kept, Named, NEW r, Acts(r)
    PROVE  Named'
<1> SUFFICES ASSUME NEW t \in Tables, None \in DOMAIN db'[t]
             PROVE  FALSE
  BY DEF Named
<1>1. Added(r) /\ Inserted(r) = None
  BY OnlyAdded DEF Named
<1> QED
  BY <1>1 DEF Added, Needless

LEMMA AnnouncedNext ==
    ASSUME Shaped, Announced, DOMAIN db = Tables, (\E r \in Requests : Acts(r)) \/ Crashed
    PROVE  Announced'
<1> SUFFICES ASSUME NEW q \in Requests, ~th'[q].begun
             PROVE  /\ th'[q].me = None /\ th'[q].pick = {}
                    /\ LawfulStart(L(q)', th'[q].async, th'[q].on, th'[q].kills)
  BY DEF Announced, L
<1>1. ASSUME NEW r \in Requests, Acts(r)
      PROVE  /\ ~th[q].begun /\ th'[q].me = th[q].me /\ th'[q].pick = th[q].pick
             /\ L(q)' = L(q) /\ th'[q].async = th[q].async /\ th'[q].on = th[q].on
             /\ th'[q].kills = th[q].kills
  <2>1. Turn(r)
    BY <1>1, ActsTurn
  <2>2. q # r
    BY <2>1 DEF Turn, Onward, Dropped, Same
  <2> QED
    BY <2>1, <2>2 DEF Turn, Unmoved, L
<1>2. ASSUME Crashed
      PROVE  /\ ~th[q].begun /\ th'[q].me = th[q].me /\ th'[q].pick = th[q].pick
             /\ L(q)' = L(q) /\ th'[q].async = th[q].async /\ th'[q].on = th[q].on
             /\ th'[q].kills = th[q].kills
  <2>1. CASE q \in Lost
    <3>1. th'[q] = [th[q] EXCEPT !.todo = <<>>] /\ DOMAIN th[q] = Fields /\ th[q].begun
      BY <2>1, <1>2 DEF Crashed, Shaped, Lost
    <3> QED
      BY <3>1 DEF Fields
  <2>2. CASE q \notin Lost
    BY <2>2, <1>2 DEF Crashed, L
  <2> QED
    BY <2>1, <2>2
<1>3. /\ ~th[q].begun /\ th'[q].me = th[q].me /\ th'[q].pick = th[q].pick
      /\ L(q)' = L(q) /\ th'[q].async = th[q].async /\ th'[q].on = th[q].on
      /\ th'[q].kills = th[q].kills
  BY <1>1, <1>2
<1>4. th[q].me = None /\ th[q].pick = {}
      /\ LawfulStart(L(q), th[q].async, th[q].on, th[q].kills)
  BY <1>3 DEF Announced
<1> QED
  BY <1>3, <1>4

-----------------------------------------------------------------------------
(* Sessions of an older password are signed out.                           *)

\* The user of a session stays, and its password unless it is the one that is spared.
LEMMA SessionKeeps ==
    ASSUME Shaped, Kept, NEW r \in Requests, Acts(r), NEW s \in DOMAIN db'.sessions,
           s \in DOMAIN db.sessions
    PROVE  /\ db'.sessions[s].user = db.sessions[s].user
           /\ \/ db'.sessions[s].pw = db.sessions[s].pw
              \/ /\ Deleted(r) /\ s \in Spared(r) /\ Now(r).tab # "users"
                 /\ db'.sessions[s].pw = db.users[Now(r).val].pw
<1>1. "sessions" \in Tables /\ DOMAIN db.sessions[s] = {"user", "pw"} /\ DOMAIN db = Tables
  BY DEF Kept, Tables
<1>2. CASE Added(r)
  BY <1>1, <1>2 DEF Added, Others
<1>3. CASE Rewritten(r)
  <2>1. Now(r).tab # "sessions"
    BY <1>3, RewrittenRow
  <2> QED
    BY <2>1, <1>1, <1>3 DEF Rewritten, Others
<1>4. CASE Nulled(r)
  <2>1. LawfulStatement(r, Now(r))
    BY <1>4, MayStepRuns, NowIs DEF Nulled, Loud, Turn
  <2>2. Now(r).tab # "sessions"
    BY <2>1, <1>4 DEF LawfulStatement, NullColumns, Nulled
  <2> QED
    BY <2>2, <1>1, <1>4 DEF Nulled, Others
<1>5. CASE Marked(r)
  BY <1>1, <1>5 DEF Marked, Others
<1>6. CASE Deleted(r)
  <2>1. CASE Now(r).tab = "users"
    BY <1>6, <2>1 DEF Deleted
  <2>2. CASE Now(r).tab # "users"
    <3>1. db'.sessions[s] = IF s \in Spared(r)
                            THEN [db.sessions[s] EXCEPT !.pw = db.users[Now(r).val].pw]
                            ELSE db.sessions[s]
      BY <1>6, <2>2 DEF Deleted
    <3> QED
      BY <3>1, <1>1, <1>6, <2>2
  <2> QED
    BY <2>1, <2>2
<1>7. CASE Quiet(r)
  BY <1>7 DEF Quiet
<1> QED
  BY <1>2, <1>3, <1>4, <1>5, <1>6, <1>7 DEF Acts, Checked, Looked, Resumed, Skipped, Failed

\* A password stays unless it is set.
LEMMA UserKeeps ==
    ASSUME Shaped, Kept, NEW r \in Requests, Acts(r), NEW u \in DOMAIN db'.users,
           u \in DOMAIN db.users
    PROVE  \/ db'.users[u].pw = db.users[u].pw
           \/ /\ Now(r).op = "set" /\ Now(r).tab = "users" /\ Now(r).col = "pw" /\ Now(r).id = u
              /\ db'.users[u].pw = Now(r).val /\ Rewritten(r)
<1> DEFINE c == Now(r)
<1>1. "users" \in Tables /\ DOMAIN db.users[u] = {"role", "pw"} /\ DOMAIN db = Tables
  BY DEF Kept, Tables
<1>2. CASE Added(r)
  BY <1>1, <1>2 DEF Added, Others
<1>3. CASE Rewritten(r)
  <2>1. CASE c.tab # "users"
    BY <2>1, <1>1, <1>3 DEF Rewritten, Others
  <2>2. CASE c.tab = "users" /\ c.id # u
    BY <2>2, <1>3 DEF Rewritten
  <2>3. CASE c.tab = "users" /\ c.id = u
    <3>1. /\ \A f \in DOMAIN db.users[u] : f # c.col => db'.users[u][f] = db.users[u][f]
          /\ c.op = "set" /\ c.col \in {"pw", "role"}
          /\ c.col \in DOMAIN db.users[u] => db'.users[u][c.col] = c.val
      BY <2>3, <1>3, RewrittenRow DEF Value
    <3> QED
      BY <3>1, <2>3, <1>1, <1>3
  <2> QED
    BY <2>1, <2>2, <2>3
<1>4. CASE Nulled(r)
  <2>1. LawfulStatement(r, c)
    BY <1>4, MayStepRuns, NowIs DEF Nulled, Loud, Turn
  <2>2. c.tab # "users"
    BY <2>1, <1>4 DEF LawfulStatement, NullColumns, Nulled
  <2> QED
    BY <2>2, <1>1, <1>4 DEF Nulled, Others
<1>5. CASE Marked(r)
  BY <1>1, <1>5 DEF Marked, Others
<1>6. CASE Deleted(r)
  BY <1>6, <1>1, DeletedRows
<1>7. CASE Quiet(r)
  BY <1>7 DEF Quiet
<1> QED
  BY <1>2, <1>3, <1>4, <1>5, <1>6, <1>7 DEF Acts, Checked, Looked, Resumed, Skipped, Failed

LEMMA OwnedNext ==
    ASSUME RegistryAssumption, Shaped, Kept, Owned, NEW r \in Requests, Acts(r)
    PROVE  Owned'
<1> SUFFICES ASSUME NEW s \in DOMAIN db'.sessions, s \in Tokens
             PROVE  db'.sessions[s].user = Known["owner"][s]
  BY DEF Owned
<1>1. CASE s \in DOMAIN db.sessions
  BY <1>1, SessionKeeps DEF Owned
<1>2. CASE s \notin DOMAIN db.sessions
  <2>1. Added(r) /\ Now(r).tab = "sessions" /\ Inserted(r) = s
    BY <1>2, OnlyAdded DEF Tables
  <2>2. s = r
    BY <2>1, AddedRow
  <2> QED
    BY <2>2 DEF RegistryAssumption
<1> QED
  BY <1>1, <1>2

\* Who will sign the sessions of u out.
Signer(q, u) == /\ th[q].begun /\ th[q].on = u /\ Settled(L(q))
                /\ \E i \in DOMAIN L(q) : SignsOut(L(q)[i], u)

\* It goes on to do so, unless it just has.
LEMMA SignerMoves ==
    ASSUME Shaped, Kept, NEW r \in Requests, Acts(r), NEW u, NEW q \in Requests, Signer(q, u)
    PROVE  \/ Signer(q, u)'
           \/ q = r /\ SignsOut(Now(r), u)
<1>1. Turn(r)
  BY ActsTurn DEF Kept
<1>2. CASE q # r
  <2>1. Unmoved(q)
    BY <1>1, <1>2 DEF Turn
  <2>2. L(q)' = L(q) /\ th'[q].begun = th[q].begun /\ th'[q].on = th[q].on
    BY <2>1 DEF Unmoved, L
  <2> QED
    BY <2>2 DEF Signer, Settled
<1>3. CASE q = r /\ ~SignsOut(Now(r), u)
  <2> DEFINE l == L(r)
  <2>1. /\ Same(r) /\ Now(r) = l[1] /\ DOMAIN l = 1 .. Len(l) /\ Len(l) \in Nat /\ 1 \in DOMAIN l
    BY <1>1, Leftover
  <2>2. Now(r).op \notin Checks \cup Inserts
    BY <2>1, <1>3 DEF Signer, Settled
  <2>3. Onward(r)
    BY <2>2 DEF Acts, Checked, Looked, Resumed, Skipped, Failed, Added, Rewritten, Nulled, Marked,
                Deleted, Loud
  <2>4. DOMAIN L(r)' = 1 .. Len(l) - 1 /\ \A i \in DOMAIN L(r)' : L(r)'[i] = l[i + 1]
    BY <1>1, <2>3, Leftover
  <2>5. PICK i \in DOMAIN l : SignsOut(l[i], u)
    BY <1>3 DEF Signer
  <2>6. i # 1
    BY <2>1, <2>5, <1>3
  <2>7. i - 1 \in DOMAIN L(r)' /\ L(r)'[i - 1] = l[i]
    BY <2>1, <2>4, <2>5, <2>6
  <2>8. SignsOut(L(r)'[i - 1], u)
    BY <2>5, <2>7
  <2>9. \A j \in DOMAIN L(r)' : L(r)'[j].op \notin Checks \cup Inserts
    <3> SUFFICES ASSUME NEW j \in DOMAIN L(r)'
                 PROVE  L(r)'[j].op \notin Checks \cup Inserts
      OBVIOUS
    <3>1. j + 1 \in DOMAIN l /\ L(r)'[j] = l[j + 1]
      BY <2>1, <2>4
    <3> QED
      BY <3>1, <1>3 DEF Signer, Settled
  <2>10. th'[r].begun = TRUE /\ th'[r].on = u
    BY <2>1, <1>3 DEF Same, Signer
  <2>11. \E j \in DOMAIN L(r)' : SignsOut(L(r)'[j], u)
    BY <2>7, <2>8
  <2> HIDE DEF l
  <2> QED
    BY <2>9, <2>10, <2>11, <1>3 DEF Signer, Settled, SignsOut
<1> QED
  BY <1>2, <1>3

SignedOf(s) ==
    LET u == db.sessions[s].user IN
    \/ db.sessions[s].pw = db.users[u].pw
    \/ db.users[u].pw = "given"
    \/ <<"sessions", s>> \in late
    \/ \E q \in Requests : Signer(q, u)

LEMMA SignedStep ==
    ASSUME RegistryAssumption, Shaped, Kept, Named, Owned, NEW r \in Requests, Acts(r),
           NEW s \in DOMAIN db.sessions, s \in DOMAIN db'.sessions, SignedOf(s)
    PROVE  SignedOf(s)'
<1>0. PICK u : u = db.sessions[s].user
  OBVIOUS
<1>1. /\ "users" \in Tables /\ "sessions" \in Tables /\ DOMAIN db = Tables /\ u \in DOMAIN db.users
      /\ s # None
  BY <1>0 DEF Kept, Tables, Named
<1>2. Turn(r) /\ Lasts
  BY <1>1, ActsTurn
<1>3. db'.sessions[s].user = u /\ u \in DOMAIN db'.users
  BY <1>0, SessionKeeps, KeptNext DEF Kept
<1>4. LawfulStatement(r, Now(r)) /\ Running(r)
  BY <1>2, Leftover, NowIs
<1>5. ASSUME Deleted(r), s \in Spared(r)
      PROVE  db'.sessions[s].pw = db'.users[u].pw
  <2>1. Now(r).op = "del" /\ Now(r).but = s
    BY <1>5 DEF Spared
  <2>2. Now(r).tab = "sessions" /\ s \in Tokens /\ Now(r).val = Known["owner"][s]
    BY <2>1, <1>1, <1>4 DEF LawfulStatement
  <2>3. Now(r).val = u
    BY <2>2, <1>0 DEF Owned
  <2>4. db'.users = db.users
    BY <2>2, <1>1, <1>5 DEF Deleted
  <2>5. db'.sessions[s] = [db.sessions[s] EXCEPT !.pw = db.users[Now(r).val].pw]
    BY <2>2, <1>5 DEF Deleted
  <2>6. DOMAIN db.sessions[s] = {"user", "pw"}
    BY DEF Kept
  <2> QED
    BY <2>3, <2>4, <2>5, <2>6
<1>6. CASE db'.sessions[s].pw # db.sessions[s].pw
  <2>1. Deleted(r) /\ s \in Spared(r)
    BY <1>6, SessionKeeps
  <2> QED
    BY <2>1, <1>3, <1>5 DEF SignedOf
<1>7. CASE db'.users[u].pw # db.users[u].pw
  <2>1. /\ Now(r).op = "set" /\ Now(r).tab = "users" /\ Now(r).col = "pw" /\ Now(r).id = u
        /\ db'.users[u].pw = Now(r).val /\ Rewritten(r)
    BY <1>1, <1>3, <1>7, UserKeeps
  <2>2. CASE Now(r).val = "given"
    BY <2>1, <2>2, <1>3 DEF SignedOf
  <2>3. CASE Now(r).val # "given"
    <3> DEFINE l == L(r)
    <3>1. /\ Same(r) /\ Now(r) = l[1] /\ DOMAIN l = 1 .. Len(l) /\ Len(l) \in Nat /\ 1 \in DOMAIN l
      BY <1>2, Leftover
    <3>2. Onward(r)
      BY <2>1 DEF Rewritten, Loud
    <3>3. DOMAIN L(r)' = 1 .. Len(l) - 1 /\ \A i \in DOMAIN L(r)' : L(r)'[i] = l[i + 1]
      BY <1>2, <3>2, Leftover
    <3>4. LawfulPasswords(l, th[r].on)
      BY DEF Shaped, Lawful
    <3>5. /\ th[r].on = u /\ 1 < Len(l) /\ SignsOut(l[1 + 1], u)
          /\ \A j \in DOMAIN l : j > 1 => l[j].op \notin Checks \cup Inserts
      BY <2>1, <2>3, <3>1, <3>4 DEF LawfulPasswords
    <3>6. 1 \in DOMAIN L(r)' /\ SignsOut(L(r)'[1], u)
      BY <3>1, <3>3, <3>5
    <3>7. \A j \in DOMAIN L(r)' : L(r)'[j].op \notin Checks \cup Inserts
      <4> SUFFICES ASSUME NEW j \in DOMAIN L(r)'
                   PROVE  L(r)'[j].op \notin Checks \cup Inserts
        OBVIOUS
      <4>1. j + 1 \in DOMAIN l /\ j + 1 > 1 /\ L(r)'[j] = l[j + 1]
        BY <3>1, <3>3
      <4> QED
        BY <4>1, <3>5
    <3>8. th'[r].begun = TRUE /\ th'[r].on = u
      BY <3>1, <3>5 DEF Same
    <3>9. Signer(r, u)'
      BY <3>6, <3>7, <3>8 DEF Signer, Settled, SignsOut
    <3> QED
      BY <3>9, <1>3 DEF SignedOf
  <2> QED
    BY <2>2, <2>3
<1>8. CASE db'.sessions[s].pw = db.sessions[s].pw /\ db'.users[u].pw = db.users[u].pw
  <2>1. CASE <<"sessions", s>> \in late
    <3>1. <<"sessions", s>> \in late'
      BY <2>1, <1>2 DEF Lasts
    <3> QED
      BY <3>1 DEF SignedOf
  <2>2. CASE db.sessions[s].pw = db.users[u].pw \/ db.users[u].pw = "given"
    BY <2>2, <1>3, <1>8 DEF SignedOf
  <2>3. ASSUME NEW q \in Requests, Signer(q, u)
        PROVE  SignedOf(s)'
    <3>1. CASE Signer(q, u)'
      BY <3>1, <1>3 DEF SignedOf
    <3>2. CASE SignsOut(Now(r), u)
      <4>1. Deleted(r) /\ Now(r).op = "del" /\ Now(r).tab = "sessions"
        BY <3>2, ActsByOp DEF SignsOut
      <4>2. s \in Matching("sessions", "user", u)
        BY <1>0 DEF Matching
      <4>3. s \notin Gone(r)
        BY <4>1 DEF Deleted
      <4>4. s = Now(r).but
        BY <3>2, <4>1, <4>2, <4>3 DEF Gone, SignsOut
      <4>5. s \in Spared(r)
        BY <3>2, <4>1, <4>4, <1>1 DEF Spared, SignsOut, Is
      <4> QED
        BY <4>1, <4>5, <1>3, <1>5 DEF SignedOf
    <3> QED
      BY <2>3, <3>1, <3>2, SignerMoves
  <2> QED
    BY <2>1, <2>2, <2>3, <1>0 DEF SignedOf
<1> QED
  BY <1>6, <1>7, <1>8

LEMMA SignedNext ==
    ASSUME RegistryAssumption, Shaped, Kept, Named, Owned, Signed, NEW r \in Requests, Acts(r)
    PROVE  Signed'
<1>1. \A s \in DOMAIN db.sessions : SignedOf(s)
  BY DEF Signed, SignedOf, Signer
<1>2. ASSUME NEW s \in DOMAIN db'.sessions
      PROVE  SignedOf(s)'
  <2>1. CASE s \in DOMAIN db.sessions
    BY <2>1, <1>1, <1>2, SignedStep
  <2>2. CASE s \notin DOMAIN db.sessions
    <3>1. Added(r) /\ Now(r).tab = "sessions" /\ Inserted(r) = s
      BY <2>2, OnlyAdded DEF Tables
    <3> DEFINE row == Ranked(Now(r))
    <3>2. /\ row.user \in DOMAIN db.users /\ db'.sessions[s] = row
          /\ Belated(r, "sessions", row) => <<"sessions", s>> \in late'
      BY <3>1 DEF Added
    <3>3. db'.users = db.users
      BY <3>1 DEF Added, Others, Tables
    <3>4. CASE row.pw = db.users[row.user].pw
      BY <3>2, <3>3, <3>4 DEF SignedOf
    <3>5. CASE row.pw # db.users[row.user].pw
      <4>1. Belated(r, "sessions", row)
        BY <3>5 DEF Belated, Row
      <4> QED
        BY <4>1, <3>2 DEF SignedOf
    <3> QED
      BY <3>4, <3>5
  <2> QED
    BY <2>1, <2>2
<1> QED
  BY <1>2 DEF Signed, SignedOf, Signer

LEMMA SignedCrash ==
    ASSUME Shaped, Signed, Crashed
    PROVE  Signed'
<1> SUFFICES ASSUME NEW s \in DOMAIN db'.sessions
             PROVE  SignedOf(s)'
  BY DEF Signed, SignedOf, Signer
<1>1. db' = db /\ late \subseteq late'
  BY DEF Crashed
<1>2. SignedOf(s)
  BY <1>1 DEF Signed, SignedOf, Signer
<1>3. ASSUME NEW q \in Requests, Signer(q, db.sessions[s].user)
      PROVE  <<"sessions", s>> \in late'
  <2>1. q \in Lost
    <3>1. Running(q)
      BY <1>3, EmptyListing DEF Signer, Running, L
    <3> QED
      BY <3>1, <1>3 DEF Signer, Lost
  <2> QED
    BY <2>1, <1>1, <1>3 DEF Signer, Crashed
<1> QED
  BY <1>1, <1>2, <1>3 DEF SignedOf

-----------------------------------------------------------------------------
(* What names a row that is gone or going is cleared.                      *)

LEMMA RefsAre ==
    ASSUME NEW f \in Refs
    PROVE  /\ f[1] \in Tables /\ f[3] \in Targets /\ f[3] \in Tables /\ f[3] \notin {"sessions", "schedules"}
           /\ f[1] # f[3] /\ f[2] \notin {"id", "rank"} /\ f[1] \notin {"lan", "users"}
           /\ f[1] = "schedules" /\ f[2] = "covering" => f[3] = "coverings"
           /\ f[1] = "tasks" /\ f[2] = "assignee" => f[3] = "users"
BY DEF Refs, FootageRefs, ScheduleRefs, CoveringRefs, TaskRefs, Tables, Targets

\* The requests that delete check, wait, look, clear and delete.
LEMMA KillersDo ==
    ASSUME Shaped, NEW r \in Requests, Acts(r), th[r].kills # {}, Kept
    PROVE  /\ Now(r).op \in Checks \cup {"await", "listed", "null", "del", "dellisted"}
           /\ Now(r).op # "listed" => th'[r].pick = th[r].pick
           /\ Now(r).op \notin Checks => Onward(r)
<1>1. Turn(r)
  BY ActsTurn DEF Kept
<1>2. 1 \in DOMAIN L(r) /\ Now(r) = L(r)[1]
  BY <1>1, Leftover
<1>3. Now(r).op \in Checks \cup {"await", "listed", "null", "del", "dellisted"}
  BY <1>2 DEF Shaped, Lawful, LawfulKills
<1>4. CASE Now(r).op \in Checks
  <2>1. Checked(r)
    BY <1>4, ActsByOp
  <2> QED
    BY <1>3, <1>4, <2>1 DEF Checked, Dropped
<1>5. CASE Now(r).op = "await"
  BY <1>3, <1>5, ActsByOp DEF Resumed, Recollects
<1>6. CASE Now(r).op = "listed"
  BY <1>3, <1>6, ActsByOp DEF Looked
<1>7. CASE Now(r).op \in {"null", "del", "dellisted"}
  BY <1>3, <1>7, ActsByOp DEF Nulled, Deleted, Loud, Recollects
<1> QED
  BY <1>3, <1>4, <1>5, <1>6, <1>7

\* A statement that clears what names v leaves none.
Hits(r, f, v) == Clears(Now(r), f, v) /\ (Now(r).op = "dellisted" => v \in th[r].pick)

LEMMA HitsAll ==
    ASSUME Kept, Named, NEW r, Acts(r), NEW f \in Refs, f[1] # "sessions", NEW v, v # None,
           Hits(r, f, v), NEW id \in DOMAIN db'[f[1]]
    PROVE  db'[f[1]][id][f[2]] # v
<1>0. f[1] \in Tables /\ f[2] # "id"
  BY RefsAre
<1>1. CASE Now(r).op = "null"
  <2>1. Nulled(r) /\ Now(r).tab = f[1] /\ Now(r).col = f[2] /\ Now(r).val = v
    BY <1>1, ActsByOp DEF Hits, Clears
  <2>2. id \in DOMAIN db[f[1]] /\ f[2] \in DOMAIN db[f[1]][id]
    BY <2>1, <1>0 DEF Nulled, Kept, HasColumns
  <2>3. db'[f[1]][id] = IF db[f[1]][id][f[2]] = v THEN [db[f[1]][id] EXCEPT ![f[2]] = None]
                        ELSE db[f[1]][id]
    BY <2>1, <2>2 DEF Nulled
  <2> QED
    BY <2>2, <2>3
<1>2. CASE Now(r).op \in {"del", "dellisted"}
  <2>1. Deleted(r) /\ Now(r).tab = f[1] /\ Now(r).col = f[2] /\ Now(r).val = v
        /\ (Now(r).op = "del" => Now(r).but = None) /\ (Now(r).op = "dellisted" => v \in th[r].pick)
    BY <1>2, ActsByOp DEF Hits, Clears
  <2>2. id \in DOMAIN db[f[1]] /\ db'[f[1]][id] = db[f[1]][id] /\ id \notin Gone(r)
    BY <2>1, <1>0, DeletedRows DEF Deleted
  <2>3. id # None
    BY <2>2, <1>0 DEF Named
  <2>4. id \notin Matching(f[1], f[2], v)
    BY <2>1, <2>2, <2>3, <1>2 DEF Gone
  <2> QED
    BY <2>2, <2>4, <1>0 DEF Matching
<1> QED
  BY <1>1, <1>2 DEF Hits, Clears

\* What is about to clear it is still about to, or clears it now.
LEMMA PendingMoves ==
    ASSUME Shaped, Kept, NEW r \in Requests, Acts(r), NEW q \in Requests, NEW f \in Refs, NEW v,
           Firm(q), Pending(q, f, v)
    PROVE  (Firm(q) /\ Pending(q, f, v))' \/ (q = r /\ Hits(r, f, v))
<1>1. Turn(r)
  BY ActsTurn DEF Kept
<1>2. CASE q # r
  <2>1. L(q)' = L(q) /\ th'[q].pick = th[q].pick /\ th'[q].begun = th[q].begun
        /\ th'[q].kills = th[q].kills
    BY <1>1, <1>2 DEF Turn, Unmoved, L
  <2> QED
    BY <2>1 DEF Firm, Pending, Clearing
<1>3. CASE q = r
  <2> DEFINE l == L(r)
  <2>1. /\ Same(r) /\ Now(r) = l[1] /\ DOMAIN l = 1 .. Len(l) /\ Len(l) \in Nat /\ 1 \in DOMAIN l
    BY <1>1, Leftover
  <2>2. Now(r).op \notin Checks \cup {"listed"}
    BY <2>1, <1>3 DEF Firm
  <2>3. th[r].kills # {}
    BY <1>3 DEF Pending
  <2>4. Onward(r) /\ th'[r].pick = th[r].pick
    BY <2>2, <2>3, KillersDo
  <2>5. DOMAIN L(r)' = 1 .. Len(l) - 1 /\ \A i \in DOMAIN L(r)' : L(r)'[i] = l[i + 1]
    BY <1>1, <2>4, Leftover
  <2>6. PICK i \in DOMAIN l : Clears(l[i], f, v) /\ (l[i].op = "dellisted" => v \in th[r].pick)
    <3>1. PICK i \in DOMAIN l : /\ Clears(l[i], f, v)
                                /\ l[i].op = "dellisted" => v \in th[r].pick
                                       \/ \E j \in DOMAIN l : j < i /\ l[j].op = "listed"
      BY <1>3 DEF Pending, Clearing
    <3>2. \A j \in DOMAIN l : l[j].op # "listed"
      BY <1>3 DEF Firm
    <3> QED
      BY <3>1, <3>2
  <2>7. CASE i = 1
    BY <2>1, <2>6, <2>7, <1>3 DEF Hits
  <2>8. CASE i # 1
    <3>1. i - 1 \in DOMAIN L(r)' /\ L(r)'[i - 1] = l[i]
      BY <2>1, <2>5, <2>6, <2>8
    <3>2. Clearing(L(r)', th[r].pick, f, v)
      BY <3>1, <2>6 DEF Clearing
    <3>3. \A j \in DOMAIN L(r)' : L(r)'[j].op \notin Checks \cup {"listed"}
      <4> SUFFICES ASSUME NEW j \in DOMAIN L(r)'
                   PROVE  L(r)'[j].op \notin Checks \cup {"listed"}
        OBVIOUS
      <4>1. j + 1 \in DOMAIN l /\ L(r)'[j] = l[j + 1]
        BY <2>1, <2>5
      <4> QED
        BY <4>1, <1>3 DEF Firm
    <3>4. th'[r].begun = TRUE /\ th'[r].kills = th[r].kills
      BY <2>1 DEF Same
    <3>5. Clearing(L(r), th[r].pick, f, v)'
      BY <3>2, <2>4 DEF Clearing
    <3> QED
      BY <3>3, <3>4, <3>5, <1>3 DEF Firm, Pending
  <2> QED
    BY <2>7, <2>8
<1> QED
  BY <1>2, <1>3

LEMMA CoveredKeeps ==
    ASSUME Shaped, Kept, Named, NEW r \in Requests, Acts(r), NEW f \in Refs, f[1] # "sessions",
           NEW id \in DOMAIN db'[f[1]], NEW v, v # None, db'[f[1]][id][f[2]] = v, Covered(f, id, v)
    PROVE  Covered(f, id, v)'
<1>1. CASE <<f[1], id>> \in late
  <2>1. Lasts
    BY ActsTurn DEF Kept
  <2>2. <<f[1], id>> \in late'
    BY <2>1, <1>1 DEF Lasts
  <2> QED
    BY <2>2 DEF Covered
<1>2. ASSUME NEW q \in Requests, Firm(q), Pending(q, f, v)
      PROVE  Covered(f, id, v)'
  <2>1. ~Hits(r, f, v)
    BY HitsAll
  <2>2. (Firm(q) /\ Pending(q, f, v))'
    BY <1>2, <2>1, PendingMoves
  <2> QED
    BY <2>2 DEF Covered
<1> QED
  BY <1>1, <1>2 DEF Covered

\* A name that is written is marked unless it names what is there to stay.
LEMMA NewValue ==
    ASSUME Shaped, Kept, NEW r \in Requests, Acts(r), NEW f \in Refs, f[1] # "sessions",
           NEW id \in DOMAIN db'[f[1]], NEW v, v # None, db'[f[1]][id][f[2]] = v,
           ~(id \in DOMAIN db[f[1]] /\ db[f[1]][id][f[2]] = v)
    PROVE  /\ v \notin DOMAIN db[f[3]] \/ <<f[3], v>> \in Dying(r) => <<f[1], id>> \in late'
           /\ th[r].kills = {}
           /\ DOMAIN db[f[3]] \subseteq DOMAIN db'[f[3]]
<1> DEFINE c == Now(r)
<1>0. f[1] \in Tables /\ f[3] \in Tables /\ f[2] # "rank" /\ f[1] # "lan" /\ DOMAIN db = Tables
  BY RefsAre DEF Kept
<1>1. th[r].kills # {} => c.op \in Checks \cup {"await", "listed", "null", "del", "dellisted"}
  BY KillersDo
<1>2. CASE Added(r)
  <2>1. c.tab = f[1] /\ Inserted(r) = id /\ db'[f[1]][id] = Ranked(c)
    BY <1>2, <1>0 DEF Added, Others
  <2>2. v \notin DOMAIN db[f[3]] \/ <<f[3], v>> \in Dying(r) => Belated(r, c.tab, Ranked(c))
    BY <2>1 DEF Belated, Is
  <2>3. Belated(r, c.tab, Ranked(c)) => <<f[1], id>> \in late'
    BY <2>1, <1>2 DEF Added
  <2>4. c.op \in Inserts
    BY <1>2 DEF Added
  <2>5. th[r].kills = {}
    BY <2>4, <1>1 DEF Inserts, Checks
  <2>6. DOMAIN db[f[3]] \subseteq DOMAIN db'[f[3]]
    BY <1>2, <1>0 DEF Added, Others
  <2> QED
    BY <2>2, <2>3, <2>5, <2>6
<1>3. CASE Rewritten(r)
  <2> DEFINE row == [db[c.tab][c.id] EXCEPT ![Column(c)] = Value(c)]
  <2>1. c.tab = f[1] /\ c.id = id /\ id \in DOMAIN db[f[1]] /\ db'[f[1]][id] = row
    BY <1>3, <1>0 DEF Rewritten, Others
  <2>2. f[2] \in DOMAIN db[f[1]][id]
    BY <2>1, <1>0 DEF Kept, HasColumns
  <2>3. Column(c) = f[2]
    BY <2>1, <2>2, <1>3, RewrittenRow
  <2>4. c.op = "set" /\ c.col = f[2]
    BY <2>3, <1>0, <1>3 DEF Column, Rewritten
  <2> HIDE DEF row
  <2>5. v \notin DOMAIN db[f[3]] \/ <<f[3], v>> \in Dying(r) => Belated(r, c.tab, row)
    BY <2>1 DEF Belated, Is
  <2>6. c.op = "set" /\ (\E g \in Refs : g[1] = c.tab /\ g[2] = c.col) /\ Belated(r, c.tab, row)
           => <<c.tab, c.id>> \in late'
    BY <1>3 DEF Rewritten, row
  <2>7. Belated(r, c.tab, row) => <<f[1], id>> \in late'
    BY <2>1, <2>4, <2>6
  <2>8. th[r].kills = {}
    BY <2>4, <1>1 DEF Checks
  <2>9. DOMAIN db[f[3]] \subseteq DOMAIN db'[f[3]]
    BY <1>3, <1>0 DEF Rewritten, Others
  <2> QED
    BY <2>5, <2>7, <2>8, <2>9
<1>4. CASE Nulled(r)
  <2>1. CASE c.tab # f[1]
    BY <1>0, <1>4, <2>1 DEF Nulled, Others
  <2>2. CASE c.tab = f[1]
    <3>1. id \in DOMAIN db[f[1]] /\ f[2] \in DOMAIN db[f[1]][id]
      BY <1>0, <1>4, <2>2 DEF Nulled, Kept, HasColumns
    <3>2. db'[f[1]][id] = IF db[f[1]][id][c.col] = c.val THEN [db[f[1]][id] EXCEPT ![c.col] = None]
                          ELSE db[f[1]][id]
      BY <3>1, <1>4, <2>2 DEF Nulled
    <3> QED
      BY <3>1, <3>2
  <2> QED
    BY <2>1, <2>2
<1>5. CASE Marked(r)
  BY <1>0, <1>5 DEF Marked, Others
<1>6. CASE Deleted(r)
  BY <1>0, <1>6, DeletedRows
<1>7. CASE Quiet(r)
  BY <1>7 DEF Quiet
<1> QED
  BY <1>2, <1>3, <1>4, <1>5, <1>6, <1>7 DEF Acts, Checked, Looked, Resumed, Skipped, Failed

\* The rest of a list clears what the list did, unless its first statement did it.
LEMMA ShiftClearing ==
    ASSUME NEW l, NEW k, NEW P, NEW Q, NEW f, NEW v, Len(l) \in Nat, DOMAIN l = 1 .. Len(l),
           DOMAIN k = 1 .. Len(l) - 1, \A i \in DOMAIN k : k[i] = l[i + 1],
           Clearing(l, P, f, v), ~(Clears(l[1], f, v) /\ (l[1].op = "dellisted" => v \in P)),
           IF l[1].op = "listed" THEN v \in Q ELSE Q = P
    PROVE  Clearing(k, Q, f, v)
<1>1. PICK i \in DOMAIN l : /\ Clears(l[i], f, v)
                            /\ l[i].op = "dellisted" =>
                                   v \in P \/ \E j \in DOMAIN l : j < i /\ l[j].op = "listed"
  BY DEF Clearing
<1>2. i # 1
  BY <1>1
<1>3. i - 1 \in DOMAIN k /\ k[i - 1] = l[i]
  BY <1>1, <1>2
<1>4. ASSUME l[i].op = "dellisted"
      PROVE  v \in Q \/ \E j \in DOMAIN k : j < i - 1 /\ k[j].op = "listed"
  <2>1. CASE l[1].op = "listed"
    BY <2>1
  <2>2. ASSUME NEW j \in DOMAIN l, j < i, l[j].op = "listed", l[1].op # "listed"
        PROVE  \E h \in DOMAIN k : h < i - 1 /\ k[h].op = "listed"
    <3>1. j - 1 \in DOMAIN k /\ k[j - 1] = l[j] /\ j - 1 < i - 1
      BY <2>2, <1>1
    <3> QED
      BY <3>1, <2>2
  <2> QED
    BY <2>1, <2>2, <1>1, <1>4
<1> QED
  BY <1>1, <1>3, <1>4 DEF Clearing

\* A row goes only by a delete of its table, which was announced.
LEMMA OnlyDeleted ==
    ASSUME Kept, NEW r, Acts(r), NEW t \in Tables, t # "sessions", NEW x \in DOMAIN db[t],
           x \notin DOMAIN db'[t]
    PROVE  Deleted(r) /\ Now(r).tab = t /\ x \in Gone(r)
<1>1. CASE Added(r)
  BY <1>1 DEF Added, Others
<1>2. CASE Rewritten(r)
  BY <1>2 DEF Rewritten, Others
<1>3. CASE Nulled(r)
  BY <1>3 DEF Nulled, Others
<1>4. CASE Marked(r)
  BY <1>4 DEF Marked, Others
<1>5. CASE Deleted(r)
  BY <1>5 DEF Deleted
<1>6. CASE Quiet(r)
  BY <1>6 DEF Quiet
<1> QED
  BY <1>1, <1>2, <1>3, <1>4, <1>5, <1>6
     DEF Acts, Checked, Looked, Resumed, Skipped, Failed

\* The motors of a hub are the rows that name it.
LEMMA MotorsOf ==
    ASSUME RegistryAssumption, Wired, NEW h \in DOMAIN Motors, NEW k \in DOMAIN db.coverings
    PROVE  db.coverings[k].hub = h <=> \E i \in DOMAIN Motors[h] : Motors[h][i] = k
<1>1. PICK g \in DOMAIN Motors : \E i \in DOMAIN Motors[g] :
          Motors[g][i] = k /\ db.coverings[k].hub = g
  BY DEF Wired
<1>2. ASSUME NEW i \in DOMAIN Motors[g], NEW j \in DOMAIN Motors[h], Motors[g][i] = Motors[h][j]
      PROVE  g = h
  BY <1>2 DEF RegistryAssumption
<1> QED
  BY <1>1, <1>2

LEMMA GoneAnnounced ==
    ASSUME RegistryAssumption, Shaped, Kept, Wired, Announced, NEW r \in Requests, Acts(r),
           NEW t \in Targets, t \in Tables, t \notin {"sessions", "schedules"},
           NEW v \in DOMAIN db[t], v \notin DOMAIN db'[t]
    PROVE  /\ Deleted(r) /\ Now(r).op = "del" /\ Now(r).tab = t /\ v \in Gone(r)
           /\ <<t, v>> \in th[r].kills /\ th[r].begun
           /\ \A j \in DOMAIN L(r) : j > 1 => L(r)[j].op \notin Checks \cup {"listed"}
<1>1. Deleted(r) /\ Now(r).tab = t /\ v \in Gone(r)
  BY OnlyDeleted
<1>2. Running(r) /\ LawfulStatement(r, Now(r)) /\ 1 \in DOMAIN L(r) /\ Now(r) = L(r)[1]
      /\ DOMAIN L(r) = 1 .. Len(L(r)) /\ Len(L(r)) \in Nat
  <2>1. Running(r)
    BY ActsTurn DEF Kept
  <2> QED
    BY <2>1, NowIs
<1>3. Now(r).op = "del"
  BY <1>1, <1>2 DEF Deleted, LawfulStatement
<1>4. v \in Matching(t, Now(r).col, Now(r).val)
  BY <1>1, <1>3 DEF Gone
<1>5. LawfulKills(L(r), th[r].kills)
  BY DEF Shaped, Lawful
<1>6. /\ \/ Now(r).col = "id" /\ <<t, Now(r).val>> \in th[r].kills
         \/ /\ t = "coverings" /\ Now(r).col = "hub" /\ Now(r).val \in DOMAIN Motors
            /\ \A j \in DOMAIN Motors[Now(r).val] :
                   <<"coverings", Motors[Now(r).val][j]>> \in th[r].kills
      /\ \A j \in DOMAIN L(r) : j > 1 => L(r)[j].op \notin Checks \cup {"listed"}
  BY <1>1, <1>2, <1>3, <1>5, ZenonT(60) DEF LawfulKills
<1>7. <<t, v>> \in th[r].kills
  <2>1. CASE Now(r).col = "id" /\ <<t, Now(r).val>> \in th[r].kills
    BY <2>1, <1>4 DEF Matching
  <2>2. CASE /\ t = "coverings" /\ Now(r).col = "hub" /\ Now(r).val \in DOMAIN Motors
             /\ \A j \in DOMAIN Motors[Now(r).val] :
                    <<"coverings", Motors[Now(r).val][j]>> \in th[r].kills
    <3>1. db.coverings[v].hub = Now(r).val
      BY <2>2, <1>4 DEF Matching
    <3>2. PICK j \in DOMAIN Motors[Now(r).val] : Motors[Now(r).val][j] = v
      BY <2>2, <3>1, MotorsOf
    <3> QED
      BY <2>2, <3>2
  <2> QED
    BY <1>6, <2>1, <2>2
<1>8. th[r].begun
  <2>1. ASSUME ~th[r].begun
        PROVE  FALSE
    <3>1. L(r)[1].op \in {"auth", "need"}
      BY <2>1, <1>7 DEF Announced, LawfulStart
    <3> QED
      BY <3>1, <1>2, <1>3
  <2> QED
    BY <2>1 DEF Shaped
<1> QED
  BY <1>1, <1>3, <1>6, <1>7, <1>8

LEMMA NewNames ==
    ASSUME Shaped, Kept, NEW r \in Requests, Acts(r), NEW f \in Refs, f[1] # "sessions",
           NEW id \in DOMAIN db'[f[1]], NEW v, v # None, db'[f[1]][id][f[2]] = v,
           ~(id \in DOMAIN db[f[1]] /\ db[f[1]][id][f[2]] = v), v \notin DOMAIN db'[f[3]]
    PROVE  <<f[1], id>> \in late'
BY NewValue

LEMMA OldValue ==
    ASSUME Shaped, Kept, NEW r \in Requests, Acts(r), NEW f \in Refs, f[1] # "sessions",
           NEW id \in DOMAIN db'[f[1]], NEW v, v # None, db'[f[1]][id][f[2]] = v,
           th[r].kills # {}
    PROVE  id \in DOMAIN db[f[1]] /\ db[f[1]][id][f[2]] = v
BY NewValue

LEMMA NotHit ==
    ASSUME Kept, Named, NEW r, Acts(r), NEW f \in Refs, f[1] # "sessions", NEW id, NEW v, v # None,
           id \in DOMAIN db'[f[1]], db'[f[1]][id][f[2]] = v
    PROVE  ~Hits(r, f, v)
BY HitsAll

ClearedA(f, id, v) == v \notin DOMAIN db[f[3]] => Covered(f, id, v)
ClearedB(f, id, v) ==
    \A q \in Requests :
        Running(q) /\ th[q].begun /\ <<f[3], v>> \in th[q].kills /\ ~Spares(q, f) =>
            Covered(f, id, v) \/ Pending(q, f, v)

LEMMA ClearedIs ==
    ASSUME Cleared, NEW f \in Refs, f[1] # "sessions", NEW id \in DOMAIN db[f[1]],
           db[f[1]][id][f[2]] # None
    PROVE  ClearedA(f, id, db[f[1]][id][f[2]]) /\ ClearedB(f, id, db[f[1]][id][f[2]])
BY DEF Cleared, ClearedA, ClearedB

\* What named a row that goes now is about to be cleared by the request that deletes it.
LEMMA GoneCovered ==
    ASSUME RegistryAssumption, Shaped, Kept, Named, Wired, Announced, Cleared,
           NEW r \in Requests, Acts(r), NEW f \in Refs, f[1] # "sessions",
           NEW id \in DOMAIN db[f[1]], id \in DOMAIN db'[f[1]],
           NEW v, v # None, db[f[1]][id][f[2]] = v, db'[f[1]][id][f[2]] = v,
           v \in DOMAIN db[f[3]], v \notin DOMAIN db'[f[3]]
    PROVE  Covered(f, id, v)'
<1>0. f[1] \in Tables /\ f[3] \in Targets /\ f[3] \in Tables /\ f[3] \notin {"sessions", "schedules"}
      /\ f[1] # f[3] /\ (f[1] = "tasks" /\ f[2] = "assignee" => f[3] = "users")
  BY RefsAre
<1>1. /\ Deleted(r) /\ Now(r).op = "del" /\ Now(r).tab = f[3] /\ v \in Gone(r)
      /\ <<f[3], v>> \in th[r].kills /\ th[r].begun
      /\ \A j \in DOMAIN L(r) : j > 1 => L(r)[j].op \notin Checks \cup {"listed"}
  BY <1>0, GoneAnnounced
<1>2. Turn(r)
  BY ActsTurn DEF Kept
<1>3. Running(r) /\ Same(r) /\ Now(r) = L(r)[1] /\ DOMAIN L(r) = 1 .. Len(L(r)) /\ Len(L(r)) \in Nat
  BY <1>2, Leftover
<1>4. Onward(r) /\ th'[r].pick = th[r].pick
  BY <1>1 DEF Deleted, Loud, Recollects
<1>5. DOMAIN L(r)' = 1 .. Len(L(r)) - 1 /\ \A i \in DOMAIN L(r)' : L(r)'[i] = L(r)[i + 1]
  BY <1>2, <1>4, Leftover
<1>6. CASE Spares(r, f)
  <2>1. id \in DOMAIN db.tasks /\ db.tasks[id].assignee \in Gone(r) /\ f[1] = "tasks"
    BY <1>1, <1>6 DEF Spares
  <2>2. <<"tasks", id>> \in late'
    BY <1>0, <1>1, <1>6, <2>1 DEF Deleted, Spares
  <2> QED
    BY <2>1, <2>2 DEF Covered
<1>7. CASE ~Spares(r, f)
  <2>0. ClearedB(f, id, v)
    BY ClearedIs
  <2>1. Covered(f, id, v) \/ Pending(r, f, v)
    BY <2>0, <1>1, <1>3, <1>7 DEF ClearedB
  <2>2. CASE Covered(f, id, v)
    BY <2>2, CoveredKeeps
  <2>3. CASE Pending(r, f, v)
    <3>1. Clearing(L(r), th[r].pick, f, v)
      BY <2>3 DEF Pending
    <3>2. ~Clears(L(r)[1], f, v)
      BY <1>0, <1>1, <1>3 DEF Clears
    <3>3. Clearing(L(r)', th'[r].pick, f, v)
      BY <1>1, <1>3, <1>4, <1>5, <3>1, <3>2, ShiftClearing
    <3>4. \A j \in DOMAIN L(r)' : L(r)'[j].op \notin Checks \cup {"listed"}
      <4> SUFFICES ASSUME NEW j \in DOMAIN L(r)'
                   PROVE  L(r)'[j].op \notin Checks \cup {"listed"}
        OBVIOUS
      <4>1. j + 1 \in DOMAIN L(r) /\ L(r)'[j] = L(r)[j + 1] /\ j + 1 > 1
        BY <1>3, <1>5
      <4> QED
        BY <4>1, <1>1
    <3>5. Pending(r, f, v)'
      BY <1>1, <1>3, <3>3 DEF Pending, Same
    <3>6. Firm(r)'
      BY <1>3, <3>4 DEF Firm, Same
    <3> QED
      BY <3>5, <3>6 DEF Covered
  <2> QED
    BY <2>1, <2>2, <2>3
<1> QED
  BY <1>6, <1>7

LEMMA ClearedANext ==
    ASSUME RegistryAssumption, Shaped, Kept, Named, Wired, Announced, Cleared,
           NEW r \in Requests, Acts(r), NEW f \in Refs, f[1] # "sessions",
           NEW id \in DOMAIN db'[f[1]], NEW v, v # None, db'[f[1]][id][f[2]] = v
    PROVE  ClearedA(f, id, v)'
<1> SUFFICES ASSUME v \notin DOMAIN db'[f[3]]
             PROVE  Covered(f, id, v)'
  BY DEF ClearedA
<1>1. CASE id \in DOMAIN db[f[1]] /\ db[f[1]][id][f[2]] = v
  <2>1. CASE v \in DOMAIN db[f[3]]
    BY <1>1, <2>1, GoneCovered
  <2>2. CASE v \notin DOMAIN db[f[3]]
    <3>0. ClearedA(f, id, v)
      BY <1>1, ClearedIs
    <3>1. Covered(f, id, v)
      BY <3>0, <2>2 DEF ClearedA
    <3> QED
      BY <3>1, CoveredKeeps
  <2> QED
    BY <2>1, <2>2
<1>2. CASE ~(id \in DOMAIN db[f[1]] /\ db[f[1]][id][f[2]] = v)
  <2>1. <<f[1], id>> \in late'
    BY <1>2, NewNames
  <2> QED
    BY <2>1 DEF Covered
<1> QED
  BY <1>1, <1>2

\* A request that goes on keeps what it has to clear ahead of it.
LEMMA MoverPends ==
    ASSUME RegistryAssumption, Shaped, Kept, Named, Wired, Announced, Cleared,
           NEW r \in Requests, Acts(r), NEW f \in Refs, f[1] # "sessions",
           NEW id \in DOMAIN db[f[1]], id \in DOMAIN db'[f[1]], NEW v, v # None,
           db[f[1]][id][f[2]] = v, db'[f[1]][id][f[2]] = v,
           L(r)' # <<>>, <<f[3], v>> \in th[r].kills, Clearing(L(r), th[r].pick, f, v)
    PROVE  Covered(f, id, v)' \/ Pending(r, f, v)'
<1>0. f[1] = "schedules" /\ f[2] = "covering" => f[3] = "coverings"
  BY RefsAre
<1>1. Turn(r)
  BY ActsTurn DEF Kept
<1>2. Running(r) /\ Same(r) /\ Now(r) = L(r)[1] /\ DOMAIN L(r) = 1 .. Len(L(r))
      /\ Len(L(r)) \in Nat /\ 1 \in DOMAIN L(r)
  BY <1>1, Leftover
<1>3. Onward(r)
  BY <1>1 DEF Turn, Dropped, L
<1>4. DOMAIN L(r)' = 1 .. Len(L(r)) - 1 /\ \A i \in DOMAIN L(r)' : L(r)'[i] = L(r)[i + 1]
  BY <1>1, <1>3, Leftover
<1>5. Now(r).op # "listed" => th'[r].pick = th[r].pick
  BY KillersDo
<1>6. ~(Clears(L(r)[1], f, v) /\ (L(r)[1].op = "dellisted" => v \in th[r].pick))
  <2>1. ~Hits(r, f, v)
    BY NotHit
  <2> QED
    BY <2>1, <1>2 DEF Hits
<1>7. CASE Now(r).op # "listed"
  <2>1. Clearing(L(r)', th'[r].pick, f, v)
    BY <1>2, <1>4, <1>5, <1>6, <1>7, ShiftClearing
  <2> QED
    BY <1>2, <2>1 DEF Pending, Same
<1>8. CASE Now(r).op = "listed" /\ v \notin DOMAIN db[f[3]]
  <2>0. ClearedA(f, id, v)
    BY ClearedIs
  <2>1. Covered(f, id, v)
    BY <2>0, <1>8 DEF ClearedA
  <2> QED
    BY <2>1, CoveredKeeps
<1>9. CASE Now(r).op = "listed" /\ v \in DOMAIN db[f[3]]
  <2>1. PICK i \in DOMAIN L(r) : Clears(L(r)[i], f, v)
    BY DEF Clearing
  <2>2. CASE L(r)[i].op = "dellisted"
    <3>1. f[1] = "schedules" /\ f[2] = "covering" /\ L(r)[i].val = v
      BY <2>1, <2>2 DEF Clears, Shaped, Lawful, LawfulStatement
    <3>2. /\ Now(r).tab = "coverings" /\ Now(r).col = "hub" /\ Now(r).val \in DOMAIN Motors
          /\ \E k \in DOMAIN Motors[Now(r).val] : v = Motors[Now(r).val][k]
      BY <1>2, <1>9, <2>2, <3>1 DEF Shaped, Lawful, LawfulKills
    <3>3. db.coverings[v].hub = Now(r).val
      BY <1>0, <1>9, <3>1, <3>2, MotorsOf
    <3>4. v \in Matching("coverings", "hub", Now(r).val)
      BY <1>0, <1>9, <3>1, <3>3 DEF Matching
    <3>5. v \in th'[r].pick
      BY <1>9, <3>2, <3>4, ActsByOp DEF Looked, Picked
    <3>6. Clearing(L(r)', th'[r].pick, f, v)
      BY <1>2, <1>4, <1>6, <1>9, <3>5, ShiftClearing
    <3> QED
      BY <1>2, <3>6 DEF Pending, Same
  <2>3. CASE L(r)[i].op # "dellisted"
    <3>1. i # 1
      BY <1>2, <1>9, <2>1 DEF Clears
    <3>2. i - 1 \in DOMAIN L(r)' /\ L(r)'[i - 1] = L(r)[i]
      BY <1>2, <1>4, <2>1, <3>1
    <3>3. Clearing(L(r)', th'[r].pick, f, v)
      BY <2>1, <2>3, <3>2 DEF Clearing
    <3> QED
      BY <1>2, <3>3 DEF Pending, Same
  <2> QED
    BY <2>2, <2>3
<1> QED
  BY <1>7, <1>8, <1>9

\* A request that begins has all it will clear ahead of it.
LEMMA BeginnerPends ==
    ASSUME Shaped, Kept, Announced, NEW r \in Requests, Acts(r), ~th[r].begun,
           NEW f \in Refs, f[1] # "sessions", NEW v, <<f[3], v>> \in th[r].kills,
           L(r)' # <<>>, ~Spares(r, f)'
    PROVE  Clearing(L(r), th[r].pick, f, v)
<1>1. /\ th[r].me = None /\ th[r].pick = {}
      /\ LawfulStart(L(r), th[r].async, th[r].on, th[r].kills)
  BY DEF Announced
<1>2. L(r)[1].op \in {"auth", "need"}
  BY <1>1 DEF LawfulStart
<1>3. Clearing(L(r), {}, f, v) \/ (f[1] = "tasks" /\ f[2] = "assignee" /\ NoAuth(L(r)))
  <2>1. v \in {k[2] : k \in th[r].kills}
    OBVIOUS
  <2> QED
    BY <1>1, <2>1 DEF LawfulStart
<1>4. ASSUME f[1] = "tasks", f[2] = "assignee", NoAuth(L(r))
      PROVE  FALSE
  <2>1. Turn(r)
    BY ActsTurn DEF Kept
  <2>2. Now(r) = L(r)[1] /\ 1 \in DOMAIN L(r)
    BY <2>1, Leftover
  <2>3. Now(r).op = "need"
    BY <1>2, <1>4, <2>2 DEF NoAuth
  <2>4. Checked(r)
    BY <2>3, ActsByOp DEF Checks
  <2>5. th'[r].me = None
    BY <1>1, <2>3, <2>4 DEF Checked, Dropped
  <2>6. \A i \in DOMAIN L(r)' : i + 1 \in DOMAIN L(r) /\ L(r)'[i] = L(r)[i + 1]
    BY <2>1, Leftover
  <2>7. NoAuth(L(r))'
    BY <1>4, <2>6 DEF NoAuth
  <2> QED
    BY <1>4, <2>5, <2>7 DEF Spares
<1> QED
  BY <1>1, <1>3, <1>4

LEMMA SparesStays ==
    ASSUME Shaped, Kept, NEW r \in Requests, Acts(r), th[r].begun, NEW f \in Refs, Spares(r, f)
    PROVE  Spares(r, f)'
<1>1. Turn(r)
  BY ActsTurn DEF Kept
<1>2. Now(r) = L(r)[1] /\ 1 \in DOMAIN L(r)
  BY <1>1, Leftover
<1>3. Now(r).op # "auth"
  BY <1>2 DEF Spares, NoAuth
<1>4. th'[r].me = th[r].me
  <2>1. Recalls(r) \/ Checked(r)
    BY ActsTurn DEF Kept
  <2> QED
    BY <1>3, <2>1 DEF Recalls, Checked, Dropped
<1>5. \A i \in DOMAIN L(r)' : i + 1 \in DOMAIN L(r) /\ L(r)'[i] = L(r)[i + 1]
  BY <1>1, Leftover
<1>6. NoAuth(L(r))'
  BY <1>5 DEF Spares, NoAuth
<1> QED
  BY <1>4, <1>6 DEF Spares

LEMMA OthersPend ==
    ASSUME Shaped, Kept, Named, Cleared,
           NEW r \in Requests, Acts(r), NEW q \in Requests, q # r, NEW f \in Refs, f[1] # "sessions",
           NEW id \in DOMAIN db'[f[1]], NEW v, v # None, db'[f[1]][id][f[2]] = v,
           Running(q)', th'[q].begun, <<f[3], v>> \in th'[q].kills, ~Spares(q, f)'
    PROVE  Covered(f, id, v)' \/ Pending(q, f, v)'
<1>1. Turn(r)
  BY ActsTurn DEF Kept
<1>2. /\ L(q)' = L(q) /\ th'[q].pick = th[q].pick /\ th'[q].begun = th[q].begun
      /\ th'[q].kills = th[q].kills /\ th'[q].me = th[q].me
  BY <1>1 DEF Turn, Unmoved, L
<1>3. Running(q) /\ th[q].begun /\ <<f[3], v>> \in th[q].kills /\ ~Spares(q, f)
  BY <1>2 DEF Running, L, Spares
<1>4. CASE id \in DOMAIN db[f[1]] /\ db[f[1]][id][f[2]] = v
  <2>1. ClearedB(f, id, v)
    BY <1>4, ClearedIs
  <2>2. Covered(f, id, v) \/ Pending(q, f, v)
    BY <1>3, <2>1 DEF ClearedB
  <2>3. CASE Covered(f, id, v)
    BY <2>3, CoveredKeeps
  <2>4. CASE Pending(q, f, v)
    BY <1>2, <2>4 DEF Pending
  <2> QED
    BY <2>2, <2>3, <2>4
<1>5. CASE ~(id \in DOMAIN db[f[1]] /\ db[f[1]][id][f[2]] = v)
  <2>1. <<f[3], v>> \in Dying(r)
    BY <1>3 DEF Dying
  <2>2. <<f[1], id>> \in late'
    BY <1>5, <2>1, NewValue
  <2> QED
    BY <2>2 DEF Covered
<1> QED
  BY <1>4, <1>5

LEMMA MoverStays ==
    ASSUME RegistryAssumption, Shaped, Kept, Named, Wired, Announced, Cleared,
           NEW r \in Requests, Acts(r), NEW f \in Refs, f[1] # "sessions",
           NEW id \in DOMAIN db'[f[1]], NEW v, v # None, db'[f[1]][id][f[2]] = v,
           Running(r)', <<f[3], v>> \in th'[r].kills, ~Spares(r, f)'
    PROVE  Covered(f, id, v)' \/ Pending(r, f, v)'
<1>1. Turn(r)
  BY ActsTurn DEF Kept
<1>2. Running(r) /\ Same(r)
  BY <1>1, Leftover
<1>3. <<f[3], v>> \in th[r].kills /\ L(r)' # <<>>
  BY <1>2 DEF Same, Running, L
<1>4. id \in DOMAIN db[f[1]] /\ db[f[1]][id][f[2]] = v
  <2>1. th[r].kills # {}
    BY <1>3
  <2> QED
    BY <2>1, OldValue
<1>5. CASE th[r].begun
  <2>1. ~Spares(r, f)
    BY <1>5, SparesStays
  <2>2. ClearedB(f, id, v)
    BY <1>4, ClearedIs
  <2>3. Covered(f, id, v) \/ Pending(r, f, v)
    BY <1>2, <1>3, <1>5, <2>1, <2>2 DEF ClearedB
  <2>4. CASE Covered(f, id, v)
    BY <2>4, CoveredKeeps
  <2>5. CASE Pending(r, f, v)
    <3>1. Clearing(L(r), th[r].pick, f, v)
      BY <2>5 DEF Pending
    <3> QED
      BY <1>3, <1>4, <3>1, MoverPends
  <2> QED
    BY <2>3, <2>4, <2>5
<1>6. CASE ~th[r].begun
  <2>1. Clearing(L(r), th[r].pick, f, v)
    BY <1>3, <1>6, BeginnerPends
  <2> QED
    BY <1>3, <1>4, <2>1, MoverPends
<1> QED
  BY <1>5, <1>6

LEMMA ClearedNext ==
    ASSUME RegistryAssumption, Shaped, Kept, Named, Wired, Announced, Cleared,
           NEW r \in Requests, Acts(r)
    PROVE  Cleared'
<1> SUFFICES ASSUME NEW f \in Refs, f[1] # "sessions", NEW id \in DOMAIN db'[f[1]],
                    NEW v, v = db'[f[1]][id][f[2]], v # None
             PROVE  (ClearedA(f, id, v) /\ ClearedB(f, id, v))'
  BY DEF Cleared, ClearedA, ClearedB
<1>1. ClearedA(f, id, v)'
  BY ClearedANext
<1>2. ASSUME NEW q \in Requests, Running(q)', th'[q].begun, <<f[3], v>> \in th'[q].kills,
             ~Spares(q, f)'
      PROVE  Covered(f, id, v)' \/ Pending(q, f, v)'
  <2>1. CASE q = r
    BY <1>2, <2>1, MoverStays
  <2>2. CASE q # r
    BY <1>2, <2>2, OthersPend
  <2> QED
    BY <2>1, <2>2
<1>3. ClearedB(f, id, v)'
  BY <1>2 DEF ClearedB
<1> QED
  BY <1>1, <1>3

LEMMA ClearedCrash ==
    ASSUME Shaped, Cleared, Crashed
    PROVE  Cleared'
<1> SUFFICES ASSUME NEW f \in Refs, f[1] # "sessions", NEW id \in DOMAIN db'[f[1]],
                    NEW v, v = db'[f[1]][id][f[2]], v # None
             PROVE  (ClearedA(f, id, v) /\ ClearedB(f, id, v))'
  BY DEF Cleared, ClearedA, ClearedB
<1>1. db' = db /\ late \subseteq late'
  BY DEF Crashed
<1>2. ClearedA(f, id, v)
  BY <1>1, ClearedIs
<1>3. ASSUME NEW q \in Requests, Firm(q), Pending(q, f, v)
      PROVE  <<f[1], id>> \in late'
  <2>1. Running(q)
    BY <1>3, EmptyListing DEF Pending, Clearing, Running, L
  <2>2. q \in Lost /\ <<f[3], v>> \in th[q].kills
    BY <1>3, <2>1 DEF Firm, Pending, Lost
  <2> QED
    BY <2>2, <1>1 DEF Crashed
<1>4. ClearedA(f, id, v)'
  BY <1>1, <1>2, <1>3 DEF ClearedA, Covered
<1>5. ASSUME NEW q \in Requests, Running(q)', th'[q].begun
      PROVE  FALSE
  <2>1. CASE q \in Lost
    <3>1. th'[q] = [th[q] EXCEPT !.todo = <<>>] /\ DOMAIN th[q] = Fields
      BY <2>1 DEF Crashed, Shaped
    <3> QED
      BY <3>1, <1>5 DEF Running, Fields
  <2>2. CASE q \notin Lost
    <3>1. th'[q] = th[q]
      BY <2>2 DEF Crashed
    <3> QED
      BY <3>1, <2>2, <1>5 DEF Lost, Running
  <2> QED
    BY <2>1, <2>2
<1>6. ClearedB(f, id, v)'
  BY <1>5 DEF ClearedB
<1> QED
  BY <1>4, <1>6

-----------------------------------------------------------------------------
(* Each handler obeys the laws.                                            *)

GoodList(r, l, async, on, kills) ==
    Lawful(r, l, async, on, kills) /\ LawfulStart(l, async, on, kills)
Good(r, p) == p.async \in BOOLEAN /\ GoodList(r, p.todo, p.async, p.on, p.kills)

\* A statement none of the laws of a whole list is about.
Plain(r, c) ==
    /\ LawfulStatement(r, c)
    /\ c.op # "putnew" /\ (c.op = "putpicked" => c.tab \in {"lists", "calendars"})
    /\ ~Demotes(c) /\ ~Fires(c) /\ ~(c.op = "del" /\ c.tab \in Targets)
    /\ ~(c.op = "set" /\ c.tab = "users" /\ c.col = "pw" /\ c.val # "given")
Easy(r, c) == Plain(r, c) /\ c.op \notin {"put", "putpicked"}

LEMMA Programs ==
    ASSUME NEW r, NEW l
    PROVE  /\ GoodList(r, l, TRUE, None, {}) => Good(r, Async(l))
           /\ GoodList(r, l, FALSE, None, {}) => Good(r, Sync(l))
           /\ \A u : GoodList(r, l, TRUE, u, {}) => Good(r, On(u, Async(l)))
           /\ \A u : GoodList(r, l, FALSE, u, {}) => Good(r, On(u, Sync(l)))
           /\ \A k : GoodList(r, l, FALSE, None, k) => Good(r, Kills(k, Sync(l)))
           /\ \A u, k : GoodList(r, l, FALSE, u, k) => Good(r, Kills(k, On(u, Sync(l))))
<1>1. GoodList(r, l, TRUE, None, {}) => Good(r, Async(l))
  BY DEF Good, Async
<1>2. GoodList(r, l, FALSE, None, {}) => Good(r, Sync(l))
  BY DEF Good, Sync
<1>3. ASSUME NEW u, GoodList(r, l, TRUE, u, {})
      PROVE  Good(r, On(u, Async(l)))
  BY <1>3 DEF Good, Async, On
<1>4. ASSUME NEW u, GoodList(r, l, FALSE, u, {})
      PROVE  Good(r, On(u, Sync(l)))
  BY <1>4 DEF Good, Sync, On
<1>5. ASSUME NEW k, GoodList(r, l, FALSE, None, k)
      PROVE  Good(r, Kills(k, Sync(l)))
  BY <1>5 DEF Good, Sync, Kills
<1>6. ASSUME NEW u, NEW k, GoodList(r, l, FALSE, u, k)
      PROVE  Good(r, Kills(k, On(u, Sync(l))))
  BY <1>6 DEF Good, Sync, Kills, On
<1> QED
  BY <1>1, <1>2, <1>3, <1>4, <1>5, <1>6

LEMMA PlainList ==
    ASSUME NEW r, NEW l, Listing(l), l # <<>>, \A i \in DOMAIN l : Plain(r, l[i]),
           l[1].op # "putpicked", LawfulPuts(l), NEW async, NEW on
    PROVE  GoodList(r, l, async, on, {})
<1>1. 1 \in DOMAIN l
  BY ListOf
<1>2. LawfulPicks(l, async) /\ LawfulMotors(l, async) /\ LawfulRoles(l, async, on)
      /\ LawfulPasswords(l, on)
  BY DEF Plain, LawfulPicks, LawfulMotors, LawfulRoles, LawfulPasswords
<1>3. LawfulKills(l, {})
  BY DEF Plain, LawfulKills
<1>4. Lawful(r, l, async, on, {})
  BY <1>2, <1>3 DEF Plain, Lawful
<1>5. LawfulStart(l, async, on, {})
  BY <1>1 DEF Plain, LawfulStart
<1> QED
  BY <1>4, <1>5 DEF GoodList

LEMMA Joined ==
    ASSUME NEW s, NEW t, Listing(s), Listing(t)
    PROVE  /\ Listing(s \o t) /\ Len(s) \in Nat /\ Len(t) \in Nat
           /\ DOMAIN s = 1 .. Len(s) /\ DOMAIN t = 1 .. Len(t)
           /\ DOMAIN (s \o t) = 1 .. Len(s) + Len(t) /\ Len(s \o t) = Len(s) + Len(t)
           /\ \A i \in DOMAIN s : (s \o t)[i] = s[i]
           /\ \A i \in DOMAIN (s \o t) : i > Len(s) => i - Len(s) \in DOMAIN t
                                                      /\ (s \o t)[i] = t[i - Len(s)]
<1> DEFINE S == {s[i] : i \in DOMAIN s}
           T == {t[i] : i \in DOMAIN t}
<1>1. s \in Seq(S) /\ t \in Seq(T)
  BY DEF Listing
<1> HIDE DEF S, T
<1>2. s \in Seq(S \cup T) /\ t \in Seq(S \cup T)
  BY <1>1
<1>3. s \o t \in Seq(S \cup T)
  BY <1>2
<1>4. Listing(s \o t)
  BY <1>3, SequenceLists
<1> QED
  BY <1>2, <1>4

\* Lists written out.
LEMMA One ==
    ASSUME NEW a
    PROVE  Listing(<<a>>) /\ DOMAIN <<a>> = {1} /\ Len(<<a>>) = 1 /\ <<a>>[1] = a
<1>1. <<a>> \in Seq({a})
  OBVIOUS
<1>2. Listing(<<a>>)
  BY <1>1, SequenceLists
<1>3. Len(<<a>>) = 1 /\ DOMAIN <<a>> = 1 .. 1
  OBVIOUS
<1>4. 1 .. 1 = {1}
  OBVIOUS
<1> QED
  BY <1>2, <1>3, <1>4

LEMMA Two ==
    ASSUME NEW a, NEW b
    PROVE  LET l == <<a, b>> IN
           Listing(l) /\ DOMAIN l = {1, 2} /\ Len(l) = 2 /\ l[1] = a /\ l[2] = b
<1>1. <<a, b>> \in Seq({a, b})
  OBVIOUS
<1>2. Listing(<<a, b>>)
  BY <1>1, SequenceLists
<1>3. Len(<<a, b>>) = 2 /\ DOMAIN <<a, b>> = 1 .. 2
  OBVIOUS
<1>4. 1 .. 2 = {1, 2}
  OBVIOUS
<1> QED
  BY <1>2, <1>3, <1>4

LEMMA Three ==
    ASSUME NEW a, NEW b, NEW c
    PROVE  LET l == <<a, b, c>> IN
           Listing(l) /\ DOMAIN l = {1, 2, 3} /\ Len(l) = 3 /\ l[1] = a /\ l[2] = b /\ l[3] = c
<1>1. <<a, b, c>> \in Seq({a, b, c})
  OBVIOUS
<1>2. Listing(<<a, b, c>>)
  BY <1>1, SequenceLists
<1>3. Len(<<a, b, c>>) = 3 /\ DOMAIN <<a, b, c>> = 1 .. 3
  OBVIOUS
<1>4. 1 .. 3 = {1, 2, 3}
  OBVIOUS
<1> QED
  BY <1>2, <1>3, <1>4

LEMMA Four ==
    ASSUME NEW a, NEW b, NEW c, NEW d
    PROVE  LET l == <<a, b, c, d>> IN
           /\ Listing(l) /\ DOMAIN l = {1, 2, 3, 4} /\ Len(l) = 4
           /\ l[1] = a /\ l[2] = b /\ l[3] = c /\ l[4] = d
<1>1. <<a, b, c, d>> \in Seq({a, b, c, d})
  OBVIOUS
<1>2. Listing(<<a, b, c, d>>)
  BY <1>1, SequenceLists
<1>3. Len(<<a, b, c, d>>) = 4 /\ DOMAIN <<a, b, c, d>> = 1 .. 4
  OBVIOUS
<1>4. 1 .. 4 = {1, 2, 3, 4}
  OBVIOUS
<1> QED
  BY <1>2, <1>3, <1>4

LEMMA Five ==
    ASSUME NEW a, NEW b, NEW c, NEW d, NEW e
    PROVE  LET l == <<a, b, c, d, e>> IN
           /\ Listing(l) /\ DOMAIN l = {1, 2, 3, 4, 5} /\ Len(l) = 5
           /\ l[1] = a /\ l[2] = b /\ l[3] = c /\ l[4] = d /\ l[5] = e
<1>1. <<a, b, c, d, e>> \in Seq({a, b, c, d, e})
  OBVIOUS
<1>2. Listing(<<a, b, c, d, e>>)
  BY <1>1, SequenceLists
<1>3. Len(<<a, b, c, d, e>>) = 5 /\ DOMAIN <<a, b, c, d, e>> = 1 .. 5
  OBVIOUS
<1>4. 1 .. 5 = {1, 2, 3, 4, 5}
  OBVIOUS
<1> QED
  BY <1>2, <1>3, <1>4

LEMMA Six ==
    ASSUME NEW a, NEW b, NEW c, NEW d, NEW e, NEW f
    PROVE  LET l == <<a, b, c, d, e, f>> IN
           /\ Listing(l) /\ DOMAIN l = {1, 2, 3, 4, 5, 6} /\ Len(l) = 6
           /\ l[1] = a /\ l[2] = b /\ l[3] = c /\ l[4] = d /\ l[5] = e /\ l[6] = f
<1>1. <<a, b, c, d, e, f>> \in Seq({a, b, c, d, e, f})
  OBVIOUS
<1>2. Listing(<<a, b, c, d, e, f>>)
  BY <1>1, SequenceLists
<1>3. Len(<<a, b, c, d, e, f>>) = 6 /\ DOMAIN <<a, b, c, d, e, f>> = 1 .. 6
  OBVIOUS
<1>4. 1 .. 6 = {1, 2, 3, 4, 5, 6}
  OBVIOUS
<1> QED
  BY <1>2, <1>3, <1>4

LEMMA OneTwo ==
    ASSUME NEW a, NEW b, NEW c
    PROVE  LET l == <<a>> \o <<b, c>> IN
           /\ Listing(l) /\ DOMAIN l = {1, 2, 3} /\ Len(l) = 3
           /\ l[1] = a /\ l[2] = b /\ l[3] = c
<1> DEFINE s == <<a>>
           u == <<b, c>>
           l == s \o u
<1>1. Listing(s) /\ Len(s) = 1 /\ DOMAIN s = {1}
      /\ s[1] = a
  BY One
<1>2. Listing(u) /\ Len(u) = 2 /\ DOMAIN u = {1, 2}
      /\ u[1] = b /\ u[2] = c
  BY Two
<1> HIDE DEF s, u
<1>3. /\ Listing(l) /\ DOMAIN l = 1 .. 3 /\ Len(s \o u) = 3
      /\ \A i \in DOMAIN s : l[i] = s[i]
      /\ \A i \in DOMAIN l : i > 1 => l[i] = u[i - 1]
  <2>1. /\ Listing(l) /\ DOMAIN l = 1 .. Len(s) + Len(u) /\ Len(l) = Len(s) + Len(u)
        /\ \A i \in DOMAIN s : l[i] = s[i]
        /\ \A i \in DOMAIN l : i > Len(s) => l[i] = u[i - Len(s)]
    BY <1>1, <1>2, Joined
  <2> QED
    BY <2>1, <1>1, <1>2
<1>4. 1 .. 3 = {1, 2, 3}
  OBVIOUS
<1>5. l[2] = u[1] /\ l[3] = u[2]
  BY <1>3, <1>4
<1>6. l[1] = s[1]
  BY <1>1, <1>3
<1> QED
  BY <1>1, <1>2, <1>3, <1>4, <1>5, <1>6 DEF s, u

LEMMA TwoTwo ==
    ASSUME NEW a, NEW b, NEW c, NEW d
    PROVE  LET l == <<a, b>> \o <<c, d>> IN
           /\ Listing(l) /\ DOMAIN l = {1, 2, 3, 4} /\ Len(l) = 4
           /\ l[1] = a /\ l[2] = b /\ l[3] = c /\ l[4] = d
<1> DEFINE s == <<a, b>>
           u == <<c, d>>
           l == s \o u
<1>1. Listing(s) /\ Len(s) = 2 /\ DOMAIN s = {1, 2}
      /\ s[1] = a /\ s[2] = b
  BY Two
<1>2. Listing(u) /\ Len(u) = 2 /\ DOMAIN u = {1, 2}
      /\ u[1] = c /\ u[2] = d
  BY Two
<1> HIDE DEF s, u
<1>3. /\ Listing(l) /\ DOMAIN l = 1 .. 4 /\ Len(s \o u) = 4
      /\ \A i \in DOMAIN s : l[i] = s[i]
      /\ \A i \in DOMAIN l : i > 2 => l[i] = u[i - 2]
  <2>1. /\ Listing(l) /\ DOMAIN l = 1 .. Len(s) + Len(u) /\ Len(l) = Len(s) + Len(u)
        /\ \A i \in DOMAIN s : l[i] = s[i]
        /\ \A i \in DOMAIN l : i > Len(s) => l[i] = u[i - Len(s)]
    BY ZenonT(60), <1>1, <1>2, Joined
  <2> QED
    BY <2>1, <1>1, <1>2
<1>4. 1 .. 4 = {1, 2, 3, 4}
  OBVIOUS
<1>5. l[3] = u[1] /\ l[4] = u[2]
  BY <1>3, <1>4
<1>6. l[1] = s[1] /\ l[2] = s[2]
  BY <1>1, <1>3
<1> QED
  BY <1>1, <1>2, <1>3, <1>4, <1>5, <1>6 DEF s, u

LEMMA TwoThree ==
    ASSUME NEW a, NEW b, NEW c, NEW d, NEW e
    PROVE  LET l == <<a, b>> \o <<c, d, e>> IN
           /\ Listing(l) /\ DOMAIN l = {1, 2, 3, 4, 5} /\ Len(l) = 5
           /\ l[1] = a /\ l[2] = b /\ l[3] = c /\ l[4] = d /\ l[5] = e
<1> DEFINE s == <<a, b>>
           u == <<c, d, e>>
           l == s \o u
<1>1. Listing(s) /\ Len(s) = 2 /\ DOMAIN s = {1, 2}
      /\ s[1] = a /\ s[2] = b
  BY Two
<1>2. Listing(u) /\ Len(u) = 3 /\ DOMAIN u = {1, 2, 3}
      /\ u[1] = c /\ u[2] = d /\ u[3] = e
  BY Three
<1> HIDE DEF s, u
<1>3. /\ Listing(l) /\ DOMAIN l = 1 .. 5 /\ Len(s \o u) = 5
      /\ \A i \in DOMAIN s : l[i] = s[i]
      /\ \A i \in DOMAIN l : i > 2 => l[i] = u[i - 2]
  <2>1. /\ Listing(l) /\ DOMAIN l = 1 .. Len(s) + Len(u) /\ Len(l) = Len(s) + Len(u)
        /\ \A i \in DOMAIN s : l[i] = s[i]
        /\ \A i \in DOMAIN l : i > Len(s) => l[i] = u[i - Len(s)]
    BY <1>1, <1>2, Joined
  <2> QED
    BY <2>1, <1>1, <1>2
<1>4. 1 .. 5 = {1, 2, 3, 4, 5}
  OBVIOUS
<1>5. l[3] = u[1] /\ l[4] = u[2] /\ l[5] = u[3]
  BY <1>3, <1>4
<1>6. l[1] = s[1] /\ l[2] = s[2]
  BY <1>1, <1>3
<1> QED
  BY <1>1, <1>2, <1>3, <1>4, <1>5, <1>6 DEF s, u

LEMMA TwoFour ==
    ASSUME NEW a, NEW b, NEW c, NEW d, NEW e, NEW f
    PROVE  LET l == <<a, b>> \o <<c, d, e, f>> IN
           /\ Listing(l) /\ DOMAIN l = {1, 2, 3, 4, 5, 6} /\ Len(l) = 6
           /\ l[1] = a /\ l[2] = b /\ l[3] = c /\ l[4] = d /\ l[5] = e /\ l[6] = f
<1> DEFINE s == <<a, b>>
           u == <<c, d, e, f>>
           l == s \o u
<1>1. Listing(s) /\ Len(s) = 2 /\ DOMAIN s = {1, 2}
      /\ s[1] = a /\ s[2] = b
  BY Two
<1>2. Listing(u) /\ Len(u) = 4 /\ DOMAIN u = {1, 2, 3, 4}
      /\ u[1] = c /\ u[2] = d /\ u[3] = e /\ u[4] = f
  BY Four
<1> HIDE DEF s, u
<1>3. /\ Listing(l) /\ DOMAIN l = 1 .. 6 /\ Len(s \o u) = 6
      /\ \A i \in DOMAIN s : l[i] = s[i]
      /\ \A i \in DOMAIN l : i > 2 => l[i] = u[i - 2]
  <2>1. /\ Listing(l) /\ DOMAIN l = 1 .. Len(s) + Len(u) /\ Len(l) = Len(s) + Len(u)
        /\ \A i \in DOMAIN s : l[i] = s[i]
        /\ \A i \in DOMAIN l : i > Len(s) => l[i] = u[i - Len(s)]
    BY <1>1, <1>2, Joined
  <2> QED
    BY <2>1, <1>1, <1>2
<1>4. 1 .. 6 = {1, 2, 3, 4, 5, 6}
  OBVIOUS
<1>5. l[3] = u[1] /\ l[4] = u[2] /\ l[5] = u[3] /\ l[6] = u[4]
  BY <1>3, <1>4
<1>6. l[1] = s[1] /\ l[2] = s[2]
  BY <1>1, <1>3
<1> QED
  BY <1>1, <1>2, <1>3, <1>4, <1>5, <1>6 DEF s, u

LEMMA FourThree ==
    ASSUME NEW a, NEW b, NEW c, NEW d, NEW e, NEW f, NEW g
    PROVE  LET l == <<a, b, c, d>> \o <<e, f, g>> IN
           /\ Listing(l) /\ DOMAIN l = {1, 2, 3, 4, 5, 6, 7} /\ Len(l) = 7
           /\ l[1] = a /\ l[2] = b /\ l[3] = c /\ l[4] = d /\ l[5] = e /\ l[6] = f /\ l[7] = g
<1> DEFINE s == <<a, b, c, d>>
           u == <<e, f, g>>
           l == s \o u
<1>1. Listing(s) /\ Len(s) = 4 /\ DOMAIN s = {1, 2, 3, 4}
      /\ s[1] = a /\ s[2] = b /\ s[3] = c /\ s[4] = d
  BY Four
<1>2. Listing(u) /\ Len(u) = 3 /\ DOMAIN u = {1, 2, 3}
      /\ u[1] = e /\ u[2] = f /\ u[3] = g
  BY Three
<1> HIDE DEF s, u
<1>3. /\ Listing(l) /\ DOMAIN l = 1 .. 7 /\ Len(s \o u) = 7
      /\ \A i \in DOMAIN s : l[i] = s[i]
      /\ \A i \in DOMAIN l : i > 4 => l[i] = u[i - 4]
  <2>1. /\ Listing(l) /\ DOMAIN l = 1 .. Len(s) + Len(u) /\ Len(l) = Len(s) + Len(u)
        /\ \A i \in DOMAIN s : l[i] = s[i]
        /\ \A i \in DOMAIN l : i > Len(s) => l[i] = u[i - Len(s)]
    BY <1>1, <1>2, Joined
  <2> QED
    BY <2>1, <1>1, <1>2
<1>4. 1 .. 7 = {1, 2, 3, 4, 5, 6, 7}
  OBVIOUS
<1>5. l[5] = u[1] /\ l[6] = u[2] /\ l[7] = u[3]
  BY <1>3, <1>4
<1>6. l[1] = s[1] /\ l[2] = s[2] /\ l[3] = s[3] /\ l[4] = s[4]
  BY <1>1, <1>3
<1> QED
  BY <1>1, <1>2, <1>3, <1>4, <1>5, <1>6 DEF s, u

\* A row of its own comes last; the statements before it are plain.
LEMMA PlainOne ==
    ASSUME NEW r, NEW a, Plain(r, a), a.op # "putpicked", NEW async, NEW on
    PROVE  GoodList(r, <<a>>, async, on, {})
<1> DEFINE l == <<a>>
<1>1. Listing(l) /\ DOMAIN l = {1} /\ l[1] = a
  BY One
<1> HIDE DEF l
<1>2. l # <<>> /\ LawfulPuts(l) /\ \A i \in DOMAIN l : Plain(r, l[i])
  BY <1>1, EmptyListing DEF LawfulPuts
<1>3. GoodList(r, l, async, on, {})
  BY <1>1, <1>2, PlainList
<1> QED
  BY <1>3 DEF l

LEMMA PlainTwo ==
    ASSUME NEW r, NEW a, NEW b, Easy(r, a), Plain(r, b), NEW async, NEW on
    PROVE  GoodList(r, <<a, b>>, async, on, {})
<1> DEFINE l == <<a, b>>
<1>1. Listing(l) /\ DOMAIN l = {1, 2} /\ l[1] = a /\ l[2] = b
  BY Two
<1> HIDE DEF l
<1>2. l # <<>> /\ LawfulPuts(l) /\ \A i \in DOMAIN l : Plain(r, l[i])
  BY <1>1, EmptyListing DEF LawfulPuts, Easy
<1>3. GoodList(r, l, async, on, {})
  BY <1>1, <1>2, PlainList DEF Easy
<1> QED
  BY <1>3 DEF l

LEMMA PlainThree ==
    ASSUME NEW r, NEW a, NEW b, NEW c, Easy(r, a), Easy(r, b), Plain(r, c), NEW async, NEW on
    PROVE  GoodList(r, <<a, b, c>>, async, on, {})
<1> DEFINE l == <<a, b, c>>
<1>1. Listing(l) /\ DOMAIN l = {1, 2, 3} /\ l[1] = a /\ l[2] = b /\ l[3] = c
  BY Three
<1> HIDE DEF l
<1>2. l # <<>> /\ LawfulPuts(l) /\ \A i \in DOMAIN l : Plain(r, l[i])
  BY <1>1, EmptyListing DEF LawfulPuts, Easy
<1>3. GoodList(r, l, async, on, {})
  BY <1>1, <1>2, PlainList DEF Easy
<1> QED
  BY <1>3 DEF l

LEMMA PlainFour ==
    ASSUME NEW r, NEW a, NEW b, NEW c, NEW d, Easy(r, a), Easy(r, b), Easy(r, c), Plain(r, d),
           NEW async, NEW on
    PROVE  GoodList(r, <<a, b, c, d>>, async, on, {})
<1> DEFINE l == <<a, b, c, d>>
<1>1. Listing(l) /\ DOMAIN l = {1, 2, 3, 4} /\ l[1] = a /\ l[2] = b /\ l[3] = c /\ l[4] = d
  BY Four
<1> HIDE DEF l
<1>2. l # <<>> /\ LawfulPuts(l) /\ \A i \in DOMAIN l : Plain(r, l[i])
  BY <1>1, EmptyListing DEF LawfulPuts, Easy
<1>3. GoodList(r, l, async, on, {})
  BY <1>1, <1>2, PlainList DEF Easy
<1> QED
  BY <1>3 DEF l

LEMMA PlainFive ==
    ASSUME NEW r, NEW a, NEW b, NEW c, NEW d, NEW e, NEW async, NEW on,
           Easy(r, a), Easy(r, b), Easy(r, c), Easy(r, d), Plain(r, e)
    PROVE  GoodList(r, <<a, b, c, d, e>>, async, on, {})
<1> DEFINE l == <<a, b, c, d, e>>
<1>1. Listing(l) /\ DOMAIN l = {1, 2, 3, 4, 5}
      /\ l[1] = a /\ l[2] = b /\ l[3] = c /\ l[4] = d /\ l[5] = e
  BY Five
<1> HIDE DEF l
<1>2. l # <<>> /\ LawfulPuts(l) /\ \A i \in DOMAIN l : Plain(r, l[i])
  BY <1>1, EmptyListing DEF LawfulPuts, Easy
<1>3. GoodList(r, l, async, on, {})
  BY <1>1, <1>2, PlainList DEF Easy
<1> QED
  BY <1>3 DEF l

\* Nothing is deleted by the statements that check, wait, look or update a column.
LEMMA EasyStatements ==
    ASSUME NEW r
    PROVE  /\ Easy(r, Await) /\ Easy(r, NoUsers) /\ Easy(r, OneOfMany) /\ Easy(r, MarkAll)
           /\ \A s, admin : Easy(r, Auth(s, admin))
           /\ \A t, x : Easy(r, Need(t, x)) /\ Easy(r, Absent(t, x)) /\ Easy(r, Seed(t, x))
           /\ \A t, x, c, v : Easy(r, NeedOf(t, x, c, v))
           /\ \A x : /\ Easy(r, NotMe(x)) /\ Easy(r, KeepAdmin(x)) /\ Easy(r, Verify(x))
                     /\ Easy(r, MayWrite(x)) /\ Easy(r, MayDelete(x))
           /\ \A t \in {"cameras", "devices", "calendars"} : Easy(r, Unique(t))
           /\ \A t, c, v : Easy(r, Listed(t, c, v))
<1>1. ASSUME NEW c, c.op \in Checks \cup {"await", "seed", "listed", "markall"}
      PROVE  Easy(r, c)
  BY <1>1 DEF Easy, Plain, LawfulStatement, Reads, Writes, Inserts, Demotes, Fires, Checks
<1>2. \A t \in {"cameras", "devices", "calendars"} : Easy(r, Unique(t))
  BY DEF Easy, Plain, LawfulStatement, Reads, Writes, Inserts, Demotes, Fires, Checks, Unique
<1> QED
  BY <1>1, <1>2 DEF Await, NoUsers, OneOfMany, MarkAll, Auth, Need, Absent, Seed, NeedOf, NotMe,
                    KeepAdmin, Verify, MayWrite, MayDelete, Listed, Checks

LEMMA EasySet ==
    ASSUME NEW r, NEW t, NEW x, NEW c, NEW v, <<t, c>> \in SetColumns, t # "users" \/ v = "given",
           t = "users" => c = "pw"
    PROVE  Easy(r, Set(t, x, c, v))
BY DEF Easy, Plain, LawfulStatement, Reads, Writes, Inserts, Demotes, Fires, Checks, Set

LEMMA EasyPlace ==
    ASSUME NEW r, NEW t \in RankTables, NEW x, NEW n
    PROVE  Easy(r, Place(t, x, n))
BY DEF Easy, Plain, LawfulStatement, Reads, Writes, Inserts, Demotes, Fires, Checks, Place

LEMMA EasyUpsert ==
    ASSUME NEW r, NEW x, NEW row
    PROVE  Easy(r, Upsert("lan", x, row))
BY DEF Easy, Plain, LawfulStatement, Reads, Writes, Inserts, Demotes, Fires, Checks, Upsert

LEMMA PlainPut ==
    ASSUME NEW r, NEW t, NEW row, t \in PutTables \ {"sessions"}, HasColumns(t, row)
    PROVE  Plain(r, Put(t, r, row))
BY DEF Plain, LawfulStatement, Reads, Writes, Inserts, Demotes, Fires, Checks, Put, PutTables

LEMMA PlainUser ==
    ASSUME NEW r, NEW x, NEW pw, NEW role \in Roles
    PROVE  Plain(r, Put("users", x, User(role, pw)))
<1>1. DOMAIN User(role, pw) = {"role", "pw"} /\ User(role, pw).role \in Roles
  BY DEF User
<1>2. HasColumns("users", User(role, pw))
  BY RefsAre DEF HasColumns
<1> QED
  BY <1>1, <1>2 DEF Plain, LawfulStatement, Reads, Writes, Inserts, Demotes, Fires, Checks, Put

LEMMA PlainSession ==
    ASSUME NEW r, NEW u, NEW pw
    PROVE  Plain(r, Put("sessions", r, Session(u, pw)))
<1>1. DOMAIN Session(u, pw) = {"user", "pw"}
  BY DEF Session
<1>2. HasColumns("sessions", Session(u, pw))
  BY <1>1 DEF HasColumns, Refs, FootageRefs, ScheduleRefs, CoveringRefs, TaskRefs
<1> QED
  BY <1>1, <1>2
     DEF Plain, LawfulStatement, Reads, Writes, Inserts, Demotes, Fires, Checks, Put, PutTables

LEMMA PlainPick ==
    ASSUME NEW r, NEW t \in {"lists", "calendars"}, NEW row
    PROVE  Plain(r, PutPicked(t, row)) /\ PutPicked(t, row).op # "put"
BY DEF Plain, LawfulStatement, Reads, Writes, Inserts, Demotes, Fires, Checks, PutPicked, PickTables

LEMMA TargetsAre ==
    Targets = {"users", "cameras", "devices", "coverings", "rooms", "hubs", "lists", "calendars"}
BY DEF Targets, Refs, FootageRefs, ScheduleRefs, CoveringRefs, TaskRefs

LEMMA EasyDel ==
    ASSUME NEW r, NEW t \in {"sessions", "virtual", "schedules", "tasks", "events", "lan"}, NEW c, NEW v
    PROVE  Easy(r, Del(t, c, v))
<1>1. t \in Tables /\ t \notin Targets
  BY TargetsAre DEF Tables
<1> QED
  BY <1>1
     DEF Easy, Plain, LawfulStatement, Reads, Writes, Inserts, Demotes, Fires, Checks, Del

LEMMA RolesAre == "admin" \in Roles /\ "viewer" \in Roles
BY DEF Roles

LEMMA ColumnsAre ==
    /\ <<"users", "pw">> \in SetColumns /\ <<"cameras", "archived">> \in SetColumns
    /\ <<"schedules", "enabled">> \in SetColumns /\ <<"devices", "enabled">> \in SetColumns
    /\ <<"hubs", "enabled">> \in SetColumns /\ <<"coverings", "room">> \in SetColumns
    /\ <<"tasks", "list">> \in SetColumns /\ <<"tasks", "assignee">> \in SetColumns
    /\ <<"events", "calendar">> \in SetColumns /\ <<"lan", "label">> \in SetColumns
BY DEF SetColumns

LEMMA PlainSchedule ==
    ASSUME NEW r, NEW c, NEW p, NEW k, NEW m
    PROVE  Plain(r, Put("schedules", r, Schedule(c, p, k, m)))
<1>1. HasColumns("schedules", Schedule(c, p, k, m))
  BY DEF HasColumns, Refs, FootageRefs, ScheduleRefs, CoveringRefs, TaskRefs, Schedule
<1> QED
  BY <1>1, PlainPut DEF PutTables

LEMMA PlainRows ==
    ASSUME NEW r
    PROVE  /\ \A c : Plain(r, Put("virtual", r, [parent |-> c, rank |-> 0]))
           /\ Plain(r, Put("rooms", r, [rank |-> 0])) /\ Plain(r, Put("lists", r, [rank |-> 0]))
           /\ \A l, u : Plain(r, Put("tasks", r, Task(l, u)))
           /\ \A y : Plain(r, Put("events", r, [calendar |-> y]))
<1>1. ASSUME NEW c
      PROVE  HasColumns("virtual", [parent |-> c, rank |-> 0])
  BY DEF HasColumns, Refs, FootageRefs, ScheduleRefs, CoveringRefs, TaskRefs
<1>2. HasColumns("rooms", [rank |-> 0]) /\ HasColumns("lists", [rank |-> 0])
  BY DEF HasColumns, Refs, FootageRefs, ScheduleRefs, CoveringRefs, TaskRefs
<1>3. ASSUME NEW l, NEW u
      PROVE  HasColumns("tasks", Task(l, u))
  BY DEF HasColumns, Refs, FootageRefs, ScheduleRefs, CoveringRefs, TaskRefs, Task
<1>4. ASSUME NEW y
      PROVE  HasColumns("events", [calendar |-> y])
  BY DEF HasColumns, Refs, FootageRefs, ScheduleRefs, CoveringRefs, TaskRefs
<1> QED
  BY <1>1, <1>2, <1>3, <1>4, PlainPut DEF PutTables

\* Accounts.
LEMMA PlainAccounts ==
    ASSUME NEW r
    PROVE  /\ Good(r, CmdAddUser(r))
           /\ \A s : Good(r, Logout(s))
           /\ \A u : Good(r, LoginSubmit(r, u))
           /\ \A role \in Roles : \A a : Good(r, CreateUser(r, a, role))
           /\ \A a, u : Good(r, ResetUser(a, u))
<1>1. Good(r, CmdAddUser(r))
  <2>1. GoodList(r, <<Absent("users", "eve"), Put("users", "eve", User("admin", r))>>,
                FALSE, None, {})
    BY PlainTwo, EasyStatements, PlainUser, RolesAre DEF Easy
  <2> QED
    BY <2>1, Programs DEF CmdAddUser
<1>2. ASSUME NEW s
      PROVE  Good(r, Logout(s))
  <2>1. GoodList(r, <<Del("sessions", "id", s)>>, FALSE, None, {})
    BY PlainOne, EasyStatements, EasyDel DEF Easy
  <2> QED
    BY <2>1, Programs DEF Logout
<1>3. ASSUME NEW u
      PROVE  Good(r, LoginSubmit(r, u))
  <2>1. GoodList(r, <<Need("users", u), Verify("start"), Put("sessions", r, Session(u, "start"))>>,
                FALSE, None, {})
    BY PlainThree, EasyStatements, PlainSession DEF Easy
  <2> QED
    BY <2>1, Programs DEF LoginSubmit
<1>4. ASSUME NEW a, NEW role \in Roles
      PROVE  Good(r, CreateUser(r, a, role))
  <2>1. GoodList(r, <<Auth(a, TRUE), Await, Absent("users", "eve"),
                 Put("users", "eve", User(role, r))>>,
                TRUE, None, {})
    BY PlainFour, EasyStatements, PlainUser DEF Easy
  <2> QED
    BY <2>1, Programs DEF CreateUser
<1>5. ASSUME NEW a, NEW u
      PROVE  Good(r, ResetUser(a, u))
  <2>1. GoodList(r, <<Auth(a, TRUE), Need("users", u), Await, Set("users", u, "pw", "given")>>,
                TRUE, u, {})
    BY PlainFour, EasyStatements, EasySet, ColumnsAre DEF Easy
  <2> QED
    BY <2>1, Programs DEF ResetUser
<1> QED
  BY <1>1, <1>2, <1>3, <1>4, <1>5

\* Cameras, their views and their schedules.
LEMMA PlainCameras ==
    ASSUME NEW r
    PROVE  /\ \A a, c : Good(r, UpdateCamera(a, c))
           /\ \A a, c : Good(r, ArchiveCamera(a, c))
           /\ \A a, c : Good(r, RestoreCamera(a, c))
           /\ \A a, c : Good(r, CreateSchedule(r, a, c))
           /\ \A a, c, x : Good(r, UpdateSchedule(a, c, x))
           /\ \A a, c, x : Good(r, DeleteSchedule(a, c, x))
           /\ \A a, c : Good(r, CreateVirtual(r, a, c))
           /\ \A a, w : Good(r, UpdateVirtual(a, w))
           /\ \A a, w : Good(r, DeleteVirtual(a, w))
<1>1. ASSUME NEW a, NEW c
      PROVE  Good(r, UpdateCamera(a, c))
  <2>1. GoodList(r, <<Auth(a, TRUE), Need("cameras", c), Await>>, TRUE, None, {})
    BY PlainThree, EasyStatements DEF Easy
  <2> QED
    BY <2>1, Programs DEF UpdateCamera
<1>2. ASSUME NEW a, NEW c
      PROVE  Good(r, ArchiveCamera(a, c))
  <2>1. GoodList(r, <<Auth(a, TRUE), Need("cameras", c), Set("cameras", c, "archived", "yes")>>,
                FALSE, None, {})
    BY PlainThree, EasyStatements, EasySet, ColumnsAre DEF Easy
  <2> QED
    BY <2>1, Programs DEF ArchiveCamera
<1>3. ASSUME NEW a, NEW c
      PROVE  Good(r, RestoreCamera(a, c))
  <2>1. GoodList(r, <<Auth(a, TRUE), Need("cameras", c), Set("cameras", c, "archived", "no")>>,
                FALSE, None, {})
    BY PlainThree, EasyStatements, EasySet, ColumnsAre DEF Easy
  <2> QED
    BY <2>1, Programs DEF RestoreCamera
<1>4. ASSUME NEW a, NEW c
      PROVE  Good(r, CreateSchedule(r, a, c))
  <2>1. GoodList(r, <<Auth(a, TRUE), Need("cameras", c),
                 Await, Put("schedules", r, Schedule(c, None, None, None))>>,
                TRUE, None, {})
    BY PlainFour, EasyStatements, PlainSchedule DEF Easy
  <2> QED
    BY <2>1, Programs DEF CreateSchedule
<1>5. ASSUME NEW a, NEW c, NEW x
      PROVE  Good(r, UpdateSchedule(a, c, x))
  <2>1. GoodList(r, <<Auth(a, TRUE), NeedOf("schedules", x, "camera", c),
                 Await, Set("schedules", x, "enabled", "no")>>,
                TRUE, None, {})
    BY PlainFour, EasyStatements, EasySet, ColumnsAre DEF Easy
  <2> QED
    BY <2>1, Programs DEF UpdateSchedule
<1>6. ASSUME NEW a, NEW c, NEW x
      PROVE  Good(r, DeleteSchedule(a, c, x))
  <2>1. GoodList(r, <<Auth(a, TRUE), NeedOf("schedules", x, "camera", c), Del("schedules", "id", x)>>,
                FALSE, None, {})
    BY PlainThree, EasyStatements, EasyDel DEF Easy
  <2> QED
    BY <2>1, Programs DEF DeleteSchedule
<1>7. ASSUME NEW a, NEW c
      PROVE  Good(r, CreateVirtual(r, a, c))
  <2>1. GoodList(r, <<Auth(a, TRUE), Need("cameras", c),
                 Await, Put("virtual", r, [parent |-> c, rank |-> 0])>>,
                TRUE, None, {})
    BY PlainFour, EasyStatements, PlainRows DEF Easy
  <2> QED
    BY <2>1, Programs DEF CreateVirtual
<1>8. ASSUME NEW a, NEW w
      PROVE  Good(r, UpdateVirtual(a, w))
  <2>1. GoodList(r, <<Auth(a, TRUE), Need("virtual", w), Await>>, TRUE, None, {})
    BY PlainThree, EasyStatements DEF Easy
  <2> QED
    BY <2>1, Programs DEF UpdateVirtual
<1>9. ASSUME NEW a, NEW w
      PROVE  Good(r, DeleteVirtual(a, w))
  <2>1. GoodList(r, <<Auth(a, TRUE), Need("virtual", w), Del("virtual", "id", w)>>,
                FALSE, None, {})
    BY PlainThree, EasyStatements, EasyDel DEF Easy
  <2> QED
    BY <2>1, Programs DEF DeleteVirtual
<1> QED
  BY <1>1, <1>2, <1>3, <1>4, <1>5, <1>6, <1>7, <1>8, <1>9

\* Devices and their schedules.
LEMMA PlainDevices ==
    ASSUME NEW r
    PROVE  /\ \A a, p : Good(r, UpdateDevice(a, p))
           /\ \A a, p : Good(r, CreateDeviceSchedule(r, a, p))
           /\ \A a, p, x : Good(r, UpdateDeviceSchedule(a, p, x))
           /\ \A a, p, x : Good(r, DeleteDeviceSchedule(a, p, x))
<1>1. ASSUME NEW a, NEW p
      PROVE  Good(r, UpdateDevice(a, p))
  <2>1. GoodList(r, <<Auth(a, TRUE), Need("devices", p), Await, Set("devices", p, "enabled", "no")>>,
                TRUE, None, {})
    BY PlainFour, EasyStatements, EasySet, ColumnsAre DEF Easy
  <2> QED
    BY <2>1, Programs DEF UpdateDevice
<1>2. ASSUME NEW a, NEW p
      PROVE  Good(r, CreateDeviceSchedule(r, a, p))
  <2>1. GoodList(r, <<Auth(a, TRUE), Need("devices", p),
                 Await, Put("schedules", r, Schedule(None, p, None, None))>>,
                TRUE, None, {})
    BY PlainFour, EasyStatements, PlainSchedule DEF Easy
  <2> QED
    BY <2>1, Programs DEF CreateDeviceSchedule
<1>3. ASSUME NEW a, NEW p, NEW x
      PROVE  Good(r, UpdateDeviceSchedule(a, p, x))
  <2>1. GoodList(r, <<Auth(a, TRUE), NeedOf("schedules", x, "device", p),
                 Await, Set("schedules", x, "enabled", "no")>>,
                TRUE, None, {})
    BY PlainFour, EasyStatements, EasySet, ColumnsAre DEF Easy
  <2> QED
    BY <2>1, Programs DEF UpdateDeviceSchedule
<1>4. ASSUME NEW a, NEW p, NEW x
      PROVE  Good(r, DeleteDeviceSchedule(a, p, x))
  <2>1. GoodList(r, <<Auth(a, TRUE), NeedOf("schedules", x, "device", p), Del("schedules", "id", x)>>,
                FALSE, None, {})
    BY PlainThree, EasyStatements, EasyDel DEF Easy
  <2> QED
    BY <2>1, Programs DEF DeleteDeviceSchedule
<1> QED
  BY <1>1, <1>2, <1>3, <1>4

\* Rooms, hubs and coverings.
LEMMA PlainBlinds ==
    ASSUME NEW r
    PROVE  /\ \A a : Good(r, AddRoom(r, a))
           /\ \A a, m : Good(r, UpdateRoom(a, m))
           /\ \A a, h : Good(r, UpdateHub(a, h))
           /\ \A a, k, m : Good(r, UpdateCovering(a, k, m))
           /\ \A a, k : Good(r, AddCoverSchedule(r, a, k))
           /\ \A a, m : Good(r, AddRoomSchedule(r, a, m))
           /\ \A a, x : Good(r, UpdateCoverSchedule(a, x))
           /\ \A a, x : Good(r, DeleteCoverSchedule(a, x))
<1>1. ASSUME NEW a
      PROVE  Good(r, AddRoom(r, a))
  <2>1. GoodList(r, <<Auth(a, TRUE), Await, Put("rooms", r, [rank |-> 0])>>, TRUE, None, {})
    BY PlainThree, EasyStatements, PlainRows DEF Easy
  <2> QED
    BY <2>1, Programs DEF AddRoom
<1>2. ASSUME NEW a, NEW m
      PROVE  Good(r, UpdateRoom(a, m))
  <2>1. GoodList(r, <<Auth(a, TRUE), Need("rooms", m), Await>>, TRUE, None, {})
    BY PlainThree, EasyStatements DEF Easy
  <2> QED
    BY <2>1, Programs DEF UpdateRoom
<1>3. ASSUME NEW a, NEW h
      PROVE  Good(r, UpdateHub(a, h))
  <2>1. GoodList(r, <<Auth(a, TRUE), Need("hubs", h), Await, Set("hubs", h, "enabled", "no")>>,
                TRUE, None, {})
    BY PlainFour, EasyStatements, EasySet, ColumnsAre DEF Easy
  <2> QED
    BY <2>1, Programs DEF UpdateHub
<1>4. ASSUME NEW a, NEW k, NEW m
      PROVE  Good(r, UpdateCovering(a, k, m))
  <2>1. GoodList(r, <<Auth(a, TRUE), Need("coverings", k), Await, Need("rooms", m),
                 Set("coverings", k, "room", m)>>,
                TRUE, None, {})
    BY PlainFive, EasyStatements, EasySet, ColumnsAre DEF Easy
  <2> QED
    BY <2>1, Programs DEF UpdateCovering
<1>5. ASSUME NEW a, NEW k
      PROVE  Good(r, AddCoverSchedule(r, a, k))
  <2>1. GoodList(r, <<Auth(a, TRUE), Await, Need("coverings", k),
                 Put("schedules", r, Schedule(None, None, k, None))>>,
                TRUE, None, {})
    BY PlainFour, EasyStatements, PlainSchedule DEF Easy
  <2> QED
    BY <2>1, Programs DEF AddCoverSchedule
<1>6. ASSUME NEW a, NEW m
      PROVE  Good(r, AddRoomSchedule(r, a, m))
  <2>1. GoodList(r, <<Auth(a, TRUE), Await, Need("rooms", m),
                 Put("schedules", r, Schedule(None, None, None, m))>>,
                TRUE, None, {})
    BY PlainFour, EasyStatements, PlainSchedule DEF Easy
  <2> QED
    BY <2>1, Programs DEF AddRoomSchedule
<1>7. ASSUME NEW a, NEW x
      PROVE  Good(r, UpdateCoverSchedule(a, x))
  <2>1. GoodList(r, <<Auth(a, TRUE), NeedOf("schedules", x, "camera", None),
                 NeedOf("schedules", x, "device", None), Await, Set("schedules", x, "enabled", "no")>>,
                TRUE, None, {})
    BY PlainFive, EasyStatements, EasySet, ColumnsAre DEF Easy
  <2> QED
    BY <2>1, Programs DEF UpdateCoverSchedule
<1>8. ASSUME NEW a, NEW x
      PROVE  Good(r, DeleteCoverSchedule(a, x))
  <2>1. GoodList(r, <<Auth(a, TRUE), NeedOf("schedules", x, "camera", None),
                 NeedOf("schedules", x, "device", None), Del("schedules", "id", x)>>,
                FALSE, None, {})
    BY PlainFour, EasyStatements, EasyDel DEF Easy
  <2> QED
    BY <2>1, Programs DEF DeleteCoverSchedule
<1> QED
  BY <1>1, <1>2, <1>3, <1>4, <1>5, <1>6, <1>7, <1>8

\* Tasks and calendars.
LEMMA PlainFamily ==
    ASSUME NEW r
    PROVE  /\ \A s : Good(r, TasksPage(r, s))
           /\ \A s, l, u : Good(r, AddTask(r, s, l, u))
           /\ \A s, t, l : Good(r, UpdateTask(s, t, "lists", "list", l))
           /\ \A s, t, u : Good(r, UpdateTask(s, t, "users", "assignee", u))
           /\ \A s, t : Good(r, DeleteTask(s, t))
           /\ \A a : Good(r, AddTaskList(r, a))
           /\ \A a, l : Good(r, UpdateTaskList(a, l))
           /\ \A s, o : Good(r, AddCalendar(s, o))
           /\ \A s, y : Good(r, UpdateCalendar(s, y))
           /\ \A s, e : Good(r, DeleteEvent(s, e))
<1>1. ASSUME NEW s
      PROVE  Good(r, TasksPage(r, s))
  <2>1. GoodList(r, <<Auth(s, FALSE), Seed("lists", r), PutPicked("lists", [rank |-> 0])>>,
                FALSE, None, {})
    BY PlainThree, EasyStatements, PlainPick DEF Easy
  <2> QED
    BY <2>1, Programs DEF TasksPage
<1>2. ASSUME NEW s, NEW l, NEW u
      PROVE  Good(r, AddTask(r, s, l, u))
  <2>1. GoodList(r, <<Auth(s, FALSE), Await, Need("lists", l), Need("users", u),
                 Put("tasks", r, Task(l, u))>>,
                TRUE, None, {})
    BY PlainFive, EasyStatements, PlainRows DEF Easy
  <2> QED
    BY <2>1, Programs DEF AddTask
<1>3. ASSUME NEW s, NEW t, NEW l
      PROVE  Good(r, UpdateTask(s, t, "lists", "list", l))
  <2>1. GoodList(r, <<Auth(s, FALSE), Need("tasks", t), Await, Need("lists", l),
                 Set("tasks", t, "list", l)>>,
                TRUE, None, {})
    BY PlainFive, EasyStatements, EasySet, ColumnsAre DEF Easy
  <2> QED
    BY <2>1, Programs DEF UpdateTask
<1>4. ASSUME NEW s, NEW t, NEW u
      PROVE  Good(r, UpdateTask(s, t, "users", "assignee", u))
  <2>1. GoodList(r, <<Auth(s, FALSE), Need("tasks", t), Await, Need("users", u),
                 Set("tasks", t, "assignee", u)>>,
                TRUE, None, {})
    BY PlainFive, EasyStatements, EasySet, ColumnsAre DEF Easy
  <2> QED
    BY <2>1, Programs DEF UpdateTask
<1>5. ASSUME NEW s, NEW t
      PROVE  Good(r, DeleteTask(s, t))
  <2>1. GoodList(r, <<Auth(s, FALSE), Need("tasks", t), Del("tasks", "id", t)>>,
                FALSE, None, {})
    BY PlainThree, EasyStatements, EasyDel DEF Easy
  <2> QED
    BY <2>1, Programs DEF DeleteTask
<1>6. ASSUME NEW a
      PROVE  Good(r, AddTaskList(r, a))
  <2>1. GoodList(r, <<Auth(a, TRUE), Await, Put("lists", r, [rank |-> 0])>>, TRUE, None, {})
    BY PlainThree, EasyStatements, PlainRows DEF Easy
  <2> QED
    BY <2>1, Programs DEF AddTaskList
<1>7. ASSUME NEW a, NEW l
      PROVE  Good(r, UpdateTaskList(a, l))
  <2>1. GoodList(r, <<Auth(a, TRUE), Need("lists", l), Await>>, TRUE, None, {})
    BY PlainThree, EasyStatements DEF Easy
  <2> QED
    BY <2>1, Programs DEF UpdateTaskList
<1>8. ASSUME NEW s, NEW o
      PROVE  Good(r, AddCalendar(s, o))
  <2>1. GoodList(r, <<Auth(s, o = None), Await, Unique("calendars"),
                 PutPicked("calendars", [owner |-> o])>>,
                TRUE, None, {})
    BY PlainFour, EasyStatements, PlainPick DEF Easy
  <2> QED
    BY <2>1, Programs DEF AddCalendar
<1>9. ASSUME NEW s, NEW y
      PROVE  Good(r, UpdateCalendar(s, y))
  <2>1. GoodList(r, <<Auth(s, FALSE), MayWrite(y), Await>>, TRUE, None, {})
    BY PlainThree, EasyStatements DEF Easy
  <2> QED
    BY <2>1, Programs DEF UpdateCalendar
<1>10. ASSUME NEW s, NEW e
      PROVE  Good(r, DeleteEvent(s, e))
  <2>1. GoodList(r, <<Auth(s, FALSE), Need("events", e), MayWrite(None), Del("events", "id", e)>>,
                FALSE, None, {})
    BY PlainFour, EasyStatements, EasyDel DEF Easy
  <2> QED
    BY <2>1, Programs DEF DeleteEvent
<1> QED
  BY <1>1, <1>2, <1>3, <1>4, <1>5, <1>6, <1>7, <1>8, <1>9, <1>10

\* The devices of the network.
LEMMA PlainNetwork ==
    ASSUME NEW r
    PROVE  /\ \A a, n : Good(r, UpdateNetworkDevice(a, n))
           /\ \A a, n : Good(r, ForgetNetworkDevice(a, n))
<1>1. ASSUME NEW a, NEW n
      PROVE  Good(r, UpdateNetworkDevice(a, n))
  <2>1. GoodList(r, <<Auth(a, TRUE), Await, Upsert("lan", n, Sighting("yes")),
                 Set("lan", n, "label", "yes")>>,
                TRUE, None, {})
    BY PlainFour, EasyStatements, EasyUpsert, EasySet, ColumnsAre DEF Easy
  <2> QED
    BY <2>1, Programs DEF UpdateNetworkDevice
<1>2. ASSUME NEW a, NEW n
      PROVE  Good(r, ForgetNetworkDevice(a, n))
  <2>1. GoodList(r, <<Auth(a, TRUE), Need("lan", n), Del("lan", "id", n)>>, FALSE, None, {})
    BY PlainThree, EasyStatements, EasyDel DEF Easy
  <2> QED
    BY <2>1, Programs DEF ForgetNetworkDevice
<1> QED
  BY <1>1, <1>2

\* A delete that looks for nothing: what it announced goes by its id, with nothing
\* checked after, and what names it is cleared.
LEMMA KillList ==
    ASSUME NEW r, NEW l, NEW on, NEW kills, Listing(l), l # <<>>, l[1].op \in {"auth", "need"},
           \A i \in DOMAIN l : /\ LawfulStatement(r, l[i])
                               /\ l[i].op \in Checks \cup {"await", "null", "del"},
           \A i \in DOMAIN l : Fires(l[i]) =>
               NoAuth(l) \/ (i = 7 /\ LawfulFiring(l, FALSE, on)),
           \A i \in DOMAIN l : l[i].op = "del" /\ l[i].tab \in Targets =>
               /\ l[i].col = "id" /\ <<l[i].tab, l[i].val>> \in kills
               /\ \A j \in DOMAIN l : j > i => l[j].op \notin Checks,
           \A f \in Refs : \A v : f[1] # "sessions" /\ <<f[3], v>> \in kills =>
               Clearing(l, {}, f, v) \/ (f[1] = "tasks" /\ f[2] = "assignee" /\ NoAuth(l))
    PROVE  GoodList(r, l, FALSE, on, kills)
<1>1. \A i \in DOMAIN l : l[i].op \notin {"put", "putpicked", "putnew", "set", "listed", "dellisted"}
  BY DEF Checks
<1>2. LawfulPuts(l) /\ LawfulPicks(l, FALSE) /\ LawfulMotors(l, FALSE)
      /\ LawfulRoles(l, FALSE, on) /\ LawfulPasswords(l, on)
  BY <1>1 DEF LawfulPuts, LawfulPicks, LawfulMotors, LawfulRoles, LawfulPasswords, Demotes
<1>3. LawfulKills(l, kills)
  BY <1>1 DEF LawfulKills
<1>4. Lawful(r, l, FALSE, on, kills)
  BY <1>2, <1>3 DEF Lawful
<1>5. \A i \in DOMAIN l : ~Demotes(l[i])
  BY <1>1 DEF Demotes
<1>6. LawfulStart(l, FALSE, on, kills)
  BY <1>5 DEF LawfulStart
<1> QED
  BY <1>4, <1>6 DEF GoodList

IsDel(c, t, col, v) ==
    c.op = "del" /\ c.tab = t /\ c.col = col /\ c.val = v /\ c.but = None
IsNull(c, t, col, v) == c.op = "null" /\ c.tab = t /\ c.col = col /\ c.val = v

LEMMA IsCheck ==
    ASSUME NEW r, NEW c, c.op \in Checks
    PROVE  LawfulStatement(r, c)
BY DEF LawfulStatement, Reads, Writes, Inserts, Checks

LEMMA DelIs ==
    ASSUME NEW r, NEW t \in Tables, NEW col, NEW v
    PROVE  LawfulStatement(r, Del(t, col, v)) /\ IsDel(Del(t, col, v), t, col, v)
BY DEF LawfulStatement, Reads, Writes, Inserts, Checks, Del, IsDel

LEMMA NullIs ==
    ASSUME NEW r, NEW t, NEW col, <<t, col>> \in NullColumns, NEW v
    PROVE  LawfulStatement(r, Null(t, col, v)) /\ IsNull(Null(t, col, v), t, col, v)
BY DEF LawfulStatement, Reads, Writes, Inserts, Checks, Null, IsNull

LEMMA NullsAre ==
    /\ <<"tasks", "list">> \in NullColumns /\ <<"tasks", "assignee">> \in NullColumns
    /\ <<"coverings", "room">> \in NullColumns
BY DEF NullColumns

\* What names the rows of a table.
LEMMA NamesOf ==
    ASSUME NEW f \in Refs
    PROVE  /\ f[3] = "cameras" => \/ f[1] = "virtual" /\ f[2] = "parent"
                                  \/ f[1] = "segments" /\ f[2] = "camera"
                                  \/ f[1] = "schedules" /\ f[2] = "camera"
           /\ f[3] = "devices" => f[1] = "schedules" /\ f[2] = "device"
           /\ f[3] = "coverings" => f[1] = "schedules" /\ f[2] = "covering"
           /\ f[3] = "rooms" => \/ f[1] = "schedules" /\ f[2] = "room"
                                \/ f[1] = "coverings" /\ f[2] = "room"
           /\ f[3] = "hubs" => f[1] = "coverings" /\ f[2] = "hub"
           /\ f[3] = "lists" => f[1] = "tasks" /\ f[2] = "list"
           /\ f[3] = "calendars" => f[1] = "events" /\ f[2] = "calendar"
           /\ f[3] = "users" => f[1] = "sessions" \/ (f[1] = "tasks" /\ f[2] = "assignee")
BY DEF Refs, FootageRefs, ScheduleRefs, CoveringRefs, TaskRefs

LEMMA DeleteCameraGood ==
    ASSUME NEW r, NEW a, NEW c
    PROVE  Good(r, DeleteCamera(a, c))
<1> DEFINE l == <<Auth(a, TRUE), Need("cameras", c)>> \o DbDeleteCamera(c)
           kills == {<<"cameras", c>>}
<1>1. /\ Listing(l) /\ DOMAIN l = {1, 2, 3, 4, 5, 6} /\ Len(l) = 6
      /\ l[1] = Auth(a, TRUE)
      /\ l[2] = Need("cameras", c)
      /\ l[3] = Del("cameras", "id", c)
      /\ l[4] = Del("segments", "camera", c)
      /\ l[5] = Del("virtual", "parent", c)
      /\ l[6] = Del("schedules", "camera", c)
  BY TwoFour DEF DbDeleteCamera
<1>2. Good(r, DeleteCamera(a, c)) <=> Good(r, Kills(kills, Sync(l)))
  BY DEF DeleteCamera
<1> HIDE DEF l
<1>3. /\ LawfulStatement(r, l[1]) /\ l[1].op = "auth"
      /\ LawfulStatement(r, l[2]) /\ l[2].op = "need"
      /\ LawfulStatement(r, l[3]) /\ IsDel(l[3], "cameras", "id", c)
      /\ LawfulStatement(r, l[4]) /\ IsDel(l[4], "segments", "camera", c)
      /\ LawfulStatement(r, l[5]) /\ IsDel(l[5], "virtual", "parent", c)
      /\ LawfulStatement(r, l[6]) /\ IsDel(l[6], "schedules", "camera", c)
  <2>1. LawfulStatement(r, Auth(a, TRUE)) /\ Auth(a, TRUE).op = "auth"
    BY IsCheck DEF Auth, Checks
  <2>2. LawfulStatement(r, Need("cameras", c)) /\ Need("cameras", c).op = "need"
    BY IsCheck DEF Need, Checks
  <2>3. LawfulStatement(r, Del("cameras", "id", c))
        /\ IsDel(Del("cameras", "id", c), "cameras", "id", c)
    BY DelIs DEF Tables
  <2>4. LawfulStatement(r, Del("segments", "camera", c))
        /\ IsDel(Del("segments", "camera", c), "segments", "camera", c)
    BY DelIs DEF Tables
  <2>5. LawfulStatement(r, Del("virtual", "parent", c))
        /\ IsDel(Del("virtual", "parent", c), "virtual", "parent", c)
    BY DelIs DEF Tables
  <2>6. LawfulStatement(r, Del("schedules", "camera", c))
        /\ IsDel(Del("schedules", "camera", c), "schedules", "camera", c)
    BY DelIs DEF Tables
  <2> QED
    BY <1>1, <2>1, <2>2, <2>3, <2>4, <2>5, <2>6
<1>4. \A i \in DOMAIN l : LawfulStatement(r, l[i])
  BY <1>1, <1>3
<1>5. /\ l # <<>> /\ l[1].op \in {"auth", "need"}
      /\ \A i \in DOMAIN l : l[i].op \in {"auth", "need", "null", "del"}
      /\ \A i \in DOMAIN l : i > 2 => l[i].op \in {"null", "del"}
  <2>1. l # <<>>
    BY <1>1, EmptyListing
  <2>2. l[1].op \in {"auth", "need"}
    BY <1>3
  <2>3. \A i \in DOMAIN l : l[i].op \in {"auth", "need", "null", "del"}
    BY <1>1, <1>3 DEF IsDel, IsNull
  <2>4. \A i \in DOMAIN l : i > 2 => l[i].op \in {"null", "del"}
    BY <1>1, <1>3 DEF IsDel, IsNull
  <2> QED
    BY <2>1, <2>2, <2>3, <2>4
<1>6. \A i \in DOMAIN l : l[i].op = "del" /\ l[i].tab \in Targets \cup {"users"} => i = 3
  BY <1>1, <1>3, TargetsAre DEF IsDel, IsNull
<1>7. l[3].tab = "cameras" /\ l[3].col = "id" /\ l[3].val = c
  BY <1>3 DEF IsDel
<1>8. \A i \in DOMAIN l : ~Fires(l[i])
  BY <1>5, <1>6, <1>7 DEF Fires
<1>9. ASSUME NEW f \in Refs, NEW v, f[1] # "sessions", <<f[3], v>> \in kills
      PROVE  Clearing(l, {}, f, v)
  <2>1. f[3] = "cameras" /\ v = c
    BY <1>9
  <2>2. \E i \in DOMAIN l : Clears(l[i], f, v) /\ l[i].op # "dellisted"
    BY <2>1, <1>1, <1>3, NamesOf DEF Clears, IsDel, IsNull
  <2> QED
    BY <2>2 DEF Clearing
<1>10. GoodList(r, l, FALSE, None, kills)
  <2>1. \A i \in DOMAIN l : l[i].op = "del" /\ l[i].tab \in Targets =>
            /\ l[i].col = "id" /\ <<l[i].tab, l[i].val>> \in kills
            /\ \A j \in DOMAIN l : j > i => l[j].op \notin Checks
    <3>1. <<l[3].tab, l[3].val>> \in kills
      BY <1>7
    <3>2. \A j \in DOMAIN l : j > 3 => l[j].op \notin Checks
      BY <1>5 DEF Checks
    <3> QED
      BY <1>6, <1>7, <3>1, <3>2
  <2>2. \A i \in DOMAIN l : l[i].op \in Checks \cup {"await", "null", "del"}
    BY <1>5 DEF Checks
  <2> HIDE DEF kills
  <2> QED
    BY <1>1, <1>4, <1>5, <2>2, <1>8, <1>9, <2>1, KillList
<1> QED
  BY <1>2, <1>10, Programs

LEMMA DeleteDeviceGood ==
    ASSUME NEW r, NEW a, NEW p
    PROVE  Good(r, DeleteDevice(a, p))
<1> DEFINE l == <<Auth(a, TRUE), Need("devices", p)>> \o DbDeleteDevice(p)
           kills == {<<"devices", p>>}
<1>1. /\ Listing(l) /\ DOMAIN l = {1, 2, 3, 4} /\ Len(l) = 4
      /\ l[1] = Auth(a, TRUE)
      /\ l[2] = Need("devices", p)
      /\ l[3] = Del("devices", "id", p)
      /\ l[4] = Del("schedules", "device", p)
  BY TwoTwo DEF DbDeleteDevice
<1>2. Good(r, DeleteDevice(a, p)) <=> Good(r, Kills(kills, Sync(l)))
  BY DEF DeleteDevice
<1> HIDE DEF l
<1>3. /\ LawfulStatement(r, l[1]) /\ l[1].op = "auth"
      /\ LawfulStatement(r, l[2]) /\ l[2].op = "need"
      /\ LawfulStatement(r, l[3]) /\ IsDel(l[3], "devices", "id", p)
      /\ LawfulStatement(r, l[4]) /\ IsDel(l[4], "schedules", "device", p)
  <2>1. LawfulStatement(r, Auth(a, TRUE)) /\ Auth(a, TRUE).op = "auth"
    BY IsCheck DEF Auth, Checks
  <2>2. LawfulStatement(r, Need("devices", p)) /\ Need("devices", p).op = "need"
    BY IsCheck DEF Need, Checks
  <2>3. LawfulStatement(r, Del("devices", "id", p))
        /\ IsDel(Del("devices", "id", p), "devices", "id", p)
    BY DelIs DEF Tables
  <2>4. LawfulStatement(r, Del("schedules", "device", p))
        /\ IsDel(Del("schedules", "device", p), "schedules", "device", p)
    BY DelIs DEF Tables
  <2> QED
    BY <1>1, <2>1, <2>2, <2>3, <2>4
<1>4. \A i \in DOMAIN l : LawfulStatement(r, l[i])
  BY <1>1, <1>3
<1>5. /\ l # <<>> /\ l[1].op \in {"auth", "need"}
      /\ \A i \in DOMAIN l : l[i].op \in {"auth", "need", "null", "del"}
      /\ \A i \in DOMAIN l : i > 2 => l[i].op \in {"null", "del"}
  <2>1. l # <<>>
    BY <1>1, EmptyListing
  <2>2. l[1].op \in {"auth", "need"}
    BY <1>3
  <2>3. \A i \in DOMAIN l : l[i].op \in {"auth", "need", "null", "del"}
    BY <1>1, <1>3 DEF IsDel, IsNull
  <2>4. \A i \in DOMAIN l : i > 2 => l[i].op \in {"null", "del"}
    BY <1>1, <1>3 DEF IsDel, IsNull
  <2> QED
    BY <2>1, <2>2, <2>3, <2>4
<1>6. \A i \in DOMAIN l : l[i].op = "del" /\ l[i].tab \in Targets \cup {"users"} => i = 3
  BY <1>1, <1>3, TargetsAre DEF IsDel, IsNull
<1>7. l[3].tab = "devices" /\ l[3].col = "id" /\ l[3].val = p
  BY <1>3 DEF IsDel
<1>8. \A i \in DOMAIN l : ~Fires(l[i])
  BY <1>5, <1>6, <1>7 DEF Fires
<1>9. ASSUME NEW f \in Refs, NEW v, f[1] # "sessions", <<f[3], v>> \in kills
      PROVE  Clearing(l, {}, f, v)
  <2>1. f[3] = "devices" /\ v = p
    BY <1>9
  <2>2. \E i \in DOMAIN l : Clears(l[i], f, v) /\ l[i].op # "dellisted"
    BY <2>1, <1>1, <1>3, NamesOf DEF Clears, IsDel, IsNull
  <2> QED
    BY <2>2 DEF Clearing
<1>10. GoodList(r, l, FALSE, None, kills)
  <2>1. \A i \in DOMAIN l : l[i].op = "del" /\ l[i].tab \in Targets =>
            /\ l[i].col = "id" /\ <<l[i].tab, l[i].val>> \in kills
            /\ \A j \in DOMAIN l : j > i => l[j].op \notin Checks
    <3>1. <<l[3].tab, l[3].val>> \in kills
      BY <1>7
    <3>2. \A j \in DOMAIN l : j > 3 => l[j].op \notin Checks
      BY <1>5 DEF Checks
    <3> QED
      BY <1>6, <1>7, <3>1, <3>2
  <2>2. \A i \in DOMAIN l : l[i].op \in Checks \cup {"await", "null", "del"}
    BY <1>5 DEF Checks
  <2> HIDE DEF kills
  <2> QED
    BY <1>1, <1>4, <1>5, <2>2, <1>8, <1>9, <2>1, KillList
<1> QED
  BY <1>2, <1>10, Programs

LEMMA DeleteRoomGood ==
    ASSUME NEW r, NEW a, NEW m
    PROVE  Good(r, DeleteRoom(a, m))
<1> DEFINE l == <<Auth(a, TRUE), Need("rooms", m)>> \o DbDeleteRoom(m)
           kills == {<<"rooms", m>>}
<1>1. /\ Listing(l) /\ DOMAIN l = {1, 2, 3, 4, 5} /\ Len(l) = 5
      /\ l[1] = Auth(a, TRUE)
      /\ l[2] = Need("rooms", m)
      /\ l[3] = Del("rooms", "id", m)
      /\ l[4] = Null("coverings", "room", m)
      /\ l[5] = Del("schedules", "room", m)
  BY TwoThree DEF DbDeleteRoom
<1>2. Good(r, DeleteRoom(a, m)) <=> Good(r, Kills(kills, Sync(l)))
  BY DEF DeleteRoom
<1> HIDE DEF l
<1>3. /\ LawfulStatement(r, l[1]) /\ l[1].op = "auth"
      /\ LawfulStatement(r, l[2]) /\ l[2].op = "need"
      /\ LawfulStatement(r, l[3]) /\ IsDel(l[3], "rooms", "id", m)
      /\ LawfulStatement(r, l[4]) /\ IsNull(l[4], "coverings", "room", m)
      /\ LawfulStatement(r, l[5]) /\ IsDel(l[5], "schedules", "room", m)
  <2>1. LawfulStatement(r, Auth(a, TRUE)) /\ Auth(a, TRUE).op = "auth"
    BY IsCheck DEF Auth, Checks
  <2>2. LawfulStatement(r, Need("rooms", m)) /\ Need("rooms", m).op = "need"
    BY IsCheck DEF Need, Checks
  <2>3. LawfulStatement(r, Del("rooms", "id", m))
        /\ IsDel(Del("rooms", "id", m), "rooms", "id", m)
    BY DelIs DEF Tables
  <2>4. LawfulStatement(r, Null("coverings", "room", m))
        /\ IsNull(Null("coverings", "room", m), "coverings", "room", m)
    BY NullIs, NullsAre
  <2>5. LawfulStatement(r, Del("schedules", "room", m))
        /\ IsDel(Del("schedules", "room", m), "schedules", "room", m)
    BY DelIs DEF Tables
  <2> QED
    BY <1>1, <2>1, <2>2, <2>3, <2>4, <2>5
<1>4. \A i \in DOMAIN l : LawfulStatement(r, l[i])
  BY <1>1, <1>3
<1>5. /\ l # <<>> /\ l[1].op \in {"auth", "need"}
      /\ \A i \in DOMAIN l : l[i].op \in {"auth", "need", "null", "del"}
      /\ \A i \in DOMAIN l : i > 2 => l[i].op \in {"null", "del"}
  <2>1. l # <<>>
    BY <1>1, EmptyListing
  <2>2. l[1].op \in {"auth", "need"}
    BY <1>3
  <2>3. \A i \in DOMAIN l : l[i].op \in {"auth", "need", "null", "del"}
    BY <1>1, <1>3 DEF IsDel, IsNull
  <2>4. \A i \in DOMAIN l : i > 2 => l[i].op \in {"null", "del"}
    BY <1>1, <1>3 DEF IsDel, IsNull
  <2> QED
    BY <2>1, <2>2, <2>3, <2>4
<1>6. \A i \in DOMAIN l : l[i].op = "del" /\ l[i].tab \in Targets \cup {"users"} => i = 3
  BY <1>1, <1>3, TargetsAre DEF IsDel, IsNull
<1>7. l[3].tab = "rooms" /\ l[3].col = "id" /\ l[3].val = m
  BY <1>3 DEF IsDel
<1>8. \A i \in DOMAIN l : ~Fires(l[i])
  BY <1>5, <1>6, <1>7 DEF Fires
<1>9. ASSUME NEW f \in Refs, NEW v, f[1] # "sessions", <<f[3], v>> \in kills
      PROVE  Clearing(l, {}, f, v)
  <2>1. f[3] = "rooms" /\ v = m
    BY <1>9
  <2>2. \E i \in DOMAIN l : Clears(l[i], f, v) /\ l[i].op # "dellisted"
    BY <2>1, <1>1, <1>3, NamesOf DEF Clears, IsDel, IsNull
  <2> QED
    BY <2>2 DEF Clearing
<1>10. GoodList(r, l, FALSE, None, kills)
  <2>1. \A i \in DOMAIN l : l[i].op = "del" /\ l[i].tab \in Targets =>
            /\ l[i].col = "id" /\ <<l[i].tab, l[i].val>> \in kills
            /\ \A j \in DOMAIN l : j > i => l[j].op \notin Checks
    <3>1. <<l[3].tab, l[3].val>> \in kills
      BY <1>7
    <3>2. \A j \in DOMAIN l : j > 3 => l[j].op \notin Checks
      BY <1>5 DEF Checks
    <3> QED
      BY <1>6, <1>7, <3>1, <3>2
  <2>2. \A i \in DOMAIN l : l[i].op \in Checks \cup {"await", "null", "del"}
    BY <1>5 DEF Checks
  <2> HIDE DEF kills
  <2> QED
    BY <1>1, <1>4, <1>5, <2>2, <1>8, <1>9, <2>1, KillList
<1> QED
  BY <1>2, <1>10, Programs

LEMMA DeleteCoveringGood ==
    ASSUME NEW r, NEW a, NEW k
    PROVE  Good(r, DeleteCovering(a, k))
<1> DEFINE l == <<Auth(a, TRUE), Need("coverings", k)>> \o DbDeleteCovering(k)
           kills == {<<"coverings", k>>}
<1>1. /\ Listing(l) /\ DOMAIN l = {1, 2, 3, 4} /\ Len(l) = 4
      /\ l[1] = Auth(a, TRUE)
      /\ l[2] = Need("coverings", k)
      /\ l[3] = Del("coverings", "id", k)
      /\ l[4] = Del("schedules", "covering", k)
  BY TwoTwo DEF DbDeleteCovering
<1>2. Good(r, DeleteCovering(a, k)) <=> Good(r, Kills(kills, Sync(l)))
  BY DEF DeleteCovering
<1> HIDE DEF l
<1>3. /\ LawfulStatement(r, l[1]) /\ l[1].op = "auth"
      /\ LawfulStatement(r, l[2]) /\ l[2].op = "need"
      /\ LawfulStatement(r, l[3]) /\ IsDel(l[3], "coverings", "id", k)
      /\ LawfulStatement(r, l[4]) /\ IsDel(l[4], "schedules", "covering", k)
  <2>1. LawfulStatement(r, Auth(a, TRUE)) /\ Auth(a, TRUE).op = "auth"
    BY IsCheck DEF Auth, Checks
  <2>2. LawfulStatement(r, Need("coverings", k)) /\ Need("coverings", k).op = "need"
    BY IsCheck DEF Need, Checks
  <2>3. LawfulStatement(r, Del("coverings", "id", k))
        /\ IsDel(Del("coverings", "id", k), "coverings", "id", k)
    BY DelIs DEF Tables
  <2>4. LawfulStatement(r, Del("schedules", "covering", k))
        /\ IsDel(Del("schedules", "covering", k), "schedules", "covering", k)
    BY DelIs DEF Tables
  <2> QED
    BY <1>1, <2>1, <2>2, <2>3, <2>4
<1>4. \A i \in DOMAIN l : LawfulStatement(r, l[i])
  BY <1>1, <1>3
<1>5. /\ l # <<>> /\ l[1].op \in {"auth", "need"}
      /\ \A i \in DOMAIN l : l[i].op \in {"auth", "need", "null", "del"}
      /\ \A i \in DOMAIN l : i > 2 => l[i].op \in {"null", "del"}
  <2>1. l # <<>>
    BY <1>1, EmptyListing
  <2>2. l[1].op \in {"auth", "need"}
    BY <1>3
  <2>3. \A i \in DOMAIN l : l[i].op \in {"auth", "need", "null", "del"}
    BY <1>1, <1>3 DEF IsDel, IsNull
  <2>4. \A i \in DOMAIN l : i > 2 => l[i].op \in {"null", "del"}
    BY <1>1, <1>3 DEF IsDel, IsNull
  <2> QED
    BY <2>1, <2>2, <2>3, <2>4
<1>6. \A i \in DOMAIN l : l[i].op = "del" /\ l[i].tab \in Targets \cup {"users"} => i = 3
  BY <1>1, <1>3, TargetsAre DEF IsDel, IsNull
<1>7. l[3].tab = "coverings" /\ l[3].col = "id" /\ l[3].val = k
  BY <1>3 DEF IsDel
<1>8. \A i \in DOMAIN l : ~Fires(l[i])
  BY <1>5, <1>6, <1>7 DEF Fires
<1>9. ASSUME NEW f \in Refs, NEW v, f[1] # "sessions", <<f[3], v>> \in kills
      PROVE  Clearing(l, {}, f, v)
  <2>1. f[3] = "coverings" /\ v = k
    BY <1>9
  <2>2. \E i \in DOMAIN l : Clears(l[i], f, v) /\ l[i].op # "dellisted"
    BY <2>1, <1>1, <1>3, NamesOf DEF Clears, IsDel, IsNull
  <2> QED
    BY <2>2 DEF Clearing
<1>10. GoodList(r, l, FALSE, None, kills)
  <2>1. \A i \in DOMAIN l : l[i].op = "del" /\ l[i].tab \in Targets =>
            /\ l[i].col = "id" /\ <<l[i].tab, l[i].val>> \in kills
            /\ \A j \in DOMAIN l : j > i => l[j].op \notin Checks
    <3>1. <<l[3].tab, l[3].val>> \in kills
      BY <1>7
    <3>2. \A j \in DOMAIN l : j > 3 => l[j].op \notin Checks
      BY <1>5 DEF Checks
    <3> QED
      BY <1>6, <1>7, <3>1, <3>2
  <2>2. \A i \in DOMAIN l : l[i].op \in Checks \cup {"await", "null", "del"}
    BY <1>5 DEF Checks
  <2> HIDE DEF kills
  <2> QED
    BY <1>1, <1>4, <1>5, <2>2, <1>8, <1>9, <2>1, KillList
<1> QED
  BY <1>2, <1>10, Programs

LEMMA DeleteTaskListGood ==
    ASSUME NEW r, NEW a, NEW x
    PROVE  Good(r, DeleteTaskList(a, x))
<1> DEFINE l == <<Auth(a, TRUE), Need("lists", x)>> \o DbDeleteTaskList(x)
           kills == {<<"lists", x>>}
<1>1. /\ Listing(l) /\ DOMAIN l = {1, 2, 3, 4} /\ Len(l) = 4
      /\ l[1] = Auth(a, TRUE)
      /\ l[2] = Need("lists", x)
      /\ l[3] = Del("lists", "id", x)
      /\ l[4] = Null("tasks", "list", x)
  BY TwoTwo DEF DbDeleteTaskList
<1>2. Good(r, DeleteTaskList(a, x)) <=> Good(r, Kills(kills, Sync(l)))
  BY DEF DeleteTaskList
<1> HIDE DEF l
<1>3. /\ LawfulStatement(r, l[1]) /\ l[1].op = "auth"
      /\ LawfulStatement(r, l[2]) /\ l[2].op = "need"
      /\ LawfulStatement(r, l[3]) /\ IsDel(l[3], "lists", "id", x)
      /\ LawfulStatement(r, l[4]) /\ IsNull(l[4], "tasks", "list", x)
  <2>1. LawfulStatement(r, Auth(a, TRUE)) /\ Auth(a, TRUE).op = "auth"
    BY IsCheck DEF Auth, Checks
  <2>2. LawfulStatement(r, Need("lists", x)) /\ Need("lists", x).op = "need"
    BY IsCheck DEF Need, Checks
  <2>3. LawfulStatement(r, Del("lists", "id", x))
        /\ IsDel(Del("lists", "id", x), "lists", "id", x)
    BY DelIs DEF Tables
  <2>4. LawfulStatement(r, Null("tasks", "list", x))
        /\ IsNull(Null("tasks", "list", x), "tasks", "list", x)
    BY NullIs, NullsAre
  <2> QED
    BY <1>1, <2>1, <2>2, <2>3, <2>4
<1>4. \A i \in DOMAIN l : LawfulStatement(r, l[i])
  BY <1>1, <1>3
<1>5. /\ l # <<>> /\ l[1].op \in {"auth", "need"}
      /\ \A i \in DOMAIN l : l[i].op \in {"auth", "need", "null", "del"}
      /\ \A i \in DOMAIN l : i > 2 => l[i].op \in {"null", "del"}
  <2>1. l # <<>>
    BY <1>1, EmptyListing
  <2>2. l[1].op \in {"auth", "need"}
    BY <1>3
  <2>3. \A i \in DOMAIN l : l[i].op \in {"auth", "need", "null", "del"}
    BY <1>1, <1>3 DEF IsDel, IsNull
  <2>4. \A i \in DOMAIN l : i > 2 => l[i].op \in {"null", "del"}
    BY <1>1, <1>3 DEF IsDel, IsNull
  <2> QED
    BY <2>1, <2>2, <2>3, <2>4
<1>6. \A i \in DOMAIN l : l[i].op = "del" /\ l[i].tab \in Targets \cup {"users"} => i = 3
  BY <1>1, <1>3, TargetsAre DEF IsDel, IsNull
<1>7. l[3].tab = "lists" /\ l[3].col = "id" /\ l[3].val = x
  BY <1>3 DEF IsDel
<1>8. \A i \in DOMAIN l : ~Fires(l[i])
  BY <1>5, <1>6, <1>7 DEF Fires
<1>9. ASSUME NEW f \in Refs, NEW v, f[1] # "sessions", <<f[3], v>> \in kills
      PROVE  Clearing(l, {}, f, v)
  <2>1. f[3] = "lists" /\ v = x
    BY <1>9
  <2>2. \E i \in DOMAIN l : Clears(l[i], f, v) /\ l[i].op # "dellisted"
    BY <2>1, <1>1, <1>3, NamesOf DEF Clears, IsDel, IsNull
  <2> QED
    BY <2>2 DEF Clearing
<1>10. GoodList(r, l, FALSE, None, kills)
  <2>1. \A i \in DOMAIN l : l[i].op = "del" /\ l[i].tab \in Targets =>
            /\ l[i].col = "id" /\ <<l[i].tab, l[i].val>> \in kills
            /\ \A j \in DOMAIN l : j > i => l[j].op \notin Checks
    <3>1. <<l[3].tab, l[3].val>> \in kills
      BY <1>7
    <3>2. \A j \in DOMAIN l : j > 3 => l[j].op \notin Checks
      BY <1>5 DEF Checks
    <3> QED
      BY <1>6, <1>7, <3>1, <3>2
  <2>2. \A i \in DOMAIN l : l[i].op \in Checks \cup {"await", "null", "del"}
    BY <1>5 DEF Checks
  <2> HIDE DEF kills
  <2> QED
    BY <1>1, <1>4, <1>5, <2>2, <1>8, <1>9, <2>1, KillList
<1> QED
  BY <1>2, <1>10, Programs

LEMMA DeleteCalendarGood ==
    ASSUME NEW r, NEW s, NEW y
    PROVE  Good(r, DeleteCalendar(s, y))
<1> DEFINE l == <<Auth(s, FALSE), MayDelete(y)>> \o DbDeleteCalendar(y)
           kills == {<<"calendars", y>>}
<1>1. /\ Listing(l) /\ DOMAIN l = {1, 2, 3, 4} /\ Len(l) = 4
      /\ l[1] = Auth(s, FALSE)
      /\ l[2] = MayDelete(y)
      /\ l[3] = Del("calendars", "id", y)
      /\ l[4] = Del("events", "calendar", y)
  BY TwoTwo DEF DbDeleteCalendar
<1>2. Good(r, DeleteCalendar(s, y)) <=> Good(r, Kills(kills, Sync(l)))
  BY DEF DeleteCalendar
<1> HIDE DEF l
<1>3. /\ LawfulStatement(r, l[1]) /\ l[1].op = "auth"
      /\ LawfulStatement(r, l[2]) /\ l[2].op = "maydelete"
      /\ LawfulStatement(r, l[3]) /\ IsDel(l[3], "calendars", "id", y)
      /\ LawfulStatement(r, l[4]) /\ IsDel(l[4], "events", "calendar", y)
  <2>1. LawfulStatement(r, Auth(s, FALSE)) /\ Auth(s, FALSE).op = "auth"
    BY IsCheck DEF Auth, Checks
  <2>2. LawfulStatement(r, MayDelete(y)) /\ MayDelete(y).op = "maydelete"
    BY IsCheck DEF MayDelete, Checks
  <2>3. LawfulStatement(r, Del("calendars", "id", y))
        /\ IsDel(Del("calendars", "id", y), "calendars", "id", y)
    BY DelIs DEF Tables
  <2>4. LawfulStatement(r, Del("events", "calendar", y))
        /\ IsDel(Del("events", "calendar", y), "events", "calendar", y)
    BY DelIs DEF Tables
  <2> QED
    BY <1>1, <2>1, <2>2, <2>3, <2>4
<1>4. \A i \in DOMAIN l : LawfulStatement(r, l[i])
  BY <1>1, <1>3
<1>5. /\ l # <<>> /\ l[1].op \in {"auth", "need"}
      /\ \A i \in DOMAIN l : l[i].op \in {"auth", "maydelete", "null", "del"}
      /\ \A i \in DOMAIN l : i > 2 => l[i].op \in {"null", "del"}
  <2>1. l # <<>>
    BY <1>1, EmptyListing
  <2>2. l[1].op \in {"auth", "need"}
    BY <1>3
  <2>3. \A i \in DOMAIN l : l[i].op \in {"auth", "maydelete", "null", "del"}
    BY <1>1, <1>3 DEF IsDel, IsNull
  <2>4. \A i \in DOMAIN l : i > 2 => l[i].op \in {"null", "del"}
    BY <1>1, <1>3 DEF IsDel, IsNull
  <2> QED
    BY <2>1, <2>2, <2>3, <2>4
<1>6. \A i \in DOMAIN l : l[i].op = "del" /\ l[i].tab \in Targets \cup {"users"} => i = 3
  BY <1>1, <1>3, TargetsAre DEF IsDel, IsNull
<1>7. l[3].tab = "calendars" /\ l[3].col = "id" /\ l[3].val = y
  BY <1>3 DEF IsDel
<1>8. \A i \in DOMAIN l : ~Fires(l[i])
  BY <1>5, <1>6, <1>7 DEF Fires
<1>9. ASSUME NEW f \in Refs, NEW v, f[1] # "sessions", <<f[3], v>> \in kills
      PROVE  Clearing(l, {}, f, v)
  <2>1. f[3] = "calendars" /\ v = y
    BY <1>9
  <2>2. \E i \in DOMAIN l : Clears(l[i], f, v) /\ l[i].op # "dellisted"
    BY <2>1, <1>1, <1>3, NamesOf DEF Clears, IsDel, IsNull
  <2> QED
    BY <2>2 DEF Clearing
<1>10. GoodList(r, l, FALSE, None, kills)
  <2>1. \A i \in DOMAIN l : l[i].op = "del" /\ l[i].tab \in Targets =>
            /\ l[i].col = "id" /\ <<l[i].tab, l[i].val>> \in kills
            /\ \A j \in DOMAIN l : j > i => l[j].op \notin Checks
    <3>1. <<l[3].tab, l[3].val>> \in kills
      BY <1>7
    <3>2. \A j \in DOMAIN l : j > 3 => l[j].op \notin Checks
      BY <1>5 DEF Checks
    <3> QED
      BY <1>6, <1>7, <3>1, <3>2
  <2>2. \A i \in DOMAIN l : l[i].op \in Checks \cup {"await", "null", "del"}
    BY <1>5 DEF Checks
  <2> HIDE DEF kills
  <2> QED
    BY <1>1, <1>4, <1>5, <2>2, <1>8, <1>9, <2>1, KillList
<1> QED
  BY <1>2, <1>10, Programs

\* The user who is deleted was read, and the admins counted, three statements before.
LEMMA DeleteUserGood ==
    ASSUME NEW r, NEW s, NEW u
    PROVE  Good(r, DeleteUser(s, u))
<1> DEFINE l == <<Auth(s, TRUE), Need("users", u), NotMe(u), KeepAdmin("gone")>> \o DbDeleteUser(u)
           kills == {<<"users", u>>}
<1>1. /\ Listing(l) /\ DOMAIN l = {1, 2, 3, 4, 5, 6, 7} /\ Len(l) = 7
      /\ l[1] = Auth(s, TRUE) /\ l[2] = Need("users", u) /\ l[3] = NotMe(u)
      /\ l[4] = KeepAdmin("gone") /\ l[5] = Del("sessions", "user", u)
      /\ l[6] = Null("tasks", "assignee", u) /\ l[7] = Del("users", "id", u)
  BY FourThree DEF DbDeleteUser
<1>2. Good(r, DeleteUser(s, u)) <=> Good(r, Kills(kills, On(u, Sync(l))))
  BY DEF DeleteUser
<1> HIDE DEF l
<1>3. /\ LawfulStatement(r, l[1]) /\ l[1].op = "auth"
      /\ LawfulStatement(r, l[2]) /\ l[2].op = "need" /\ l[2].tab = "users" /\ l[2].id = u
      /\ LawfulStatement(r, l[3]) /\ l[3].op = "notme"
      /\ LawfulStatement(r, l[4]) /\ l[4].op = "keepadmin" /\ l[4].role = "gone"
      /\ LawfulStatement(r, l[5]) /\ IsDel(l[5], "sessions", "user", u)
      /\ LawfulStatement(r, l[6]) /\ IsNull(l[6], "tasks", "assignee", u)
      /\ LawfulStatement(r, l[7]) /\ IsDel(l[7], "users", "id", u)
  <2>1. LawfulStatement(r, Auth(s, TRUE)) /\ Auth(s, TRUE).op = "auth"
    BY IsCheck DEF Auth, Checks
  <2>2. /\ LawfulStatement(r, Need("users", u)) /\ Need("users", u).op = "need"
        /\ Need("users", u).tab = "users" /\ Need("users", u).id = u
    BY IsCheck DEF Need, Checks
  <2>3. LawfulStatement(r, NotMe(u)) /\ NotMe(u).op = "notme"
    BY IsCheck DEF NotMe, Checks
  <2>4. /\ LawfulStatement(r, KeepAdmin("gone")) /\ KeepAdmin("gone").op = "keepadmin"
        /\ KeepAdmin("gone").role = "gone"
    BY IsCheck DEF KeepAdmin, Checks
  <2>5. LawfulStatement(r, Del("sessions", "user", u))
        /\ IsDel(Del("sessions", "user", u), "sessions", "user", u)
    BY DelIs DEF Tables
  <2>6. LawfulStatement(r, Null("tasks", "assignee", u))
        /\ IsNull(Null("tasks", "assignee", u), "tasks", "assignee", u)
    BY NullIs, NullsAre
  <2>7. LawfulStatement(r, Del("users", "id", u))
        /\ IsDel(Del("users", "id", u), "users", "id", u)
    BY DelIs DEF Tables
  <2> QED
    BY <1>1, <2>1, <2>2, <2>3, <2>4, <2>5, <2>6, <2>7
<1>4. \A i \in DOMAIN l : LawfulStatement(r, l[i])
  BY <1>1, <1>3
<1>5. /\ l # <<>> /\ l[1].op \in {"auth", "need"}
      /\ \A i \in DOMAIN l : l[i].op \in {"auth", "need", "notme", "keepadmin", "null", "del"}
      /\ \A i \in DOMAIN l : i > 7 => l[i].op \in {"null", "del"}
  <2>1. l # <<>>
    BY <1>1, EmptyListing
  <2>2. \A i \in DOMAIN l : l[i].op \in {"auth", "need", "notme", "keepadmin", "null", "del"}
    BY <1>1, <1>3 DEF IsDel, IsNull
  <2>3. \A i \in DOMAIN l : ~(i > 7)
    BY <1>1
  <2> QED
    BY <1>3, <2>1, <2>2, <2>3
<1>6. \A i \in DOMAIN l : l[i].op = "del" /\ l[i].tab \in Targets \cup {"users"} => i = 7
  BY <1>1, <1>3, TargetsAre DEF IsDel, IsNull
<1>7. l[7].tab = "users" /\ l[7].col = "id" /\ l[7].val = u /\ l[7].op = "del" /\ l[7].but = None
  BY <1>3 DEF IsDel
<1>8. ASSUME NEW i \in DOMAIN l, Fires(l[i])
      PROVE  i = 7 /\ LawfulFiring(l, FALSE, u)
  <2>1. \A j \in DOMAIN l : Fires(l[j]) => j = 7
    BY <1>5, <1>6 DEF Fires
  <2>2. LawfulFiring(l, FALSE, u)
    <3>1. /\ l[7 - 1].op = "null" /\ l[7 - 2].op = "del" /\ l[7 - 2].tab = "sessions"
          /\ l[7 - 3].op = "keepadmin" /\ l[7 - 3].role # "admin" /\ l[7 - 4].op = "notme"
          /\ l[7 - 5].op = "need" /\ l[7 - 5].tab = "users" /\ l[7 - 5].id = l[7].val
      BY <1>3, <1>7 DEF IsDel, IsNull
    <3> QED
      BY <2>1, <3>1, <1>7 DEF LawfulFiring
  <2> QED
    BY <2>1, <2>2, <1>8
<1>9. ASSUME NEW f \in Refs, NEW v, f[1] # "sessions", <<f[3], v>> \in kills
      PROVE  Clearing(l, {}, f, v)
  <2>1. f[3] = "users" /\ v = u
    BY <1>9
  <2>2. f[1] = "tasks" /\ f[2] = "assignee"
    BY <1>9, <2>1, NamesOf
  <2>3. 6 \in DOMAIN l /\ Clears(l[6], f, v) /\ l[6].op # "dellisted"
    BY <2>1, <2>2, <1>1, <1>3 DEF Clears, IsNull
  <2> QED
    BY <2>3 DEF Clearing
<1>10. GoodList(r, l, FALSE, u, kills)
  <2>1. \A i \in DOMAIN l : l[i].op = "del" /\ l[i].tab \in Targets =>
            /\ l[i].col = "id" /\ <<l[i].tab, l[i].val>> \in kills
            /\ \A j \in DOMAIN l : j > i => l[j].op \notin Checks
    <3>1. <<l[7].tab, l[7].val>> \in kills
      BY <1>7
    <3>2. \A j \in DOMAIN l : j > 7 => l[j].op \notin Checks
      BY <1>5 DEF Checks
    <3> QED
      BY <1>6, <1>7, <3>1, <3>2
  <2>2. \A i \in DOMAIN l : l[i].op \in Checks \cup {"await", "null", "del"}
    BY <1>5 DEF Checks
  <2> HIDE DEF kills
  <2> QED
    BY <1>1, <1>4, <1>5, <2>2, <1>8, <1>9, <2>1, KillList
<1> QED
  BY <1>2, <1>10, Programs

\* The command asks nobody to sign in, and leaves the tasks of the user.
LEMMA CmdDeleteUserGood ==
    ASSUME NEW r, NEW u
    PROVE  Good(r, CmdDeleteUser(u))
<1> DEFINE l == <<Need("users", u), OneOfMany, Del("sessions", "user", u), Del("users", "id", u)>>
           kills == {<<"users", u>>}
<1>1. /\ Listing(l) /\ DOMAIN l = {1, 2, 3, 4} /\ Len(l) = 4
      /\ l[1] = Need("users", u) /\ l[2] = OneOfMany /\ l[3] = Del("sessions", "user", u)
      /\ l[4] = Del("users", "id", u)
  BY Four
<1>2. Good(r, CmdDeleteUser(u)) <=> Good(r, Kills(kills, On(u, Sync(l))))
  BY DEF CmdDeleteUser
<1> HIDE DEF l
<1>3. /\ LawfulStatement(r, l[1]) /\ l[1].op = "need"
      /\ LawfulStatement(r, l[2]) /\ l[2].op = "oneofmany"
      /\ LawfulStatement(r, l[3]) /\ IsDel(l[3], "sessions", "user", u)
      /\ LawfulStatement(r, l[4]) /\ IsDel(l[4], "users", "id", u)
  <2>1. LawfulStatement(r, Need("users", u)) /\ Need("users", u).op = "need"
    BY IsCheck DEF Need, Checks
  <2>2. LawfulStatement(r, OneOfMany) /\ OneOfMany.op = "oneofmany"
    BY IsCheck DEF OneOfMany, Checks
  <2>3. LawfulStatement(r, Del("sessions", "user", u))
        /\ IsDel(Del("sessions", "user", u), "sessions", "user", u)
    BY DelIs DEF Tables
  <2>4. LawfulStatement(r, Del("users", "id", u))
        /\ IsDel(Del("users", "id", u), "users", "id", u)
    BY DelIs DEF Tables
  <2> QED
    BY <1>1, <2>1, <2>2, <2>3, <2>4
<1>4. \A i \in DOMAIN l : LawfulStatement(r, l[i])
  BY <1>1, <1>3
<1>5. /\ l # <<>> /\ l[1].op \in {"auth", "need"} /\ NoAuth(l)
      /\ \A i \in DOMAIN l : l[i].op \in {"need", "oneofmany", "del"} /\ ~(i > 4)
  <2>1. l # <<>>
    BY <1>1, EmptyListing
  <2>2. \A i \in DOMAIN l : l[i].op \in {"need", "oneofmany", "del"}
    BY <1>1, <1>3 DEF IsDel
  <2>3. \A i \in DOMAIN l : ~(i > 4)
    BY <1>1
  <2>4. NoAuth(l)
    BY <2>2 DEF NoAuth
  <2> QED
    BY <1>3, <2>1, <2>2, <2>3, <2>4
<1>6. \A i \in DOMAIN l : l[i].op = "del" /\ l[i].tab \in Targets \cup {"users"} => i = 4
  BY <1>1, <1>3, TargetsAre DEF IsDel
<1>7. l[4].tab = "users" /\ l[4].col = "id" /\ l[4].val = u
  BY <1>3 DEF IsDel
<1>8. ASSUME NEW f \in Refs, NEW v, f[1] # "sessions", <<f[3], v>> \in kills
      PROVE  f[1] = "tasks" /\ f[2] = "assignee"
  <2>1. f[3] = "users"
    BY <1>8
  <2> QED
    BY <1>8, <2>1, NamesOf
<1>9. GoodList(r, l, FALSE, u, kills)
  <2>1. \A i \in DOMAIN l : l[i].op = "del" /\ l[i].tab \in Targets =>
            /\ l[i].col = "id" /\ <<l[i].tab, l[i].val>> \in kills
            /\ \A j \in DOMAIN l : j > i => l[j].op \notin Checks
    <3>1. <<l[4].tab, l[4].val>> \in kills
      BY <1>7
    <3> QED
      BY <1>5, <1>6, <1>7, <3>1
  <2>2. \A i \in DOMAIN l : l[i].op \in Checks \cup {"await", "null", "del"}
    BY <1>5 DEF Checks
  <2> HIDE DEF kills
  <2> QED
    BY <1>1, <1>4, <1>5, <2>2, <1>8, <2>1, KillList
<1> QED
  BY <1>2, <1>9, Programs

LEMMA SetupGood ==
    ASSUME NEW r
    PROVE  Good(r, SetupSubmit(r))
<1> DEFINE a == Put("users", "first", User("admin", "start"))
           b == Put("sessions", r, Session("first", "start"))
           l == <<NoUsers, a, b>>
<1>1. Listing(l) /\ DOMAIN l = {1, 2, 3} /\ l[1] = NoUsers /\ l[2] = a /\ l[3] = b
  BY Three
<1>2. Easy(r, NoUsers) /\ Plain(r, a) /\ Plain(r, b)
  BY EasyStatements, PlainUser, PlainSession, RolesAre
<1>3. a.tab = "users" /\ b.tab = "sessions" /\ a.op = "put" /\ b.op = "put"
  BY DEF Put
<1>4. Good(r, SetupSubmit(r)) <=> Good(r, Sync(l))
  BY DEF SetupSubmit
<1> HIDE DEF l, a, b
<1>5. l # <<>> /\ (\A i \in DOMAIN l : Plain(r, l[i])) /\ l[1].op \notin {"put", "putpicked"}
  BY <1>1, <1>2, EmptyListing DEF Easy
<1>6. LawfulPuts(l)
  BY <1>1, <1>3, <1>5 DEF LawfulPuts
<1>7. GoodList(r, l, FALSE, None, {})
  BY <1>1, <1>5, <1>6, PlainList
<1> QED
  BY <1>4, <1>7, Programs

\* A password is set, and the sessions of its user go next.
LEMMA PasswordList ==
    ASSUME NEW r, NEW l, NEW async, NEW u, NEW n \in Nat, n > 1, Listing(l),
           NEW m, m = n + 1, Len(l) = m, DOMAIN l = 1 .. m, NEW pw, l[n] = Set("users", u, "pw", pw),
           \A i \in DOMAIN l : i < n => Easy(r, l[i]),
           LawfulStatement(r, l[m]), SignsOut(l[m], u)
    PROVE  GoodList(r, l, async, u, {})
<1>1. /\ l[n].op = "set" /\ l[n].tab = "users" /\ l[n].col = "pw" /\ l[n].id = u
      /\ LawfulStatement(r, l[n])
  <2>1. LawfulStatement(r, Set("users", u, "pw", pw))
    BY DEF LawfulStatement, Reads, Writes, Inserts, Checks, Set, SetColumns
  <2> QED
    BY <2>1 DEF Set
<1>2. l[m].op = "del" /\ l[m].tab = "sessions"
  BY DEF SignsOut
<1>3. \A i \in DOMAIN l : i < n \/ i = n \/ i = m
  OBVIOUS
<1>4. 1 \in DOMAIN l /\ 1 < n /\ n \in DOMAIN l /\ m \in DOMAIN l
  OBVIOUS
<1>5. l # <<>>
  BY <1>4, EmptyListing
<1>6. \A i \in DOMAIN l : /\ LawfulStatement(r, l[i]) /\ ~Demotes(l[i]) /\ ~Fires(l[i])
                          /\ l[i].op \notin {"put", "putpicked", "putnew"}
                          /\ ~(l[i].op = "del" /\ l[i].tab \in Targets)
  <2>1. \A i \in DOMAIN l : i < n => /\ LawfulStatement(r, l[i]) /\ ~Demotes(l[i]) /\ ~Fires(l[i])
                                     /\ l[i].op \notin {"put", "putpicked", "putnew"}
                                     /\ ~(l[i].op = "del" /\ l[i].tab \in Targets)
    BY DEF Easy, Plain
  <2>2. /\ ~Demotes(l[n]) /\ ~Fires(l[n]) /\ l[n].op \notin {"put", "putpicked", "putnew", "del"}
    BY <1>1 DEF Demotes, Fires
  <2>3. /\ ~Demotes(l[m]) /\ ~Fires(l[m])
        /\ l[m].op \notin {"put", "putpicked", "putnew"} /\ l[m].tab \notin Targets
    BY <1>2, TargetsAre DEF Demotes, Fires
  <2> QED
    BY <1>1, <1>3, <2>1, <2>2, <2>3
<1>7. LawfulPasswords(l, u)
  <2> SUFFICES ASSUME NEW i \in DOMAIN l, l[i].op = "set", l[i].tab = "users", l[i].col = "pw",
                      l[i].val # "given"
               PROVE  /\ u = l[i].id /\ i < Len(l) /\ SignsOut(l[i + 1], l[i].id)
                      /\ \A j \in DOMAIN l : j > i => l[j].op \notin Checks \cup Inserts
    BY DEF LawfulPasswords
  <2>1. i = n
    BY <1>2, <1>3 DEF Easy, Plain
  <2>2. \A j \in DOMAIN l : j > n => j = m
    OBVIOUS
  <2>3. l[m].op \notin Checks \cup Inserts
    BY <1>2 DEF Checks, Inserts
  <2> QED
    BY <2>1, <2>2, <2>3, <1>1
<1>8. LawfulPuts(l) /\ LawfulPicks(l, async) /\ LawfulMotors(l, async) /\ LawfulRoles(l, async, u)
  BY <1>6 DEF LawfulPuts, LawfulPicks, LawfulMotors, LawfulRoles
<1>9. LawfulKills(l, {})
  BY <1>6 DEF LawfulKills
<1>10. Lawful(r, l, async, u, {})
  BY <1>6, <1>7, <1>8, <1>9 DEF Lawful
<1>11. LawfulStart(l, async, u, {})
  BY <1>4, <1>5, <1>6 DEF LawfulStart
<1> QED
  BY <1>10, <1>11 DEF GoodList

LEMMA ChangePasswordGood ==
    ASSUME RegistryAssumption, NEW r, NEW s \in Tokens
    PROVE  Good(r, ChangePassword(r, s, Known["owner"][s]))
<1> DEFINE u == Known["owner"][s]
           l == <<Auth(s, FALSE), Await, Verify("start"), Set("users", u, "pw", r),
                  DelBut("sessions", "user", u, s)>>
<1>1. /\ Listing(l) /\ DOMAIN l = {1, 2, 3, 4, 5} /\ Len(l) = 5
      /\ l[1] = Auth(s, FALSE) /\ l[2] = Await /\ l[3] = Verify("start")
      /\ l[4] = Set("users", u, "pw", r) /\ l[5] = DelBut("sessions", "user", u, s)
  BY Five
<1>2. Good(r, ChangePassword(r, s, u)) <=> Good(r, On(u, Async(l)))
  BY DEF ChangePassword
<1>3. LawfulStatement(r, DelBut("sessions", "user", u, s))
      /\ SignsOut(DelBut("sessions", "user", u, s), u)
  BY DEF LawfulStatement, Reads, Writes, Inserts, Checks, DelBut, SignsOut, Tables
<1> HIDE DEF l, u
<1>4. Easy(r, Auth(s, FALSE)) /\ Easy(r, Await) /\ Easy(r, Verify("start"))
  BY EasyStatements
<1>5. DOMAIN l = 1 .. 5
  BY <1>1
<1>6. ASSUME NEW i \in DOMAIN l, i < 4
      PROVE  Easy(r, l[i])
  <2>1. i = 1 \/ i = 2 \/ i = 3
    BY <1>5, <1>6
  <2> QED
    BY <1>1, <1>4, <2>1
<1>7. GoodList(r, l, TRUE, u, {})
  <2>1. LawfulStatement(r, l[5]) /\ SignsOut(l[5], u) /\ 5 = 4 + 1 /\ 4 \in Nat /\ 4 > 1
    BY <1>1, <1>3
  <2> QED
    BY <1>1, <1>5, <1>6, <2>1, PasswordList
<1>8. Good(r, ChangePassword(r, s, u))
  BY <1>2, <1>7, Programs
<1> QED
  BY <1>8 DEF u

LEMMA CmdResetPasswordGood ==
    ASSUME NEW r, NEW u
    PROVE  Good(r, CmdResetPassword(r, u))
<1> DEFINE l == <<Need("users", u), Set("users", u, "pw", r), Del("sessions", "user", u)>>
<1>1. /\ Listing(l) /\ DOMAIN l = {1, 2, 3} /\ Len(l) = 3
      /\ l[1] = Need("users", u) /\ l[2] = Set("users", u, "pw", r)
      /\ l[3] = Del("sessions", "user", u)
  BY Three
<1>2. Good(r, CmdResetPassword(r, u)) <=> Good(r, On(u, Sync(l)))
  BY DEF CmdResetPassword
<1>3. LawfulStatement(r, Del("sessions", "user", u)) /\ SignsOut(Del("sessions", "user", u), u)
  BY DEF LawfulStatement, Reads, Writes, Inserts, Checks, Del, SignsOut, Tables
<1> HIDE DEF l
<1>4. Easy(r, l[1])
  BY <1>1, EasyStatements
<1>5. DOMAIN l = 1 .. 3
  BY <1>1
<1>6. ASSUME NEW i \in DOMAIN l, i < 2
      PROVE  Easy(r, l[i])
  <2>1. i = 1
    BY <1>5, <1>6
  <2> QED
    BY <1>4, <2>1
<1>7. GoodList(r, l, FALSE, u, {})
  <2>1. LawfulStatement(r, l[3]) /\ SignsOut(l[3], u) /\ 3 = 2 + 1 /\ 2 \in Nat /\ 2 > 1
    BY <1>1, <1>3
  <2> QED
    BY <1>1, <1>5, <1>6, <2>1, PasswordList
<1> QED
  BY <1>2, <1>7, Programs

\* The admins are counted right before a role is written.
LEMMA UpdateUserGood ==
    ASSUME NEW r, NEW s, NEW u, u # None, NEW role \in Roles
    PROVE  Good(r, UpdateUser(r, s, u, role))
<1> DEFINE c == Set("users", u, "role", role)
           l == <<Auth(s, TRUE), Need("users", u), Await, KeepAdmin(role), c>>
<1>1. /\ Listing(l) /\ DOMAIN l = {1, 2, 3, 4, 5} /\ Len(l) = 5
      /\ l[1] = Auth(s, TRUE) /\ l[2] = Need("users", u) /\ l[3] = Await
      /\ l[4] = KeepAdmin(role) /\ l[5] = c
  BY Five
<1>2. Good(r, UpdateUser(r, s, u, role)) <=> Good(r, On(u, Async(l)))
  BY DEF UpdateUser
<1>3. /\ LawfulStatement(r, c) /\ c.op = "set" /\ c.tab = "users" /\ c.col = "role" /\ c.id = u
      /\ c.val = role
  BY DEF LawfulStatement, Reads, Writes, Inserts, Checks, Set, SetColumns
<1>4. /\ l[2].op = "need" /\ l[2].tab = "users" /\ l[2].id = u /\ l[3].op = "await"
      /\ l[4].op = "keepadmin" /\ l[4].role = role
  BY <1>1 DEF Need, Await, KeepAdmin
<1> HIDE DEF l, c
<1>5. Easy(r, l[1]) /\ Easy(r, l[2]) /\ Easy(r, l[3]) /\ Easy(r, l[4])
  BY <1>1, EasyStatements
<1>6. l # <<>>
  BY <1>1, EmptyListing
<1>7. /\ \A i \in DOMAIN l : /\ LawfulStatement(r, l[i]) /\ ~Fires(l[i])
                             /\ l[i].op \notin {"put", "putpicked", "putnew"}
                             /\ ~(l[i].op = "del" /\ l[i].tab \in Targets)
      /\ \A i \in DOMAIN l : Demotes(l[i]) => i = 5 /\ role # "admin"
      /\ \A i \in DOMAIN l :
             ~(l[i].op = "set" /\ l[i].tab = "users" /\ l[i].col = "pw" /\ l[i].val # "given")
  <2>1. \A i \in DOMAIN l : i = 5 \/ Easy(r, l[i])
    BY <1>1, <1>5
  <2>2. \A i \in DOMAIN l : /\ LawfulStatement(r, l[i]) /\ ~Fires(l[i])
                             /\ l[i].op \notin {"put", "putpicked", "putnew"}
                             /\ ~(l[i].op = "del" /\ l[i].tab \in Targets)
    BY <1>1, <1>3, <2>1 DEF Easy, Plain, Fires
  <2>3. \A i \in DOMAIN l : Demotes(l[i]) => i = 5 /\ role # "admin"
    BY <1>1, <1>3, <2>1 DEF Easy, Plain, Demotes
  <2>4. \A i \in DOMAIN l :
            ~(l[i].op = "set" /\ l[i].tab = "users" /\ l[i].col = "pw" /\ l[i].val # "given")
    BY <1>1, <1>3, <2>1 DEF Easy, Plain
  <2> QED
    BY <2>2, <2>3, <2>4
<1>8. LawfulPuts(l) /\ LawfulPicks(l, TRUE) /\ LawfulMotors(l, TRUE) /\ LawfulPasswords(l, u)
  BY <1>7 DEF LawfulPuts, LawfulPicks, LawfulMotors, LawfulPasswords
<1>9. LawfulRoles(l, TRUE, u)
  <2>1. /\ l[5 - 1].op = "keepadmin" /\ l[5 - 1].role = role /\ l[5 - 2].op = "await"
        /\ l[5 - 3].op = "need" /\ l[5 - 3].tab = "users" /\ l[5 - 3].id = l[5].id /\ l[5].id = u
    BY <1>1, <1>3, <1>4
  <2> QED
    BY <1>7, <2>1 DEF LawfulRoles
<1>10. LawfulKills(l, {})
  BY <1>7 DEF LawfulKills
<1>11. Lawful(r, l, TRUE, u, {})
  BY <1>1, <1>7, <1>8, <1>9, <1>10 DEF Lawful
<1>12. LawfulStart(l, TRUE, u, {})
  BY <1>1, <1>6, <1>7 DEF LawfulStart
<1> QED
  BY <1>2, <1>11, <1>12, Programs DEF GoodList

\* Lists put together of statements that are plain and give no row an id of its own.
Mild(r, l) == Listing(l) /\ \A i \in DOMAIN l : Plain(r, l[i]) /\ l[i].op # "put"

LEMMA MildJoin ==
    ASSUME NEW r, NEW s, NEW t, Mild(r, s), Mild(r, t)
    PROVE  /\ Mild(r, s \o t)
           /\ s # <<>> => s \o t # <<>> /\ (s \o t)[1] = s[1]
<1>1. /\ Listing(s \o t) /\ Len(s) \in Nat /\ Len(t) \in Nat /\ DOMAIN s = 1 .. Len(s)
      /\ DOMAIN (s \o t) = 1 .. Len(s) + Len(t)
      /\ \A i \in DOMAIN s : (s \o t)[i] = s[i]
      /\ \A i \in DOMAIN (s \o t) : i > Len(s) => i - Len(s) \in DOMAIN t
                                                /\ (s \o t)[i] = t[i - Len(s)]
  BY Joined DEF Mild
<1> DEFINE l == s \o t
<1> HIDE DEF l
<1>2. ASSUME NEW i \in DOMAIN l
      PROVE  Plain(r, l[i]) /\ l[i].op # "put"
  <2>1. CASE i > Len(s)
    BY <1>1, <2>1 DEF Mild, l
  <2>2. CASE ~(i > Len(s))
    <3>1. i \in DOMAIN s
      BY <1>1, <2>2 DEF l
    <3> QED
      BY <1>1, <3>1 DEF Mild, l
  <2> QED
    BY <2>1, <2>2
<1>3. Mild(r, l)
  BY <1>1, <1>2 DEF Mild, l
<1>4. ASSUME s # <<>>
      PROVE  l # <<>> /\ l[1] = s[1]
  <2>1. 1 \in DOMAIN s /\ 1 \in DOMAIN l
    BY <1>1, <1>4, ListOf DEF Mild, l
  <2> QED
    BY <1>1, <2>1, EmptyListing DEF l
<1> QED
  BY <1>3, <1>4 DEF l

LEMMA MildGood ==
    ASSUME NEW r, NEW l, Mild(r, l), l # <<>>, l[1].op # "putpicked", NEW async, NEW on
    PROVE  GoodList(r, l, async, on, {})
<1>1. LawfulPuts(l)
  BY DEF Mild, LawfulPuts
<1> QED
  BY <1>1, PlainList DEF Mild

\* The last statement may.
LEMMA MildPut ==
    ASSUME NEW r, NEW s, Mild(r, s), s # <<>>, s[1].op # "putpicked", NEW a, NEW b,
           Easy(r, a), Plain(r, b), NEW async, NEW on
    PROVE  GoodList(r, s \o <<a, b>>, async, on, {})
<1> DEFINE t == <<a, b>>
           l == s \o t
<1>1. Listing(t) /\ DOMAIN t = {1, 2} /\ Len(t) = 2 /\ t[1] = a /\ t[2] = b
  BY Two
<1> HIDE DEF t
<1>0. /\ Listing(l) /\ Len(s) \in Nat /\ DOMAIN s = 1 .. Len(s) /\ DOMAIN l = 1 .. Len(s) + Len(t)
      /\ \A i \in DOMAIN s : l[i] = s[i]
      /\ \A i \in DOMAIN l : i > Len(s) => i - Len(s) \in DOMAIN t /\ l[i] = t[i - Len(s)]
  BY <1>1, Joined DEF Mild
<1>2. /\ Listing(l) /\ Len(s) \in Nat /\ DOMAIN s = 1 .. Len(s) /\ DOMAIN l = 1 .. Len(s) + 2
      /\ \A i \in DOMAIN s : l[i] = s[i]
      /\ \A i \in DOMAIN l : i > Len(s) => i - Len(s) \in DOMAIN t /\ l[i] = t[i - Len(s)]
  BY <1>0, <1>1
<1> HIDE DEF l
<1>3. ASSUME NEW i \in DOMAIN l
      PROVE  Plain(r, l[i]) /\ (l[i].op = "put" => i = Len(s) + 2)
  <2>1. CASE i > Len(s)
    <3>1. i = Len(s) + 1 \/ i = Len(s) + 2
      BY <1>2, <2>1
    <3>2. i = Len(s) + 1 => l[i] = a
      BY <1>1, <1>2, <2>1
    <3>3. i = Len(s) + 2 => l[i] = b
      BY <1>1, <1>2, <2>1
    <3> QED
      BY <3>1, <3>2, <3>3 DEF Easy
  <2>2. CASE ~(i > Len(s))
    <3>1. i \in DOMAIN s
      BY <1>2, <2>2
    <3> QED
      BY <1>2, <3>1 DEF Mild
  <2> QED
    BY <2>1, <2>2
<1>4. LawfulPuts(l)
  BY <1>3 DEF LawfulPuts
<1>5. 1 \in DOMAIN s /\ l[1] = s[1] /\ 1 \in DOMAIN l
  BY <1>2, ListOf DEF Mild
<1>6. l # <<>>
  BY <1>5, EmptyListing
<1>7. GoodList(r, l, async, on, {})
  BY <1>2, <1>3, <1>4, <1>5, <1>6, PlainList
<1> QED
  BY <1>7 DEF l, t

LEMMA MildTwo ==
    ASSUME NEW r, NEW a, NEW b, Plain(r, a), Plain(r, b), a.op # "put", b.op # "put"
    PROVE  Mild(r, <<a, b>>) /\ <<a, b>> # <<>> /\ <<a, b>>[1] = a
<1> DEFINE l == <<a, b>>
<1>1. Listing(l) /\ DOMAIN l = {1, 2} /\ l[1] = a /\ l[2] = b
  BY Two
<1> HIDE DEF l
<1>2. Mild(r, l) /\ l # <<>>
  BY <1>1, EmptyListing DEF Mild
<1> QED
  BY <1>1, <1>2 DEF l

LEMMA MildThree ==
    ASSUME NEW r, NEW a, NEW b, NEW c, Easy(r, a), Easy(r, b), Easy(r, c)
    PROVE  Mild(r, <<a, b, c>>) /\ <<a, b, c>> # <<>> /\ <<a, b, c>>[1] = a
<1> DEFINE l == <<a, b, c>>
<1>1. Listing(l) /\ DOMAIN l = {1, 2, 3} /\ l[1] = a /\ l[2] = b /\ l[3] = c
  BY Three
<1> HIDE DEF l
<1>2. Mild(r, l) /\ l # <<>>
  BY <1>1, EmptyListing DEF Mild, Easy
<1> QED
  BY <1>1, <1>2 DEF l

LEMMA MildOne ==
    ASSUME NEW r, NEW a, Easy(r, a)
    PROVE  Mild(r, <<a>>) /\ <<a>> # <<>> /\ <<a>>[1] = a
<1> DEFINE l == <<a>>
<1>1. Listing(l) /\ DOMAIN l = {1} /\ l[1] = a
  BY One
<1> HIDE DEF l
<1>2. Mild(r, l) /\ l # <<>>
  BY <1>1, EmptyListing DEF Mild, Easy
<1> QED
  BY <1>1, <1>2 DEF l

\* One statement for each element of a list.
LEMMA Mapped ==
    ASSUME NEW s, Listing(s), NEW k, k = [i \in DOMAIN s |-> k[i]]
    PROVE  Listing(k) /\ DOMAIN k = DOMAIN s /\ Len(k) \in Nat /\ DOMAIN k = 1 .. Len(k)
<1> DEFINE T == {k[i] : i \in DOMAIN s}
<1>1. Len(s) \in Nat /\ DOMAIN s = 1 .. Len(s)
  <2>1. s \in Seq({s[i] : i \in DOMAIN s})
    BY DEF Listing
  <2> QED
    BY <2>1, SequenceLists
<1>2. \A i \in DOMAIN s : k[i] \in T
  OBVIOUS
<1> HIDE DEF T
<1>3. k \in [1 .. Len(s) -> T]
  BY <1>1, <1>2
<1>4. ASSUME NEW n \in Nat, k \in [1 .. n -> T]
      PROVE  k \in Seq(T)
  BY <1>4
<1>5. k \in Seq(T)
  BY <1>1, <1>3, <1>4
<1> QED
  BY <1>5, SequenceLists

LEMMA RanksMild ==
    ASSUME NEW r, NEW tab \in RankTables, NEW ids, Listing(ids)
    PROVE  Mild(r, Ranks(tab, ids))
<1> DEFINE k == Ranks(tab, ids)
<1>1. k = [i \in DOMAIN ids |-> k[i]] /\ \A i \in DOMAIN ids : k[i] = Place(tab, ids[i], i - 1)
  BY DEF Ranks
<1> HIDE DEF k
<1>2. Listing(k) /\ DOMAIN k = DOMAIN ids
  BY <1>1, Mapped
<1>3. \A x, n : Easy(r, Place(tab, x, n))
  BY EasyPlace
<1>4. \A i \in DOMAIN ids : Easy(r, k[i])
  BY <1>1, <1>3
<1> QED
  BY <1>2, <1>4 DEF Mild, Easy, k

LEMMA CameraSortMild ==
    ASSUME NEW r, NEW pairs, Listing(pairs),
           \A i \in DOMAIN pairs : pairs[i][1] \in {"cameras", "virtual"}
    PROVE  Mild(r, SetCameraSort(pairs))
<1> DEFINE k == SetCameraSort(pairs)
<1>1. /\ k = [i \in DOMAIN pairs |-> k[i]]
      /\ \A i \in DOMAIN pairs : k[i] = Place(pairs[i][1], pairs[i][2], i - 1)
  BY DEF SetCameraSort
<1> HIDE DEF k
<1>2. Listing(k) /\ DOMAIN k = DOMAIN pairs
  BY <1>1, Mapped
<1>3. \A t \in {"cameras", "virtual"} : \A x, n : Easy(r, Place(t, x, n))
  BY EasyPlace DEF RankTables
<1>4. \A i \in DOMAIN pairs : Easy(r, k[i])
  BY <1>1, <1>3
<1> QED
  BY <1>2, <1>4 DEF Mild, Easy, k

LEMMA OrderGood ==
    ASSUME NEW r, NEW a, NEW admin, NEW places, Mild(r, places)
    PROVE  Good(r, Async(<<Auth(a, admin), Await>> \o places))
<1> DEFINE s == <<Auth(a, admin), Await>>
<1>1. Easy(r, Auth(a, admin)) /\ Easy(r, Await)
  BY EasyStatements
<1>2. Mild(r, s) /\ s # <<>> /\ s[1].op # "putpicked"
  BY <1>1, MildTwo DEF Easy
<1> HIDE DEF s
<1>3. Mild(r, s \o places) /\ s \o places # <<>> /\ (s \o places)[1] = s[1]
  BY <1>2, MildJoin
<1>4. GoodList(r, s \o places, TRUE, None, {})
  BY <1>2, <1>3, MildGood
<1>5. Good(r, Async(s \o places))
  BY <1>4, Programs
<1> QED
  BY <1>5 DEF s

LEMMA OrdersGood ==
    ASSUME RegistryAssumption, NEW r, NEW a
    PROVE  /\ \A o \in Orders["cameras"] : Good(r, CameraOrder(a, o))
           /\ \A o \in Orders["rooms"] : Good(r, RoomOrder(a, o))
           /\ \A o \in Orders["coverings"] : Good(r, CoveringOrder(a, o))
           /\ \A o \in Orders["tasks"] : Good(r, TaskOrder(a, o))
<1>1. ASSUME NEW o \in Orders["cameras"]
      PROVE  Good(r, CameraOrder(a, o))
  <2>1. Listing(o) /\ \A i \in DOMAIN o : o[i][1] \in {"cameras", "virtual"}
    BY DEF RegistryAssumption, Pages
  <2>2. Mild(r, SetCameraSort(o))
    BY <2>1, CameraSortMild
  <2> QED
    BY <2>2, OrderGood DEF CameraOrder
<1>2. ASSUME NEW t \in {"rooms", "coverings", "tasks"}, NEW o \in Orders[t]
      PROVE  Mild(r, Ranks(t, o))
  <2>1. Listing(o) /\ t \in RankTables
    BY DEF RegistryAssumption, RankTables, Pages
  <2> QED
    BY <2>1, RanksMild
<1>3. ASSUME NEW o \in Orders["rooms"]
      PROVE  Good(r, RoomOrder(a, o))
  BY <1>2, OrderGood DEF RoomOrder, SetRoomOrder
<1>4. ASSUME NEW o \in Orders["coverings"]
      PROVE  Good(r, CoveringOrder(a, o))
  BY <1>2, OrderGood DEF CoveringOrder, SetCoveringOrder
<1>5. ASSUME NEW o \in Orders["tasks"]
      PROVE  Good(r, TaskOrder(a, o))
  BY <1>2, OrderGood DEF TaskOrder, SetTaskOrder
<1> QED
  BY <1>1, <1>3, <1>4, <1>5

LEMMA SharedMild ==
    ASSUME NEW r
    PROVE  Mild(r, EnsureShared)
<1>1. Easy(r, Seed("calendars", "family"))
  BY EasyStatements
<1>2. /\ Plain(r, PutPicked("calendars", [owner |-> None]))
      /\ PutPicked("calendars", [owner |-> None]).op # "put"
  BY PlainPick
<1> QED
  BY <1>1, <1>2, MildTwo DEF EnsureShared, Easy

LEMMA CalendarPageGood ==
    ASSUME NEW r, NEW s
    PROVE  Good(r, CalendarPage(s))
<1> DEFINE h == <<Auth(s, FALSE)>>
<1>1. Easy(r, Auth(s, FALSE))
  BY EasyStatements
<1>2. Mild(r, h) /\ h # <<>> /\ h[1].op # "putpicked"
  BY <1>1, MildOne DEF Easy
<1> HIDE DEF h
<1>3. Mild(r, h \o EnsureShared) /\ h \o EnsureShared # <<>> /\ (h \o EnsureShared)[1] = h[1]
  BY <1>2, SharedMild, MildJoin
<1>4. GoodList(r, h \o EnsureShared, FALSE, None, {})
  BY <1>2, <1>3, MildGood
<1>5. Good(r, Sync(h \o EnsureShared))
  BY <1>4, Programs
<1> QED
  BY <1>5 DEF h, CalendarPage

LEMMA AddEventGood ==
    ASSUME NEW r, NEW s, NEW y
    PROVE  Good(r, AddEvent(r, s, y))
<1> DEFINE h == <<Auth(s, FALSE), Await>>
           m == h \o EnsureShared
           b == Put("events", r, [calendar |-> y])
<1>1. Easy(r, Auth(s, FALSE)) /\ Easy(r, Await) /\ Easy(r, MayWrite(y)) /\ Plain(r, b)
  BY EasyStatements, PlainRows
<1>2. Mild(r, h) /\ h # <<>> /\ h[1].op # "putpicked"
  BY <1>1, MildTwo DEF Easy
<1> HIDE DEF h, b
<1>3. Mild(r, m) /\ m # <<>> /\ m[1].op # "putpicked"
  BY <1>2, SharedMild, MildJoin
<1> HIDE DEF m
<1>4. GoodList(r, m \o <<MayWrite(y), b>>, TRUE, None, {})
  BY <1>1, <1>3, MildPut
<1>5. Good(r, Async(m \o <<MayWrite(y), b>>))
  BY <1>4, Programs
<1> QED
  BY <1>5 DEF m, h, b, AddEvent

LEMMA UpdateEventGood ==
    ASSUME NEW r, NEW s, NEW e, NEW y
    PROVE  Good(r, UpdateEvent(s, e, y))
<1> DEFINE c == Set("events", e, "calendar", y)
           l == <<Auth(s, FALSE), Need("events", e), MayWrite(None), Await, MayWrite(y), c>>
<1>1. /\ Listing(l) /\ DOMAIN l = {1, 2, 3, 4, 5, 6} /\ l[1] = Auth(s, FALSE)
      /\ l[2] = Need("events", e) /\ l[3] = MayWrite(None) /\ l[4] = Await
      /\ l[5] = MayWrite(y) /\ l[6] = c
  BY Six
<1>2. /\ Easy(r, Auth(s, FALSE)) /\ Easy(r, Need("events", e)) /\ Easy(r, MayWrite(None))
      /\ Easy(r, Await) /\ Easy(r, MayWrite(y)) /\ Easy(r, c)
  BY EasyStatements, EasySet, ColumnsAre
<1>3. Good(r, UpdateEvent(s, e, y)) <=> Good(r, Async(l))
  BY DEF UpdateEvent
<1> HIDE DEF l, c
<1>4. \A i \in DOMAIN l : Easy(r, l[i])
  BY <1>1, <1>2
<1>5. l # <<>>
  BY <1>1, EmptyListing
<1>6. Mild(r, l) /\ l[1].op # "putpicked"
  BY <1>1, <1>4 DEF Mild, Easy
<1>7. GoodList(r, l, TRUE, None, {})
  BY <1>5, <1>6, MildGood
<1> QED
  BY <1>3, <1>7, Programs

LEMMA NetworkScanGood ==
    ASSUME RegistryAssumption, NEW r, NEW a
    PROVE  Good(r, NetworkScan(a))
<1> DEFINE h == <<Auth(a, TRUE), Await, Seed("lan", "first")>>
           k == [i \in DOMAIN Addresses |-> Upsert("lan", Addresses[i], Sighting("no"))]
           t == <<MarkAll>>
<1>1. Mild(r, h) /\ h # <<>> /\ h[1].op # "putpicked"
  <2>1. Easy(r, Auth(a, TRUE)) /\ Easy(r, Await) /\ Easy(r, Seed("lan", "first"))
    BY EasyStatements
  <2> QED
    BY <2>1, MildThree DEF Easy
<1>2. Mild(r, k)
  <2>1. Listing(Addresses)
    BY DEF RegistryAssumption
  <2>2. k = [i \in DOMAIN Addresses |-> k[i]]
        /\ \A i \in DOMAIN Addresses : k[i] = Upsert("lan", Addresses[i], Sighting("no"))
    OBVIOUS
  <2> HIDE DEF k
  <2>3. Listing(k) /\ DOMAIN k = DOMAIN Addresses
    BY <2>1, <2>2, Mapped
  <2>4. \A x, row : Easy(r, Upsert("lan", x, row))
    BY EasyUpsert
  <2>5. \A i \in DOMAIN k : Easy(r, k[i])
    BY <2>2, <2>3, <2>4
  <2> QED
    BY <2>3, <2>5 DEF Mild, Easy
<1>3. Mild(r, t)
  <2>1. Easy(r, MarkAll)
    BY EasyStatements
  <2> QED
    BY <2>1, MildOne
<1> DEFINE m == h \o k
<1> HIDE DEF h, k, t
<1>4. Mild(r, m) /\ m # <<>> /\ m[1].op # "putpicked"
  BY <1>1, <1>2, MildJoin
<1> HIDE DEF m
<1>5. Mild(r, m \o t) /\ m \o t # <<>> /\ (m \o t)[1] = m[1]
  BY <1>3, <1>4, MildJoin
<1>6. GoodList(r, m \o t, TRUE, None, {})
  BY <1>4, <1>5, MildGood
<1>7. Good(r, Async(m \o t))
  BY <1>6, Programs
<1> QED
  BY <1>7 DEF m, h, k, t, NetworkScan

\* A name is taken by the statement after the one that looked for it.
LEMMA PickListGood ==
    ASSUME NEW r, NEW a, NEW t \in {"cameras", "devices"}, NEW row
    PROVE  GoodList(r, <<Auth(a, TRUE), Await, Unique(t), PutPicked(t, row)>>, TRUE, None, {})
<1> DEFINE c == PutPicked(t, row)
           l == <<Auth(a, TRUE), Await, Unique(t), c>>
<1>1. /\ Listing(l) /\ DOMAIN l = {1, 2, 3, 4} /\ l[1] = Auth(a, TRUE) /\ l[2] = Await
      /\ l[3] = Unique(t) /\ l[4] = c
  BY Four
<1>2. Easy(r, Auth(a, TRUE)) /\ Easy(r, Await) /\ Easy(r, Unique(t))
  BY EasyStatements
<1>3. c.op = "putpicked" /\ c.tab = t /\ LawfulStatement(r, c)
  BY DEF PutPicked, LawfulStatement, Reads, Writes, Inserts, Checks, PickTables
<1>4. l[3].op = "unique" /\ l[3].tab = t
  BY <1>1 DEF Unique
<1> HIDE DEF l, c
<1>5. l # <<>>
  BY <1>1, EmptyListing
<1>6. \A i \in DOMAIN l : i = 4 \/ Easy(r, l[i])
  BY <1>1, <1>2
<1>7. \A i \in DOMAIN l : /\ LawfulStatement(r, l[i]) /\ ~Fires(l[i]) /\ ~Demotes(l[i])
                          /\ l[i].op \notin {"put", "putnew"}
                          /\ (l[i].op = "putpicked" => i = 4)
                          /\ ~(l[i].op = "del" /\ l[i].tab \in Targets)
  BY <1>1, <1>3, <1>6 DEF Easy, Plain, Fires, Demotes
<1>8. \A i \in DOMAIN l :
          ~(l[i].op = "set" /\ l[i].tab = "users" /\ l[i].col = "pw" /\ l[i].val # "given")
  BY <1>1, <1>3, <1>6 DEF Easy, Plain
<1>9. LawfulPuts(l) /\ LawfulMotors(l, TRUE) /\ LawfulRoles(l, TRUE, None) /\ LawfulPasswords(l, None)
  BY <1>7, <1>8 DEF LawfulPuts, LawfulMotors, LawfulRoles, LawfulPasswords
<1>10. LawfulPicks(l, TRUE)
  <2>1. l[4 - 1].op = "unique" /\ l[4 - 1].tab = l[4].tab
    BY <1>1, <1>3, <1>4
  <2> QED
    BY <1>7, <2>1 DEF LawfulPicks
<1>11. LawfulKills(l, {})
  BY <1>7 DEF LawfulKills
<1>12. Lawful(r, l, TRUE, None, {})
  BY <1>1, <1>7, <1>9, <1>10, <1>11 DEF Lawful
<1>13. LawfulStart(l, TRUE, None, {})
  <2>1. l[1].op \notin {"putpicked", "putnew"}
    BY <1>1, <1>2 DEF Easy, Plain
  <2>2. {k[2] : k \in {}} = {}
    OBVIOUS
  <2> QED
    BY <1>5, <1>7, <2>1, <2>2 DEF LawfulStart
<1>14. GoodList(r, l, TRUE, None, {})
  BY <1>12, <1>13 DEF GoodList
<1> QED
  BY <1>14 DEF l, c

LEMMA PicksGood ==
    ASSUME NEW r, NEW a
    PROVE  Good(r, AddCamera(a)) /\ Good(r, AddDevice(a))
<1>1. GoodList(r, <<Auth(a, TRUE), Await, Unique("cameras"),
                    PutPicked("cameras", [archived |-> "no", rank |-> 0])>>, TRUE, None, {})
  BY PickListGood
<1>2. GoodList(r, <<Auth(a, TRUE), Await, Unique("devices"),
                    PutPicked("devices", [enabled |-> "yes"])>>, TRUE, None, {})
  BY PickListGood
<1> QED
  BY <1>1, <1>2, Programs DEF AddCamera, AddDevice, UniqueDeviceId

\* The motors of a hub are looked at and the new ones put at once.
LEMMA SyncIs ==
    ASSUME RegistryAssumption, NEW h \in DOMAIN Motors
    PROVE  LET k == SyncHubCoverings(h) IN
           /\ Listing(k) /\ Len(k) \in Nat /\ DOMAIN k = 1 .. Len(k) /\ 1 \in DOMAIN k
           /\ k[1] = Listed("coverings", "hub", h)
           /\ \A i \in DOMAIN k : i # 1 =>
                  /\ i - 1 \in DOMAIN Motors[h]
                  /\ k[i] = PutNew("coverings", Motors[h][i - 1], Covering(h, None))
<1> DEFINE s == <<Listed("coverings", "hub", h)>>
           m == Motors[h]
           t == [i \in DOMAIN m |-> PutNew("coverings", m[i], Covering(h, None))]
           k == s \o t
<1>1. Listing(m)
  BY DEF RegistryAssumption
<1>2. /\ t = [i \in DOMAIN m |-> t[i]]
      /\ \A i \in DOMAIN m : t[i] = PutNew("coverings", m[i], Covering(h, None))
  OBVIOUS
<1>3. Listing(s) /\ Len(s) = 1 /\ DOMAIN s = {1} /\ s[1] = Listed("coverings", "hub", h)
  BY One
<1>4. SyncHubCoverings(h) = k
  BY DEF SyncHubCoverings
<1> HIDE DEF t, m, s
<1>5. Listing(t) /\ DOMAIN t = DOMAIN m
  BY <1>1, <1>2, Mapped
<1>6. /\ Listing(k) /\ Len(s) \in Nat /\ Len(t) \in Nat
      /\ DOMAIN k = 1 .. Len(s) + Len(t) /\ Len(k) = Len(s) + Len(t)
      /\ \A i \in DOMAIN s : k[i] = s[i]
      /\ \A i \in DOMAIN k : i > Len(s) => i - Len(s) \in DOMAIN t /\ k[i] = t[i - Len(s)]
  <2>1. Listing(s) /\ Listing(t)
    BY <1>3, <1>5
  <2>2. Listing(k) /\ Len(s) \in Nat /\ Len(t) \in Nat
    BY <2>1, Joined
  <2>3. DOMAIN k = 1 .. Len(s) + Len(t) /\ Len(k) = Len(s) + Len(t)
    BY <2>1, Joined
  <2>4. ASSUME NEW i \in DOMAIN s
        PROVE  k[i] = s[i]
    BY <1>3, <2>1, <2>2, <2>3
  <2>5. \A i \in DOMAIN k : i > Len(s) => i - Len(s) \in DOMAIN t /\ k[i] = t[i - Len(s)]
    BY <2>1, Joined
  <2> QED
    BY <2>2, <2>3, <2>4, <2>5
<1> HIDE DEF k
<1>7. DOMAIN k = 1 .. Len(k) /\ Len(k) \in Nat /\ 1 \in DOMAIN k
  BY <1>3, <1>6
<1>8. k[1] = Listed("coverings", "hub", h)
  BY <1>3, <1>6
<1>9. ASSUME NEW i \in DOMAIN k, i # 1
      PROVE  /\ i - 1 \in DOMAIN m
             /\ k[i] = PutNew("coverings", m[i - 1], Covering(h, None))
  <2>1. i > 1
    BY <1>7, <1>9
  <2> QED
    BY ZenonT(60), <2>1, <1>2, <1>3, <1>5, <1>6
<1>10. /\ Listing(k) /\ Len(k) \in Nat /\ DOMAIN k = 1 .. Len(k) /\ 1 \in DOMAIN k
       /\ k[1] = Listed("coverings", "hub", h)
       /\ \A i \in DOMAIN k : i # 1 =>
              /\ i - 1 \in DOMAIN m
              /\ k[i] = PutNew("coverings", m[i - 1], Covering(h, None))
  BY <1>6, <1>7, <1>8, <1>9
<1> QED
  BY <1>4, <1>10 DEF m

LEMMA MotorPut ==
    ASSUME NEW r, NEW h \in DOMAIN Motors, NEW i \in DOMAIN Motors[h], NEW c,
           c = PutNew("coverings", Motors[h][i], Covering(h, None))
    PROVE  /\ c.op = "putnew" /\ c.row.hub = h /\ c.id = Motors[h][i]
           /\ LawfulStatement(r, c)
<1>1. /\ c.op = "putnew" /\ c.row.hub = h /\ c.id = Motors[h][i] /\ c.tab = "coverings"
      /\ c.row = Covering(h, None)
  BY DEF PutNew, Covering
<1>2. HasColumns("coverings", Covering(h, None))
  BY DEF HasColumns, Covering, Refs, FootageRefs, ScheduleRefs, CoveringRefs, TaskRefs
<1> QED
  BY <1>1, <1>2 DEF LawfulStatement, Reads, Writes, Inserts, Checks

\* What comes before may be the hub itself.
Hub(r, c) == Easy(r, c) \/ (c.op = "putpicked" /\ c.tab = "hubs" /\ LawfulStatement(r, c))

LEMMA SyncGood ==
    ASSUME RegistryAssumption, NEW r, NEW h \in DOMAIN Motors, NEW s, Listing(s), s # <<>>,
           \A i \in DOMAIN s : Hub(r, s[i]), Easy(r, s[1]),
           \A i \in DOMAIN s : s[i].op = "putpicked" /\ i > 1 =>
               s[i - 1].op = "seed" /\ s[i - 1].tab = "hubs"
    PROVE  GoodList(r, s \o SyncHubCoverings(h), TRUE, None, {})
<1> DEFINE k == SyncHubCoverings(h)
           n == Len(s)
           l == s \o k
<1>1. /\ Listing(k) /\ Len(k) \in Nat /\ DOMAIN k = 1 .. Len(k) /\ 1 \in DOMAIN k
      /\ k[1] = Listed("coverings", "hub", h)
      /\ \A i \in DOMAIN k : i # 1 =>
             /\ i - 1 \in DOMAIN Motors[h]
             /\ k[i] = PutNew("coverings", Motors[h][i - 1], Covering(h, None))
  BY SyncIs
<1> HIDE DEF k
<1>2. /\ Listing(l) /\ n \in Nat /\ DOMAIN s = 1 .. n /\ DOMAIN l = 1 .. n + Len(k)
      /\ \A i \in DOMAIN s : l[i] = s[i]
      /\ \A i \in DOMAIN l : i > n => i - n \in DOMAIN k /\ l[i] = k[i - n]
  BY <1>1, Joined
<1>3. 1 \in DOMAIN s /\ n > 0
  BY ListOf
<1> HIDE DEF l, n
<1>4. ASSUME NEW i \in DOMAIN l
      PROVE  /\ i \in Nat /\ i \geq 1
             /\ i \leq n => i \in DOMAIN s /\ l[i] = s[i]
             /\ i = n + 1 => l[i] = Listed("coverings", "hub", h)
             /\ i > n + 1 => /\ i - n - 1 \in DOMAIN Motors[h]
                             /\ l[i] = PutNew("coverings", Motors[h][i - n - 1], Covering(h, None))
  <2>1. i \in Nat /\ i \geq 1
    BY <1>1, <1>2
  <2>2. i \leq n => i \in DOMAIN s /\ l[i] = s[i]
    BY <1>2, <2>1
  <2>3. i = n + 1 => l[i] = Listed("coverings", "hub", h)
    <3>1. i = n + 1 => i - n = 1 /\ i > n
      BY <2>1, <1>2
    <3> QED
      BY <1>1, <1>2, <3>1
  <2>4. ASSUME i > n + 1
        PROVE  /\ i - n - 1 \in DOMAIN Motors[h]
               /\ l[i] = PutNew("coverings", Motors[h][i - n - 1], Covering(h, None))
    <3>1. i > n /\ i - n # 1
      BY <1>2, <2>1, <2>4
    <3>2. i - n \in DOMAIN k /\ l[i] = k[i - n]
      BY <1>2, <3>1
    <3> QED
      BY <1>1, <3>1, <3>2
  <2> QED
    BY <2>1, <2>2, <2>3, <2>4
<1>5. /\ LawfulStatement(r, Listed("coverings", "hub", h))
      /\ Listed("coverings", "hub", h).op = "listed"
      /\ Listed("coverings", "hub", h).tab = "coverings"
      /\ Listed("coverings", "hub", h).col = "hub"
      /\ Listed("coverings", "hub", h).val = h
  BY DEF Listed, LawfulStatement, Reads, Writes, Inserts, Checks
<1>6. ASSUME NEW i \in DOMAIN l, i > n + 1
      PROVE  /\ l[i].op = "putnew" /\ l[i].row.hub = h /\ LawfulStatement(r, l[i])
             /\ l[i].id = Motors[h][i - n - 1] /\ i - n - 1 \in DOMAIN Motors[h]
  BY <1>4, <1>6, MotorPut
<1>7. ASSUME NEW i \in DOMAIN l
      PROVE  /\ LawfulStatement(r, l[i])
             /\ l[i].op # "put" /\ ~Demotes(l[i]) /\ ~Fires(l[i])
             /\ ~(l[i].op = "del" /\ l[i].tab \in Targets)
             /\ ~(l[i].op = "set" /\ l[i].tab = "users" /\ l[i].col = "pw" /\ l[i].val # "given")
             /\ l[i].op = "putnew" => i > n + 1
             /\ l[i].op = "putpicked" => i \leq n /\ l[i].tab = "hubs"
  <2>1. CASE i \leq n
    <3>1. Hub(r, l[i])
      BY <1>4, <2>1
    <3> QED
      BY <3>1, <2>1 DEF Hub, Easy, Plain, Demotes, Fires
  <2>2. CASE i = n + 1
    BY <1>4, <1>5, <2>2 DEF Demotes, Fires
  <2>3. CASE i > n + 1
    BY <1>6, <2>3 DEF Demotes, Fires
  <2> QED
    BY <2>1, <2>2, <2>3, <1>2, <1>4
<1>8. LawfulPuts(l) /\ LawfulRoles(l, TRUE, None) /\ LawfulPasswords(l, None) /\ LawfulKills(l, {})
  BY <1>7 DEF LawfulPuts, LawfulRoles, LawfulPasswords, LawfulKills
<1>9. LawfulPicks(l, TRUE)
  <2> SUFFICES ASSUME NEW i \in DOMAIN l, l[i].op = "putpicked", i > 1
               PROVE  l[i - 1].op = "seed" /\ l[i - 1].tab = l[i].tab
    BY DEF LawfulPicks
  <2>1. i \leq n /\ l[i].tab = "hubs" /\ i \in DOMAIN s /\ l[i] = s[i]
    BY <1>4, <1>7
  <2>2. s[i - 1].op = "seed" /\ s[i - 1].tab = "hubs"
    BY <2>1
  <2>3. i - 1 \in DOMAIN s
    BY <1>2, <2>1
  <2> QED
    BY <1>2, <2>1, <2>2, <2>3
<1>10. LawfulMotors(l, TRUE)
  <2> SUFFICES ASSUME NEW i \in DOMAIN l, l[i].op = "putnew"
               PROVE  /\ \A j \in DOMAIN l : l[j].op = "putnew" =>
                             l[j].row.hub = l[i].row.hub /\ (l[j].id = l[i].id => i = j)
                      /\ i > 1 => \/ l[i - 1].op = "putnew"
                                  \/ /\ l[i - 1].op = "listed" /\ l[i - 1].tab = "coverings"
                                     /\ l[i - 1].col = "hub" /\ l[i - 1].val = l[i].row.hub
    BY DEF LawfulMotors
  <2>1. i > n + 1
    BY <1>7
  <2>2. l[i].row.hub = h /\ l[i].id = Motors[h][i - n - 1] /\ i - n - 1 \in DOMAIN Motors[h]
    BY <1>6, <2>1
  <2>3. ASSUME NEW j \in DOMAIN l, l[j].op = "putnew"
        PROVE  l[j].row.hub = l[i].row.hub /\ (l[j].id = l[i].id => i = j)
    <3>1. j > n + 1
      BY <1>7, <2>3
    <3>2. l[j].row.hub = h /\ l[j].id = Motors[h][j - n - 1] /\ j - n - 1 \in DOMAIN Motors[h]
      BY <1>6, <3>1
    <3>3. Motors[h][j - n - 1] = Motors[h][i - n - 1] => j - n - 1 = i - n - 1
      BY <2>2, <3>2 DEF RegistryAssumption
    <3>4. i \in Nat /\ j \in Nat /\ n \in Nat
      BY <1>2, <1>4
    <3>5. j - n - 1 = i - n - 1 => i = j
      BY <3>4
    <3> QED
      BY <2>2, <3>2, <3>3, <3>5
  <2>4. i - 1 \in DOMAIN l /\ (i - 1 = n + 1 \/ i - 1 > n + 1)
    BY <1>1, <1>2, <2>1
  <2>5. i - 1 = n + 1 => l[i - 1] = Listed("coverings", "hub", h)
    BY <1>4, <2>4
  <2>6. i - 1 > n + 1 => l[i - 1].op = "putnew"
    BY <1>6, <2>4
  <2> QED
    BY <1>5, <2>2, <2>3, <2>4, <2>5, <2>6
<1>11. Lawful(r, l, TRUE, None, {})
  BY <1>2, <1>7, <1>8, <1>9, <1>10 DEF Lawful
<1>12. LawfulStart(l, TRUE, None, {})
  <2>1. 1 \in DOMAIN l /\ l[1] = s[1]
    BY <1>1, <1>2, <1>3
  <2>2. l # <<>>
    BY <2>1, EmptyListing
  <2>3. l[1].op \notin {"putpicked", "putnew"}
    BY <2>1 DEF Easy, Plain
  <2>4. {x[2] : x \in {}} = {}
    OBVIOUS
  <2> QED
    BY <1>7, <2>2, <2>3, <2>4 DEF LawfulStart
<1>13. GoodList(r, l, TRUE, None, {})
  BY <1>11, <1>12 DEF GoodList
<1> QED
  BY <1>13 DEF l, k

LEMMA RefreshHubGood ==
    ASSUME RegistryAssumption, NEW r, NEW a, NEW h \in DOMAIN Motors
    PROVE  Good(r, RefreshHub(a, h))
<1> DEFINE s == <<Auth(a, TRUE), Need("hubs", h), Await>>
<1>1. Listing(s) /\ DOMAIN s = {1, 2, 3} /\ s[1] = Auth(a, TRUE) /\ s[2] = Need("hubs", h)
      /\ s[3] = Await
  BY Three
<1>2. Easy(r, Auth(a, TRUE)) /\ Easy(r, Need("hubs", h)) /\ Easy(r, Await)
  BY EasyStatements
<1> HIDE DEF s
<1>3. s # <<>>
  BY <1>1, EmptyListing
<1>4. \A i \in DOMAIN s : Easy(r, s[i])
  BY <1>1, <1>2
<1>5. \A i \in DOMAIN s : Hub(r, s[i]) /\ s[i].op # "putpicked"
  BY <1>4 DEF Hub, Easy
<1>6. GoodList(r, s \o SyncHubCoverings(h), TRUE, None, {})
  <2>1. Easy(r, s[1])
    BY <1>1, <1>2
  <2>2. \A i \in DOMAIN s : s[i].op = "putpicked" /\ i > 1 =>
            s[i - 1].op = "seed" /\ s[i - 1].tab = "hubs"
    BY <1>5
  <2> QED
    BY <1>1, <1>3, <1>5, <2>1, <2>2, SyncGood
<1>7. Good(r, Async(s \o SyncHubCoverings(h)))
  BY <1>6, Programs
<1> QED
  BY <1>7 DEF s, RefreshHub

LEMMA AddHubGood ==
    ASSUME RegistryAssumption, NEW r, NEW a, NEW h \in DOMAIN Motors
    PROVE  Good(r, AddHub(a, h))
<1> DEFINE c == PutPicked("hubs", [enabled |-> "yes"])
           s == <<Auth(a, TRUE), Await, Await, Seed("hubs", h), c>>
<1>1. Listing(s) /\ DOMAIN s = {1, 2, 3, 4, 5} /\ s[1] = Auth(a, TRUE) /\ s[2] = Await
      /\ s[3] = Await /\ s[4] = Seed("hubs", h) /\ s[5] = c
  BY Five
<1>2. Easy(r, Auth(a, TRUE)) /\ Easy(r, Await) /\ Easy(r, Seed("hubs", h))
  BY EasyStatements
<1>3. c.op = "putpicked" /\ c.tab = "hubs" /\ LawfulStatement(r, c)
  BY DEF PutPicked, LawfulStatement, Reads, Writes, Inserts, Checks, PickTables
<1>4. Seed("hubs", h).op = "seed" /\ Seed("hubs", h).tab = "hubs"
  BY DEF Seed
<1>5. Good(r, AddHub(a, h)) <=> Good(r, Async(s \o SyncHubCoverings(h)))
  BY DEF AddHub
<1> HIDE DEF s, c
<1>6. s # <<>>
  BY <1>1, EmptyListing
<1>7. \A i \in DOMAIN s : i = 5 \/ Easy(r, s[i])
  BY <1>1, <1>2
<1>8. \A i \in DOMAIN s : Hub(r, s[i]) /\ (s[i].op = "putpicked" => i = 5)
  BY <1>1, <1>3, <1>7 DEF Hub, Easy
<1>9. \A i \in DOMAIN s : s[i].op = "putpicked" /\ i > 1 =>
          s[i - 1].op = "seed" /\ s[i - 1].tab = "hubs"
  <2>1. s[5 - 1].op = "seed" /\ s[5 - 1].tab = "hubs"
    BY <1>1, <1>4
  <2> QED
    BY <1>8, <2>1
<1>10. GoodList(r, s \o SyncHubCoverings(h), TRUE, None, {})
  BY <1>1, <1>2, <1>6, <1>8, <1>9, SyncGood
<1> QED
  BY <1>5, <1>10, Programs

LEMMA SameEnd ==
    ASSUME NEW a \in Nat, NEW b \in Nat, 1 .. a = 1 .. b
    PROVE  a = b
<1>1. a > 0 => a \in 1 .. a
  OBVIOUS
<1>2. b > 0 => b \in 1 .. b
  OBVIOUS
<1>3. (a > 0 => a \leq b) /\ (b > 0 => b \leq a)
  BY <1>1, <1>2
<1> QED
  BY <1>3

Spliced(x, s, t) == x = s \o t

LEMMA JoinedAt ==
    ASSUME NEW s, NEW t, Listing(s), Listing(t), NEW x, Spliced(x, s, t)
    PROVE  /\ Listing(x) /\ Len(s) \in Nat /\ Len(t) \in Nat
           /\ Len(x) = Len(s) + Len(t) /\ DOMAIN x = 1 .. Len(s) + Len(t)
           /\ \A i \in 1 .. Len(s) : x[i] = s[i]
           /\ \A i \in 1 .. Len(t) : x[Len(s) + i] = t[i]
<1>1. /\ Listing(s \o t) /\ Len(s) \in Nat /\ Len(t) \in Nat
      /\ DOMAIN s = 1 .. Len(s) /\ DOMAIN t = 1 .. Len(t)
      /\ DOMAIN (s \o t) = 1 .. Len(s) + Len(t) /\ Len(s \o t) = Len(s) + Len(t)
      /\ \A i \in DOMAIN s : (s \o t)[i] = s[i]
      /\ \A i \in DOMAIN (s \o t) : i > Len(s) => i - Len(s) \in DOMAIN t
                                                 /\ (s \o t)[i] = t[i - Len(s)]
  BY Joined
<1>2. /\ Listing(x) /\ DOMAIN x = 1 .. Len(s) + Len(t) /\ Len(x) = Len(s) + Len(t)
      /\ \A i \in 1 .. Len(s) : x[i] = s[i]
      /\ \A i \in DOMAIN x : i > Len(s) => x[i] = t[i - Len(s)]
  BY <1>1 DEF Spliced
<1>3. ASSUME NEW i \in 1 .. Len(t)
      PROVE  x[Len(s) + i] = t[i]
  <2>1. Len(s) + i \in DOMAIN x /\ Len(s) + i > Len(s) /\ (Len(s) + i) - Len(s) = i
    BY <1>1, <1>2
  <2> QED
    BY <2>1, <1>2
<1> QED
  BY <1>1, <1>2, <1>3

\* What is done to delete a hub, by place: m is how many motors it has.
LEMMA DbHubIs ==
    ASSUME NEW h, Listing(Motors[h]), NEW m, m = Len(Motors[h])
    PROVE  LET d == DbDeleteShadeHub(h) IN
           /\ m \in Nat /\ DOMAIN Motors[h] = 1 .. m
           /\ Listing(d) /\ Len(d) = m + 3 /\ DOMAIN d = 1 .. m + 3
           /\ d[1] = Listed("coverings", "hub", h)
           /\ \A i \in 1 .. m : d[i + 1] = DelListed("schedules", "covering", Motors[h][i])
           /\ d[m + 2] = Del("coverings", "hub", h) /\ d[m + 3] = Del("hubs", "id", h)
<1> DEFINE q == Motors[h]
           s == <<Listed("coverings", "hub", h)>>
           t == [i \in DOMAIN q |-> DelListed("schedules", "covering", q[i])]
           w == <<Del("coverings", "hub", h), Del("hubs", "id", h)>>
<1>1. Listing(q)
  OBVIOUS
<1>2. /\ t = [i \in DOMAIN q |-> t[i]]
      /\ \A i \in DOMAIN q : t[i] = DelListed("schedules", "covering", q[i])
  OBVIOUS
<1>3. Listing(s) /\ Len(s) = 1 /\ DOMAIN s = {1} /\ s[1] = Listed("coverings", "hub", h)
  BY One
<1>4. /\ Listing(w) /\ Len(w) = 2 /\ DOMAIN w = {1, 2}
      /\ w[1] = Del("coverings", "hub", h) /\ w[2] = Del("hubs", "id", h)
  BY Two
<1>5. DbDeleteShadeHub(h) = (s \o t) \o w
  BY DEF DbDeleteShadeHub
<1>6. m \in Nat /\ DOMAIN q = 1 .. m
  BY <1>1, SequenceLists DEF Listing
<1> HIDE DEF t, q, s, w
<1>7. Listing(t) /\ DOMAIN t = 1 .. m /\ Len(t) = m
  <2>1. Listing(t) /\ DOMAIN t = DOMAIN q /\ Len(t) \in Nat /\ DOMAIN t = 1 .. Len(t)
    BY <1>1, <1>2, Mapped
  <2>2. 1 .. Len(t) = 1 .. m
    BY <2>1, <1>6
  <2>3. Len(t) = m
    BY <2>1, <2>2, <1>6, SameEnd
  <2> QED
    BY <2>1, <2>3
<1> DEFINE x == s \o t
           d == x \o w
<1>11. Spliced(x, s, t) /\ Spliced(d, x, w)
  BY DEF Spliced
<1> HIDE DEF x, d
<1>12. /\ Listing(x) /\ Len(x) = 1 + m
       /\ \A i \in 1 .. 1 : x[i] = s[i]
       /\ \A i \in 1 .. m : x[1 + i] = t[i]
  <2>1. /\ Listing(x) /\ Len(x) = Len(s) + Len(t) /\ DOMAIN x = 1 .. Len(s) + Len(t)
        /\ \A i \in 1 .. Len(s) : x[i] = s[i]
        /\ \A i \in 1 .. Len(t) : x[Len(s) + i] = t[i]
    <3>1. Listing(s) /\ Listing(t) /\ Spliced(x, s, t)
      BY <1>3, <1>7, <1>11
    <3>2. Listing(x) /\ Len(x) = Len(s) + Len(t)
      BY <3>1, JoinedAt
    <3>3. DOMAIN x = 1 .. Len(s) + Len(t)
      BY <3>1, JoinedAt
    <3>4. \A i \in 1 .. Len(s) : x[i] = s[i]
      BY <3>1, JoinedAt
    <3>5. \A i \in 1 .. Len(t) : x[Len(s) + i] = t[i]
      BY <3>1, JoinedAt
    <3> QED
      BY <3>2, <3>3, <3>4, <3>5
  <2> QED
    BY <2>1, <1>3, <1>7
<1>13. /\ Listing(d) /\ Len(d) = (1 + m) + 2 /\ DOMAIN d = 1 .. (1 + m) + 2
       /\ \A i \in 1 .. 1 + m : d[i] = x[i]
       /\ \A i \in 1 .. 2 : d[(1 + m) + i] = w[i]
  <2>1. /\ Listing(d) /\ Len(d) = Len(x) + Len(w) /\ DOMAIN d = 1 .. Len(x) + Len(w)
        /\ \A i \in 1 .. Len(x) : d[i] = x[i]
        /\ \A i \in 1 .. Len(w) : d[Len(x) + i] = w[i]
    <3>1. Listing(x) /\ Listing(w) /\ Spliced(d, x, w)
      BY <1>4, <1>11, <1>12
    <3>2. Listing(d) /\ Len(d) = Len(x) + Len(w)
      BY <3>1, JoinedAt
    <3>3. DOMAIN d = 1 .. Len(x) + Len(w)
      BY <3>1, JoinedAt
    <3>4. \A i \in 1 .. Len(x) : d[i] = x[i]
      BY <3>1, JoinedAt
    <3>5. \A i \in 1 .. Len(w) : d[Len(x) + i] = w[i]
      BY <3>1, JoinedAt
    <3> QED
      BY <3>2, <3>3, <3>4, <3>5
  <2> QED
    BY <2>1, <1>4, <1>12
<1>8. x[1] = s[1] /\ \A i \in 1 .. m : x[i + 1] = t[i]
  <2>1. 1 \in 1 .. 1 /\ \A i \in 1 .. m : 1 + i = i + 1
    BY <1>6
  <2> QED
    BY <2>1, <1>12
<1>9. /\ Listing(d) /\ Len(d) = m + 3 /\ DOMAIN d = 1 .. m + 3
      /\ \A i \in 1 .. m + 1 : d[i] = x[i]
      /\ d[m + 2] = w[1] /\ d[m + 3] = w[2]
  <2>1. (1 + m) + 2 = m + 3 /\ 1 + m = m + 1 /\ (1 + m) + 1 = m + 2
    BY <1>6
  <2>2. 1 \in 1 .. 2 /\ 2 \in 1 .. 2
    OBVIOUS
  <2>3. d[(1 + m) + 1] = w[1] /\ d[(1 + m) + 2] = w[2]
    BY <1>13, <2>2
  <2> QED
    BY <2>1, <2>3, <1>13
<1>10. /\ d[1] = Listed("coverings", "hub", h)
       /\ \A i \in 1 .. m : d[i + 1] = DelListed("schedules", "covering", q[i])
       /\ d[m + 2] = Del("coverings", "hub", h) /\ d[m + 3] = Del("hubs", "id", h)
  <2>1. 1 \in 1 .. m + 1 /\ \A i \in 1 .. m : i + 1 \in 1 .. m + 1
    BY <1>6
  <2>2. \A i \in 1 .. m : d[i + 1] = t[i]
    BY <2>1, <1>8, <1>9
  <2> QED
    BY <2>1, <2>2, <1>2, <1>3, <1>4, <1>6, <1>8, <1>9
<1> QED
  BY <1>5, <1>6, <1>9, <1>10 DEF d, x, q

\* With the two checks before it.
HubList(a, b, h) == <<a, b>> \o DbDeleteShadeHub(h)

LEMMA HubIs ==
    ASSUME NEW h, Listing(Motors[h]), NEW m, m = Len(Motors[h]), NEW a, NEW b
    PROVE  LET l == HubList(a, b, h) IN
           /\ m \in Nat /\ DOMAIN Motors[h] = 1 .. m
           /\ Listing(l) /\ DOMAIN l = 1 .. m + 5
           /\ l[1] = a /\ l[2] = b /\ l[3] = Listed("coverings", "hub", h)
           /\ \A i \in 1 .. m : l[i + 3] = DelListed("schedules", "covering", Motors[h][i])
           /\ l[m + 4] = Del("coverings", "hub", h) /\ l[m + 5] = Del("hubs", "id", h)
<1> DEFINE s == <<a, b>>
           d == DbDeleteShadeHub(h)
           l == s \o d
<1>1. Listing(s) /\ Len(s) = 2 /\ DOMAIN s = {1, 2} /\ s[1] = a /\ s[2] = b
  BY Two
<1>2. /\ m \in Nat /\ DOMAIN Motors[h] = 1 .. m
      /\ Listing(d) /\ Len(d) = m + 3 /\ DOMAIN d = 1 .. m + 3
      /\ d[1] = Listed("coverings", "hub", h)
      /\ \A i \in 1 .. m : d[i + 1] = DelListed("schedules", "covering", Motors[h][i])
      /\ d[m + 2] = Del("coverings", "hub", h) /\ d[m + 3] = Del("hubs", "id", h)
  BY DbHubIs
<1>3. Spliced(l, s, d)
  BY DEF Spliced
<1> HIDE DEF s, d, l
<1>4. /\ Listing(l) /\ DOMAIN l = 1 .. 2 + (m + 3)
      /\ \A i \in 1 .. 2 : l[i] = s[i]
      /\ \A i \in 1 .. m + 3 : l[2 + i] = d[i]
  <2>1. /\ Listing(l) /\ Len(l) = Len(s) + Len(d) /\ DOMAIN l = 1 .. Len(s) + Len(d)
        /\ \A i \in 1 .. Len(s) : l[i] = s[i]
        /\ \A i \in 1 .. Len(d) : l[Len(s) + i] = d[i]
    <3>1. Listing(s) /\ Listing(d) /\ Spliced(l, s, d)
      BY <1>1, <1>2, <1>3
    <3>2. Listing(l) /\ Len(l) = Len(s) + Len(d)
      BY <3>1, JoinedAt
    <3>3. DOMAIN l = 1 .. Len(s) + Len(d)
      BY <3>1, JoinedAt
    <3>4. \A i \in 1 .. Len(s) : l[i] = s[i]
      BY <3>1, JoinedAt
    <3>5. \A i \in 1 .. Len(d) : l[Len(s) + i] = d[i]
      BY <3>1, JoinedAt
    <3> QED
      BY <3>2, <3>3, <3>4, <3>5
  <2> QED
    BY <2>1, <1>1, <1>2
<1>7. DOMAIN l = 1 .. m + 5
  <2>1. 2 + (m + 3) = m + 5
    BY <1>2
  <2> QED
    BY <2>1, <1>4
<1>8. ASSUME NEW j \in 1 .. m + 3
      PROVE  l[j + 2] = d[j]
  <2>1. 2 + j = j + 2
    BY <1>2
  <2> QED
    BY <1>4, <2>1
<1>9. l[3] = d[1] /\ l[m + 4] = d[m + 2] /\ l[m + 5] = d[m + 3]
  <2>1. 1 \in 1 .. m + 3 /\ m + 2 \in 1 .. m + 3 /\ m + 3 \in 1 .. m + 3
    BY <1>2
  <2>2. l[1 + 2] = d[1] /\ l[(m + 2) + 2] = d[m + 2] /\ l[(m + 3) + 2] = d[m + 3]
    BY <1>8, <2>1
  <2>3. 1 + 2 = 3 /\ (m + 2) + 2 = m + 4 /\ (m + 3) + 2 = m + 5
    BY <1>2
  <2> QED
    BY <2>2, <2>3
<1>10. ASSUME NEW i \in 1 .. m
       PROVE  l[i + 3] = DelListed("schedules", "covering", Motors[h][i])
  <2>1. i + 1 \in 1 .. m + 3 /\ (i + 1) + 2 = i + 3
    BY <1>2
  <2>2. l[(i + 1) + 2] = d[i + 1]
    BY <1>8, <2>1
  <2> QED
    BY <1>2, <2>1, <2>2
<1>11. l[1] = a /\ l[2] = b
  <2>1. 1 \in 1 .. 2 /\ 2 \in 1 .. 2
    OBVIOUS
  <2> QED
    BY <1>1, <1>4, <2>1
<1>12. /\ m \in Nat /\ DOMAIN Motors[h] = 1 .. m
       /\ Listing(l) /\ DOMAIN l = 1 .. m + 5
       /\ l[1] = a /\ l[2] = b /\ l[3] = Listed("coverings", "hub", h)
       /\ \A i \in 1 .. m : l[i + 3] = DelListed("schedules", "covering", Motors[h][i])
       /\ l[m + 4] = Del("coverings", "hub", h) /\ l[m + 5] = Del("hubs", "id", h)
  BY <1>2, <1>4, <1>7, <1>9, <1>10, <1>11
<1> QED
  BY <1>12 DEF l, s, d, HubList

LEMMA DeleteHubGood ==
    ASSUME RegistryAssumption, NEW r, NEW a, NEW h \in DOMAIN Motors
    PROVE  Good(r, DeleteHub(a, h))
<1> DEFINE m == Len(Motors[h])
           l == HubList(Auth(a, TRUE), Need("hubs", h), h)
           kills == {<<"hubs", h>>} \cup {<<"coverings", Motors[h][i]>> : i \in DOMAIN Motors[h]}
<1>1. /\ m \in Nat /\ DOMAIN Motors[h] = 1 .. m
      /\ Listing(l) /\ DOMAIN l = 1 .. m + 5
      /\ l[1] = Auth(a, TRUE) /\ l[2] = Need("hubs", h) /\ l[3] = Listed("coverings", "hub", h)
      /\ \A i \in 1 .. m : l[i + 3] = DelListed("schedules", "covering", Motors[h][i])
      /\ l[m + 4] = Del("coverings", "hub", h) /\ l[m + 5] = Del("hubs", "id", h)
  <2> DEFINE x == Auth(a, TRUE)
             y == Need("hubs", h)
  <2>1. Listing(Motors[h])
    BY DEF RegistryAssumption
  <2>2. m = Len(Motors[h]) /\ l = HubList(x, y, h)
    OBVIOUS
  <2> HIDE DEF m, l, kills, x, y
  <2>3. m \in Nat /\ DOMAIN Motors[h] = 1 .. m
    BY <2>1, <2>2, HubIs
  <2>4. Listing(l) /\ DOMAIN l = 1 .. m + 5
    BY <2>1, <2>2, HubIs
  <2>5. l[1] = x /\ l[2] = y /\ l[3] = Listed("coverings", "hub", h)
    BY <2>1, <2>2, HubIs
  <2>6. \A i \in 1 .. m : l[i + 3] = DelListed("schedules", "covering", Motors[h][i])
    BY <2>1, <2>2, HubIs
  <2>7. l[m + 4] = Del("coverings", "hub", h) /\ l[m + 5] = Del("hubs", "id", h)
    BY <2>1, <2>2, HubIs
  <2> QED
    BY <2>3, <2>4, <2>5, <2>6, <2>7 DEF x, y
<1>2. Good(r, DeleteHub(a, h)) <=> Good(r, Kills(kills, Sync(l)))
  BY DEF DeleteHub, HubList
<1>3. /\ <<"hubs", h>> \in kills
      /\ \A i \in DOMAIN Motors[h] : <<"coverings", Motors[h][i]>> \in kills
      /\ \A x : x \in kills => \/ x = <<"hubs", h>>
                               \/ \E i \in DOMAIN Motors[h] : x = <<"coverings", Motors[h][i]>>
  OBVIOUS
<1> HIDE DEF l, m, kills
<1>4. /\ l[1].op = "auth" /\ LawfulStatement(r, l[1])
      /\ l[2].op = "need" /\ LawfulStatement(r, l[2])
  <2>1. Auth(a, TRUE).op = "auth" /\ LawfulStatement(r, Auth(a, TRUE))
    BY IsCheck DEF Auth, Checks
  <2>2. Need("hubs", h).op = "need" /\ LawfulStatement(r, Need("hubs", h))
    BY IsCheck DEF Need, Checks
  <2> QED
    BY <1>1, <2>1, <2>2
<1>5. /\ l[3].op = "listed" /\ l[3].tab = "coverings" /\ l[3].col = "hub" /\ l[3].val = h
      /\ LawfulStatement(r, l[3])
  BY <1>1 DEF Listed, LawfulStatement, Reads, Writes, Inserts, Checks
<1>6. ASSUME NEW i \in 1 .. m
      PROVE  /\ l[i + 3].op = "dellisted" /\ l[i + 3].tab = "schedules" /\ l[i + 3].col = "covering"
             /\ l[i + 3].val = Motors[h][i] /\ LawfulStatement(r, l[i + 3])
  <2> DEFINE c == DelListed("schedules", "covering", Motors[h][i])
  <2>1. /\ c.op = "dellisted" /\ c.tab = "schedules" /\ c.col = "covering"
        /\ c.val = Motors[h][i] /\ LawfulStatement(r, c)
    BY DEF DelListed, LawfulStatement, Reads, Writes, Inserts, Checks
  <2>2. l[i + 3] = c
    BY <1>1
  <2> HIDE DEF c
  <2> QED
    BY <2>1, <2>2
<1>7. IsDel(l[m + 4], "coverings", "hub", h) /\ LawfulStatement(r, l[m + 4])
  <2>1. "coverings" \in Tables
    BY DEF Tables
  <2> QED
    BY <1>1, <2>1, DelIs
<1>8. IsDel(l[m + 5], "hubs", "id", h) /\ LawfulStatement(r, l[m + 5])
  <2>1. "hubs" \in Tables
    BY DEF Tables
  <2> QED
    BY <1>1, <2>1, DelIs
<1>9. ASSUME NEW i \in DOMAIN l
      PROVE  /\ i \in Nat
             /\ \/ i = 1 \/ i = 2 \/ i = 3 \/ i = m + 4 \/ i = m + 5
                \/ i - 3 \in 1 .. m /\ (i - 3) + 3 = i
  BY <1>1
<1>10. ASSUME NEW i \in DOMAIN l
       PROVE  /\ LawfulStatement(r, l[i])
              /\ l[i].op \in {"auth", "need", "listed", "dellisted", "del"}
              /\ l[i].op \in {"auth", "need"} => i = 1 \/ i = 2
              /\ l[i].op = "listed" => i = 3
              /\ l[i].op = "dellisted" => \E k \in DOMAIN Motors[h] : l[i].val = Motors[h][k]
              /\ l[i].op = "del" => i = m + 4 \/ i = m + 5
              /\ l[i].op \in {"del", "dellisted"} => l[i].tab # "users"
  <2>1. CASE i = 1 \/ i = 2
    BY <1>4, <2>1
  <2>2. CASE i = 3
    BY <1>5, <2>2
  <2>3. CASE i = m + 4
    BY <1>7, <2>3 DEF IsDel
  <2>4. CASE i = m + 5
    BY <1>8, <2>4 DEF IsDel
  <2>5. CASE i - 3 \in 1 .. m /\ (i - 3) + 3 = i
    <3>1. /\ l[i].op = "dellisted" /\ l[i].tab = "schedules"
          /\ l[i].val = Motors[h][i - 3] /\ LawfulStatement(r, l[i])
      BY <1>6, <2>5
    <3>2. i - 3 \in DOMAIN Motors[h]
      BY <1>1, <2>5
    <3> QED
      BY <3>1, <3>2
  <2> QED
    BY <1>9, <2>1, <2>2, <2>3, <2>4, <2>5
<1>11. \A i \in DOMAIN l : /\ l[i].op \notin Inserts \cup {"set"} /\ ~Demotes(l[i]) /\ ~Fires(l[i])
  BY <1>10 DEF Inserts, Demotes, Fires
<1>12. /\ LawfulPuts(l) /\ LawfulPicks(l, FALSE) /\ LawfulMotors(l, FALSE)
       /\ LawfulRoles(l, FALSE, None) /\ LawfulPasswords(l, None)
  BY <1>11 DEF LawfulPuts, LawfulPicks, LawfulMotors, LawfulRoles, LawfulPasswords, Inserts
<1>13. LawfulKills(l, kills)
  <2>1. \A i \in DOMAIN l : l[i].op \in Checks \cup {"await", "listed", "null", "del", "dellisted"}
    BY <1>10 DEF Checks
  <2>2. ASSUME NEW i \in DOMAIN l, l[i].op = "del"
        PROVE  /\ \/ l[i].col = "id" /\ <<l[i].tab, l[i].val>> \in kills
                  \/ /\ l[i].tab = "coverings" /\ l[i].col = "hub" /\ l[i].val \in DOMAIN Motors
                     /\ \A j \in DOMAIN Motors[l[i].val] :
                            <<"coverings", Motors[l[i].val][j]>> \in kills
               /\ \A j \in DOMAIN l : j > i => l[j].op \notin Checks \cup {"listed"}
    <3>1. i = m + 4 \/ i = m + 5
      BY <1>10, <2>2
    <3>2. ASSUME NEW j \in DOMAIN l, j > i
          PROVE  l[j].op \notin Checks \cup {"listed"}
      <4>1. j # 1 /\ j # 2 /\ j # 3
        BY <1>1, <3>1, <3>2
      <4> QED
        BY <4>1, <1>10 DEF Checks
    <3> QED
      BY <1>3, <1>7, <1>8, <3>1, <3>2 DEF IsDel
  <2>3. ASSUME NEW i \in DOMAIN l, l[i].op = "listed"
        PROVE  /\ l[i].tab = "coverings" /\ l[i].col = "hub" /\ l[i].val = h
               /\ \A j \in DOMAIN l : l[j].op = "dellisted" => \E k \in DOMAIN Motors[l[i].val] :
                      l[j].val = Motors[l[i].val][k]
    BY <1>5, <1>10, <2>3
  <2>4. \A i, j \in DOMAIN l : l[i].op = "listed" /\ l[j].op = "listed" => i = j
    BY <1>10
  <2> QED
    BY <2>1, <2>2, <2>3, <2>4 DEF LawfulKills
<1>14. Lawful(r, l, FALSE, None, kills)
  BY <1>1, <1>10, <1>12, <1>13 DEF Lawful
<1>15. ASSUME NEW f \in Refs, NEW v, <<f[3], v>> \in kills
       PROVE  Clearing(l, {}, f, v)
  <2>1. CASE <<f[3], v>> = <<"hubs", h>>
    <3>1. f[3] = "hubs" /\ v = h
      BY <2>1
    <3>2. f[1] = "coverings" /\ f[2] = "hub"
      BY <3>1, NamesOf
    <3>3. m + 4 \in DOMAIN l
      BY <1>1
    <3>4. Clears(l[m + 4], f, v) /\ l[m + 4].op # "dellisted"
      BY <1>7, <3>1, <3>2 DEF Clears, IsDel
    <3> QED
      BY <3>3, <3>4 DEF Clearing
  <2>2. ASSUME NEW i \in DOMAIN Motors[h], <<f[3], v>> = <<"coverings", Motors[h][i]>>
        PROVE  Clearing(l, {}, f, v)
    <3>1. f[3] = "coverings" /\ v = Motors[h][i]
      BY <2>2
    <3>2. f[1] = "schedules" /\ f[2] = "covering"
      BY <3>1, NamesOf
    <3>3. i \in 1 .. m /\ i + 3 \in DOMAIN l /\ 3 \in DOMAIN l /\ 3 < i + 3
      BY <1>1
    <3>4. Clears(l[i + 3], f, v)
      BY <1>6, <3>1, <3>2, <3>3 DEF Clears
    <3> QED
      BY <1>5, <3>3, <3>4 DEF Clearing
  <2> QED
    BY <1>3, <1>15, <2>1, <2>2
<1>16. LawfulStart(l, FALSE, None, kills)
  <2>1. 1 \in DOMAIN l
    BY <1>1
  <2>2. l # <<>> /\ l[1].op \in {"auth", "need"}
    BY <1>4, <2>1, EmptyListing
  <2> QED
    BY <1>11, <1>15, <2>2 DEF LawfulStart
<1>17. GoodList(r, l, FALSE, None, kills)
  BY <1>14, <1>16 DEF GoodList
<1> QED
  BY <1>2, <1>17, Programs

\* Whatever may be asked.
LEMMA AccountsGood ==
    ASSUME RegistryAssumption, NEW r, NEW p \in AccountRequests(r)
    PROVE  Good(r, p)
<1>1. \/ p \in {SetupSubmit(r), CmdAddUser(r)}
      \/ \E s \in Tokens : p = Logout(s)
      \/ \E u \in Known["users"] : p \in {LoginSubmit(r, u), CmdResetPassword(r, u), CmdDeleteUser(u)}
      \/ \E s \in Tokens : p = ChangePassword(r, s, Known["owner"][s])
      \/ \E a \in Bosses, u \in Known["users"], role \in Roles :
             p \in {CreateUser(r, a, role), UpdateUser(r, a, u, role), ResetUser(a, u),
                    DeleteUser(a, u)}
  BY DEF AccountRequests, Roles
<1>2. CASE p \in {SetupSubmit(r), CmdAddUser(r)}
  BY <1>2, SetupGood, PlainAccounts
<1>3. CASE \E s \in Tokens : p = Logout(s)
  BY <1>3, PlainAccounts
<1>4. ASSUME NEW u \in Known["users"],
             p \in {LoginSubmit(r, u), CmdResetPassword(r, u), CmdDeleteUser(u)}
      PROVE  Good(r, p)
  BY <1>4, PlainAccounts, CmdResetPasswordGood, CmdDeleteUserGood
<1>5. CASE \E s \in Tokens : p = ChangePassword(r, s, Known["owner"][s])
  BY <1>5, ChangePasswordGood
<1>6. ASSUME NEW a \in Bosses, NEW u \in Known["users"], NEW role \in Roles,
             p \in {CreateUser(r, a, role), UpdateUser(r, a, u, role), ResetUser(a, u),
                    DeleteUser(a, u)}
      PROVE  Good(r, p)
  <2>1. u # None
    BY DEF RegistryAssumption
  <2> QED
    BY <1>6, <2>1, PlainAccounts, UpdateUserGood, DeleteUserGood
<1> QED
  BY <1>1, <1>2, <1>3, <1>4, <1>5, <1>6

LEMMA CamerasGood ==
    ASSUME RegistryAssumption, NEW r, NEW a, NEW p \in CameraRequests(r, a)
    PROVE  Good(r, p)
<1>1. \/ p = AddCamera(a)
      \/ \E o \in Orders["cameras"] : p = CameraOrder(a, o)
      \/ \E c \in Known["cameras"] :
             p \in {UpdateCamera(a, c), ArchiveCamera(a, c), RestoreCamera(a, c), DeleteCamera(a, c),
                    CreateSchedule(r, a, c), CreateVirtual(r, a, c)}
      \/ \E c \in Known["cameras"], x \in Known["schedules"] :
             p \in {UpdateSchedule(a, c, x), DeleteSchedule(a, c, x)}
      \/ \E w \in Known["virtual"] : p \in {UpdateVirtual(a, w), DeleteVirtual(a, w)}
  BY DEF CameraRequests
<1>2. CASE p = AddCamera(a) \/ \E o \in Orders["cameras"] : p = CameraOrder(a, o)
  BY <1>2, PicksGood, OrdersGood
<1>3. ASSUME NEW c \in Known["cameras"],
             p \in {UpdateCamera(a, c), ArchiveCamera(a, c), RestoreCamera(a, c), DeleteCamera(a, c),
                    CreateSchedule(r, a, c), CreateVirtual(r, a, c)}
      PROVE  Good(r, p)
  BY <1>3, PlainCameras, DeleteCameraGood
<1>4. ASSUME NEW c, NEW x, p \in {UpdateSchedule(a, c, x), DeleteSchedule(a, c, x)}
      PROVE  Good(r, p)
  BY <1>4, PlainCameras
<1>5. ASSUME NEW w, p \in {UpdateVirtual(a, w), DeleteVirtual(a, w)}
      PROVE  Good(r, p)
  BY <1>5, PlainCameras
<1> QED
  BY <1>1, <1>2, <1>3, <1>4, <1>5

LEMMA DevicesGood ==
    ASSUME NEW r, NEW a, NEW p \in DeviceRequests(r, a)
    PROVE  Good(r, p)
<1>1. \/ p = AddDevice(a)
      \/ \E q \in Known["devices"] :
             p \in {UpdateDevice(a, q), DeleteDevice(a, q), CreateDeviceSchedule(r, a, q)}
      \/ \E q \in Known["devices"], x \in Known["schedules"] :
             p \in {UpdateDeviceSchedule(a, q, x), DeleteDeviceSchedule(a, q, x)}
  BY DEF DeviceRequests
<1>2. ASSUME NEW q, p \in {UpdateDevice(a, q), DeleteDevice(a, q), CreateDeviceSchedule(r, a, q)}
      PROVE  Good(r, p)
  BY <1>2, PlainDevices, DeleteDeviceGood
<1>3. ASSUME NEW q, NEW x, p \in {UpdateDeviceSchedule(a, q, x), DeleteDeviceSchedule(a, q, x)}
      PROVE  Good(r, p)
  BY <1>3, PlainDevices
<1> QED
  BY <1>1, <1>2, <1>3, PicksGood

LEMMA BlindsGood ==
    ASSUME RegistryAssumption, NEW r, NEW a, NEW p \in BlindRequests(r, a)
    PROVE  Good(r, p)
<1>1. \/ p = AddRoom(r, a)
      \/ \E o \in Orders["rooms"] : p = RoomOrder(a, o)
      \/ \E o \in Orders["coverings"] : p = CoveringOrder(a, o)
      \/ \E m \in Known["rooms"] :
             p \in {UpdateRoom(a, m), DeleteRoom(a, m), AddRoomSchedule(r, a, m)}
      \/ \E h \in Known["hubs"] :
             p \in {AddHub(a, h), RefreshHub(a, h), UpdateHub(a, h), DeleteHub(a, h)}
      \/ \E k \in Known["coverings"], m \in Known["rooms"] :
             p \in {UpdateCovering(a, k, m), DeleteCovering(a, k), AddCoverSchedule(r, a, k)}
      \/ \E x \in Known["schedules"] :
             p \in {UpdateCoverSchedule(a, x), DeleteCoverSchedule(a, x)}
  BY DEF BlindRequests
<1>2. CASE p = AddRoom(r, a)
  BY <1>2, PlainBlinds
<1>3. CASE \/ \E o \in Orders["rooms"] : p = RoomOrder(a, o)
           \/ \E o \in Orders["coverings"] : p = CoveringOrder(a, o)
  BY <1>3, OrdersGood
<1>4. ASSUME NEW m, p \in {UpdateRoom(a, m), DeleteRoom(a, m), AddRoomSchedule(r, a, m)}
      PROVE  Good(r, p)
  BY <1>4, PlainBlinds, DeleteRoomGood
<1>5. ASSUME NEW h \in Known["hubs"],
             p \in {AddHub(a, h), RefreshHub(a, h), UpdateHub(a, h), DeleteHub(a, h)}
      PROVE  Good(r, p)
  <2>1. h \in DOMAIN Motors
    BY DEF RegistryAssumption
  <2> QED
    BY <1>5, <2>1, AddHubGood, RefreshHubGood, PlainBlinds, DeleteHubGood
<1>6. ASSUME NEW k, NEW m,
             p \in {UpdateCovering(a, k, m), DeleteCovering(a, k), AddCoverSchedule(r, a, k)}
      PROVE  Good(r, p)
  BY <1>6, PlainBlinds, DeleteCoveringGood
<1>7. ASSUME NEW x, p \in {UpdateCoverSchedule(a, x), DeleteCoverSchedule(a, x)}
      PROVE  Good(r, p)
  BY <1>7, PlainBlinds
<1> QED
  BY <1>1, <1>2, <1>3, <1>4, <1>5, <1>6, <1>7

LEMMA FamilyGood ==
    ASSUME RegistryAssumption, NEW r, NEW s, NEW a, NEW p \in FamilyRequests(r, s, a)
    PROVE  Good(r, p)
<1>1. \/ p \in {TasksPage(r, s), CalendarPage(s), AddTaskList(r, a), AddCalendar(s, None),
                AddCalendar(s, Known["owner"][s])}
      \/ \E o \in Orders["tasks"] : p = TaskOrder(s, o)
      \/ \E x \in Known["lists"], u \in Known["users"] : p = AddTask(r, s, x, u)
      \/ \E t \in Known["tasks"], x \in Known["lists"] : p = UpdateTask(s, t, "lists", "list", x)
      \/ \E t \in Known["tasks"], u \in Known["users"] :
             p = UpdateTask(s, t, "users", "assignee", u)
      \/ \E t \in Known["tasks"] : p = DeleteTask(s, t)
      \/ \E x \in Known["lists"] : p \in {UpdateTaskList(a, x), DeleteTaskList(a, x)}
      \/ \E y \in Known["calendars"] :
             p \in {UpdateCalendar(s, y), DeleteCalendar(s, y), AddEvent(r, s, y)}
      \/ \E e \in Known["events"], y \in Known["calendars"] :
             p \in {UpdateEvent(s, e, y), DeleteEvent(s, e)}
  BY DEF FamilyRequests
<1>2. CASE p \in {TasksPage(r, s), CalendarPage(s), AddTaskList(r, a), AddCalendar(s, None),
                  AddCalendar(s, Known["owner"][s])}
  BY <1>2, PlainFamily, CalendarPageGood
<1>3. CASE \E o \in Orders["tasks"] : p = TaskOrder(s, o)
  BY <1>3, OrdersGood
<1>4. CASE \/ \E x \in Known["lists"], u \in Known["users"] : p = AddTask(r, s, x, u)
           \/ \E t \in Known["tasks"], x \in Known["lists"] :
                  p = UpdateTask(s, t, "lists", "list", x)
           \/ \E t \in Known["tasks"], u \in Known["users"] :
                  p = UpdateTask(s, t, "users", "assignee", u)
           \/ \E t \in Known["tasks"] : p = DeleteTask(s, t)
  BY <1>4, PlainFamily
<1>5. ASSUME NEW x, p \in {UpdateTaskList(a, x), DeleteTaskList(a, x)}
      PROVE  Good(r, p)
  BY <1>5, PlainFamily, DeleteTaskListGood
<1>6. ASSUME NEW y, p \in {UpdateCalendar(s, y), DeleteCalendar(s, y), AddEvent(r, s, y)}
      PROVE  Good(r, p)
  BY <1>6, PlainFamily, DeleteCalendarGood, AddEventGood
<1>7. ASSUME NEW e, NEW y, p \in {UpdateEvent(s, e, y), DeleteEvent(s, e)}
      PROVE  Good(r, p)
  BY <1>7, PlainFamily, UpdateEventGood
<1> QED
  BY <1>1, <1>2, <1>3, <1>4, <1>5, <1>6, <1>7

LEMMA NetworksGood ==
    ASSUME RegistryAssumption, NEW r, NEW a, NEW p \in NetworkRequests(a)
    PROVE  Good(r, p)
<1>1. \/ p = NetworkScan(a)
      \/ \E n \in Known["lan"] : p \in {UpdateNetworkDevice(a, n), ForgetNetworkDevice(a, n)}
  BY DEF NetworkRequests
<1>2. ASSUME NEW n, p \in {UpdateNetworkDevice(a, n), ForgetNetworkDevice(a, n)}
      PROVE  Good(r, p)
  BY <1>2, PlainNetwork
<1> QED
  BY <1>1, <1>2, NetworkScanGood

LEMMA PartsGood ==
    ASSUME RegistryAssumption, NEW r, NEW n \in 1 .. 4, NEW p \in Parts(r)[n]
    PROVE  Good(r, p)
<1> DEFINE a == CHOOSE s \in Bosses : TRUE
<1>1. \/ p \in AccountRequests(r) \/ p \in FamilyRequests(r, a, a)
      \/ p \in CameraRequests(r, a) \/ p \in DeviceRequests(r, a)
      \/ p \in BlindRequests(r, a) \/ p \in NetworkRequests(a)
  <2>1. n = 1 \/ n = 2 \/ n = 3 \/ n = 4
    OBVIOUS
  <2>2. /\ Parts(r)[1] = AccountRequests(r) \cup FamilyRequests(r, a, a)
        /\ Parts(r)[2] = CameraRequests(r, a) \cup DeviceRequests(r, a)
        /\ Parts(r)[3] = BlindRequests(r, a) /\ Parts(r)[4] = NetworkRequests(a)
    BY DEF Parts
  <2> HIDE DEF a
  <2> QED
    BY <2>1, <2>2
<1> HIDE DEF a
<1> QED
  BY <1>1, AccountsGood, FamilyGood, CamerasGood, DevicesGood, BlindsGood, NetworksGood

-----------------------------------------------------------------------------
(* The order of a page.  Rows are ranked by the statements of one coroutine, *)
(* with no await between two, so each row of a page has the ranks it may end *)
(* with: those the coroutine has still to write there, or the one it has.    *)

Places(c, x) == c.op = "place" /\ x = <<c.tab, c.id>>

\* What places rows places those that one browser had before it, one after the
\* other and up to the end; a row that is added comes last.
LawfulPlaces(l, async) ==
    \A i \in DOMAIN l :
        /\ l[i].op \in Inserts /\ l[i].tab \in RankTables => async /\ "rank" \in DOMAIN l[i].row
        /\ l[i].op = "place" =>
               /\ async /\ l[i].rank \in Nat
               /\ \A j \in DOMAIN l : j > i => l[j].op = "place" /\ l[j].rank # l[i].rank
               /\ i > 1 /\ l[i - 1].op # "place" =>
                      /\ l[i - 1].op = "await"
                      /\ \E p \in Pages : \E o \in Orders[p] :
                             \A x : (\E j \in DOMAIN l : Places(l[j], x)) <=> x \in Shown(p, o)

Placer(r) == Running(r) /\ Now(r).op = "place"
Orderly == \A r \in Requests : LawfulPlaces(L(r), th[r].async) /\ (Placer(r) => th[r].begun)

Numbered ==
    \A t \in RankTables : /\ IsFiniteSet(DOMAIN db[t])
                          /\ \A id \in DOMAIN db[t] : "rank" \in DOMAIN db[t][id]
                                                      /\ db[t][id].rank \in Nat

PlacedBy(r, x) == Placer(r) /\ \E i \in DOMAIN L(r) : Places(L(r)[i], x)
MayEnd(x, n) ==
    \/ \E r \in Requests : Placer(r) /\ \E i \in DOMAIN L(r) : Places(L(r)[i], x) /\ L(r)[i].rank = n
    \/ (\A r \in Requests : ~PlacedBy(r, x)) /\ RankIn(db, x) = n
Alike(p, x, y) == \A o \in Orders[p] : x \in Shown(p, o) <=> y \in Shown(p, o)
Sorted ==
    crashes = 0 => \A p \in Pages : \A x, y \in RowsOf(db, p) :
        Alike(p, x, y) /\ x # y => \A n : ~(MayEnd(x, n) /\ MayEnd(y, n))

OrderInv == Orderly /\ Numbered /\ Sorted

\* A row of a page, and the page of a row.
LEMMA PageIs ==
    ASSUME NEW d, NEW p \in Pages
    PROVE  /\ PageTables(p) \subseteq RankTables
           /\ \A x : x \in RowsOf(d, p) <=> \E t \in PageTables(p) : \E id \in DOMAIN d[t] : x = <<t, id>>
<1>1. PageTables(p) \subseteq RankTables
  BY DEF Pages, PageTables, RankTables
<1>2. \A x : x \in RowsOf(d, p) <=> \E t \in PageTables(p) : \E id \in DOMAIN d[t] : x = <<t, id>>
  BY DEF RowsOf
<1> QED
  BY <1>1, <1>2

LEMMA PagesApart ==
    /\ \A p, q \in Pages : \A t \in PageTables(p) \cap PageTables(q) : p = q
    /\ \A t \in RankTables : \E p \in Pages : PageTables(t) = PageTables(p) /\ t \in PageTables(p)
<1>1. \A p, q \in Pages : \A t \in PageTables(p) \cap PageTables(q) : p = q
  BY DEF Pages, PageTables
<1>2. ASSUME NEW t \in RankTables
      PROVE  \E p \in Pages : PageTables(t) = PageTables(p) /\ t \in PageTables(p)
  <2>1. CASE t = "virtual"
    <3>1. "cameras" \in Pages /\ PageTables(t) = PageTables("cameras") /\ t \in PageTables("cameras")
      BY <2>1 DEF Pages, PageTables
    <3> QED
      BY <3>1
  <2>2. CASE t # "virtual"
    <3>1. t \in Pages /\ t \in PageTables(t)
      BY <2>2 DEF Pages, PageTables, RankTables
    <3> QED
      BY <3>1
  <2> QED
    BY <2>1, <2>2
<1> QED
  BY <1>1, <1>2

LEMMA PlacesTail ==
    ASSUME NEW l, NEW async, l # <<>>, Listing(l), LawfulPlaces(l, async)
    PROVE  LawfulPlaces(Tail(l), async)
<1> DEFINE k == Tail(l)
<1>1. /\ Len(l) \in Nat /\ DOMAIN l = 1 .. Len(l) /\ DOMAIN k = 1 .. Len(l) - 1
      /\ \A i \in 1 .. Len(l) - 1 : k[i] = l[i + 1]
  BY ListOf
<1>2. \A i \in DOMAIN k : i \in Nat /\ i \geq 1 /\ i + 1 \in DOMAIN l /\ k[i] = l[i + 1]
  BY <1>1
<1>3. \A i \in DOMAIN k : i > 1 => i - 1 \in DOMAIN k /\ k[i - 1] = l[(i + 1) - 1]
  BY <1>1
<1>4. \A j \in DOMAIN l : j = 1 \/ \E i \in DOMAIN k : j = i + 1
  <2> SUFFICES ASSUME NEW j \in DOMAIN l, j # 1
               PROVE  \E i \in DOMAIN k : j = i + 1
    OBVIOUS
  <2>1. j - 1 \in DOMAIN k /\ j = (j - 1) + 1
    BY <1>1
  <2> QED
    BY <2>1
<1> HIDE DEF k
<1>5. ASSUME NEW i \in DOMAIN k, k[i].op = "place"
      PROVE  /\ async /\ k[i].rank \in Nat
             /\ \A j \in DOMAIN k : j > i => k[j].op = "place" /\ k[j].rank # k[i].rank
             /\ i > 1 /\ k[i - 1].op # "place" =>
                    /\ k[i - 1].op = "await"
                    /\ \E p \in Pages : \E o \in Orders[p] :
                           \A x : (\E j \in DOMAIN k : Places(k[j], x)) <=> x \in Shown(p, o)
  <2>1. i + 1 \in DOMAIN l /\ l[i + 1] = k[i] /\ i \in Nat /\ i \geq 1
    BY <1>2
  <2>2. /\ async /\ k[i].rank \in Nat
        /\ \A j \in DOMAIN l : j > i + 1 => l[j].op = "place" /\ l[j].rank # k[i].rank
    BY <1>5, <2>1 DEF LawfulPlaces
  <2>3. ASSUME NEW j \in DOMAIN k, j > i
        PROVE  k[j].op = "place" /\ k[j].rank # k[i].rank
    <3>1. j + 1 \in DOMAIN l /\ k[j] = l[j + 1] /\ j + 1 > i + 1
      BY <1>2, <2>1, <2>3
    <3> QED
      BY <3>1, <2>2
  <2>4. ASSUME i > 1, k[i - 1].op # "place"
        PROVE  /\ k[i - 1].op = "await"
               /\ \E p \in Pages : \E o \in Orders[p] :
                      \A x : (\E j \in DOMAIN k : Places(k[j], x)) <=> x \in Shown(p, o)
    <3>1. i - 1 \in DOMAIN k /\ k[i - 1] = l[(i + 1) - 1] /\ (i + 1) - 1 \in DOMAIN l /\ i + 1 > 1
      BY <1>1, <1>3, <2>1, <2>4
    <3>2. /\ l[(i + 1) - 1].op = "await"
          /\ \E p \in Pages : \E o \in Orders[p] :
                 \A x : (\E j \in DOMAIN l : Places(l[j], x)) <=> x \in Shown(p, o)
      BY <3>1, <2>1, <2>4, <1>5 DEF LawfulPlaces
    <3>3. 1 \in DOMAIN l /\ l[1].op # "place"
      <4>1. 1 \in DOMAIN l /\ (i + 1) - 1 > 1
        BY <1>1, <2>1, <2>4
      <4> QED
        BY <4>1, <3>1, <3>2 DEF LawfulPlaces
    <3>4. \A x : (\E j \in DOMAIN k : Places(k[j], x)) <=> (\E j \in DOMAIN l : Places(l[j], x))
      BY <3>3, <1>2, <1>4 DEF Places
    <3> QED
      BY <3>1, <3>2, <3>4
  <2> QED
    BY <2>2, <2>3, <2>4
<1>6. ASSUME NEW i \in DOMAIN k, k[i].op \in Inserts, k[i].tab \in RankTables
      PROVE  async /\ "rank" \in DOMAIN k[i].row
  BY <1>2, <1>6 DEF LawfulPlaces
<1>7. LawfulPlaces(k, async)
  BY <1>5, <1>6 DEF LawfulPlaces
<1> QED
  BY <1>7 DEF k

LEMMA PlacesEmpty == \A async : LawfulPlaces(<<>>, async)
BY EmptyListing DEF LawfulPlaces

\* The greatest of finitely many numbers, one of which is taken away at a time.
LEMMA MaxIs ==
    ASSUME NEW S \in SUBSET Int, IsFiniteSet(S), S # {}
    PROVE  Max(S) \in S /\ \A y \in S : Max(S) >= y
<1> DEFINE HasMax(X) == \E m \in X : \A y \in X : m >= y
           C == {n \in Nat : \E X \in SUBSET S : X # {} /\ Cardinality(X) = n /\ ~HasMax(X)}
           R == OpToRel(<, Nat)
<1>1. \A x, y \in Nat : <<y, x>> \in R <=> y < x
  BY DEF OpToRel
<1>2. IsWellFoundedOn(R, Nat)
  BY NatLessThanWellFounded
<1>3. \A X \in SUBSET S : IsFiniteSet(X) /\ Cardinality(X) \in Nat
  BY FS_Subset, FS_CardinalityType
<1> HIDE DEF R
<1>4. C = {}
  <2> SUFFICES ASSUME C # {} PROVE FALSE
    OBVIOUS
  <2>1. PICK n \in C : \A k \in C : ~(<<k, n>> \in R)
    <3>1. C \subseteq Nat
      OBVIOUS
    <3> HIDE DEF C
    <3> QED
      BY <1>2, <3>1, WFMin
  <2>2. PICK X \in SUBSET S : X # {} /\ Cardinality(X) = n /\ ~HasMax(X)
    OBVIOUS
  <2>3. PICK x \in X : TRUE
    BY <2>2
  <2> DEFINE Y == X \ {x}
  <2>4. Y \in SUBSET S /\ Cardinality(Y) = n - 1 /\ n - 1 \in Nat /\ n \in Nat
    <3>1. Cardinality(Y) = Cardinality(X) - 1
      BY <1>3, <2>3, FS_RemoveElement
    <3>2. Cardinality(Y) \in Nat /\ Y \in SUBSET S
      BY <1>3
    <3> HIDE DEF Y
    <3> QED
      BY <3>1, <3>2, <2>2
  <2>5. Y # {}
    <3> SUFFICES ASSUME Y = {} PROVE FALSE
      OBVIOUS
    <3>1. X = {x}
      BY <2>3
    <3> QED
      BY <2>2, <3>1
  <2>6. n - 1 \notin C
    <3>1. <<n - 1, n>> \in R
      BY <2>4, <1>1
    <3> HIDE DEF C
    <3> QED
      BY <2>1, <3>1
  <2>7. HasMax(Y)
    BY <2>4, <2>5, <2>6
  <2>8. PICK m \in Y : \A y \in Y : m >= y
    BY <2>7
  <2>9. x \in Int /\ m \in Int /\ m \in X /\ \A y \in X : y \in Int /\ (y = x \/ y \in Y)
    BY <2>2, <2>3
  <2>10. HasMax(X)
    <3>1. CASE x >= m
      <4>1. \A y \in X : x >= y
        BY <2>8, <2>9, <3>1
      <4> QED
        BY <4>1
    <3>2. CASE ~(x >= m)
      <4>1. \A y \in X : m >= y
        BY <2>8, <2>9, <3>2
      <4> QED
        BY <4>1, <2>9
    <3> QED
      BY <3>1, <3>2
  <2> QED
    BY <2>2, <2>10
<1>5. HasMax(S)
  <2>1. Cardinality(S) \in Nat /\ S \in SUBSET S
    BY <1>3
  <2>2. Cardinality(S) \notin C
    BY <1>4
  <2> QED
    BY <2>1, <2>2
<1> QED
  BY <1>5 DEF Max

\* A new row comes after the others of its page.
LEMMA RankedLast ==
    ASSUME Numbered, NEW c, c.op \in Inserts, c.tab \in RankTables, "rank" \in DOMAIN c.row
    PROVE  /\ "rank" \in DOMAIN Ranked(c) /\ Ranked(c).rank \in Nat
           /\ \A t \in PageTables(c.tab) : \A id \in DOMAIN db[t] : db[t][id].rank < Ranked(c).rank
<1> DEFINE rows == RowsOf(db, c.tab)
           ranks == {RankIn(db, x) : x \in rows}
           S == ranks \cup {-1}
<1>1. PICK p \in Pages : PageTables(c.tab) = PageTables(p)
  BY PagesApart
<1>2. rows = RowsOf(db, p) /\ PageTables(p) \subseteq RankTables
  BY <1>1, PageIs DEF RowsOf
<1>3. \A x \in rows : RankIn(db, x) \in Nat
  <2> SUFFICES ASSUME NEW x \in RowsOf(db, p)
               PROVE  RankIn(db, x) \in Nat
    BY <1>2
  <2>1. PICK t \in PageTables(p) : \E id \in DOMAIN db[t] : x = <<t, id>>
    BY PageIs
  <2>2. PICK id \in DOMAIN db[t] : x = <<t, id>>
    BY <2>1
  <2> QED
    BY <1>2, <2>2 DEF Numbered, RankIn
<1>4. IsFiniteSet(rows)
  <2>1. \A t \in RankTables : IsFiniteSet({t} \X DOMAIN db[t])
    BY FS_Singleton, FS_Product DEF Numbered
  <2>2. CASE c.tab \in {"cameras", "virtual"}
    <3>1. rows = ({"cameras"} \X DOMAIN db["cameras"]) \cup ({"virtual"} \X DOMAIN db["virtual"])
      BY <2>2 DEF RowsOf, PageTables
    <3>2. "cameras" \in RankTables /\ "virtual" \in RankTables
      BY DEF RankTables
    <3>3. /\ IsFiniteSet({"cameras"} \X DOMAIN db["cameras"])
          /\ IsFiniteSet({"virtual"} \X DOMAIN db["virtual"])
      BY <2>1, <3>2
    <3>4. IsFiniteSet(({"cameras"} \X DOMAIN db["cameras"]) \cup ({"virtual"} \X DOMAIN db["virtual"]))
      BY <3>3, FS_Union
    <3> QED
      BY <3>1, <3>4
  <2>3. CASE c.tab \notin {"cameras", "virtual"}
    <3>1. rows = {c.tab} \X DOMAIN db[c.tab]
      BY <2>3 DEF RowsOf, PageTables
    <3> QED
      BY <2>1, <3>1
  <2> QED
    BY <2>2, <2>3
<1> HIDE DEF rows
<1>5. IsFiniteSet(S) /\ S \in SUBSET Int /\ S # {}
  <2>1. IsFiniteSet(ranks)
    <3> DEFINE f == [x \in rows |-> RankIn(db, x)]
    <3>1. f \in Surjection(rows, ranks)
      BY DEF Surjection
    <3> HIDE DEF f, ranks
    <3> QED
      BY <1>4, <3>1, FS_Surjection
  <2>2. IsFiniteSet({-1})
    BY FS_Singleton
  <2>3. IsFiniteSet(S)
    BY <2>1, <2>2, FS_Union
  <2> QED
    BY <2>3, <1>3
<1>6. Max(S) \in S /\ \A y \in S : Max(S) >= y
  BY <1>5, MaxIs
<1> DEFINE n == Max(S) + 1
<1>7. n \in Nat /\ \A x \in rows : RankIn(db, x) < n
  <2>1. \A x \in rows : RankIn(db, x) \in S
    OBVIOUS
  <2>2. -1 \in S
    OBVIOUS
  <2> HIDE DEF S
  <2>3. Max(S) \in Int /\ Max(S) >= -1
    BY <1>5, <1>6, <2>2
  <2>4. ASSUME NEW x \in rows
        PROVE  RankIn(db, x) < Max(S) + 1
    <3>1. Max(S) >= RankIn(db, x) /\ RankIn(db, x) \in Nat
      BY <1>3, <1>6, <2>1
    <3> QED
      BY <2>3, <3>1
  <2>5. Max(S) + 1 \in Nat
    BY <2>3
  <2> QED
    BY <2>4, <2>5
<1>8. Ranked(c) = [c.row EXCEPT !.rank = n]
  <2>1. ~(c.tab = "lists" /\ c.op = "putpicked")
    BY DEF RankTables
  <2> QED
    BY <2>1 DEF Ranked, rows
<1> HIDE DEF n
<1>9. "rank" \in DOMAIN Ranked(c) /\ Ranked(c).rank = n
  BY <1>8
<1>10. ASSUME NEW t \in PageTables(c.tab), NEW id \in DOMAIN db[t]
       PROVE  db[t][id].rank < n
  <2>1. <<t, id>> \in rows
    BY <1>1, <1>2, PageIs
  <2> QED
    BY <2>1, <1>7 DEF RankIn
<1> QED
  BY <1>7, <1>9, <1>10

\* A coroutine that places rows has the loop.
LEMMA OnePlacer ==
    ASSUME Shaped, Held, Orderly, NEW q \in Requests, Placer(q)
    PROVE  loop = q /\ th[q].async /\ 1 \in DOMAIN L(q) /\ L(q)[1] = Now(q)
<1>1. Running(q) /\ Now(q).op = "place" /\ th[q].begun
  BY DEF Placer, Orderly
<1>2. 1 \in DOMAIN L(q) /\ L(q)[1] = Now(q)
  BY <1>1, NowIs
<1>3. th[q].async
  BY <1>1, <1>2 DEF Orderly, LawfulPlaces
<1>4. Mid(q)
  BY <1>1, <1>3 DEF Mid
<1> QED
  BY <1>2, <1>3, <1>4 DEF Held

\* Another request goes on placing, or not, as it did.
LEMMA PlacerStays ==
    ASSUME NEW q, Unmoved(q)
    PROVE  L(q)' = L(q) /\ (Placer(q)' <=> Placer(q)) /\ th'[q].async = th[q].async
           /\ th'[q].begun = th[q].begun
BY DEF Unmoved, L, Placer, Running, Now

LEMMA OrderlyNext ==
    ASSUME Shaped, DOMAIN db = Tables, Orderly, NEW r \in Requests, Acts(r)
    PROVE  Orderly'
<1>1. Turn(r) /\ Running(r)
  BY ActsTurn
<1>2. ASSUME NEW q \in Requests \ {r}
      PROVE  LawfulPlaces(L(q), th[q].async)' /\ (Placer(q)' => th'[q].begun)
  <2>1. Unmoved(q)
    BY <1>1 DEF Turn
  <2>2. L(q)' = L(q) /\ (Placer(q)' <=> Placer(q)) /\ th'[q].async = th[q].async
        /\ th'[q].begun = th[q].begun
    BY <2>1, PlacerStays
  <2>3. LawfulPlaces(L(q), th[q].async) /\ (Placer(q) => th[q].begun)
    BY DEF Orderly
  <2> QED
    BY <2>2, <2>3 DEF LawfulPlaces
<1>3. LawfulPlaces(L(r)', th'[r].async) /\ th'[r].begun
  <2>1. /\ L(r)' = Tail(L(r)) \/ L(r)' = <<>>
        /\ th'[r].async = th[r].async /\ th'[r].begun
    BY <1>1 DEF Turn, Onward, Dropped, Same, L
  <2>2. L(r) # <<>> /\ Listing(L(r)) /\ LawfulPlaces(L(r), th[r].async)
    BY <1>1, NowIs DEF Orderly
  <2>3. LawfulPlaces(Tail(L(r)), th[r].async) /\ LawfulPlaces(<<>>, th[r].async)
    BY <2>2, PlacesTail, PlacesEmpty
  <2> QED
    BY <2>1, <2>3
<1>4. LawfulPlaces(L(r), th[r].async)'
  BY <1>3 DEF LawfulPlaces
<1> QED
  BY <1>2, <1>3, <1>4 DEF Orderly

\* The rank of a row changes only where it is placed.
LEMMA RankNext ==
    ASSUME Shaped, Kept, Numbered, NEW r \in Requests, Acts(r),
           NEW t \in RankTables, NEW id \in DOMAIN db'[t]
    PROVE  \/ /\ Added(r) /\ t = Now(r).tab /\ id = Inserted(r) /\ id \notin DOMAIN db[t]
              /\ db'[t][id] = Ranked(Now(r))
           \/ /\ id \in DOMAIN db[t] /\ "rank" \in DOMAIN db'[t][id]
              /\ db'[t][id].rank = IF Places(Now(r), <<t, id>>) THEN Now(r).rank ELSE db[t][id].rank
<1> DEFINE c == Now(r)
           Stays == /\ id \in DOMAIN db[t] /\ "rank" \in DOMAIN db'[t][id]
                    /\ db'[t][id].rank = db[t][id].rank
<1>0. t \in Tables /\ DOMAIN db = Tables
  BY DEF Kept, RankTables, Tables
<1>1. id \in DOMAIN db[t] => "rank" \in DOMAIN db[t][id]
  BY DEF Numbered
<1>2. c.op # "place" => ~Places(c, <<t, id>>)
  BY DEF Places
<1>3. CASE Checked(r) \/ Looked(r) \/ Resumed(r) \/ Failed(r)
  <2>1. db' = db /\ c.op # "place"
    BY <1>3 DEF Checked, Looked, Resumed, Failed, Quiet, Checks, Inserts
  <2> QED
    BY <2>1, <1>1, <1>2
<1>4. CASE Skipped(r)
  <2>1. db' = db /\ (c.op = "place" => c.id \notin DOMAIN db[c.tab])
    BY <1>4 DEF Skipped, Quiet
  <2>2. ~Places(c, <<t, id>>)
    BY <2>1 DEF Places
  <2> QED
    BY <2>1, <2>2, <1>1
<1>5. CASE Added(r)
  <2>1. c.op # "place"
    BY <1>5 DEF Added, Inserts
  <2>2. CASE t # c.tab
    <3>1. db'[t] = db[t]
      BY <1>0, <1>5, <2>2 DEF Added, Others
    <3> QED
      BY <2>1, <3>1, <1>1, <1>2
  <2>3. CASE t = c.tab /\ id = Inserted(r)
    BY <1>5, <2>3 DEF Added
  <2>4. CASE t = c.tab /\ id # Inserted(r)
    <3>1. id \in DOMAIN db[t] /\ db'[t][id] = db[t][id]
      BY <1>5, <2>4 DEF Added
    <3> QED
      BY <2>1, <3>1, <1>1, <1>2
  <2> QED
    BY <2>2, <2>3, <2>4
<1>6. CASE Rewritten(r)
  <2>1. CASE t # c.tab
    <3>1. db'[t] = db[t] /\ ~Places(c, <<t, id>>)
      BY <1>0, <1>6, <2>1 DEF Rewritten, Others, Places
    <3> QED
      BY <3>1, <1>1
  <2>2. CASE t = c.tab /\ id # c.id
    <3>1. id \in DOMAIN db[t] /\ db'[t][id] = db[t][id] /\ ~Places(c, <<t, id>>)
      BY <1>6, <2>2 DEF Rewritten, Places
    <3> QED
      BY <3>1, <1>1
  <2>3. CASE t = c.tab /\ id = c.id
    <3>1. /\ DOMAIN db'[t][id] = DOMAIN db[t][id] /\ LawfulStatement(r, c) /\ id \in DOMAIN db[t]
          /\ \A f \in DOMAIN db[t][id] : f # Column(c) => db'[t][id][f] = db[t][id][f]
          /\ Column(c) \in DOMAIN db[t][id] => db'[t][id][Column(c)] = Value(c)
          /\ c.op \in {"set", "place"}
      <4>1. c.id \in DOMAIN db[c.tab] /\ c.op \in {"set", "place"}
        BY <1>6 DEF Rewritten
      <4> QED
        BY <1>6, <2>3, <4>1, RewrittenRow
    <3>2. CASE c.op = "place"
      <4>1. Column(c) = "rank" /\ Value(c) = c.rank /\ Places(c, <<t, id>>)
        BY <2>3, <3>2 DEF Column, Value, Places
      <4> QED
        BY <3>1, <4>1, <1>1
    <3>3. CASE c.op = "set"
      <4>1. Column(c) # "rank"
        BY <3>1, <3>3 DEF LawfulStatement, SetColumns, Column
      <4> QED
        BY <3>1, <3>3, <4>1, <1>1, <1>2
    <3> QED
      BY <3>1, <3>2, <3>3
  <2> QED
    BY <2>1, <2>2, <2>3
<1>7. CASE Nulled(r)
  <2>1. c.op = "null" /\ MayStep(r)
    BY <1>7 DEF Nulled, Loud, Turn
  <2>2. c.col # "rank"
    <3>1. LawfulStatement(r, c)
      BY <2>1, MayStepRuns, NowIs
    <3> QED
      BY <2>1, <3>1 DEF LawfulStatement, NullColumns
  <2>3. CASE t # c.tab
    <3>1. db'[t] = db[t]
      BY <1>0, <1>7, <2>3 DEF Nulled, Others
    <3> QED
      BY <2>1, <3>1, <1>1, <1>2
  <2>4. CASE t = c.tab
    <3>1. /\ id \in DOMAIN db[t]
          /\ db'[t][id] = IF db[t][id][c.col] = c.val THEN [db[t][id] EXCEPT ![c.col] = None]
                          ELSE db[t][id]
      BY <1>7, <2>4 DEF Nulled
    <3>2. Stays
      BY <2>2, <3>1, <1>1
    <3> QED
      BY <2>1, <3>2, <1>2
  <2> QED
    BY <2>3, <2>4
<1>8. CASE Marked(r)
  <2>1. db'[t] = db[t] /\ c.op # "place"
    BY <1>0, <1>8 DEF Marked, Others, RankTables
  <2> QED
    BY <2>1, <1>1, <1>2
<1>9. CASE Deleted(r)
  <2>1. c.op # "place"
    BY <1>9 DEF Deleted
  <2>2. id \in DOMAIN db[t] /\ db'[t][id] = db[t][id]
    <3>1. t # "sessions"
      BY DEF RankTables
    <3> QED
      BY <3>1, <1>0, <1>9, DeletedRows
  <2> QED
    BY <2>1, <2>2, <1>1, <1>2
<1> QED
  BY <1>3, <1>4, <1>5, <1>6, <1>7, <1>8, <1>9 DEF Acts

LEMMA NumberedNext ==
    ASSUME Shaped, Kept, Orderly, Numbered, NEW r \in Requests, Acts(r)
    PROVE  Numbered'
<1> DEFINE c == Now(r)
<1>0. Running(r) /\ DOMAIN db = Tables
  BY ActsTurn DEF Kept
<1>1. 1 \in DOMAIN L(r) /\ L(r)[1] = c /\ LawfulPlaces(L(r), th[r].async)
  BY <1>0, NowIs DEF Orderly
<1>2. c.op = "place" => c.rank \in Nat
  BY <1>1 DEF LawfulPlaces
<1>3. Added(r) /\ c.tab \in RankTables => /\ "rank" \in DOMAIN Ranked(c) /\ Ranked(c).rank \in Nat
  <2> SUFFICES ASSUME Added(r), c.tab \in RankTables
               PROVE  "rank" \in DOMAIN Ranked(c) /\ Ranked(c).rank \in Nat
    OBVIOUS
  <2>1. c.op \in Inserts
    BY DEF Added
  <2>2. "rank" \in DOMAIN c.row
    BY <1>1, <2>1 DEF LawfulPlaces
  <2> QED
    BY <2>1, <2>2, RankedLast
<1> HIDE DEF c
<1>4. ASSUME NEW t \in RankTables, NEW id \in DOMAIN db'[t]
      PROVE  "rank" \in DOMAIN db'[t][id] /\ db'[t][id].rank \in Nat
  <2>1. \/ Added(r) /\ t = c.tab /\ db'[t][id] = Ranked(c)
        \/ /\ id \in DOMAIN db[t] /\ "rank" \in DOMAIN db'[t][id]
           /\ db'[t][id].rank = IF Places(c, <<t, id>>) THEN c.rank ELSE db[t][id].rank
    BY RankNext DEF c
  <2> QED
    BY <2>1, <1>2, <1>3 DEF Numbered, Places
<1>5. ASSUME NEW t \in RankTables
      PROVE  IsFiniteSet(DOMAIN db'[t])
  <2>1. DOMAIN db'[t] \subseteq DOMAIN db[t] \cup {Inserted(r)}
    BY RankNext
  <2>2. IsFiniteSet(DOMAIN db[t] \cup {Inserted(r)})
    BY FS_AddElement DEF Numbered
  <2> QED
    BY <2>1, <2>2, FS_Subset
<1> QED
  BY <1>4, <1>5 DEF Numbered

\* A row of a page is there before the step, but for the one that is added.
LEMMA RowNext ==
    ASSUME Shaped, Kept, Numbered, NEW r \in Requests, Acts(r), NEW p \in Pages,
           NEW x \in RowsOf(db', p)
    PROVE  \/ /\ Added(r) /\ Now(r).tab \in PageTables(p) /\ x = <<Now(r).tab, Inserted(r)>>
              /\ RankIn(db', x) = Ranked(Now(r)).rank
           \/ /\ x \in RowsOf(db, p)
              /\ RankIn(db', x) = IF Places(Now(r), x) THEN Now(r).rank ELSE RankIn(db, x)
<1>1. PICK t \in PageTables(p) : \E id \in DOMAIN db'[t] : x = <<t, id>>
  BY PageIs
<1>2. PICK id \in DOMAIN db'[t] : x = <<t, id>>
  BY <1>1
<1>3. t \in RankTables
  BY PageIs
<1>4. CASE /\ Added(r) /\ t = Now(r).tab /\ id = Inserted(r) /\ id \notin DOMAIN db[t]
           /\ db'[t][id] = Ranked(Now(r))
  BY <1>2, <1>4 DEF RankIn
<1>5. CASE /\ id \in DOMAIN db[t]
           /\ db'[t][id].rank = IF Places(Now(r), <<t, id>>) THEN Now(r).rank ELSE db[t][id].rank
  <2>1. x \in RowsOf(db, p)
    BY <1>2, <1>5, PageIs
  <2> QED
    BY <1>2, <1>5, <2>1 DEF RankIn
<1> QED
  BY <1>3, <1>4, <1>5, RankNext

\* What a request that places nothing leaves to the others.
LEMMA EndsKept ==
    ASSUME NEW r \in Requests, Turn(r), ~Placer(r), ~Placer(r)', NEW x, NEW n,
           RankIn(db', x) = RankIn(db, x), MayEnd(x, n)'
    PROVE  MayEnd(x, n)
<1>1. \A q \in Requests : (Placer(q)' <=> Placer(q)) /\ (Placer(q) => L(q)' = L(q))
  BY PlacerStays DEF Turn
<1>2. \A q \in Requests : PlacedBy(q, x)' <=> PlacedBy(q, x)
  BY <1>1 DEF PlacedBy
<1>3. CASE \E q \in Requests : /\ Placer(q)'
                               /\ \E i \in DOMAIN L(q)' : Places(L(q)'[i], x) /\ L(q)'[i].rank = n
  BY <1>1, <1>3 DEF MayEnd
<1>4. CASE (\A q \in Requests : ~PlacedBy(q, x)') /\ RankIn(db', x) = n
  BY <1>2, <1>4 DEF MayEnd
<1> QED
  BY <1>3, <1>4 DEF MayEnd, Places

\* A row that is placed has one of the ranks it might end with.
LEMMA EndsPlaced ==
    ASSUME Shaped, Orderly, NEW r \in Requests, Turn(r), Onward(r), Placer(r), NEW x, NEW n,
           RankIn(db', x) = IF Places(Now(r), x) THEN Now(r).rank ELSE RankIn(db, x),
           MayEnd(x, n)'
    PROVE  MayEnd(x, n)
<1>1. \A q \in Requests \ {r} : (Placer(q)' <=> Placer(q)) /\ L(q)' = L(q)
  BY PlacerStays DEF Turn
<1>2. /\ Running(r) /\ 1 \in DOMAIN L(r) /\ L(r)[1] = Now(r) /\ Now(r).op = "place"
      /\ Len(L(r)) \in Nat /\ DOMAIN L(r) = 1 .. Len(L(r))
      /\ DOMAIN Tail(L(r)) = 1 .. Len(L(r)) - 1 /\ Listing(L(r)) /\ L(r) # <<>>
      /\ \A i \in 1 .. Len(L(r)) - 1 : Tail(L(r))[i] = L(r)[i + 1]
  BY NowIs DEF Placer
<1>3. L(r)' = Tail(L(r))
  BY DEF Onward, L
<1>4. \A i \in DOMAIN L(r)' : i + 1 \in DOMAIN L(r) /\ L(r)'[i] = L(r)[i + 1]
  BY <1>2, <1>3
<1>5. CASE \E q \in Requests : /\ Placer(q)'
                               /\ \E i \in DOMAIN L(q)' : Places(L(q)'[i], x) /\ L(q)'[i].rank = n
  <2>1. PICK q \in Requests : /\ Placer(q)'
                              /\ \E i \in DOMAIN L(q)' : Places(L(q)'[i], x) /\ L(q)'[i].rank = n
    BY <1>5
  <2>2. Placer(q) /\ \E i \in DOMAIN L(q) : Places(L(q)[i], x) /\ L(q)[i].rank = n
    <3>1. CASE q = r
      BY <2>1, <3>1, <1>4
    <3>2. CASE q # r
      BY <2>1, <3>2, <1>1
    <3> QED
      BY <3>1, <3>2
  <2> QED
    BY <2>2 DEF MayEnd
<1>6. CASE (\A q \in Requests : ~PlacedBy(q, x)') /\ RankIn(db', x) = n
  <2>1. CASE Places(Now(r), x)
    <3>1. Places(L(r)[1], x) /\ L(r)[1].rank = n
      BY <1>2, <1>6, <2>1
    <3> QED
      BY <1>2, <3>1 DEF MayEnd
  <2>2. CASE ~Places(Now(r), x)
    <3>1. ASSUME NEW q \in Requests, PlacedBy(q, x)
          PROVE  FALSE
      <4>1. CASE q # r
        <5>1. PlacedBy(q, x)'
          BY <1>1, <3>1, <4>1 DEF PlacedBy
        <5> QED
          BY <5>1, <1>6
      <4>2. CASE q = r
        <5>1. PICK i \in DOMAIN L(r) : Places(L(r)[i], x)
          BY <3>1, <4>2 DEF PlacedBy
        <5>2. i # 1
          BY <5>1, <1>2, <2>2
        <5>3. i - 1 \in DOMAIN L(r)' /\ L(r)'[i - 1] = L(r)[i] /\ 2 \in DOMAIN L(r)
              /\ 1 \in DOMAIN L(r)' /\ L(r)'[1] = L(r)[2]
          <6>1. i - 1 \in 1 .. Len(L(r)) - 1 /\ (i - 1) + 1 = i /\ 1 \in 1 .. Len(L(r)) - 1
                /\ 2 \in 1 .. Len(L(r))
            BY <1>2, <5>2
          <6>2. Tail(L(r))[i - 1] = L(r)[i] /\ Tail(L(r))[1] = L(r)[1 + 1]
            BY <1>2, <6>1
          <6> QED
            BY <1>2, <1>3, <6>1, <6>2
        <5>4. L(r)[2].op = "place"
          <6>1. LawfulPlaces(L(r), th[r].async)
            BY DEF Orderly
          <6>2. 2 > 1
            OBVIOUS
          <6> QED
            BY <1>2, <5>3, <6>1, <6>2 DEF LawfulPlaces
        <5>5. Placer(r)'
          <6>1. Tail(L(r)) # <<>> /\ Listing(Tail(L(r)))
            BY <1>2, <1>3, <5>3, ListOf, EmptyListing
          <6>2. Head(Tail(L(r))) = Tail(L(r))[1]
            BY <6>1, ListOf
          <6>3. th'[r].todo = Tail(L(r))
            BY <1>3 DEF L
          <6> QED
            BY <6>1, <6>2, <6>3, <5>3, <5>4, <1>3 DEF Placer, Running, Now
        <5>6. PlacedBy(r, x)'
          BY <5>1, <5>3, <5>5 DEF PlacedBy
        <5> QED
          BY <5>6, <1>6
      <4> QED
        BY <4>1, <4>2
    <3> QED
      BY <3>1, <2>2, <1>6 DEF MayEnd
  <2> QED
    BY <2>1, <2>2
<1> QED
  BY <1>5, <1>6 DEF MayEnd

LEMMA ShownOn ==
    ASSUME RegistryAssumption, NEW p \in Pages, NEW o \in Orders[p], NEW x \in Shown(p, o)
    PROVE  \E t \in PageTables(p) : \E id : x = <<t, id>>
<1>1. CASE p = "cameras"
  <2>1. PICK i \in DOMAIN o : x = o[i]
    BY <1>1 DEF Shown, Range
  <2>2. o[i][1] \in {"cameras", "virtual"} /\ o[i] = <<o[i][1], o[i][2]>>
    BY <1>1 DEF RegistryAssumption
  <2>3. PageTables(p) = {"cameras", "virtual"}
    BY <1>1 DEF PageTables
  <2> QED
    BY <2>1, <2>2, <2>3
<1>2. CASE p # "cameras"
  <2>1. PageTables(p) = {p}
    BY <1>2 DEF Pages, PageTables
  <2> QED
    BY <1>2, <2>1 DEF Shown
<1> QED
  BY <1>1, <1>2

\* A coroutine that does something else may step only when nobody places rows.
LEMMA NoPlacer ==
    ASSUME RegistryAssumption, Shaped, Held, Orderly, NEW r \in Requests, Turn(r),
           th[r].async, Now(r).op # "place"
    PROVE  /\ \A q \in Requests : ~Placer(q)
           /\ \A q \in Requests \ {r} : ~Placer(q)'
<1>1. ASSUME NEW q \in Requests, Placer(q)
      PROVE  FALSE
  <2>1. loop = q /\ q # None
    BY <1>1, OnePlacer DEF RegistryAssumption
  <2>2. loop \in {r, None}
    BY DEF Turn, MayStep
  <2> QED
    BY <2>1, <2>2, <1>1 DEF Placer
<1>2. \A q \in Requests \ {r} : Placer(q)' <=> Placer(q)
  BY PlacerStays DEF Turn
<1> QED
  BY <1>1, <1>2

\* Rows begin to be placed right after an await, all those of the page shown.
LEMMA PlacerBegins ==
    ASSUME Shaped, Orderly, NEW r \in Requests, Turn(r), Now(r).op # "place", Placer(r)'
    PROVE  /\ Now(r).op = "await" /\ th[r].async
           /\ \E p \in Pages : \E o \in Orders[p] :
                  \A x : (\E j \in DOMAIN L(r)' : Places(L(r)'[j], x)) <=> x \in Shown(p, o)
<1> DEFINE l == L(r)
           k == L(r)'
<1>1. Running(r)
  BY MayStepRuns DEF Turn
<1>2. /\ l # <<>> /\ Listing(l) /\ 1 \in DOMAIN l /\ Now(r) = l[1] /\ Len(l) \in Nat
      /\ DOMAIN l = 1 .. Len(l) /\ DOMAIN Tail(l) = 1 .. Len(l) - 1
      /\ \A i \in 1 .. Len(l) - 1 : Tail(l)[i] = l[i + 1]
  BY <1>1, NowIs
<1>3. k = Tail(l) /\ k # <<>> /\ Head(k).op = "place"
  BY DEF Turn, Onward, Dropped, L, Placer, Running, Now
<1>4. Listing(k)
  BY <1>2, <1>3, ListOf
<1>5. 1 \in DOMAIN k /\ Head(k) = k[1]
  BY <1>3, <1>4, ListOf
<1>6. 2 \in DOMAIN l /\ l[2] = k[1]
  <2>1. 1 \in 1 .. Len(l) - 1 /\ 2 \in 1 .. Len(l) /\ 1 + 1 = 2
    BY <1>2, <1>3, <1>5
  <2>2. Tail(l)[1] = l[1 + 1]
    BY <1>2, <2>1
  <2> QED
    BY <2>1, <2>2, <1>2, <1>3
<1>7. LawfulPlaces(l, th[r].async)
  BY DEF Orderly
<1> HIDE DEF l, k
<1>8. /\ th[r].async /\ l[1].op = "await"
      /\ \E p \in Pages : \E o \in Orders[p] :
             \A x : (\E j \in DOMAIN l : Places(l[j], x)) <=> x \in Shown(p, o)
  <2>1. l[2].op = "place" /\ 2 > 1 /\ 2 - 1 = 1 /\ l[2 - 1].op # "place"
    BY <1>2, <1>3, <1>5, <1>6
  <2>2. /\ th[r].async /\ l[2 - 1].op = "await"
        /\ \E p \in Pages : \E o \in Orders[p] :
               \A x : (\E j \in DOMAIN l : Places(l[j], x)) <=> x \in Shown(p, o)
    BY <2>1, <1>6, <1>7 DEF LawfulPlaces
  <2> QED
    BY <2>1, <2>2
<1>9. \A x : (\E j \in DOMAIN k : Places(k[j], x)) <=> (\E j \in DOMAIN l : Places(l[j], x))
  <2>1. \A j \in DOMAIN k : j + 1 \in DOMAIN l /\ k[j] = l[j + 1]
    BY <1>2, <1>3
  <2>2. \A j \in DOMAIN l : j # 1 => j - 1 \in DOMAIN k /\ k[j - 1] = l[j]
    <3> SUFFICES ASSUME NEW j \in DOMAIN l, j # 1
                 PROVE  j - 1 \in DOMAIN k /\ k[j - 1] = l[j]
      OBVIOUS
    <3>1. j - 1 \in 1 .. Len(l) - 1 /\ (j - 1) + 1 = j
      BY <1>2
    <3>2. Tail(l)[j - 1] = l[(j - 1) + 1]
      BY <1>2, <3>1
    <3> QED
      BY <3>1, <3>2, <1>2, <1>3
  <2>3. \A x : ~Places(l[1], x)
    BY <1>8 DEF Places
  <2> QED
    BY <2>1, <2>2, <2>3
<1> QED
  BY <1>2, <1>8, <1>9 DEF l, k

\* Without anyone who places rows, each may end with the rank it has.
LEMMA EndsAsIs ==
    ASSUME \A q \in Requests : ~Placer(q), NEW x, NEW n
    PROVE  MayEnd(x, n) <=> RankIn(db, x) = n
BY DEF MayEnd, PlacedBy

\* A row is added while nobody places any.
LEMMA SortedAdded ==
    ASSUME RegistryAssumption, Shaped, Held, Kept, Orderly, Numbered, Sorted, crashes = 0,
           NEW r \in Requests, Acts(r), Added(r), Now(r).tab \in RankTables,
           NEW p \in Pages, NEW x \in RowsOf(db', p), NEW y \in RowsOf(db', p),
           Alike(p, x, y), x # y, NEW n, MayEnd(x, n)', MayEnd(y, n)'
    PROVE  FALSE
<1> DEFINE c == Now(r)
           new == <<c.tab, Inserted(r)>>
<1>1. Turn(r) /\ Running(r) /\ c.op \in Inserts /\ c.op \notin {"place", "await"}
  BY ActsTurn DEF Added, Inserts, Kept
<1>2. th[r].async /\ "rank" \in DOMAIN c.row
  <2>1. 1 \in DOMAIN L(r) /\ L(r)[1] = c /\ LawfulPlaces(L(r), th[r].async)
    BY <1>1, NowIs DEF Orderly
  <2> QED
    BY <2>1, <1>1 DEF LawfulPlaces
<1>3. (\A q \in Requests : ~Placer(q)) /\ (\A q \in Requests \ {r} : ~Placer(q)')
  BY <1>1, <1>2, NoPlacer
<1>4. ~Placer(r)'
  BY <1>1, PlacerBegins
<1>5. RankIn(db', x) = n /\ RankIn(db', y) = n
  <2>1. \A q \in Requests : ~PlacedBy(q, x)' /\ ~PlacedBy(q, y)'
    BY <1>3, <1>4 DEF PlacedBy
  <2>2. \A q \in Requests : ~Placer(q)'
    BY <1>3, <1>4
  <2> QED
    BY <2>1, <2>2 DEF MayEnd
<1>6. ASSUME NEW z \in RowsOf(db', p)
      PROVE  \/ z = new /\ RankIn(db', z) = Ranked(c).rank /\ c.tab \in PageTables(p)
             \/ z \in RowsOf(db, p) /\ RankIn(db', z) = RankIn(db, z)
  BY RowNext, <1>1 DEF Places
<1>7. Ranked(c).rank \in Nat
      /\ \A t \in PageTables(c.tab) : \A id \in DOMAIN db[t] : db[t][id].rank < Ranked(c).rank
  BY <1>1, <1>2, RankedLast
<1>8. c.tab \in PageTables(p) => PageTables(c.tab) = PageTables(p)
  BY PagesApart
<1> HIDE DEF c, new
<1>9. ASSUME NEW z \in RowsOf(db, p), c.tab \in PageTables(p)
      PROVE  RankIn(db, z) # Ranked(c).rank
  <2>1. PICK t \in PageTables(p) : \E id \in DOMAIN db[t] : z = <<t, id>>
    BY PageIs
  <2>2. PICK id \in DOMAIN db[t] : z = <<t, id>>
    BY <2>1
  <2>3. db[t][id].rank < Ranked(c).rank /\ db[t][id].rank \in Nat
    <3>1. t \in RankTables
      BY PageIs
    <3> QED
      BY <3>1, <1>7, <1>8, <1>9 DEF Numbered
  <2> QED
    BY <2>2, <2>3, <1>7 DEF RankIn
<1>10. x \in RowsOf(db, p) /\ y \in RowsOf(db, p) /\ RankIn(db, x) = n /\ RankIn(db, y) = n
  BY <1>5, <1>6, <1>9
<1>11. MayEnd(x, n) /\ MayEnd(y, n)
  BY <1>3, <1>10, EndsAsIs
<1> QED
  BY <1>10, <1>11 DEF Sorted

\* The rows shown are about to be placed, each with a rank of its own.
LEMMA SortedBegun ==
    ASSUME RegistryAssumption, Shaped, Held, Kept, Orderly, Numbered, Sorted, crashes = 0,
           NEW r \in Requests, Acts(r), Now(r).op # "place", Placer(r)',
           NEW p \in Pages, NEW x \in RowsOf(db', p), NEW y \in RowsOf(db', p),
           Alike(p, x, y), x # y, NEW n, MayEnd(x, n)', MayEnd(y, n)'
    PROVE  FALSE
<1> DEFINE l == L(r)'
<1>1. Turn(r) /\ Running(r) /\ Orderly'
  BY ActsTurn, OrderlyNext DEF Kept
<1>2. Now(r).op = "await" /\ th[r].async
  BY <1>1, PlacerBegins
<1>3. PICK p0 \in Pages : \E o \in Orders[p0] :
          \A z : (\E j \in DOMAIN l : Places(l[j], z)) <=> z \in Shown(p0, o)
  BY <1>1, PlacerBegins
<1>4. PICK o \in Orders[p0] : \A z : (\E j \in DOMAIN l : Places(l[j], z)) <=> z \in Shown(p0, o)
  BY <1>3
<1>5. db' = db
  BY <1>2, ActsByOp DEF Resumed, Quiet
<1>6. (\A q \in Requests : ~Placer(q)) /\ (\A q \in Requests \ {r} : ~Placer(q)')
  BY <1>1, <1>2, NoPlacer
<1>7. ASSUME NEW z, MayEnd(z, n)'
      PROVE  \/ \E i \in DOMAIN l : Places(l[i], z) /\ l[i].rank = n
             \/ (\A i \in DOMAIN l : ~Places(l[i], z)) /\ MayEnd(z, n)
  <2>1. CASE \E q \in Requests : /\ Placer(q)'
                                 /\ \E i \in DOMAIN L(q)' : Places(L(q)'[i], z) /\ L(q)'[i].rank = n
    BY <2>1, <1>6
  <2>2. CASE (\A q \in Requests : ~PlacedBy(q, z)') /\ RankIn(db', z) = n
    <3>1. \A i \in DOMAIN l : ~Places(l[i], z)
      BY <2>2 DEF PlacedBy
    <3>2. MayEnd(z, n)
      BY <2>2, <1>5, <1>6, EndsAsIs
    <3> QED
      BY <3>1, <3>2
  <2> QED
    BY <1>7, <2>1, <2>2 DEF MayEnd
<1>8. x \in Shown(p0, o) <=> y \in Shown(p0, o)
  <2>1. CASE p0 = p
    BY <2>1 DEF Alike
  <2>2. CASE p0 # p
    <3>1. ASSUME NEW z \in RowsOf(db', p), z \in Shown(p0, o)
          PROVE  FALSE
      <4>1. PICK t \in PageTables(p0) : \E id : z = <<t, id>>
        BY <3>1, ShownOn
      <4>2. PICK u \in PageTables(p) : \E id \in DOMAIN db'[u] : z = <<u, id>>
        BY PageIs
      <4>3. t = u
        BY <4>1, <4>2
      <4> QED
        BY <4>3, <2>2, PagesApart
    <3> QED
      BY <3>1
  <2> QED
    BY <2>1, <2>2
<1>9. (\E j \in DOMAIN l : Places(l[j], x)) <=> (\E j \in DOMAIN l : Places(l[j], y))
  BY <1>4, <1>8
<1>10. LawfulPlaces(l, th'[r].async) /\ DOMAIN l \subseteq Nat
  <2>1. DOMAIN l \subseteq Nat
    BY <1>1, Leftover
  <2> QED
    BY <1>1, <2>1 DEF Orderly, LawfulPlaces
<1> HIDE DEF l
<1>11. CASE \E j \in DOMAIN l : Places(l[j], x)
  <2>1. PICK i \in DOMAIN l : Places(l[i], x) /\ l[i].rank = n
    BY <1>7, <1>11
  <2>2. PICK j \in DOMAIN l : Places(l[j], y) /\ l[j].rank = n
    BY <1>7, <1>9, <1>11
  <2>3. i # j
    BY <2>1, <2>2 DEF Places
  <2>4. i \in Nat /\ j \in Nat
    BY <1>10
  <2>5. i < j \/ j < i
    BY <2>3, <2>4
  <2>6. j > i \/ i > j
    BY <2>4, <2>5
  <2>7. l[i].op = "place" /\ l[j].op = "place"
    BY <2>1, <2>2 DEF Places
  <2> QED
    BY <2>1, <2>2, <2>6, <2>7, <1>10 DEF LawfulPlaces
<1>12. CASE ~ \E j \in DOMAIN l : Places(l[j], x)
  <2>1. MayEnd(x, n) /\ MayEnd(y, n)
    BY <1>7, <1>9, <1>12
  <2>2. x \in RowsOf(db, p) /\ y \in RowsOf(db, p)
    BY <1>5
  <2> QED
    BY <2>1, <2>2 DEF Sorted
<1> QED
  BY <1>11, <1>12

LEMMA SortedNext ==
    ASSUME RegistryAssumption, Shaped, Held, Kept, OrderInv, NEW r \in Requests, Acts(r)
    PROVE  Sorted'
<1>1. Turn(r) /\ crashes' = crashes /\ Running(r) /\ Orderly /\ Numbered /\ Sorted
  BY ActsTurn DEF Kept, OrderInv
<1> SUFFICES ASSUME crashes = 0, NEW p \in Pages, NEW x \in RowsOf(db', p), NEW y \in RowsOf(db', p),
                    Alike(p, x, y), x # y, NEW n, MayEnd(x, n)', MayEnd(y, n)'
             PROVE  FALSE
  BY <1>1 DEF Sorted, Alike
<1>2. CASE Added(r) /\ Now(r).tab \in RankTables
  BY <1>1, <1>2, SortedAdded
<1>3. CASE Now(r).op # "place" /\ Placer(r)'
  BY <1>1, <1>3, SortedBegun
<1>4. CASE ~(Added(r) /\ Now(r).tab \in RankTables) /\ ~(Now(r).op # "place" /\ Placer(r)')
  <2>1. ASSUME NEW z \in RowsOf(db', p)
        PROVE  /\ z \in RowsOf(db, p)
               /\ RankIn(db', z) = IF Places(Now(r), z) THEN Now(r).rank ELSE RankIn(db, z)
    <3>1. ~(Added(r) /\ Now(r).tab \in PageTables(p))
      BY <1>4, PageIs
    <3> QED
      BY <1>1, <3>1, RowNext
  <2>2. ASSUME NEW z \in RowsOf(db', p), MayEnd(z, n)'
        PROVE  MayEnd(z, n)
    <3>1. CASE Now(r).op = "place"
      <4>1. Onward(r)
        BY <3>1, ActsByOp DEF Skipped, Rewritten, Loud
      <4>2. Placer(r)
        BY <1>1, <3>1 DEF Placer
      <4> QED
        BY <1>1, <2>1, <2>2, <4>1, <4>2, EndsPlaced
    <3>2. CASE Now(r).op # "place"
      <4>1. ~Placer(r) /\ ~Placer(r)'
        BY <1>4, <3>2 DEF Placer
      <4>2. RankIn(db', z) = RankIn(db, z)
        BY <2>1, <3>2 DEF Places
      <4> QED
        BY <1>1, <2>2, <4>1, <4>2, EndsKept
    <3> QED
      BY <3>1, <3>2
  <2>3. x \in RowsOf(db, p) /\ y \in RowsOf(db, p) /\ MayEnd(x, n) /\ MayEnd(y, n)
    BY <2>1, <2>2
  <2> QED
    BY <1>1, <2>3 DEF Sorted
<1> QED
  BY <1>2, <1>3, <1>4

LEMMA OrderCrash ==
    ASSUME Crashed, OrderInv, DOMAIN th = Requests, \A q \in Requests : DOMAIN th[q] = Fields
    PROVE  OrderInv'
<1>1. ASSUME NEW q \in Requests
      PROVE  /\ L(q)' = L(q) \/ L(q)' = <<>>
             /\ th'[q].async = th[q].async /\ th'[q].begun = th[q].begun
             /\ Placer(q)' => Placer(q)
  <2>1. CASE q \in Lost
    <3>1. th'[q] = [th[q] EXCEPT !.todo = <<>>]
      BY <2>1 DEF Crashed
    <3>2. th'[q].todo = <<>> /\ th'[q].async = th[q].async /\ th'[q].begun = th[q].begun
      BY <3>1 DEF Fields
    <3> QED
      BY <3>2 DEF L, Placer, Running
  <2>2. CASE q \notin Lost
    <3>1. th'[q] = th[q]
      BY <2>2 DEF Crashed
    <3> QED
      BY <3>1 DEF L, Placer, Running, Now
  <2> QED
    BY <2>1, <2>2
<1>2. Orderly'
  <2> SUFFICES ASSUME NEW q \in Requests
               PROVE  LawfulPlaces(L(q), th[q].async)' /\ (Placer(q)' => th'[q].begun)
    BY DEF Orderly
  <2>1. LawfulPlaces(L(q)', th'[q].async)
    BY <1>1, PlacesEmpty DEF OrderInv, Orderly
  <2>2. Placer(q)' => th'[q].begun
    BY <1>1 DEF OrderInv, Orderly
  <2> QED
    BY <2>1, <2>2 DEF LawfulPlaces
<1>3. Numbered'
  BY DEF Crashed, OrderInv, Numbered
<1>4. Sorted'
  <2>1. crashes' # 0
    BY DEF Crashed
  <2> QED
    BY <2>1 DEF Sorted
<1> QED
  BY <1>2, <1>3, <1>4 DEF OrderInv

LEMMA OrderStutter ==
    ASSUME OrderInv, UNCHANGED vars
    PROVE  OrderInv'
<1>1. db' = db /\ th' = th /\ crashes' = crashes
  BY DEF vars
<1>2. \A q \in Requests : L(q)' = L(q) /\ (Placer(q)' <=> Placer(q))
  BY <1>1 DEF L, Placer, Running, Now
<1>3. Orderly'
  BY <1>1, <1>2 DEF OrderInv, Orderly, LawfulPlaces, Places, Shown
<1>4. Numbered'
  BY <1>1 DEF OrderInv, Numbered
<1>5. \A x, n : MayEnd(x, n)' <=> MayEnd(x, n)
  BY <1>1, <1>2 DEF MayEnd, PlacedBy, Places
<1>6. Sorted'
  BY <1>1, <1>5 DEF OrderInv, Sorted, Alike, Shown
<1> QED
  BY <1>3, <1>4, <1>6 DEF OrderInv

-----------------------------------------------------------------------------
(* Names that two requests may want at once: of accounts and of calendars. *)

\* What inserts an account, or a calendar.
Claims(c) == (c.op = "put" /\ c.tab = "users") \/ (c.op = "putpicked" /\ c.tab = "calendars")
Unclaimed == Tables \ {"users", "calendars"}

\* The name was looked for in the statement before; a thread inserts no calendar but
\* the one that is seeded.
LawfulNames(l, async) ==
    \A i \in DOMAIN l : i > 1 =>
        /\ l[i].op = "put" /\ l[i].tab = "users" =>
               \/ l[i - 1].op = "nousers"
               \/ l[i - 1].op = "absent" /\ l[i - 1].tab = "users" /\ l[i - 1].id = l[i].id
        /\ l[i].op = "putpicked" /\ l[i].tab = "calendars" =>
               /\ l[i - 1].tab = "calendars"
               /\ \/ l[i - 1].op = "seed" /\ l[i - 1].id = "family"
                  \/ l[i - 1].op = "unique" /\ async

\* An account is not there yet unless another has overtaken the look, and so is a
\* calendar unless it is the seeded one.
ClaimOf(q) ==
    Running(q) /\ Claims(Now(q)) =>
        /\ th[q].begun
        /\ Now(q).op = "put" => th[q].stale \/ Now(q).id \notin DOMAIN db.users
        /\ Now(q).op = "putpicked" => /\ th[q].pick \cap DOMAIN db.calendars \subseteq {"family"}
                                      /\ th[q].async \/ th[q].pick \subseteq {"family"}
Claimed == \A q \in Requests : LawfulNames(L(q), th[q].async) /\ ClaimOf(q)

NameInv == Claimed /\ NoConflict

LEMMA NamesTail ==
    ASSUME NEW l, NEW async, l # <<>>, Listing(l), LawfulNames(l, async)
    PROVE  LawfulNames(Tail(l), async)
<1> DEFINE k == Tail(l)
<1>1. /\ Len(l) \in Nat /\ DOMAIN l = 1 .. Len(l) /\ DOMAIN k = 1 .. Len(l) - 1
      /\ \A i \in 1 .. Len(l) - 1 : k[i] = l[i + 1]
  BY ListOf
<1>2. \A i \in DOMAIN k : i \in Nat /\ i \geq 1 /\ i + 1 \in DOMAIN l /\ k[i] = l[i + 1]
  BY <1>1
<1>3. \A i \in DOMAIN k : i > 1 => i + 1 > 1 /\ k[i - 1] = l[(i + 1) - 1]
  BY <1>1
<1> HIDE DEF k
<1>4. LawfulNames(k, async)
  BY <1>2, <1>3 DEF LawfulNames
<1> QED
  BY <1>4 DEF k

LEMMA NamesEmpty == \A async : LawfulNames(<<>>, async)
BY EmptyListing DEF LawfulNames

\* Nobody takes the name of another between the look and the row, unless it marks it.
LEMMA ClaimOfOthers ==
    ASSUME RegistryAssumption, Shaped, Held, Kept, Claimed, NEW r \in Requests, Acts(r),
           NEW q \in Requests, q # r
    PROVE  ClaimOf(q)'
<1>1. Turn(r) /\ Unmoved(q) /\ Running(r) /\ DOMAIN db = Tables
  BY ActsTurn DEF Turn, Kept
<1>2. /\ L(q)' = L(q) /\ Now(q)' = Now(q) /\ th'[q].pick = th[q].pick /\ th'[q].begun = th[q].begun
      /\ th'[q].async = th[q].async /\ (th[q].stale => th'[q].stale) /\ (Running(q)' <=> Running(q))
  BY <1>1 DEF Unmoved, L, Now, Running
<1> SUFFICES ASSUME Running(q), Claims(Now(q))
             PROVE  /\ th[q].begun
                    /\ Now(q).op = "put" => th'[q].stale \/ Now(q).id \notin DOMAIN db'.users
                    /\ Now(q).op = "putpicked" =>
                           /\ th[q].pick \cap DOMAIN db'.calendars \subseteq {"family"}
                           /\ th[q].async \/ th[q].pick \subseteq {"family"}
  BY <1>2 DEF ClaimOf
<1>3. /\ th[q].begun
      /\ Now(q).op = "put" => th[q].stale \/ Now(q).id \notin DOMAIN db.users
      /\ Now(q).op = "putpicked" => /\ th[q].pick \cap DOMAIN db.calendars \subseteq {"family"}
                                    /\ th[q].async \/ th[q].pick \subseteq {"family"}
  BY DEF Claimed, ClaimOf
<1>4. th[q].async => ~th[r].async
  <2> SUFFICES ASSUME th[q].async, th[r].async
               PROVE  FALSE
    OBVIOUS
  <2>1. Now(q).op # "await"
    BY DEF Claims
  <2>2. loop = q
    BY <2>1, <1>3 DEF Held, Mid
  <2> QED
    BY <2>2, <1>1 DEF Turn, MayStep, RegistryAssumption
<1>5. Now(q).op = "put" => th'[q].stale \/ Now(q).id \notin DOMAIN db'.users
  <2> SUFFICES ASSUME Now(q).op = "put", ~th'[q].stale
               PROVE  Now(q).id \notin DOMAIN db'.users
    OBVIOUS
  <2>1. Now(q).id \notin DOMAIN db.users
    BY <1>2, <1>3
  <2>2. Quiet(r) \/ Loud(r)
    BY DEF Acts, Checked, Looked, Resumed, Skipped, Failed, Added, Rewritten, Nulled, Marked, Deleted
  <2>3. CASE Quiet(r)
    BY <2>1, <2>3 DEF Quiet
  <2>4. CASE Loud(r)
    <3>1. q \notin Overtaken(r, db')
      BY <2>4 DEF Loud
    <3>2. db'.users = db.users
      BY <3>1, <1>3, <1>4 DEF Overtaken
    <3> QED
      BY <3>2, <2>1
  <2> QED
    BY <2>2, <2>3, <2>4
<1>6. ASSUME NEW x \in DOMAIN db'.calendars, x \notin DOMAIN db.calendars, th[q].async
      PROVE  x = "family"
  <2>1. Added(r) /\ Now(r).tab = "calendars" /\ Inserted(r) = x
    BY <1>6, OnlyAdded DEF Tables
  <2>2. Now(r).op \in Inserts /\ LawfulStatement(r, Now(r)) /\ ~Needless(r)
    BY <2>1, <1>1, NowIs DEF Added
  <2>3. Now(r).op = "putpicked"
    BY <2>1, <2>2 DEF LawfulStatement, Inserts, PutTables
  <2>4. th[r].pick \subseteq {"family"}
    BY <2>1, <2>3, <1>1, <1>4, <1>6 DEF Claimed, ClaimOf, Claims
  <2>5. x # None
    BY <2>1, <2>2 DEF Needless
  <2>6. x \in th[r].pick
    BY <2>1, <2>3, <2>5 DEF Inserted
  <2> QED
    BY <2>4, <2>6
<1>7. Now(q).op = "putpicked" => th[q].pick \cap DOMAIN db'.calendars \subseteq {"family"}
  <2>1. CASE th[q].async
    BY <2>1, <1>3, <1>6
  <2>2. CASE ~th[q].async
    BY <2>2, <1>3
  <2> QED
    BY <2>1, <2>2
<1> QED
  BY <1>3, <1>5, <1>7

LEMMA ClaimOfMover ==
    ASSUME RegistryAssumption, Shaped, Kept, Claimed, NEW r \in Requests, Acts(r)
    PROVE  ClaimOf(r)'
<1> SUFFICES ASSUME Running(r)', Claims(Now(r)')
             PROVE  /\ th'[r].begun
                    /\ Now(r)'.op = "put" => th'[r].stale \/ Now(r)'.id \notin DOMAIN db'.users
                    /\ Now(r)'.op = "putpicked" =>
                           /\ th'[r].pick \cap DOMAIN db'.calendars \subseteq {"family"}
                           /\ th'[r].async \/ th'[r].pick \subseteq {"family"}
  BY DEF ClaimOf, Claims
<1>1. Turn(r) /\ Running(r) /\ DOMAIN db = Tables
  BY ActsTurn DEF Kept
<1>2. ~Dropped(r) /\ Onward(r) /\ Same(r)
  BY <1>1, Leftover DEF Running, Dropped
<1>3. /\ 1 \in DOMAIN L(r)' /\ Now(r)' = L(r)'[1]
      /\ 2 \in DOMAIN L(r) /\ L(r)'[1] = L(r)[2] /\ Now(r) = L(r)[1]
  <2>1. Listing(L(r)') /\ L(r)' # <<>>
    <3>1. L(r)' = Tail(L(r)) /\ L(r)' # <<>>
      BY <1>2 DEF Onward, L, Running
    <3>2. Listing(Tail(L(r)))
      BY <1>1, NowIs, ListOf
    <3> QED
      BY <3>1, <3>2
  <2>2. 1 \in DOMAIN L(r)' /\ Head(L(r)') = L(r)'[1]
    BY <2>1, ListOf
  <2>3. Now(r)' = Head(L(r)')
    BY DEF Now, L
  <2>4. 1 + 1 \in DOMAIN L(r) /\ L(r)'[1] = L(r)[1 + 1] /\ Now(r) = L(r)[1]
    BY <2>2, <1>1, Leftover
  <2> QED
    BY <2>2, <2>3, <2>4
<1>4. th'[r].begun /\ th'[r].async = th[r].async
  BY <1>2 DEF Same
<1>5. LawfulNames(L(r), th[r].async) /\ LawfulStatement(r, Now(r))
  BY <1>1, NowIs DEF Claimed
<1>6. /\ Now(r)'.op = "put" =>
             Now(r).op = "nousers"
             \/ (Now(r).op = "absent" /\ Now(r).tab = "users" /\ Now(r).id = Now(r)'.id)
      /\ Now(r)'.op = "putpicked" =>
             /\ Now(r).tab = "calendars"
             /\ (Now(r).op = "seed" /\ Now(r).id = "family") \/ (Now(r).op = "unique" /\ th[r].async)
  BY <1>3, <1>5 DEF LawfulNames, Claims
<1>7. ASSUME Now(r)'.op = "put"
      PROVE  Now(r)'.id \notin DOMAIN db'.users
  <2>1. Checked(r)
    BY <1>6, <1>7, ActsByOp DEF Checks
  <2>2. Holds(r, Now(r)) /\ db' = db
    BY <2>1, <1>2 DEF Checked, Quiet
  <2>3. CASE Now(r).op = "nousers"
    BY <2>2, <2>3 DEF Holds
  <2>4. CASE Now(r).op = "absent" /\ Now(r).tab = "users" /\ Now(r).id = Now(r)'.id
    BY <2>2, <2>4 DEF Holds, Is
  <2> QED
    BY <2>3, <2>4, <1>6, <1>7
<1>8. ASSUME Now(r)'.op = "putpicked"
      PROVE  /\ th'[r].pick \cap DOMAIN db'.calendars \subseteq {"family"}
             /\ th'[r].async \/ th'[r].pick \subseteq {"family"}
  <2>1. Looked(r)
    BY <1>6, <1>8, ActsByOp
  <2>2. th'[r].pick = Picked(Now(r)) /\ db' = db /\ Now(r).tab = "calendars"
    BY <2>1, <1>6, <1>8 DEF Looked, Quiet
  <2>3. CASE Now(r).op = "seed" /\ Now(r).id = "family"
    <3>1. Picked(Now(r)) \subseteq {"family"}
      BY <2>3 DEF Picked
    <3> QED
      BY <3>1, <2>2
  <2>4. CASE Now(r).op = "unique" /\ th[r].async
    <3>1. Picked(Now(r)) \cap DOMAIN db[Now(r).tab] = {}
      BY <2>4, <1>5, PickedIsFree
    <3> QED
      BY <3>1, <2>2, <2>4, <1>4
  <2> QED
    BY <2>3, <2>4, <1>6, <1>8
<1> QED
  BY <1>4, <1>7, <1>8

LEMMA ClaimedNext ==
    ASSUME RegistryAssumption, Shaped, Held, Kept, Claimed, NEW r \in Requests, Acts(r)
    PROVE  Claimed'
<1>1. Turn(r) /\ Running(r)
  BY ActsTurn DEF Kept
<1>2. ASSUME NEW q \in Requests
      PROVE  LawfulNames(L(q)', th'[q].async)
  <2>1. CASE q = r
    <3>1. (L(r)' = Tail(L(r)) \/ L(r)' = <<>>) /\ th'[r].async = th[r].async
      BY <1>1 DEF Turn, Onward, Dropped, Same, L
    <3>2. L(r) # <<>> /\ Listing(L(r)) /\ LawfulNames(L(r), th[r].async)
      BY <1>1, NowIs DEF Claimed
    <3>3. LawfulNames(Tail(L(r)), th[r].async)
      BY <3>2, NamesTail
    <3>4. LawfulNames(<<>>, th[r].async)
      BY NamesEmpty
    <3>5. \A l, async : (l = Tail(L(r)) \/ l = <<>>) /\ async = th[r].async
                            => LawfulNames(l, async)
      BY <3>3, <3>4
    <3>6. LawfulNames(L(r)', th'[r].async)
      BY <3>1, <3>5
    <3> QED
      BY <3>6, <2>1
  <2>2. CASE q # r
    <3>1. L(q)' = L(q) /\ th'[q].async = th[q].async
      BY <2>2, <1>1 DEF Turn, Unmoved, L
    <3> QED
      BY <3>1 DEF Claimed
  <2> QED
    BY <2>1, <2>2
<1>3. ASSUME NEW q \in Requests
      PROVE  ClaimOf(q)'
  BY ClaimOfMover, ClaimOfOthers
<1>4. \A q \in Requests : LawfulNames(L(q), th[q].async)'
  BY <1>2 DEF LawfulNames
<1> QED
  BY <1>3, <1>4 DEF Claimed

LEMMA ClaimedCrash ==
    ASSUME Shaped, Claimed, Crashed
    PROVE  Claimed'
<1> SUFFICES ASSUME NEW q \in Requests
             PROVE  LawfulNames(L(q), th[q].async)' /\ ClaimOf(q)'
  BY DEF Claimed
<1>1. CASE q \in Lost
  <2>1. th'[q] = [th[q] EXCEPT !.todo = <<>>] /\ DOMAIN th[q] = Fields
    BY <1>1 DEF Crashed, Shaped
  <2>2. th'[q].todo = <<>>
    BY <2>1 DEF Fields
  <2>3. LawfulNames(L(q)', th'[q].async) /\ ~Running(q)'
    BY <2>2, NamesEmpty DEF L, Running
  <2>4. LawfulNames(L(q), th[q].async)'
    BY <2>3 DEF LawfulNames
  <2> QED
    BY <2>3, <2>4 DEF ClaimOf
<1>2. CASE q \notin Lost
  <2>1. th'[q] = th[q] /\ db' = db
    BY <1>2 DEF Crashed
  <2>2. LawfulNames(L(q), th[q].async) /\ ClaimOf(q)
    BY DEF Claimed
  <2> QED
    BY <2>1, <2>2 DEF LawfulNames, ClaimOf, L, Running, Now
<1> QED
  BY <1>1, <1>2

\* What an insert may run into.
LEMMA ConflictStep ==
    ASSUME RegistryAssumption, Shaped, Kept, Fresh, Chosen, NameInv, Next
    PROVE  NoConflict'
<1> DEFINE Excepted(x) == \/ x.tab = "calendars" /\ x.id = "family"
                          \/ x.tab = "lists"
                          \/ x.tab = "users" /\ x.overtaken
<1>1. ASSUME NEW r \in Requests, Insert(r)
      PROVE  \A x \in clash' : Excepted(x)
  <2> DEFINE c == Now(r)
             id == Inserted(r)
             seeds == c.tab = "lists" /\ c.op = "putpicked"
             taken == Is(c.tab, id) \/ (seeds /\ DOMAIN db.lists # {})
             new == [tab |-> c.tab, id |-> id, overtaken |-> th[r].stale]
  <2>1. MayStep(r) /\ c.op \in Inserts
    BY <1>1 DEF Insert, Inserts
  <2>2. Running(r) /\ LawfulStatement(r, c) /\ c = L(r)[1] /\ 1 \in DOMAIN L(r)
    BY <2>1, MayStepRuns, NowIs
  <2>3. \/ clash' = clash
        \/ ~Needless(r) /\ clash' = IF taken THEN clash \cup {new} ELSE clash
    BY <1>1 DEF Insert, Keeps
  <2>4. new.tab = c.tab /\ new.id = id /\ new.overtaken = th[r].stale
    OBVIOUS
  <2> HIDE DEF c, id, new
  <2>5. \A x \in clash : Excepted(x)
    BY DEF NameInv, NoConflict
  <2> SUFFICES ASSUME ~Needless(r), Is(c.tab, id), c.tab # "lists"
               PROVE  Excepted(new)
    <3>1. clash' = clash \/ (taken /\ ~Needless(r) /\ clash' = clash \cup {new})
      BY <2>3
    <3>2. taken => Is(c.tab, id) \/ c.tab = "lists"
      OBVIOUS
    <3> HIDE DEF taken, seeds
    <3>3. taken /\ ~Needless(r) => Excepted(new)
      BY <3>2, <2>4
    <3> HIDE DEF Excepted
    <3> QED
      BY <3>1, <3>3, <2>5
  <2> USE DEF c, id
  <2>6. CASE c.op = "put" /\ c.tab # "users"
    <3>1. id = r
      BY <2>2, <2>6 DEF LawfulStatement, Inserted
    <3>2. r \notin DOMAIN db[c.tab]
      BY <2>2, <2>6 DEF Fresh
    <3> QED
      BY <3>1, <3>2 DEF Is
  <2>7. CASE c.op = "put" /\ c.tab = "users"
    <3>1. id = c.id
      BY <2>7 DEF Inserted
    <3>2. th[r].stale
      BY <3>1, <2>2, <2>7 DEF NameInv, Claimed, ClaimOf, Claims, Is
    <3> QED
      BY <3>2, <2>4, <2>7
  <2>8. CASE c.op = "putpicked"
    <3>1. c.tab \in {"cameras", "devices", "hubs", "calendars"}
      BY <2>2, <2>8 DEF LawfulStatement, PickTables
    <3>2. id # None
      BY DEF Needless
    <3>3. th[r].pick # {}
      BY <3>2, <2>8 DEF Inserted
    <3>4. id \in th[r].pick
      BY <3>3, <2>8 DEF Inserted
    <3>5. CASE c.tab = "calendars"
      <4>1. th[r].pick \cap DOMAIN db.calendars \subseteq {"family"}
        BY <2>2, <2>8, <3>5 DEF NameInv, Claimed, ClaimOf, Claims
      <4>2. id = "family"
        BY <4>1, <3>4, <3>5 DEF Is
      <4> QED
        BY <4>2, <2>4, <3>5
    <3>6. CASE c.tab \in {"cameras", "devices", "hubs"}
      <4>1. th[r].pick \cap DOMAIN db[c.tab] = {}
        BY <3>6, <2>2, <2>8 DEF Chosen
      <4> QED
        BY <4>1, <3>4 DEF Is
    <3> QED
      BY <3>1, <3>5, <3>6
  <2>9. CASE c.op = "putnew"
    <3>1. c.tab = "coverings" /\ id = c.id
      BY <2>2, <2>9 DEF LawfulStatement, Inserted
    <3>2. c.id \notin th[r].pick
      BY <2>9 DEF Needless
    <3>3. c.id \in DOMAIN db.coverings => c.id \in th[r].pick
      BY <2>2, <2>9 DEF Chosen
    <3> QED
      BY <3>1, <3>2, <3>3 DEF Is
  <2>10. CASE c.op = "upsert"
    BY <2>10 DEF Needless, Inserted
  <2> QED
    BY <2>1, <2>6, <2>7, <2>8, <2>9, <2>10 DEF Inserts
<1>2. ASSUME NEW r \in Requests, Check(r) \/ Choose(r) \/ Resume(r) \/ Update(r) \/ UpdateAll(r)
                                 \/ Delete(r)
      PROVE  clash' = clash
  BY <1>2 DEF Check, Choose, Resume, Update, UpdateAll, Delete, Keeps
<1>3. Crash => clash' = clash
  BY DEF Crash
<1>4. clash' = clash => \A x \in clash' : Excepted(x)
  BY DEF NameInv, NoConflict
<1>5. \A x \in clash' : Excepted(x)
  <2> HIDE DEF Excepted
  <2> QED
    BY <1>1, <1>2, <1>3, <1>4 DEF Next
<1> QED
  BY <1>5 DEF NoConflict

-----------------------------------------------------------------------------
(* The handlers and these two laws.                                        *)

\* Most requests place no row, look for no name that others may want at once, and
\* add rows of a page as coroutines.
Calm(c, async) ==
    /\ c.op # "place" /\ ~Claims(c)
    /\ c.op \in Inserts /\ c.tab \in RankTables => async /\ "rank" \in DOMAIN c.row
CalmList(l, async) == Listing(l) /\ l # <<>> /\ \A i \in DOMAIN l : Calm(l[i], async)
Tidy(p) ==
    /\ p.todo # <<>> /\ Listing(p.todo) /\ p.todo[1].op # "place" /\ ~Claims(p.todo[1])
    /\ LawfulPlaces(p.todo, p.async) /\ LawfulNames(p.todo, p.async)

LEMMA CalmPlaces ==
    ASSUME NEW l, NEW async, CalmList(l, async)
    PROVE  /\ LawfulPlaces(l, async) /\ l[1].op # "place"
           /\ LawfulNames(l, async) /\ ~Claims(l[1])
<1>1. 1 \in DOMAIN l
  BY ListOf DEF CalmList
<1>2. LawfulPlaces(l, async) /\ l[1].op # "place" /\ ~Claims(l[1])
  BY <1>1 DEF CalmList, Calm, LawfulPlaces
<1>3. LawfulNames(l, async)
  BY DEF CalmList, Calm, Claims, LawfulNames
<1> QED
  BY <1>2, <1>3

LEMMA CalmTidy ==
    ASSUME NEW l
    PROVE  /\ CalmList(l, TRUE) => Tidy(Async(l)) /\ \A u : Tidy(On(u, Async(l)))
           /\ CalmList(l, FALSE) => Tidy(Sync(l)) /\ \A u : Tidy(On(u, Sync(l)))
<1>1. ASSUME CalmList(l, TRUE)
      PROVE  Tidy(Async(l)) /\ \A u : Tidy(On(u, Async(l)))
  <2>1. /\ LawfulPlaces(l, TRUE) /\ l[1].op # "place" /\ Listing(l) /\ l # <<>>
        /\ LawfulNames(l, TRUE) /\ ~Claims(l[1])
    BY <1>1, CalmPlaces DEF CalmList
  <2> QED
    BY <2>1 DEF Tidy, Async, On
<1>2. ASSUME CalmList(l, FALSE)
      PROVE  Tidy(Sync(l)) /\ \A u : Tidy(On(u, Sync(l)))
  <2>1. /\ LawfulPlaces(l, FALSE) /\ l[1].op # "place" /\ Listing(l) /\ l # <<>>
        /\ LawfulNames(l, FALSE) /\ ~Claims(l[1])
    BY <1>2, CalmPlaces DEF CalmList
  <2> QED
    BY <2>1 DEF Tidy, Sync, On
<1> QED
  BY <1>1, <1>2

\* A request that deletes what is named elsewhere writes nothing.
LEMMA KillsTidy ==
    ASSUME NEW r, NEW p, Good(r, p), p.kills # {}
    PROVE  Tidy(p)
<1>1. Listing(p.todo) /\ p.todo # <<>> /\ \A i \in DOMAIN p.todo :
          p.todo[i].op \in Checks \cup {"await", "listed", "null", "del", "dellisted"}
  BY DEF Good, GoodList, Lawful, LawfulStart, LawfulKills
<1>2. CalmList(p.todo, p.async)
  BY <1>1 DEF CalmList, Calm, Claims, Checks, Inserts
<1> QED
  BY <1>1, <1>2, CalmPlaces DEF Tidy

LEMMA CalmLists ==
    ASSUME NEW async, NEW a, Calm(a, async)
    PROVE  /\ CalmList(<<a>>, async)
           /\ \A b : Calm(b, async) =>
                  /\ CalmList(<<a, b>>, async)
                  /\ \A c : Calm(c, async) =>
                         /\ CalmList(<<a, b, c>>, async)
                         /\ \A d : Calm(d, async) =>
                                /\ CalmList(<<a, b, c, d>>, async)
                                /\ \A e : Calm(e, async) =>
                                       /\ CalmList(<<a, b, c, d, e>>, async)
                                       /\ \A f : Calm(f, async) => CalmList(<<a, b, c, d, e, f>>, async)
<1>1. CalmList(<<a>>, async)
  <2> DEFINE l == <<a>>
  <2>1. Listing(l) /\ DOMAIN l = {1} /\ l[1] = a
    BY One
  <2> HIDE DEF l
  <2>2. CalmList(l, async)
    BY <2>1, EmptyListing DEF CalmList
  <2> QED
    BY <2>2 DEF l
<1>2. ASSUME NEW b, Calm(b, async)
      PROVE  CalmList(<<a, b>>, async)
  <2> DEFINE l == <<a, b>>
  <2>1. Listing(l) /\ DOMAIN l = {1, 2} /\ l[1] = a /\ l[2] = b
    BY Two
  <2> HIDE DEF l
  <2>2. CalmList(l, async)
    BY <2>1, <1>2, EmptyListing DEF CalmList
  <2> QED
    BY <2>2 DEF l
<1>3. ASSUME NEW b, Calm(b, async), NEW c, Calm(c, async)
      PROVE  CalmList(<<a, b, c>>, async)
  <2> DEFINE l == <<a, b, c>>
  <2>1. Listing(l) /\ DOMAIN l = {1, 2, 3} /\ l[1] = a /\ l[2] = b /\ l[3] = c
    BY Three
  <2> HIDE DEF l
  <2>2. CalmList(l, async)
    BY <2>1, <1>3, EmptyListing DEF CalmList
  <2> QED
    BY <2>2 DEF l
<1>4. ASSUME NEW b, Calm(b, async), NEW c, Calm(c, async), NEW d, Calm(d, async)
      PROVE  CalmList(<<a, b, c, d>>, async)
  <2> DEFINE l == <<a, b, c, d>>
  <2>1. Listing(l) /\ DOMAIN l = {1, 2, 3, 4} /\ l[1] = a /\ l[2] = b /\ l[3] = c /\ l[4] = d
    BY Four
  <2> HIDE DEF l
  <2>2. CalmList(l, async)
    BY <2>1, <1>4, EmptyListing DEF CalmList
  <2> QED
    BY <2>2 DEF l
<1>5. ASSUME NEW b, Calm(b, async), NEW c, Calm(c, async), NEW d, Calm(d, async), NEW e, Calm(e, async)
      PROVE  CalmList(<<a, b, c, d, e>>, async)
  <2> DEFINE l == <<a, b, c, d, e>>
  <2>1. /\ Listing(l) /\ DOMAIN l = {1, 2, 3, 4, 5}
        /\ l[1] = a /\ l[2] = b /\ l[3] = c /\ l[4] = d /\ l[5] = e
    BY Five
  <2> HIDE DEF l
  <2>2. CalmList(l, async)
    BY <2>1, <1>5, EmptyListing DEF CalmList
  <2> QED
    BY <2>2 DEF l
<1>6. ASSUME NEW b, Calm(b, async), NEW c, Calm(c, async), NEW d, Calm(d, async), NEW e, Calm(e, async),
             NEW f, Calm(f, async)
      PROVE  CalmList(<<a, b, c, d, e, f>>, async)
  <2> DEFINE l == <<a, b, c, d, e, f>>
  <2>1. /\ Listing(l) /\ DOMAIN l = {1, 2, 3, 4, 5, 6}
        /\ l[1] = a /\ l[2] = b /\ l[3] = c /\ l[4] = d /\ l[5] = e /\ l[6] = f
    BY Six
  <2> HIDE DEF l
  <2>2. CalmList(l, async)
    BY <2>1, <1>6, EmptyListing DEF CalmList
  <2> QED
    BY <2>2 DEF l
<1> QED
  BY <1>1, <1>2, <1>3, <1>4, <1>5, <1>6

LEMMA CalmStatements ==
    ASSUME NEW async
    PROVE  /\ Calm(Await, async) /\ Calm(NoUsers, async) /\ Calm(MarkAll, async)
           /\ \A s, admin : Calm(Auth(s, admin), async)
           /\ \A t, x : Calm(Need(t, x), async) /\ Calm(Absent(t, x), async) /\ Calm(Seed(t, x), async)
           /\ \A t, x, c, v : Calm(NeedOf(t, x, c, v), async) /\ Calm(Set(t, x, c, v), async)
                              /\ Calm(DelBut(t, x, c, v), async)
           /\ \A x : Calm(KeepAdmin(x), async) /\ Calm(Verify(x), async) /\ Calm(MayWrite(x), async)
                     /\ Calm(Unique(x), async)
           /\ \A t, c, v : Calm(Listed(t, c, v), async) /\ Calm(Del(t, c, v), async)
           /\ \A t \in Unclaimed \ RankTables : \A x, row : /\ Calm(Put(t, x, row), async)
                                                            /\ Calm(Upsert(t, x, row), async)
                                                            /\ Calm(PutPicked(t, row), async)
           /\ \A t \in Unclaimed : \A x, row : async /\ "rank" \in DOMAIN row =>
                  Calm(Put(t, x, row), async) /\ Calm(PutPicked(t, row), async)
                  /\ Calm(PutNew(t, x, row), async)
<1>1. ASSUME NEW c, c.op \notin Inserts \cup {"place"}
      PROVE  Calm(c, async)
  BY <1>1 DEF Calm, Claims, Inserts
<1>2. \A t, x, c, v : Calm(NeedOf(t, x, c, v), async) /\ Calm(Set(t, x, c, v), async)
                      /\ Calm(DelBut(t, x, c, v), async)
  BY <1>1 DEF NeedOf, Set, DelBut, Inserts
<1>3. \A t, c, v : Calm(Listed(t, c, v), async) /\ Calm(Del(t, c, v), async)
  BY <1>1 DEF Listed, Del, Inserts
<1>4. \A t \in Unclaimed \ RankTables : \A x, row : /\ Calm(Put(t, x, row), async)
                                                    /\ Calm(Upsert(t, x, row), async)
                                                    /\ Calm(PutPicked(t, row), async)
  BY DEF Calm, Claims, Unclaimed, Put, Upsert, PutPicked
<1>5. \A t \in Unclaimed : \A x, row : async /\ "rank" \in DOMAIN row =>
          Calm(Put(t, x, row), async) /\ Calm(PutPicked(t, row), async)
          /\ Calm(PutNew(t, x, row), async)
  BY DEF Calm, Claims, Unclaimed, Put, PutPicked, PutNew
<1> QED
  BY <1>1, <1>2, <1>3, <1>4, <1>5
     DEF Await, NoUsers, MarkAll, Auth, Need, Absent, Seed, KeepAdmin, Verify, MayWrite, Unique, Inserts

LEMMA CalmJoin ==
    ASSUME NEW async, NEW s, NEW t, CalmList(s, async), Listing(t), \A i \in DOMAIN t : Calm(t[i], async)
    PROVE  CalmList(s \o t, async)
<1> DEFINE l == s \o t
<1>1. /\ Listing(l) /\ Len(s) \in Nat /\ Len(t) \in Nat /\ DOMAIN s = 1 .. Len(s)
      /\ DOMAIN l = 1 .. Len(s) + Len(t)
      /\ \A i \in DOMAIN s : l[i] = s[i]
      /\ \A i \in DOMAIN l : i > Len(s) => i - Len(s) \in DOMAIN t /\ l[i] = t[i - Len(s)]
  BY Joined DEF CalmList
<1> HIDE DEF l
<1>2. ASSUME NEW i \in DOMAIN l
      PROVE  Calm(l[i], async)
  <2>1. CASE i > Len(s)
    BY <1>1, <2>1
  <2>2. CASE ~(i > Len(s))
    <3>1. i \in DOMAIN s
      BY <1>1, <2>2
    <3> QED
      BY <1>1, <3>1 DEF CalmList
  <2> QED
    BY <2>1, <2>2
<1>3. 1 \in DOMAIN l
  <2>1. 1 \in DOMAIN s
    BY ListOf DEF CalmList
  <2> QED
    BY <1>1, <2>1
<1>4. CalmList(l, async)
  BY <1>1, <1>2, <1>3, EmptyListing DEF CalmList
<1> QED
  BY <1>4 DEF l

LEMMA RankTablesAre ==
    /\ {"sessions", "schedules", "devices", "hubs", "lists", "events", "lan"} \subseteq Unclaimed \ RankTables
    /\ RankTables \subseteq Unclaimed
    /\ "cameras" \in Unclaimed /\ "virtual" \in Unclaimed /\ "rooms" \in Unclaimed
    /\ "coverings" \in Unclaimed /\ "tasks" \in Unclaimed
    /\ \A l, u : "rank" \in DOMAIN Task(l, u) /\ "rank" \in DOMAIN Covering(l, u)
BY DEF Unclaimed, Tables, RankTables, Task, Covering

\* The handlers that look for a name and take it.
LEMMA ClaimingTidy ==
    ASSUME NEW l, NEW async, 1 \in DOMAIN l, Calm(l[1], async),
           \A i \in DOMAIN l : Calm(l[i], async) \/ Claims(l[i])
    PROVE  l # <<>> /\ l[1].op # "place" /\ ~Claims(l[1]) /\ LawfulPlaces(l, async)
<1>1. 1 \in DOMAIN l /\ l # <<>>
  BY EmptyListing
<1>2. Calm(l[1], async)
  OBVIOUS
<1>3. \A i \in DOMAIN l : l[i].op # "place" /\
          (l[i].op \in Inserts /\ l[i].tab \in RankTables => async /\ "rank" \in DOMAIN l[i].row)
  BY DEF Calm, Claims, RankTables
<1> QED
  BY <1>1, <1>2, <1>3 DEF Calm, LawfulPlaces

LEMMA ClaimingAccounts ==
    ASSUME NEW r
    PROVE  Tidy(SetupSubmit(r)) /\ Tidy(CmdAddUser(r)) /\ \A a, role : Tidy(CreateUser(r, a, role))
<1>1. Tidy(SetupSubmit(r))
  <2> DEFINE a == NoUsers
             b == Put("users", "first", User("admin", "start"))
             c == Put("sessions", r, Session("first", "start"))
             l == <<a, b, c>>
  <2>1. Listing(l) /\ DOMAIN l = {1, 2, 3} /\ l[1] = a /\ l[2] = b /\ l[3] = c
    BY Three
  <2>2. Calm(a, FALSE) /\ Calm(c, FALSE) /\ Claims(b) /\ a.op = "nousers" /\ b.op = "put"
    BY CalmStatements, RankTablesAre DEF Claims, Put, NoUsers
  <2> HIDE DEF l, a, b, c
  <2>3. LawfulNames(l, FALSE)
    BY <2>1, <2>2 DEF LawfulNames, Calm, Claims
  <2>4. 1 \in DOMAIN l /\ Calm(l[1], FALSE) /\ \A i \in DOMAIN l : Calm(l[i], FALSE) \/ Claims(l[i])
    BY <2>1, <2>2
  <2>5. l # <<>> /\ l[1].op # "place" /\ ~Claims(l[1]) /\ LawfulPlaces(l, FALSE)
    BY <2>4, ClaimingTidy
  <2>6. Tidy(Sync(l))
    BY <2>1, <2>3, <2>5 DEF Tidy, Sync
  <2> QED
    BY <2>6 DEF l, a, b, c, SetupSubmit
<1>2. Tidy(CmdAddUser(r))
  <2> DEFINE a == Absent("users", "eve")
             b == Put("users", "eve", User("admin", r))
             l == <<a, b>>
  <2>1. Listing(l) /\ DOMAIN l = {1, 2} /\ l[1] = a /\ l[2] = b
    BY Two
  <2>2. Calm(a, FALSE) /\ Claims(b) /\ b.op = "put" /\ b.id = "eve"
        /\ a.op = "absent" /\ a.tab = "users" /\ a.id = "eve"
    BY CalmStatements DEF Claims, Put, Absent
  <2> HIDE DEF l, a, b
  <2>3. LawfulNames(l, FALSE)
    BY <2>1, <2>2 DEF LawfulNames, Calm, Claims
  <2>4. 1 \in DOMAIN l /\ Calm(l[1], FALSE) /\ \A i \in DOMAIN l : Calm(l[i], FALSE) \/ Claims(l[i])
    BY <2>1, <2>2
  <2>5. l # <<>> /\ l[1].op # "place" /\ ~Claims(l[1]) /\ LawfulPlaces(l, FALSE)
    BY <2>4, ClaimingTidy
  <2>6. Tidy(Sync(l))
    BY <2>1, <2>3, <2>5 DEF Tidy, Sync
  <2> QED
    BY <2>6 DEF l, a, b, CmdAddUser
<1>3. ASSUME NEW s, NEW role
      PROVE  Tidy(CreateUser(r, s, role))
  <2> DEFINE a == Auth(s, TRUE)
             b == Await
             c == Absent("users", "eve")
             d == Put("users", "eve", User(role, r))
             l == <<a, b, c, d>>
  <2>1. Listing(l) /\ DOMAIN l = {1, 2, 3, 4} /\ l[1] = a /\ l[2] = b /\ l[3] = c /\ l[4] = d
    BY Four
  <2>2. Calm(a, TRUE) /\ Calm(b, TRUE) /\ Calm(c, TRUE) /\ Claims(d) /\ d.op = "put" /\ d.id = "eve"
        /\ c.op = "absent" /\ c.tab = "users" /\ c.id = "eve"
    BY CalmStatements DEF Claims, Put, Absent
  <2> HIDE DEF l, a, b, c, d
  <2>3. LawfulNames(l, TRUE)
    BY <2>1, <2>2 DEF LawfulNames, Calm, Claims
  <2>4. 1 \in DOMAIN l /\ Calm(l[1], TRUE) /\ \A i \in DOMAIN l : Calm(l[i], TRUE) \/ Claims(l[i])
    BY <2>1, <2>2
  <2>5. l # <<>> /\ l[1].op # "place" /\ ~Claims(l[1]) /\ LawfulPlaces(l, TRUE)
    BY <2>4, ClaimingTidy
  <2>6. Tidy(Async(l))
    BY <2>1, <2>3, <2>5 DEF Tidy, Async
  <2> QED
    BY <2>6 DEF l, a, b, c, d, CreateUser
<1> QED
  BY <1>1, <1>2, <1>3

LEMMA ClaimingCalendars ==
    ASSUME NEW r, NEW s
    PROVE  /\ \A owner : Tidy(AddCalendar(s, owner))
           /\ Tidy(CalendarPage(s)) /\ \A y : Tidy(AddEvent(r, s, y))
<1>1. ASSUME NEW owner
      PROVE  Tidy(AddCalendar(s, owner))
  <2> DEFINE a == Auth(s, owner = None)
             b == Await
             c == Unique("calendars")
             d == PutPicked("calendars", [owner |-> owner])
             l == <<a, b, c, d>>
  <2>1. Listing(l) /\ DOMAIN l = {1, 2, 3, 4} /\ l[1] = a /\ l[2] = b /\ l[3] = c /\ l[4] = d
    BY Four
  <2>2. Calm(a, TRUE) /\ Calm(b, TRUE) /\ Calm(c, TRUE) /\ Claims(d) /\ d.op = "putpicked"
        /\ c.op = "unique" /\ c.tab = "calendars"
    BY CalmStatements DEF Claims, PutPicked, Unique
  <2> HIDE DEF l, a, b, c, d
  <2>3. LawfulNames(l, TRUE)
    BY <2>1, <2>2 DEF LawfulNames, Calm, Claims
  <2>4. 1 \in DOMAIN l /\ Calm(l[1], TRUE) /\ \A i \in DOMAIN l : Calm(l[i], TRUE) \/ Claims(l[i])
    BY <2>1, <2>2
  <2>5. l # <<>> /\ l[1].op # "place" /\ ~Claims(l[1]) /\ LawfulPlaces(l, TRUE)
    BY <2>4, ClaimingTidy
  <2>6. Tidy(Async(l))
    BY <2>1, <2>3, <2>5 DEF Tidy, Async
  <2> QED
    BY <2>6 DEF l, a, b, c, d, AddCalendar
<1> DEFINE sd == Seed("calendars", "family")
           pp == PutPicked("calendars", [owner |-> None])
<1>2. /\ Claims(pp) /\ pp.op = "putpicked" /\ \A async : Calm(sd, async)
      /\ sd.op = "seed" /\ sd.tab = "calendars" /\ sd.id = "family"
  BY CalmStatements DEF Claims, PutPicked, Seed
<1>3. EnsureShared = <<sd, pp>>
  BY DEF EnsureShared
<1> HIDE DEF sd, pp
<1>4. Tidy(CalendarPage(s))
  <2> DEFINE a == Auth(s, FALSE)
             l == <<a>> \o <<sd, pp>>
  <2>1. Listing(l) /\ DOMAIN l = {1, 2, 3} /\ l[1] = a /\ l[2] = sd /\ l[3] = pp
    BY OneTwo
  <2>2. Calm(a, FALSE)
    BY CalmStatements
  <2> HIDE DEF l, a
  <2>3. LawfulNames(l, FALSE)
    BY <2>1, <2>2, <1>2 DEF LawfulNames, Calm, Claims
  <2>4. 1 \in DOMAIN l /\ Calm(l[1], FALSE) /\ \A i \in DOMAIN l : Calm(l[i], FALSE) \/ Claims(l[i])
    BY <2>1, <2>2, <1>2
  <2>5. l # <<>> /\ l[1].op # "place" /\ ~Claims(l[1]) /\ LawfulPlaces(l, FALSE)
    BY <2>4, ClaimingTidy
  <2>6. Tidy(Sync(l))
    BY <2>1, <2>3, <2>5 DEF Tidy, Sync
  <2> QED
    BY <2>6, <1>3 DEF l, a, CalendarPage
<1>5. ASSUME NEW y
      PROVE  Tidy(AddEvent(r, s, y))
  <2> DEFINE a == Auth(s, FALSE)
             b == Await
             c == MayWrite(y)
             d == Put("events", r, [calendar |-> y])
             k == <<a, b>> \o <<sd, pp>>
             t == <<c, d>>
             l == k \o t
  <2>1. Listing(k) /\ DOMAIN k = {1, 2, 3, 4} /\ Len(k) = 4
        /\ k[1] = a /\ k[2] = b /\ k[3] = sd /\ k[4] = pp
    BY TwoTwo
  <2>2. Listing(t) /\ DOMAIN t = {1, 2} /\ Len(t) = 2 /\ t[1] = c /\ t[2] = d
    BY Two
  <2>3. Calm(a, TRUE) /\ Calm(b, TRUE) /\ Calm(c, TRUE) /\ Calm(d, TRUE)
    BY CalmStatements, RankTablesAre
  <2> HIDE DEF k, t, a, b, c, d
  <2>4. /\ Listing(l) /\ DOMAIN l = 1 .. 6
        /\ \A i \in DOMAIN k : l[i] = k[i]
        /\ \A i \in DOMAIN l : i > 4 => l[i] = t[i - 4]
    <3>1. /\ Listing(l) /\ DOMAIN l = 1 .. Len(k) + Len(t)
          /\ \A i \in DOMAIN k : l[i] = k[i]
          /\ \A i \in DOMAIN l : i > Len(k) => l[i] = t[i - Len(k)]
      BY <2>1, <2>2, Joined
    <3> QED
      BY <3>1, <2>1, <2>2
  <2> HIDE DEF l
  <2>5. l[1] = a /\ l[2] = b /\ l[3] = sd /\ l[4] = pp
    BY <2>1, <2>4
  <2>6. l[5] = c /\ l[6] = d
    BY <2>2, <2>4
  <2>7. 1 .. 6 = {1, 2, 3, 4, 5, 6}
    OBVIOUS
  <2>8. LawfulNames(l, TRUE)
    BY <2>3, <2>4, <2>5, <2>6, <2>7, <1>2 DEF LawfulNames, Calm, Claims
  <2>9. 1 \in DOMAIN l /\ Calm(l[1], TRUE) /\ \A i \in DOMAIN l : Calm(l[i], TRUE) \/ Claims(l[i])
    BY <2>3, <2>4, <2>5, <2>6, <2>7, <1>2
  <2>10. l # <<>> /\ l[1].op # "place" /\ ~Claims(l[1]) /\ LawfulPlaces(l, TRUE)
    BY <2>9, ClaimingTidy
  <2>11. Tidy(Async(l))
    BY <2>4, <2>8, <2>10 DEF Tidy, Async
  <2> QED
    BY <2>11, <1>3 DEF l, k, t, a, b, c, d, AddEvent
<1> QED
  BY <1>1, <1>4, <1>5

\* The handlers.
LEMMA TidyAccounts ==
    ASSUME RegistryAssumption, NEW r, NEW p \in AccountRequests(r)
    PROVE  Tidy(p)
<1>1. \/ p \in {SetupSubmit(r), CmdAddUser(r)}
      \/ \E s \in Tokens : p = Logout(s)
      \/ \E u \in Known["users"] : p \in {LoginSubmit(r, u), CmdResetPassword(r, u), CmdDeleteUser(u)}
      \/ \E s \in Tokens : p = ChangePassword(r, s, Known["owner"][s])
      \/ \E a \in Bosses, u \in Known["users"], role \in {"admin", "viewer"} :
             p \in {CreateUser(r, a, role), UpdateUser(r, a, u, role), ResetUser(a, u),
                    DeleteUser(a, u)}
  BY DEF AccountRequests
<1>2. Tidy(SetupSubmit(r)) /\ Tidy(CmdAddUser(r)) /\ \A a, role : Tidy(CreateUser(r, a, role))
  BY ClaimingAccounts
<1>3. \A s : Tidy(Logout(s))
  BY CalmTidy, CalmLists, CalmStatements DEF Logout
<1>4. ASSUME NEW u
      PROVE  Tidy(LoginSubmit(r, u)) /\ Tidy(CmdResetPassword(r, u))
  BY CalmTidy, CalmLists, CalmStatements, RankTablesAre DEF LoginSubmit, CmdResetPassword
<1>5. ASSUME NEW s, NEW u
      PROVE  Tidy(ChangePassword(r, s, u))
  BY CalmTidy, CalmLists, CalmStatements DEF ChangePassword
<1>6. ASSUME NEW a, NEW u, NEW role
      PROVE  Tidy(UpdateUser(r, a, u, role)) /\ Tidy(ResetUser(a, u))
  BY CalmTidy, CalmLists, CalmStatements DEF UpdateUser, ResetUser
<1>7. p.kills # {} => Tidy(p)
  BY AccountsGood, KillsTidy
<1>8. \A a, u : CmdDeleteUser(u).kills # {} /\ DeleteUser(a, u).kills # {}
  BY DEF CmdDeleteUser, DeleteUser, Kills, On, Sync
<1> QED
  BY <1>1, <1>2, <1>3, <1>4, <1>5, <1>6, <1>7, <1>8

\* Those who place rows: all that was shown, each with a rank of its own.
LEMMA OrderTidy ==
    ASSUME NEW a, NEW admin, NEW q \in Pages, NEW o \in Orders[q], Listing(o), NEW k, Listing(k),
           DOMAIN k = DOMAIN o, \A i \in DOMAIN k : k[i].op = "place" /\ k[i].rank = i - 1,
           \A x : (\E i \in DOMAIN k : Places(k[i], x)) <=> x \in Shown(q, o)
    PROVE  Tidy(Async(<<Auth(a, admin), Await>> \o k))
<1> DEFINE s == <<Auth(a, admin), Await>>
           l == s \o k
<1>1. Listing(s) /\ DOMAIN s = {1, 2} /\ Len(s) = 2 /\ s[1] = Auth(a, admin) /\ s[2] = Await
  BY Two
<1>2. s[1].op = "auth" /\ s[2].op = "await"
  BY <1>1 DEF Auth, Await
<1> HIDE DEF s
<1>3. /\ Listing(l) /\ Len(k) \in Nat /\ DOMAIN k = 1 .. Len(k) /\ DOMAIN l = 1 .. 2 + Len(k)
      /\ \A i \in DOMAIN s : l[i] = s[i]
      /\ \A i \in DOMAIN l : i > 2 => i - 2 \in DOMAIN k /\ l[i] = k[i - 2]
  <2>1. Listing(s) /\ Listing(k)
    BY <1>1
  <2>2. /\ Listing(l) /\ Len(k) \in Nat /\ DOMAIN k = 1 .. Len(k) /\ DOMAIN l = 1 .. Len(s) + Len(k)
    BY <2>1, Joined
  <2>3. \A i \in DOMAIN s : l[i] = s[i]
    BY <2>1, Joined
  <2>4. \A i \in DOMAIN l : i > Len(s) => i - Len(s) \in DOMAIN k /\ l[i] = k[i - Len(s)]
    BY <2>1, Joined
  <2> HIDE DEF l
  <2> QED
    BY <2>2, <2>3, <2>4, <1>1
<1> HIDE DEF l
<1>4. l[1].op = "auth" /\ l[2].op = "await" /\ 1 \in DOMAIN l
  BY <1>1, <1>2, <1>3
<1>5. \A i \in DOMAIN l : i = 1 \/ i = 2 \/ i > 2
  BY <1>3
<1>6. ASSUME NEW i \in DOMAIN l, i > 2
      PROVE  l[i].op = "place" /\ l[i].rank = i - 3 /\ i - 3 \in Nat /\ i \in Nat
  <2>1. i - 2 \in DOMAIN k /\ l[i] = k[i - 2] /\ i \in Nat
    BY <1>3, <1>6
  <2>2. (i - 2) - 1 = i - 3 /\ i - 3 \in Nat
    BY <2>1, <1>3, <1>6
  <2> QED
    BY <2>1, <2>2
<1>7. \A x : (\E j \in DOMAIN l : Places(l[j], x)) <=> x \in Shown(q, o)
  <2>1. ASSUME NEW i \in DOMAIN k
        PROVE  i + 2 \in DOMAIN l /\ l[i + 2] = k[i]
    <3>1. i + 2 \in DOMAIN l /\ i + 2 > 2 /\ (i + 2) - 2 = i
      BY <1>3
    <3> QED
      BY <3>1, <1>3
  <2>2. ASSUME NEW j \in DOMAIN l, NEW x, Places(l[j], x)
        PROVE  j - 2 \in DOMAIN k /\ l[j] = k[j - 2]
    <3>1. j > 2
      BY <1>4, <1>5, <2>2 DEF Places
    <3> QED
      BY <3>1, <1>3
  <2>3. \A x : (\E j \in DOMAIN l : Places(l[j], x)) <=> (\E i \in DOMAIN k : Places(k[i], x))
    BY <2>1, <2>2
  <2> QED
    BY <2>3
<1>8. ASSUME NEW i \in DOMAIN l
      PROVE  /\ l[i].op \in Inserts /\ l[i].tab \in RankTables => "rank" \in DOMAIN l[i].row
             /\ l[i].op = "place" =>
                    /\ l[i].rank \in Nat
                    /\ \A j \in DOMAIN l : j > i => l[j].op = "place" /\ l[j].rank # l[i].rank
                    /\ i > 1 /\ l[i - 1].op # "place" =>
                           /\ l[i - 1].op = "await"
                           /\ \E p \in Pages : \E oo \in Orders[p] :
                                  \A x : (\E j \in DOMAIN l : Places(l[j], x)) <=> x \in Shown(p, oo)
  <2>1. CASE i = 1 \/ i = 2
    BY <2>1, <1>4 DEF Inserts
  <2>2. CASE i > 2
    <3>1. l[i].op = "place" /\ l[i].rank = i - 3 /\ i - 3 \in Nat /\ i \in Nat
      BY <1>6, <2>2
    <3>2. ASSUME NEW j \in DOMAIN l, j > i
          PROVE  l[j].op = "place" /\ l[j].rank # l[i].rank
      <4>1. j > 2
        BY <2>2, <3>1, <3>2, <1>3
      <4>2. l[j].op = "place" /\ l[j].rank = j - 3 /\ j \in Nat
        BY <1>6, <4>1
      <4>3. j - 3 # i - 3
        BY <3>1, <3>2, <4>2
      <4> QED
        BY <3>1, <4>2, <4>3
    <3>3. i - 1 = 2 \/ (i - 1 \in DOMAIN l /\ i - 1 > 2)
      BY <1>3, <2>2
    <3>4. l[i - 1].op = "place" \/ l[i - 1].op = "await"
      BY <3>3, <1>4, <1>6
    <3> QED
      BY <3>1, <3>2, <3>4, <1>7 DEF Inserts
  <2> QED
    BY <2>1, <2>2, <1>5
<1>9. LawfulPlaces(l, TRUE)
  BY <1>8 DEF LawfulPlaces
<1>10. l # <<>>
  BY <1>4, EmptyListing
<1>12. \A i \in DOMAIN l : ~Claims(l[i])
  BY <1>4, <1>5, <1>6 DEF Claims
<1>13. LawfulNames(l, TRUE) /\ ~Claims(l[1])
  BY <1>4, <1>12 DEF LawfulNames, Claims
<1>11. Tidy(Async(l))
  BY <1>3, <1>4, <1>9, <1>10, <1>13 DEF Tidy, Async
<1> QED
  BY <1>11 DEF l, s

LEMMA TidyOrders ==
    ASSUME RegistryAssumption, NEW a
    PROVE  /\ \A o \in Orders["cameras"] : Tidy(CameraOrder(a, o))
           /\ \A o \in Orders["rooms"] : Tidy(RoomOrder(a, o))
           /\ \A o \in Orders["coverings"] : Tidy(CoveringOrder(a, o))
           /\ \A o \in Orders["tasks"] : Tidy(TaskOrder(a, o))
<1>1. ASSUME NEW o \in Orders["cameras"]
      PROVE  Tidy(CameraOrder(a, o))
  <2> DEFINE k == SetCameraSort(o)
  <2>1. Listing(o) /\ \A i \in DOMAIN o : o[i] = <<o[i][1], o[i][2]>>
    BY DEF RegistryAssumption, Pages
  <2>2. k = [i \in DOMAIN o |-> k[i]] /\ \A i \in DOMAIN o : k[i] = Place(o[i][1], o[i][2], i - 1)
    BY DEF SetCameraSort
  <2>3. Shown("cameras", o) = {o[i] : i \in DOMAIN o}
    BY DEF Shown, Range
  <2> HIDE DEF k
  <2>4. Listing(k) /\ DOMAIN k = DOMAIN o
    BY <2>1, <2>2, Mapped
  <2>5. \A i \in DOMAIN k : /\ k[i].op = "place" /\ k[i].rank = i - 1
                            /\ k[i].tab = o[i][1] /\ k[i].id = o[i][2]
    BY <2>2, <2>4 DEF Place
  <2>6. \A x : (\E i \in DOMAIN k : Places(k[i], x)) <=> x \in Shown("cameras", o)
    BY <2>1, <2>3, <2>4, <2>5 DEF Places
  <2>7. "cameras" \in Pages
    BY DEF Pages
  <2>8. Tidy(Async(<<Auth(a, TRUE), Await>> \o k))
    BY <2>1, <2>4, <2>5, <2>6, <2>7, OrderTidy
  <2> QED
    BY <2>8 DEF k, CameraOrder
<1>2. ASSUME NEW t \in {"rooms", "coverings", "tasks"}, NEW o \in Orders[t], NEW admin
      PROVE  Tidy(Async(<<Auth(a, admin), Await>> \o Ranks(t, o)))
  <2> DEFINE k == Ranks(t, o)
  <2>1. Listing(o) /\ t \in Pages /\ t # "cameras"
    BY DEF RegistryAssumption, Pages
  <2>2. k = [i \in DOMAIN o |-> k[i]] /\ \A i \in DOMAIN o : k[i] = Place(t, o[i], i - 1)
    BY DEF Ranks
  <2>3. Shown(t, o) = {t} \X {o[i] : i \in DOMAIN o}
    BY <2>1 DEF Shown, Range
  <2> HIDE DEF k
  <2>4. Listing(k) /\ DOMAIN k = DOMAIN o
    BY <2>1, <2>2, Mapped
  <2>5. \A i \in DOMAIN k : /\ k[i].op = "place" /\ k[i].rank = i - 1
                            /\ k[i].tab = t /\ k[i].id = o[i]
    BY <2>2, <2>4 DEF Place
  <2>6. \A x : (\E i \in DOMAIN k : Places(k[i], x)) <=> x \in Shown(t, o)
    BY <2>3, <2>4, <2>5 DEF Places
  <2> HIDE DEF k
  <2>8. Tidy(Async(<<Auth(a, admin), Await>> \o k))
    BY <2>1, <2>4, <2>5, <2>6, OrderTidy
  <2> QED
    BY <2>8 DEF k
<1>3. ASSUME NEW o \in Orders["rooms"]
      PROVE  Tidy(RoomOrder(a, o))
  BY <1>2 DEF RoomOrder, SetRoomOrder
<1>4. ASSUME NEW o \in Orders["coverings"]
      PROVE  Tidy(CoveringOrder(a, o))
  BY <1>2 DEF CoveringOrder, SetCoveringOrder
<1>5. ASSUME NEW o \in Orders["tasks"]
      PROVE  Tidy(TaskOrder(a, o))
  BY <1>2 DEF TaskOrder, SetTaskOrder
<1> QED
  BY <1>1, <1>3, <1>4, <1>5

LEMMA TidyCameras ==
    ASSUME RegistryAssumption, NEW r, NEW a, NEW p \in CameraRequests(r, a)
    PROVE  Tidy(p)
<1>1. \/ p = AddCamera(a)
      \/ \E o \in Orders["cameras"] : p = CameraOrder(a, o)
      \/ \E c \in Known["cameras"] :
             p \in {UpdateCamera(a, c), ArchiveCamera(a, c), RestoreCamera(a, c), DeleteCamera(a, c),
                    CreateSchedule(r, a, c), CreateVirtual(r, a, c)}
      \/ \E c \in Known["cameras"], x \in Known["schedules"] :
             p \in {UpdateSchedule(a, c, x), DeleteSchedule(a, c, x)}
      \/ \E w \in Known["virtual"] : p \in {UpdateVirtual(a, w), DeleteVirtual(a, w)}
  BY DEF CameraRequests
<1>2. Tidy(AddCamera(a))
  BY CalmTidy, CalmLists, CalmStatements, RankTablesAre DEF AddCamera
<1>3. ASSUME NEW c
      PROVE  Tidy(UpdateCamera(a, c)) /\ Tidy(ArchiveCamera(a, c)) /\ Tidy(RestoreCamera(a, c))
  BY CalmTidy, CalmLists, CalmStatements DEF UpdateCamera, ArchiveCamera, RestoreCamera
<1>4. ASSUME NEW c
      PROVE  Tidy(CreateSchedule(r, a, c)) /\ Tidy(CreateVirtual(r, a, c))
  BY CalmTidy, CalmLists, CalmStatements, RankTablesAre DEF CreateSchedule, CreateVirtual
<1>5. ASSUME NEW c, NEW x
      PROVE  Tidy(UpdateSchedule(a, c, x)) /\ Tidy(DeleteSchedule(a, c, x))
  BY CalmTidy, CalmLists, CalmStatements DEF UpdateSchedule, DeleteSchedule
<1>6. ASSUME NEW w
      PROVE  Tidy(UpdateVirtual(a, w)) /\ Tidy(DeleteVirtual(a, w))
  BY CalmTidy, CalmLists, CalmStatements DEF UpdateVirtual, DeleteVirtual
<1>7. p.kills # {} => Tidy(p)
  BY CamerasGood, KillsTidy
<1>8. \A c : DeleteCamera(a, c).kills # {}
  BY DEF DeleteCamera, Kills, Sync
<1> QED
  BY <1>1, <1>2, <1>3, <1>4, <1>5, <1>6, <1>7, <1>8, TidyOrders

LEMMA TidyDevices ==
    ASSUME RegistryAssumption, NEW r, NEW a, NEW p \in DeviceRequests(r, a)
    PROVE  Tidy(p)
<1>1. \/ p = AddDevice(a)
      \/ \E q \in Known["devices"] :
             p \in {UpdateDevice(a, q), DeleteDevice(a, q), CreateDeviceSchedule(r, a, q)}
      \/ \E q \in Known["devices"], x \in Known["schedules"] :
             p \in {UpdateDeviceSchedule(a, q, x), DeleteDeviceSchedule(a, q, x)}
  BY DEF DeviceRequests
<1>2. Tidy(AddDevice(a))
  BY CalmTidy, CalmLists, CalmStatements, RankTablesAre DEF AddDevice, UniqueDeviceId
<1>3. ASSUME NEW q
      PROVE  Tidy(UpdateDevice(a, q)) /\ Tidy(CreateDeviceSchedule(r, a, q))
  BY CalmTidy, CalmLists, CalmStatements, RankTablesAre DEF UpdateDevice, CreateDeviceSchedule
<1>4. ASSUME NEW q, NEW x
      PROVE  Tidy(UpdateDeviceSchedule(a, q, x)) /\ Tidy(DeleteDeviceSchedule(a, q, x))
  BY CalmTidy, CalmLists, CalmStatements DEF UpdateDeviceSchedule, DeleteDeviceSchedule
<1>5. p.kills # {} => Tidy(p)
  BY DevicesGood, KillsTidy
<1>6. \A q : DeleteDevice(a, q).kills # {}
  BY DEF DeleteDevice, Kills, Sync
<1> QED
  BY <1>1, <1>2, <1>3, <1>4, <1>5, <1>6

LEMMA TidyHubs ==
    ASSUME RegistryAssumption, NEW a, NEW h \in DOMAIN Motors
    PROVE  Tidy(AddHub(a, h)) /\ Tidy(RefreshHub(a, h))
<1> DEFINE k == SyncHubCoverings(h)
           s == <<Auth(a, TRUE), Await, Await, Seed("hubs", h), PutPicked("hubs", [enabled |-> "yes"])>>
           t == <<Auth(a, TRUE), Need("hubs", h), Await>>
<1>1. /\ Listing(k) /\ k[1] = Listed("coverings", "hub", h)
      /\ \A i \in DOMAIN k : i # 1 =>
             k[i] = PutNew("coverings", Motors[h][i - 1], Covering(h, None))
  BY SyncIs
<1>2. CalmList(s, TRUE) /\ CalmList(t, TRUE)
  BY CalmLists, CalmStatements, RankTablesAre
<1> HIDE DEF k, s, t
<1>3. \A i \in DOMAIN k : Calm(k[i], TRUE)
  <2>1. \A x : Calm(PutNew("coverings", x, Covering(h, None)), TRUE)
    BY CalmStatements, RankTablesAre
  <2>2. Calm(Listed("coverings", "hub", h), TRUE)
    BY CalmStatements
  <2> SUFFICES ASSUME NEW i \in DOMAIN k
               PROVE  Calm(k[i], TRUE)
    OBVIOUS
  <2>3. CASE i = 1
    BY <1>1, <2>2, <2>3
  <2>4. CASE i # 1
    <3>1. \E x : k[i] = PutNew("coverings", x, Covering(h, None))
      BY <1>1, <2>4
    <3>2. PICK x : k[i] = PutNew("coverings", x, Covering(h, None))
      BY <3>1
    <3>3. Calm(PutNew("coverings", x, Covering(h, None)), TRUE)
      BY <2>1
    <3> QED
      BY <3>2, <3>3
  <2> QED
    BY <2>3, <2>4
<1>4. CalmList(s \o k, TRUE) /\ CalmList(t \o k, TRUE)
  BY <1>1, <1>2, <1>3, CalmJoin
<1>5. Tidy(Async(s \o k)) /\ Tidy(Async(t \o k))
  BY <1>4, CalmTidy
<1> QED
  BY <1>5 DEF s, t, k, AddHub, RefreshHub

LEMMA TidyBlinds ==
    ASSUME RegistryAssumption, NEW r, NEW a, NEW p \in BlindRequests(r, a)
    PROVE  Tidy(p)
<1>1. \/ p = AddRoom(r, a)
      \/ \E o \in Orders["rooms"] : p = RoomOrder(a, o)
      \/ \E o \in Orders["coverings"] : p = CoveringOrder(a, o)
      \/ \E m \in Known["rooms"] :
             p \in {UpdateRoom(a, m), DeleteRoom(a, m), AddRoomSchedule(r, a, m)}
      \/ \E h \in Known["hubs"] :
             p \in {AddHub(a, h), RefreshHub(a, h), UpdateHub(a, h), DeleteHub(a, h)}
      \/ \E k \in Known["coverings"], m \in Known["rooms"] :
             p \in {UpdateCovering(a, k, m), DeleteCovering(a, k), AddCoverSchedule(r, a, k)}
      \/ \E x \in Known["schedules"] :
             p \in {UpdateCoverSchedule(a, x), DeleteCoverSchedule(a, x)}
  BY DEF BlindRequests
<1>2. Tidy(AddRoom(r, a))
  BY CalmTidy, CalmLists, CalmStatements, RankTablesAre DEF AddRoom
<1>3. ASSUME NEW m
      PROVE  Tidy(UpdateRoom(a, m)) /\ Tidy(AddRoomSchedule(r, a, m)) /\ Tidy(UpdateHub(a, m))
  BY CalmTidy, CalmLists, CalmStatements, RankTablesAre DEF UpdateRoom, AddRoomSchedule, UpdateHub
<1>4. ASSUME NEW k, NEW m
      PROVE  Tidy(UpdateCovering(a, k, m)) /\ Tidy(AddCoverSchedule(r, a, k))
  BY CalmTidy, CalmLists, CalmStatements, RankTablesAre DEF UpdateCovering, AddCoverSchedule
<1>5. ASSUME NEW x
      PROVE  Tidy(UpdateCoverSchedule(a, x)) /\ Tidy(DeleteCoverSchedule(a, x))
  BY CalmTidy, CalmLists, CalmStatements DEF UpdateCoverSchedule, DeleteCoverSchedule
<1>6. p.kills # {} => Tidy(p)
  BY BlindsGood, KillsTidy
<1>7. \A x : DeleteRoom(a, x).kills # {} /\ DeleteHub(a, x).kills # {} /\ DeleteCovering(a, x).kills # {}
  BY DEF DeleteRoom, DeleteHub, DeleteCovering, Kills, Sync
<1>8. \A h \in Known["hubs"] : Tidy(AddHub(a, h)) /\ Tidy(RefreshHub(a, h))
  BY TidyHubs DEF RegistryAssumption
<1> QED
  BY <1>1, <1>2, <1>3, <1>4, <1>5, <1>6, <1>7, <1>8, TidyOrders

LEMMA TidyFamily ==
    ASSUME RegistryAssumption, NEW r, NEW s, NEW a, NEW p \in FamilyRequests(r, s, a)
    PROVE  Tidy(p)
<1>1. \/ p \in {TasksPage(r, s), CalendarPage(s), AddTaskList(r, a), AddCalendar(s, None),
                AddCalendar(s, Known["owner"][s])}
      \/ \E o \in Orders["tasks"] : p = TaskOrder(s, o)
      \/ \E x \in Known["lists"], u \in Known["users"] : p = AddTask(r, s, x, u)
      \/ \E t \in Known["tasks"], x \in Known["lists"] : p = UpdateTask(s, t, "lists", "list", x)
      \/ \E t \in Known["tasks"], u \in Known["users"] :
             p = UpdateTask(s, t, "users", "assignee", u)
      \/ \E t \in Known["tasks"] : p = DeleteTask(s, t)
      \/ \E x \in Known["lists"] : p \in {UpdateTaskList(a, x), DeleteTaskList(a, x)}
      \/ \E y \in Known["calendars"] :
             p \in {UpdateCalendar(s, y), DeleteCalendar(s, y), AddEvent(r, s, y)}
      \/ \E e \in Known["events"], y \in Known["calendars"] :
             p \in {UpdateEvent(s, e, y), DeleteEvent(s, e)}
  BY DEF FamilyRequests
<1>2. Tidy(TasksPage(r, s)) /\ Tidy(AddTaskList(r, a))
  BY CalmTidy, CalmLists, CalmStatements, RankTablesAre DEF TasksPage, AddTaskList
<1>3. \A owner : Tidy(AddCalendar(s, owner))
  BY ClaimingCalendars
<1>4. ASSUME NEW x, NEW u
      PROVE  Tidy(AddTask(r, s, x, u))
  <2>1. Calm(Put("tasks", r, Task(x, u)), TRUE)
    BY CalmStatements, RankTablesAre
  <2> QED
    BY <2>1, CalmTidy, CalmLists, CalmStatements DEF AddTask
<1>5. ASSUME NEW t, NEW tab, NEW col, NEW v
      PROVE  Tidy(UpdateTask(s, t, tab, col, v)) /\ Tidy(DeleteTask(s, t))
  BY CalmTidy, CalmLists, CalmStatements DEF UpdateTask, DeleteTask
<1>6. ASSUME NEW x
      PROVE  Tidy(UpdateTaskList(a, x)) /\ Tidy(UpdateCalendar(s, x))
  BY CalmTidy, CalmLists, CalmStatements DEF UpdateTaskList, UpdateCalendar
<1>7. ASSUME NEW e, NEW y
      PROVE  Tidy(UpdateEvent(s, e, y)) /\ Tidy(DeleteEvent(s, e))
  BY CalmTidy, CalmLists, CalmStatements DEF UpdateEvent, DeleteEvent
<1>8. p.kills # {} => Tidy(p)
  BY FamilyGood, KillsTidy
<1>9. \A x : DeleteTaskList(a, x).kills # {} /\ DeleteCalendar(s, x).kills # {}
  BY DEF DeleteTaskList, DeleteCalendar, Kills, Sync
<1> QED
  BY <1>1, <1>2, <1>3, <1>4, <1>5, <1>6, <1>7, <1>8, <1>9, TidyOrders, ClaimingCalendars

LEMMA TidyNetworks ==
    ASSUME RegistryAssumption, NEW a, NEW p \in NetworkRequests(a)
    PROVE  Tidy(p)
<1>1. \/ p = NetworkScan(a)
      \/ \E n \in Known["lan"] : p \in {UpdateNetworkDevice(a, n), ForgetNetworkDevice(a, n)}
  BY DEF NetworkRequests
<1>2. ASSUME NEW n
      PROVE  Tidy(UpdateNetworkDevice(a, n)) /\ Tidy(ForgetNetworkDevice(a, n))
  BY CalmTidy, CalmLists, CalmStatements, RankTablesAre
     DEF UpdateNetworkDevice, ForgetNetworkDevice
<1>3. Tidy(NetworkScan(a))
  <2> DEFINE h == <<Auth(a, TRUE), Await, Seed("lan", "first")>>
             k == [i \in DOMAIN Addresses |-> Upsert("lan", Addresses[i], Sighting("no"))]
             t == <<MarkAll>>
  <2>1. CalmList(h, TRUE) /\ CalmList(t, TRUE)
    BY CalmLists, CalmStatements
  <2>2. k = [i \in DOMAIN Addresses |-> k[i]]
        /\ \A i \in DOMAIN Addresses : k[i] = Upsert("lan", Addresses[i], Sighting("no"))
    OBVIOUS
  <2> HIDE DEF h, k, t
  <2>3. Listing(k) /\ DOMAIN k = DOMAIN Addresses
    BY <2>2, Mapped DEF RegistryAssumption
  <2>4. \A x : Calm(Upsert("lan", x, Sighting("no")), TRUE)
    BY CalmStatements, RankTablesAre
  <2>5. ASSUME NEW i \in DOMAIN k
        PROVE  Calm(k[i], TRUE)
    <3>1. \E x : k[i] = Upsert("lan", x, Sighting("no"))
      BY <2>2, <2>3
    <3>2. PICK x : k[i] = Upsert("lan", x, Sighting("no"))
      BY <3>1
    <3>3. Calm(Upsert("lan", x, Sighting("no")), TRUE)
      BY <2>4
    <3> QED
      BY <3>2, <3>3
  <2>6. CalmList(h \o k, TRUE)
    BY <2>1, <2>3, <2>5, CalmJoin
  <2>7. CalmList((h \o k) \o t, TRUE)
    BY <2>1, <2>6, CalmJoin DEF CalmList
  <2>8. Tidy(Async((h \o k) \o t))
    BY <2>7, CalmTidy
  <2> QED
    BY <2>8 DEF h, k, t, NetworkScan
<1> QED
  BY <1>1, <1>2, <1>3

LEMMA PartsTidy ==
    ASSUME RegistryAssumption, NEW r, NEW n \in 1 .. 4, NEW p \in Parts(r)[n]
    PROVE  Tidy(p)
<1> DEFINE a == CHOOSE s \in Bosses : TRUE
<1>1. \/ p \in AccountRequests(r) \/ p \in FamilyRequests(r, a, a)
      \/ p \in CameraRequests(r, a) \/ p \in DeviceRequests(r, a)
      \/ p \in BlindRequests(r, a) \/ p \in NetworkRequests(a)
  <2>1. n = 1 \/ n = 2 \/ n = 3 \/ n = 4
    OBVIOUS
  <2>2. /\ Parts(r)[1] = AccountRequests(r) \cup FamilyRequests(r, a, a)
        /\ Parts(r)[2] = CameraRequests(r, a) \cup DeviceRequests(r, a)
        /\ Parts(r)[3] = BlindRequests(r, a) /\ Parts(r)[4] = NetworkRequests(a)
    BY DEF Parts
  <2> HIDE DEF a
  <2> QED
    BY <2>1, <2>2
<1> HIDE DEF a
<1> QED
  BY <1>1, TidyAccounts, TidyFamily, TidyCameras, TidyDevices, TidyBlinds, TidyNetworks

-----------------------------------------------------------------------------
(* The theorems.                                                           *)

RegistryInv ==
    /\ Shaped /\ Held /\ Kept /\ Named /\ Counted /\ Fresh /\ Chosen /\ Wired
    /\ Signed /\ Owned /\ Cleared /\ Announced /\ crashes \in 0 .. MaxCrashes

\* What a request is before it begins.
LEMMA StartOf ==
    ASSUME RegistryAssumption, Init, NEW r \in Requests
    PROVE  /\ DOMAIN th = Requests /\ DOMAIN th[r] = Fields
           /\ th[r].begun = FALSE /\ th[r].stale = FALSE /\ th[r].async \in BOOLEAN
           /\ th[r].me = None /\ th[r].pick = {}
           /\ GoodList(r, L(r), th[r].async, th[r].on, th[r].kills)
<1>1. PICK n \in 1 .. 4 :
          th \in {f \in [Requests -> {Ready(p) : p \in UNION {Parts(q)[n] : q \in Requests}}] :
                      \A q \in Requests : \E p \in Parts(q)[n] : f[q] = Ready(p)}
  BY DEF Init
<1>2. DOMAIN th = Requests
  BY <1>1
<1>3. PICK p \in Parts(r)[n] : th[r] = Ready(p)
  BY <1>1
<1>4. Good(r, p)
  BY PartsGood
<1>5. /\ th[r].todo = p.todo /\ th[r].async = p.async /\ th[r].kills = p.kills /\ th[r].on = p.on
      /\ th[r].begun = FALSE /\ th[r].stale = FALSE /\ th[r].me = None /\ th[r].pick = {}
      /\ DOMAIN th[r] = Fields
  BY <1>3 DEF Ready, Fields
<1> QED
  BY <1>2, <1>4, <1>5 DEF Good, L

LEMMA StartInOrder ==
    ASSUME RegistryAssumption, Init
    PROVE  InOrder(db)
BY DEF RegistryAssumption, Init

LEMMA InitRows ==
    ASSUME RegistryAssumption, Init
    PROVE  Kept /\ Named /\ Wired /\ Owned /\ Signed
<1>1. InOrder(db)
  BY StartInOrder
<1>2. Kept
  <2>1. \A t \in Tables : \A id \in DOMAIN db[t] : HasColumns(t, db[t][id])
    BY <1>1 DEF InOrder, HasColumns
  <2> QED
    BY <1>1, <2>1 DEF InOrder, Kept
<1>3. Named
  BY <1>1 DEF InOrder, Named
<1>4. Wired
  BY <1>1 DEF InOrder, Wired
<1>5. Owned
  BY <1>1 DEF InOrder, Owned
<1>6. Signed
  BY <1>1 DEF InOrder, Signed
<1> QED
  BY <1>2, <1>3, <1>4, <1>5, <1>6

LEMMA InitRequests ==
    ASSUME RegistryAssumption, Init
    PROVE  Shaped /\ Held /\ Counted /\ Fresh /\ Chosen /\ Cleared /\ Announced
<1>1. ASSUME NEW r \in Requests
      PROVE  /\ DOMAIN th = Requests /\ DOMAIN th[r] = Fields
             /\ th[r].begun = FALSE /\ th[r].stale = FALSE /\ th[r].async \in BOOLEAN
             /\ th[r].me = None /\ th[r].pick = {}
             /\ Lawful(r, L(r), th[r].async, th[r].on, th[r].kills)
             /\ LawfulStart(L(r), th[r].async, th[r].on, th[r].kills)
  BY StartOf DEF GoodList
<1>2. DOMAIN th = Requests
  BY DEF Init
<1>3. Shaped
  BY <1>1, <1>2 DEF Shaped
<1>4. Held
  BY <1>1 DEF Held, Mid, Init, RegistryAssumption
<1>5. Counted
  <2> SUFFICES ASSUME NEW r \in Requests, NEW i \in DOMAIN L(r)
               PROVE  /\ Demotes(L(r)[i]) /\ ~th[r].stale =>
                             /\ i \leq 3 => Read(r, L(r)[i].id)
                             /\ i = 1 => Enough(r)
                      /\ Fires(L(r)[i]) =>
                             \/ th[r].me = None /\ NoAuth(L(r))
                             \/ /\ LawfulFiring(L(r), th[r].async, th[r].on)
                                /\ ~th[r].stale => /\ i \leq 5 => Read(r, L(r)[i].val)
                                                   /\ i \leq 3 => Enough(r)
    BY DEF Counted
  <2>1. Demotes(L(r)[i]) => i = 5
    BY <1>1 DEF LawfulStart
  <2>2. Fires(L(r)[i]) => \/ NoAuth(L(r))
                          \/ i = 7 /\ LawfulFiring(L(r), th[r].async, th[r].on)
    BY <1>1 DEF LawfulStart
  <2>3. th[r].me = None
    BY <1>1
  <2> QED
    BY <2>1, <2>2, <2>3
<1>6. Fresh
  <2> SUFFICES ASSUME NEW r \in Requests, NEW i \in DOMAIN L(r), L(r)[i].op = "put",
                      L(r)[i].tab \notin {"users", "lists"}
               PROVE  r \notin DOMAIN db[L(r)[i].tab]
    BY DEF Fresh
  <2>1. LawfulStatement(r, L(r)[i])
    BY <1>1 DEF Lawful
  <2>2. L(r)[i].tab \in Tables
    BY <2>1 DEF LawfulStatement, PutTables, Tables
  <2> QED
    BY <2>2, StartInOrder DEF InOrder
<1>7. Chosen
  <2> SUFFICES ASSUME NEW r \in Requests, Running(r)
               PROVE  Now(r).op \notin {"putpicked", "putnew"}
    BY DEF Chosen
  <2>1. L(r) # <<>> /\ Listing(L(r)) /\ L(r)[1].op \notin {"putpicked", "putnew"}
    BY <1>1 DEF Lawful, LawfulStart
  <2>2. Head(L(r)) = L(r)[1]
    BY <2>1, ListOf
  <2> QED
    BY <2>1, <2>2 DEF Now, L
<1>8. Cleared
  <2> SUFFICES ASSUME NEW f \in Refs, f[1] # "sessions", NEW id \in DOMAIN db[f[1]],
                      db[f[1]][id][f[2]] # None
               PROVE  db[f[1]][id][f[2]] \in DOMAIN db[f[3]]
    BY <1>1 DEF Cleared
  <2> QED
    BY StartInOrder DEF InOrder
<1>9. Announced
  BY <1>1 DEF Announced
<1> QED
  BY <1>3, <1>4, <1>5, <1>6, <1>7, <1>8, <1>9

LEMMA InitInv ==
    ASSUME RegistryAssumption, Init
    PROVE  RegistryInv
<1>1. crashes \in 0 .. MaxCrashes
  BY DEF Init, RegistryAssumption
<1> QED
  BY <1>1, InitRows, InitRequests DEF RegistryInv

LEMMA NextInv ==
    ASSUME RegistryAssumption, RegistryInv, Next
    PROVE  RegistryInv'
<1>1. DOMAIN db = Tables
  BY DEF RegistryInv, Kept
<1>2. (\E r \in Requests : Acts(r)) \/ Crashed
  BY <1>1, NextActs DEF RegistryInv
<1>4. Counted' /\ Chosen' /\ Announced'
  BY <1>1, <1>2, CountedNext, ChosenNext, AnnouncedNext DEF RegistryInv
<1>5. ASSUME NEW r \in Requests, Acts(r)
      PROVE  /\ Shaped' /\ Held' /\ Kept' /\ Named' /\ Fresh' /\ Wired'
             /\ Signed' /\ Owned' /\ Cleared' /\ crashes' \in 0 .. MaxCrashes
  <2>1. Turn(r) /\ crashes' = crashes
    BY <1>1, <1>5, ActsTurn
  <2>2. Shaped' /\ Held'
    BY <2>1, TurnKeeps DEF RegistryInv
  <2>3. Kept' /\ Named' /\ Fresh' /\ Wired'
    BY <1>5, KeptNext, NamedNext, FreshNext, WiredNext DEF RegistryInv
  <2>4. Signed' /\ Owned' /\ Cleared'
    BY <1>5, SignedNext, OwnedNext, ClearedNext DEF RegistryInv
  <2> QED
    BY <2>1, <2>2, <2>3, <2>4 DEF RegistryInv
<1>6. ASSUME Crashed
      PROVE  /\ Shaped' /\ Held' /\ Kept' /\ Named' /\ Fresh' /\ Wired'
             /\ Signed' /\ Owned' /\ Cleared' /\ crashes' \in 0 .. MaxCrashes
  <2>1. Shaped' /\ Held' /\ Fresh' /\ Signed' /\ Cleared'
    BY <1>6, CrashKeeps, FreshCrash, SignedCrash, ClearedCrash DEF RegistryInv
  <2>2. db' = db /\ crashes' \in 0 .. MaxCrashes
    BY <1>6 DEF Crashed
  <2>3. Kept' /\ Named' /\ Wired' /\ Owned'
    BY <2>2 DEF RegistryInv, Kept, Named, Wired, Owned
  <2> QED
    BY <2>1, <2>2, <2>3
<1> QED
  BY <1>2, <1>4, <1>5, <1>6 DEF RegistryInv

LEMMA StutterInv ==
    ASSUME RegistryInv, UNCHANGED vars
    PROVE  RegistryInv'
<1>1. db' = db /\ th' = th /\ loop' = loop /\ late' = late /\ clash' = clash /\ crashes' = crashes
  BY DEF vars
<1>2. Shaped' /\ Held'
  BY <1>1 DEF RegistryInv, Shaped, Held, L, Mid, Running, Now
<1>3. Kept' /\ Named' /\ Wired' /\ Owned'
  BY <1>1 DEF RegistryInv, Kept, Named, Wired, Owned
<1>4. Counted'
  BY <1>1 DEF RegistryInv, Counted, L, Read, Enough
<1>5. Fresh' /\ Chosen'
  BY <1>1 DEF RegistryInv, Fresh, Chosen, L, Running, Now
<1>6. Signed' /\ Announced'
  BY <1>1 DEF RegistryInv, Signed, Announced, L
<1>7. Cleared'
  <2>1. ASSUME NEW r \in Requests, NEW f, NEW v
        PROVE  /\ Firm(r)' <=> Firm(r)
               /\ Pending(r, f, v)' <=> Pending(r, f, v)
               /\ Spares(r, f)' <=> Spares(r, f)
               /\ Running(r)' <=> Running(r)
    BY <1>1 DEF L, Running, Firm, Pending, Spares
  <2>2. ASSUME NEW f, NEW id, NEW v
        PROVE  Covered(f, id, v)' <=> Covered(f, id, v)
    BY <1>1, <2>1 DEF Covered
  <2> QED
    BY <1>1, <2>1, <2>2 DEF RegistryInv, Cleared
<1> QED
  BY <1>1, <1>2, <1>3, <1>4, <1>5, <1>6, <1>7 DEF RegistryInv

LEMMA SpecInv == Spec => []RegistryInv
<1>1. Init => RegistryInv
  BY RegistryAssumption, InitInv
<1>2. RegistryInv /\ [Next]_vars => RegistryInv'
  BY RegistryAssumption, NextInv, StutterInv
<1> QED
  BY <1>1, <1>2, PTL DEF Spec

LEMMA OrderInit ==
    ASSUME RegistryAssumption, Init
    PROVE  OrderInv
<1>1. PICK n \in 1 .. 4 :
          th \in {f \in [Requests -> {Ready(p) : p \in UNION {Parts(q)[n] : q \in Requests}}] :
                      \A q \in Requests : \E p \in Parts(q)[n] : f[q] = Ready(p)}
  BY DEF Init
<1>2. ASSUME NEW r \in Requests
      PROVE  LawfulPlaces(L(r), th[r].async) /\ ~Placer(r)
  <2>1. PICK p \in Parts(r)[n] : th[r] = Ready(p)
    BY <1>1
  <2>2. Tidy(p) /\ th[r].todo = p.todo /\ th[r].async = p.async
    BY <2>1, PartsTidy DEF Ready
  <2>3. Head(p.todo) = p.todo[1]
    BY <2>2, ListOf DEF Tidy
  <2> QED
    BY <2>2, <2>3 DEF Tidy, L, Placer, Now
<1>3. InOrder(db)
  BY StartInOrder
<1>4. Orderly
  BY <1>2 DEF Orderly
<1>5. Numbered
  <2> SUFFICES ASSUME NEW t \in RankTables
               PROVE  /\ IsFiniteSet(DOMAIN db[t])
                      /\ \A id \in DOMAIN db[t] : "rank" \in DOMAIN db[t][id] /\ db[t][id].rank \in Nat
    BY DEF Numbered
  <2>1. PICK p \in Pages : t \in PageTables(p)
    BY PagesApart
  <2>2. IsFiniteSet(DOMAIN db[t])
    BY <1>3, <2>1 DEF InOrder
  <2>3. ASSUME NEW id \in DOMAIN db[t]
        PROVE  "rank" \in DOMAIN db[t][id] /\ db[t][id].rank \in Nat
    <3> DEFINE x == <<t, id>>
    <3>1. x \in RowsOf(db, p) /\ x[1] = t /\ x[2] = id
      BY <2>1, <2>3, PageIs
    <3>2. "rank" \in DOMAIN db[x[1]][x[2]] /\ RankIn(db, x) \in Nat
      BY <1>3, <3>1 DEF InOrder
    <3> QED
      BY <3>1, <3>2 DEF RankIn
  <2> QED
    BY <2>2, <2>3
<1>6. Sorted
  <2> SUFFICES ASSUME NEW p \in Pages, NEW x \in RowsOf(db, p), NEW y \in RowsOf(db, p),
                      x # y, NEW k, MayEnd(x, k), MayEnd(y, k)
               PROVE  FALSE
    BY DEF Sorted
  <2>1. RankIn(db, x) = k /\ RankIn(db, y) = k
    BY <1>2, EndsAsIs
  <2> QED
    BY <1>3, <2>1 DEF InOrder
<1> QED
  BY <1>4, <1>5, <1>6 DEF OrderInv

LEMMA OrderNext ==
    ASSUME RegistryAssumption, RegistryInv, OrderInv, Next
    PROVE  OrderInv'
<1>1. Shaped /\ Held /\ Kept /\ DOMAIN db = Tables
  BY DEF RegistryInv, Kept
<1>2. (\E r \in Requests : Acts(r)) \/ Crashed
  BY <1>1, NextActs DEF RegistryInv
<1>3. ASSUME NEW r \in Requests, Acts(r)
      PROVE  OrderInv'
  <2>1. Orderly' /\ Numbered'
    BY <1>1, <1>3, OrderlyNext, NumberedNext DEF OrderInv
  <2>2. Sorted'
    BY <1>1, <1>3, SortedNext
  <2> QED
    BY <2>1, <2>2 DEF OrderInv
<1>4. Crashed => OrderInv'
  BY <1>1, OrderCrash DEF Shaped
<1> QED
  BY <1>2, <1>3, <1>4

LEMMA SpecOrder == Spec => []OrderInv
<1>1. Init => OrderInv
  BY RegistryAssumption, OrderInit
<1>2. RegistryInv /\ OrderInv /\ [Next]_vars => OrderInv'
  BY RegistryAssumption, OrderNext, OrderStutter
<1> QED
  BY <1>1, <1>2, SpecInv, PTL DEF Spec

LEMMA NamesInit ==
    ASSUME RegistryAssumption, Init
    PROVE  NameInv
<1>1. PICK n \in 1 .. 4 :
          th \in {f \in [Requests -> {Ready(p) : p \in UNION {Parts(q)[n] : q \in Requests}}] :
                      \A q \in Requests : \E p \in Parts(q)[n] : f[q] = Ready(p)}
  BY DEF Init
<1>2. ASSUME NEW r \in Requests
      PROVE  LawfulNames(L(r), th[r].async) /\ ClaimOf(r)
  <2>1. PICK p \in Parts(r)[n] : th[r] = Ready(p)
    BY <1>1
  <2>2. Tidy(p) /\ th[r].todo = p.todo /\ th[r].async = p.async
    BY <2>1, PartsTidy DEF Ready
  <2>3. Head(p.todo) = p.todo[1]
    BY <2>2, ListOf DEF Tidy
  <2> QED
    BY <2>2, <2>3 DEF Tidy, L, ClaimOf, Now
<1>3. NoConflict
  BY DEF Init, NoConflict
<1> QED
  BY <1>2, <1>3 DEF NameInv, Claimed

LEMMA NamesNext ==
    ASSUME RegistryAssumption, RegistryInv, NameInv, Next
    PROVE  NameInv'
<1>1. Shaped /\ Held /\ Kept /\ Fresh /\ Chosen /\ DOMAIN db = Tables
  BY DEF RegistryInv, Kept
<1>2. (\E r \in Requests : Acts(r)) \/ Crashed
  BY <1>1, NextActs DEF RegistryInv
<1>3. Claimed'
  BY <1>1, <1>2, ClaimedNext, ClaimedCrash DEF NameInv
<1>4. NoConflict'
  BY <1>1, ConflictStep
<1> QED
  BY <1>3, <1>4 DEF NameInv

LEMMA NamesStutter ==
    ASSUME NameInv, UNCHANGED vars
    PROVE  NameInv'
<1>1. db' = db /\ th' = th /\ clash' = clash
  BY DEF vars
<1>2. NoConflict'
  BY <1>1 DEF NameInv, NoConflict
<1>3. Claimed'
  BY <1>1 DEF NameInv, Claimed, ClaimOf, LawfulNames, L, Running, Now
<1> QED
  BY <1>2, <1>3 DEF NameInv

LEMMA SpecNames == Spec => []NameInv
<1>1. Init => NameInv
  BY RegistryAssumption, NamesInit
<1>2. RegistryInv /\ NameInv /\ [Next]_vars => NameInv'
  BY RegistryAssumption, NamesNext, NamesStutter
<1> QED
  BY <1>1, <1>2, SpecInv, PTL DEF Spec

\* The database keeps the tables and the columns of its schema, whatever is asked
\* of it at once, and the event loop belongs to at most one coroutine, which has
\* something left to do.
THEOREM TypeInvariant == Spec => []TypeOK
<1>1. RegistryInv => TypeOK
  <2> SUFFICES ASSUME RegistryInv
               PROVE  TypeOK
    OBVIOUS
  <2>1. DOMAIN db = Tables /\ crashes \in 0 .. MaxCrashes /\ loop \in Requests \cup {None}
    BY DEF RegistryInv, Kept, Held
  <2>2. \A f \in Refs : \A id \in DOMAIN db[f[1]] : f[2] \in DOMAIN db[f[1]][id]
    BY RefsAre DEF RegistryInv, Kept, HasColumns
  <2>3. \A u \in DOMAIN db.users : db.users[u].role \in Roles
    BY DEF RegistryInv, Kept
  <2>4. \A s \in DOMAIN db.sessions : db.sessions[s].user \in DOMAIN db.users
    BY DEF RegistryInv, Kept
  <2>5. loop # None => Running(loop) /\ th[loop].async
    BY <2>1 DEF RegistryInv, Held, Mid
  <2> QED
    BY <2>1, <2>2, <2>3, <2>4, <2>5 DEF TypeOK
<1> QED
  BY <1>1, SpecInv, PTL

\* Requests that see each other never leave the house without an admin: main.py's
\* api_update_user and api_delete_user count the admins first, and only a request
\* beside them, or the command line, can make what they counted untrue.
THEOREM AdminsKept == Spec => AdminKept
<1> DEFINE A == Admins(db) # {} /\ Admins(db') = {} =>
                    \E r \in Requests : th'[r] # th[r] /\ (th[r].stale \/ th[r].me = None)
<1>1. RegistryInv /\ [Next]_vars => [A]_vars
  <2> SUFFICES ASSUME RegistryInv, Next, Admins(db) # {}, Admins(db') = {}
               PROVE  \E r \in Requests : th'[r] # th[r] /\ (th[r].stale \/ th[r].me = None)
    BY DEF vars
  <2>1. DOMAIN db = Tables
    BY DEF RegistryInv, Kept
  <2>2. (\E r \in Requests : Acts(r)) \/ Crashed
    BY <2>1, NextActs, RegistryAssumption DEF RegistryInv
  <2>3. ~Crashed
    BY DEF Crashed
  <2>4. PICK r \in Requests : Acts(r)
    BY <2>2, <2>3
  <2>5. th'[r] # th[r] /\ (th[r].stale \/ th[r].me = None)
    BY <2>4, AdminStep DEF RegistryInv
  <2> QED
    BY <2>5
<1> QED
  BY <1>1, SpecInv, PTL DEF Spec, AdminKept

\* When nothing runs, whoever knew a password that was changed is signed out
\* (main.py's change_password, admin.py's reset-password): a request that wrote
\* one deletes the user's sessions before it ends, or the machine stopped.
THEOREM SessionsAreRevoked == Spec => []SessionsRevoked
<1>1. RegistryInv => SessionsRevoked
  <2> SUFFICES ASSUME RegistryInv, AtRest, NEW s \in DOMAIN db.sessions
               PROVE  \/ db.sessions[s].pw = db.users[db.sessions[s].user].pw
                      \/ db.users[db.sessions[s].user].pw = "given"
                      \/ <<"sessions", s>> \in late
    BY DEF SessionsRevoked, Row
  <2>1. \A r \in Requests : DOMAIN L(r) = {}
    BY EmptyListing DEF AtRest, Running, L
  <2> QED
    BY <2>1 DEF RegistryInv, Signed
<1> QED
  BY <1>1, SpecInv, PTL

\* What a column of Refs names exists: a delete takes along or clears what named its row there
\* (db.py's delete_camera, delete_device, delete_shade_hub and the like), for as long
\* as nothing is written beside it and the machine does not stop half-way.
THEOREM NamesExist == Spec => []NoOrphans
<1>1. RegistryInv => NoOrphans
  <2> SUFFICES ASSUME RegistryInv, NEW f \in Refs, NEW id \in DOMAIN db[f[1]], NEW v,
                      v = db[f[1]][id][f[2]], v # None, v \notin DOMAIN db[f[3]]
               PROVE  \/ <<f[1], id>> \in late
                      \/ \E r \in Requests : Running(r) /\ <<f[3], v>> \in th[r].kills
    BY DEF NoOrphans, Row, Is
  <2>1. CASE f[1] = "sessions"
    <3>1. f[2] = "user" /\ f[3] = "users"
      BY <2>1 DEF Refs, FootageRefs, ScheduleRefs, CoveringRefs, TaskRefs
    <3> QED
      BY <2>1, <3>1 DEF RegistryInv, Kept
  <2>2. CASE f[1] # "sessions"
    <3>1. Covered(f, id, v)
      BY <2>2 DEF RegistryInv, Cleared
    <3>2. ASSUME NEW r \in Requests, Firm(r), Pending(r, f, v)
          PROVE  Running(r) /\ <<f[3], v>> \in th[r].kills
      <4>1. <<f[3], v>> \in th[r].kills /\ DOMAIN L(r) # {}
        BY <3>2 DEF Pending, Clearing
      <4>2. L(r) # <<>>
        BY <4>1, EmptyListing
      <4> QED
        BY <4>1, <4>2 DEF Running, L
    <3> QED
      BY <3>1, <3>2 DEF Covered
  <2> QED
    BY <2>1, <2>2
<1> QED
  BY <1>1, SpecInv, PTL

\* Whoever else adds one at once, an id that a request looked for and found free is
\* still free when it is inserted (main.py's api_add_camera, api_add_device, api_add_hub,
\* api_add_calendar run on to the insert before the loop runs another coroutine, and no
\* thread inserts there), but for the one id of the calendar that is seeded, in threads
\* too, and for an account that a thread's, or the command line's, has overtaken.
THEOREM NoConflicts == Spec => []NoConflict
<1>1. NameInv => NoConflict
  BY DEF NameInv
<1> QED
  BY <1>1, SpecNames, PTL

\* However many browsers drop the rows of a page into an order at once, and rows are
\* added meanwhile, two rows that whoever reordered saw both of or neither have
\* different ranks when all is done: the handlers (main.py's api_set_camera_order,
\* api_room_order, api_covering_order, api_task_order) write all the ranks before the loop
\* runs another coroutine, and a new row takes the rank after the last.
THEOREM RowsKeepOrder == Spec => []OneOrder
<1>1. OrderInv => OneOrder
  <2> SUFFICES ASSUME OrderInv, AtRest, crashes = 0, NEW p \in Pages, NEW x \in RowsOf(db, p),
                      NEW y \in RowsOf(db, p), Alike(p, x, y), RankIn(db, x) = RankIn(db, y)
               PROVE  x = y
    BY DEF OneOrder, Alike
  <2>1. \A q \in Requests : ~Placer(q)
    BY DEF AtRest, Placer
  <2>2. MayEnd(x, RankIn(db, x)) /\ MayEnd(y, RankIn(db, x))
    BY <2>1, EndsAsIs
  <2> QED
    BY <2>2 DEF OrderInv, Sorted
<1> QED
  BY <1>1, SpecOrder, PTL

=============================================================================
