------------------------------ MODULE AprsClient ------------------------------
(***************************************************************************)
(* The APRS-IS client of one live event: the manager that starts, stops    *)
(* and nudges it, its connection, the objects it puts on the air for the   *)
(* event's posts, and its store of positions.                              *)
(*                                                                         *)
(* Everything here runs on the event loop.  A client gives way at an await:*)
(* while it connects, reads, waits to reconnect, and, when the transport   *)
(* is slow, between two packets it sends; requests are handled meanwhile,  *)
(* and a client that was stopped may still end while its successor runs.   *)
(*                                                                         *)
(* An object's name is the first free one for its post's name, in the order*)
(* of the posts' ids.  A dead link swallows what is sent on it until the   *)
(* client notices.  APRS is enabled and a post is edited whatever the      *)
(* event's status: the status the handler sees may be an old one.          *)
(***************************************************************************)
EXTENDS Naturals, Sequences, FiniteSets

CONSTANTS
    MaxPost,   \* bound: ids of posts
    Bases,     \* posts' names as APRS writes them, without the suffix
    Places,    \* coordinates
    Stations,  \* full callsigns with SSID
    MaxTrail,  \* TRAIL_MAX_POINTS
    MaxOthers, \* OTHER_STATIONS_CAP
    Settings,  \* <<aprs_beacon_posts, aprs_other_stations>> of the draft
    Clients,   \* bound: client tasks, the current one and those still ending
    Budgets,   \* bounds: how many events of each kind a behaviour has
    None

ASSUME BoundAssumption == MaxPost \in Nat /\ MaxTrail \in Nat \ {0} /\ MaxOthers \in Nat \ {0}

VARIABLES
    status,   \* the event's status
    beacon,   \* aprs_beacon_posts
    others,   \* aprs_other_stations
    posts,    \* event_posts by id
    checkedIn,\* stations of the event's participants
    clients,  \* the client tasks and their state
    stores,   \* their stores of positions
    current,  \* _states[event]
    births,   \* stores created so far
    up,       \* the process takes requests: FALSE once it shuts down
    air,      \* what APRS-IS last heard of each object
    orphans,  \* objects on the air whose announcer lost its link or crashed
    crossed,  \* objects of which one client spoke while another had them
    left      \* events of each kind still to come

eventVars == <<status, beacon, others, posts, checkedIn>>
airVars == <<air, orphans, crossed>>
aprsVars == <<eventVars, clients, stores, current, births, up, airVars>>

PostIds == 1..MaxPost
Objects == Bases \X PostIds
Kinds == {"life", "edit", "checkin", "hear", "break", "beacon", "restart", "log", "ask", "map"}
Post == [base: Bases, place: Places \cup {None}]
Silent == [n \in Objects |-> None]
Store == [pool: [Stations -> {"none", "participant", "other"}],
          order: Seq(Stations),            \* _others, least recently heard first
          trail: [Stations -> Seq(Nat)],   \* the pos_seq of each point
          seq: Nat, birth: Nat]
\* pc: where the task waits.  link: APRS-IS hears it.  spec: what its filter and
\* classification are set to.  want, todo: send_objects in progress.  shown:
\* objects_by_post.
Client == [pc: {"connect", "login", "read", "sync", "send", "kill", "wait", "ended"},
           running: BOOLEAN, dirty: BOOLEAN, link: BOOLEAN,
           status: {"reconnecting", "connected", "error", "disabled"},
           spec: [calls: SUBSET Stations, others: BOOLEAN],
           announced: [Objects -> Places \cup {None}],
           want: [Objects -> Places \cup {None}], todo: SUBSET Objects,
           shown: SUBSET Objects]

ASSUME NoneAssumption == None \notin Places \cup Clients /\ None \notin Post
ASSUME SettingsAssumption == Settings \subseteq BOOLEAN \X BOOLEAN
ASSUME BudgetAssumption == Budgets \subseteq [Kinds -> Nat]

AprsTypeOK ==
    /\ status \in {"draft", "active", "closed", "deleted"}
    /\ beacon \in BOOLEAN /\ others \in BOOLEAN /\ up \in BOOLEAN
    /\ posts \in [PostIds -> Post \cup {None}]
    /\ checkedIn \subseteq Stations
    /\ clients \in [Clients -> Client]
    /\ stores \in [Clients -> Store]
    /\ current \in Clients \cup {None}
    /\ births \in Nat
    /\ air \in [Objects -> Places \cup {None}]
    /\ orphans \subseteq Objects /\ crossed \subseteq Objects
    /\ left \in [Kinds -> Nat]

Spend(k) == left[k] > 0 /\ left' = [left EXCEPT ![k] = @ - 1]

------------------------------------------------------------------------------
(* Objects *)

\* object_name: earlier posts took the names before this one's.
Earlier(i) == {j \in 1..(i - 1) : posts[j] # None /\ posts[j].place # None
                                  /\ posts[j].base = posts[i].base}
ObjectName(i) == <<posts[i].base, 1 + Cardinality(Earlier(i))>>

\* desired_objects
Beaconed == IF status = "active" /\ beacon
            THEN {i \in PostIds : posts[i] # None /\ posts[i].place # None} ELSE {}
Desired == [n \in Objects |->
    IF \E i \in Beaconed : ObjectName(i) = n
    THEN posts[CHOOSE i \in Beaconed : ObjectName(i) = n].place ELSE None]

On(f) == {n \in Objects : f[n] # None}

\* refresh_config
Spec0 == [calls |-> checkedIn, others |-> others]

------------------------------------------------------------------------------
(* The store *)

EmptyStore(birth) ==
    [pool |-> [s \in Stations |-> "none"], order |-> <<>>,
     trail |-> [s \in Stations |-> <<>>], seq |-> 0, birth |-> birth]

Bounded(trail) == IF Len(trail) > MaxTrail THEN Tail(trail) ELSE trail

PoolOf(store, s, kind) == IF store.pool[s] = "participant" THEN "participant" ELSE kind

\* add_point: the station heard last goes to the end, the first is evicted.
AddPoint(store, s, kind) ==
    LET pool == PoolOf(store, s, kind)
        rest == SelectSeq(store.order, LAMBDA x : x # s)
        order == IF pool = "other" THEN Append(rest, s) ELSE rest
        full == Len(order) > MaxOthers
        gone == IF full THEN {Head(order)} ELSE {}
        seq == store.seq + 1 IN
    [store EXCEPT
        !.seq = seq,
        !.order = IF full THEN Tail(order) ELSE order,
        !.pool = [x \in Stations |-> IF x \in gone THEN "none" ELSE IF x = s THEN pool ELSE @[x]],
        !.trail = [x \in Stations |-> IF x \in gone THEN <<>>
                                      ELSE IF x = s THEN Bounded(Append(@[x], seq)) ELSE @[x]]]

DropOthers(store) ==
    LET kept == {x \in Stations : store.pool[x] = "participant"} IN
    [store EXCEPT
        !.order = <<>>,
        !.pool = [x \in Stations |-> IF x \in kept THEN @[x] ELSE "none"],
        !.trail = [x \in Stations |-> IF x \in kept THEN @[x] ELSE <<>>]]

------------------------------------------------------------------------------
(* The manager *)

Ended == [pc |-> "ended", running |-> FALSE, dirty |-> FALSE, link |-> FALSE,
          status |-> "disabled", spec |-> [calls |-> {}, others |-> FALSE],
          announced |-> Silent, want |-> Silent, todo |-> {}, shown |-> {}]
NewClient(dirty) == [Ended EXCEPT !.pc = "connect", !.running = TRUE, !.dirty = dirty,
                                  !.status = "reconnecting"]

Running == current # None /\ clients[current].running

ManagerSame == UNCHANGED <<clients, stores, current, births>>

\* A client that still ends keeps its own state and is no longer nudged.
StartClient(dirty) ==
    \E c \in Clients \ {current} :
        /\ clients[c].pc = "ended"
        /\ clients' = [clients EXCEPT ![c] = NewClient(dirty)]
        /\ stores' = [stores EXCEPT ![c] = EmptyStore(births + 1)]
        /\ current' = c
        /\ births' = births + 1

Stopped == [clients EXCEPT ![current].running = FALSE, ![current].dirty = TRUE]
Nudged == IF current = None THEN clients ELSE [clients EXCEPT ![current].dirty = TRUE]

\* Mutant: close does not stop the client.
StopNothing == ManagerSame
Stop == /\ clients' = IF current = None THEN clients ELSE Stopped
        /\ UNCHANGED <<stores, current, births>>

------------------------------------------------------------------------------
(* Requests: each commits and calls the manager in one step *)

Start(from) == /\ up /\ Spend("life")
               /\ status = from
               /\ status' = "active"
               /\ IF Running THEN ManagerSame ELSE StartClient(FALSE)
               /\ UNCHANGED <<beacon, others, posts, checkedIn, up, airVars>>
Activate == Start("draft")
Reopen == Start("closed")

Close == /\ up /\ Spend("life")
         /\ status = "active"
         /\ status' = "closed"
         /\ Stop
         /\ UNCHANGED <<beacon, others, posts, checkedIn, up, airVars>>

\* Posts and participants go with the event's row.
Delete == /\ up /\ Spend("life")
          /\ status # "deleted"
          /\ status' = "deleted"
          /\ posts' = [i \in PostIds |-> None]
          /\ checkedIn' = {}
          /\ others' = FALSE
          /\ Stop
          /\ UNCHANGED <<beacon, up, airVars>>

\* PATCH of the event starts a client that is missing, then nudges it; a new
\* one that is nudged at once looks twice.
UpdateEvent(b, o) ==
    /\ up /\ Spend("edit")
    /\ status # "deleted"
    /\ <<b, o>> # <<beacon, others>>
    /\ beacon' = b /\ others' = o
    /\ IF Running \/ status # "active"
       THEN clients' = Nudged /\ UNCHANGED <<stores, current, births>>
       ELSE StartClient(TRUE)
    /\ UNCHANGED <<status, posts, checkedIn, up, airVars>>

\* Mutant: the routes for posts do not nudge.
NotTold == UNCHANGED clients
Told == clients' = Nudged

EditPosts(i, row) ==
    /\ up /\ Spend("edit")
    /\ status # "deleted"
    /\ posts' = [posts EXCEPT ![i] = row]
    /\ Told
    /\ UNCHANGED <<status, beacon, others, checkedIn, stores, current, births, up, airVars>>

\* SQLite gives a new row the highest id plus one.
CreatePost(i, row) == /\ \A j \in PostIds : posts[j] # None => j < i
                      /\ i > 1 => posts[i - 1] # None
                      /\ EditPosts(i, row)
UpdatePost(i, row) == posts[i] \notin {None, row} /\ EditPosts(i, row)
DeletePost(i) == posts[i] # None /\ EditPosts(i, None)

CheckIn(s) ==
    /\ up /\ Spend("checkin")
    /\ status = "active"
    /\ s \notin checkedIn
    /\ checkedIn' = checkedIn \cup {s}
    /\ clients' = Nudged
    /\ UNCHANGED <<status, beacon, others, posts, stores, current, births, up, airVars>>

------------------------------------------------------------------------------
(* The client task *)

Update(c, new) == clients' = [clients EXCEPT ![c] = new]
AirQuiet == UNCHANGED airVars
Elsewhere == UNCHANGED <<eventVars, current, births, up>>
ByClient == Elsewhere /\ UNCHANGED stores

\* The next await of the session, given what it has become so far.
Failing(me) == IF me.running
               THEN [me EXCEPT !.pc = "wait", !.status = "reconnecting", !.link = FALSE]
               ELSE [me EXCEPT !.pc = "ended", !.status = "disabled", !.link = FALSE]

\* send_objects reads what should be on the air; with force all of it is sent.
Sending(me, force) ==
    [me EXCEPT !.pc = "send", !.want = Desired,
               !.todo = {n \in On(Desired) : force \/ me.announced[n] # Desired[n]}]

\* A packet about object n: an announcement, or a kill when place is None.
Packet(c, n, place) ==
    IF clients[c].link
    THEN /\ air' = [air EXCEPT ![n] = place]
         /\ orphans' = orphans \ {n}
         /\ crossed' = IF \E d \in Clients \ {c} : clients[d].link /\ clients[d].announced[n] # None
                       THEN crossed \cup {n} ELSE crossed \ {n}
    ELSE AirQuiet

\* Connected to the server: the settings that will be sent are read now.
Connect(c) == /\ clients[c].pc = "connect"
              /\ Update(c, [clients[c] EXCEPT !.pc = "login", !.spec = Spec0])
              /\ AirQuiet /\ ByClient

\* The server's answer. An unverified login receives and does not transmit.
Login(c, verified) ==
    /\ clients[c].pc = "login"
    /\ LET me == [clients[c] EXCEPT !.announced = Silent, !.shown = {}, !.link = TRUE,
                                    !.status = IF verified THEN "connected" ELSE "error"] IN
       Update(c, IF verified THEN Sending(me, TRUE) ELSE [me EXCEPT !.pc = "read"])
    /\ AirQuiet /\ ByClient

\* Refused, timed out, or closed by the server.
Fail(c) == /\ \/ clients[c].pc \in {"connect", "login"}
              \/ clients[c].pc \in {"read", "sync", "send"} /\ ~clients[c].link
           /\ Update(c, Failing(clients[c]))
           /\ AirQuiet /\ ByClient

\* The back-off ends, or a nudge cuts it short.
WakeUp(c) == /\ clients[c].pc = "wait"
             /\ Update(c, IF clients[c].running
                          THEN [clients[c] EXCEPT !.pc = "connect", !.dirty = FALSE]
                          ELSE [clients[c] EXCEPT !.pc = "ended", !.dirty = FALSE,
                                                  !.status = "disabled"])
             /\ AirQuiet /\ ByClient

\* A nudge: participants and settings are read and the filter is sent.
Refresh(c) == /\ clients[c].pc = "read" /\ clients[c].running /\ clients[c].dirty
              /\ Update(c, [clients[c] EXCEPT !.pc = "sync", !.dirty = FALSE, !.spec = Spec0])
              /\ AirQuiet /\ ByClient
Resume(c) ==
    /\ clients[c].pc = "sync"
    /\ stores' = [stores EXCEPT ![c] = IF clients[c].spec.others THEN @ ELSE DropOthers(@)]
    /\ Update(c, IF clients[c].status = "connected" THEN Sending(clients[c], FALSE)
                 ELSE [clients[c] EXCEPT !.pc = "read"])
    /\ AirQuiet /\ Elsewhere

\* Kills first, then announcements.
SendKill(c) ==
    /\ clients[c].pc = "send"
    /\ \E n \in On(clients[c].announced) \ On(clients[c].want) :
          /\ Packet(c, n, None)
          /\ Update(c, [clients[c] EXCEPT !.announced[n] = None])
    /\ ByClient
SendLive(c) ==
    /\ clients[c].pc = "send"
    /\ On(clients[c].announced) \subseteq On(clients[c].want)
    /\ \E n \in clients[c].todo :
          /\ Packet(c, n, clients[c].want[n])
          /\ Update(c, [clients[c] EXCEPT !.announced[n] = clients[c].want[n], !.todo = @ \ {n}])
    /\ ByClient
SendDone(c) ==
    /\ clients[c].pc = "send" /\ clients[c].todo = {}
    /\ On(clients[c].announced) \subseteq On(clients[c].want)
    /\ Update(c, [clients[c] EXCEPT !.pc = "read", !.shown = On(clients[c].want), !.want = Silent])
    /\ AirQuiet /\ ByClient

\* Stopped: a client that may transmit takes its objects off the air.
\* Mutant: it just ends.
EndAtOnce(me) == [me EXCEPT !.pc = "ended", !.status = "disabled", !.link = FALSE]
Ending(me) == IF me.status = "connected" THEN [me EXCEPT !.pc = "kill"]
              ELSE [me EXCEPT !.pc = "ended", !.status = "disabled", !.link = FALSE]
EndLoop(c) == /\ clients[c].pc = "read" /\ ~clients[c].running
              /\ Update(c, Ending(clients[c]))
              /\ AirQuiet /\ ByClient
KillOne(c) ==
    /\ clients[c].pc = "kill"
    /\ \E n \in On(clients[c].announced) :
          /\ Packet(c, n, None)
          /\ Update(c, [clients[c] EXCEPT !.announced[n] = None])
    /\ ByClient
KillDone(c) ==
    /\ clients[c].pc = "kill" /\ clients[c].announced = Silent
    /\ Update(c, [clients[c] EXCEPT !.pc = "ended", !.status = "disabled", !.link = FALSE,
                                    !.shown = {}])
    /\ AirQuiet /\ ByClient

Step(c) == /\ \/ Connect(c) \/ (\E v \in BOOLEAN : Login(c, v)) \/ Fail(c) \/ WakeUp(c)
              \/ Refresh(c) \/ Resume(c) \/ SendKill(c) \/ SendLive(c) \/ SendDone(c)
              \/ EndLoop(c) \/ KillOne(c) \/ KillDone(c)
           /\ UNCHANGED left

\* Every ten minutes.
BeaconTime(c) == /\ Spend("beacon")
                 /\ clients[c].pc = "read" /\ clients[c].status = "connected"
                 /\ Update(c, Sending(clients[c], TRUE))
                 /\ AirQuiet /\ ByClient

\* handle_line
Hear(c, s) ==
    /\ Spend("hear")
    /\ clients[c].pc = "read" /\ clients[c].link
    /\ s \in clients[c].spec.calls \/ clients[c].spec.others
    /\ stores' = [stores EXCEPT ![c] =
          AddPoint(@, s, IF s \in clients[c].spec.calls THEN "participant" ELSE "other")]
    /\ UNCHANGED clients /\ AirQuiet /\ Elsewhere

\* The link dies: what only this client announced is an orphan if it is on the
\* air, and ages out elsewhere.
BreakLink(c) ==
    /\ Spend("break")
    /\ clients[c].link
    /\ Update(c, [clients[c] EXCEPT !.link = FALSE])
    /\ orphans' = orphans \cup {n \in On(air) :
          \A d \in Clients \ {c} : ~(clients[d].link /\ clients[d].announced[n] # None)}
    /\ UNCHANGED <<air, crossed>> /\ ByClient

\* shutdown_all stops the client and waits for it, five seconds at most.
Shutdown == /\ up /\ left["restart"] > 0 /\ UNCHANGED left
            /\ up' = FALSE
            /\ Stop
            /\ UNCHANGED <<eventVars, airVars>>

\* The process ends, or crashes, and boots: start_for_active_events.
Restart ==
    /\ Spend("restart")
    /\ up' = TRUE
    /\ IF status = "active"
       THEN \E c \in Clients :
               /\ clients' = [d \in Clients |-> IF d = c THEN NewClient(FALSE) ELSE Ended]
               /\ stores' = [stores EXCEPT ![c] = EmptyStore(births + 1)]
               /\ current' = c
               /\ births' = births + 1
       ELSE /\ clients' = [d \in Clients |-> Ended]
            /\ current' = None
            /\ UNCHANGED <<stores, births>>
    /\ orphans' = On(air) /\ crossed' = {}
    /\ UNCHANGED <<eventVars, air>>

------------------------------------------------------------------------------
AprsInit ==
    /\ status = "draft"
    /\ \E chosen \in Settings : beacon = chosen[1] /\ others = chosen[2]
    /\ posts = [i \in PostIds |-> None]
    /\ checkedIn = {}
    /\ clients = [c \in Clients |-> Ended]
    /\ stores = [c \in Clients |-> EmptyStore(0)]
    /\ current = None /\ births = 0 /\ up = TRUE
    /\ air = Silent /\ orphans = {} /\ crossed = {}

AprsNext ==
    \/ Activate \/ Reopen \/ Close \/ Delete \/ Shutdown \/ Restart
    \/ \E b, o \in BOOLEAN : UpdateEvent(b, o)
    \/ \E i \in PostIds : DeletePost(i) \/ \E row \in Post : CreatePost(i, row) \/ UpdatePost(i, row)
    \/ \E s \in Stations : CheckIn(s)
    \/ \E c \in Clients :
          Step(c) \/ BeaconTime(c) \/ BreakLink(c) \/ \E s \in Stations : Hear(c, s)

------------------------------------------------------------------------------
(* News reaches the client (manager.py:95, client.py:130): when it reads and *)
(* no nudge is pending, its filter and its objects are those of the event as *)
(* it is now, however many requests nudged it while it connected, sent or    *)
(* waited to reconnect.                                                      *)
NewsTold ==
    \A c \in Clients :
        LET me == clients[c] IN
        c = current /\ me.pc = "read" /\ me.running /\ ~me.dirty =>
            /\ me.spec = Spec0
            /\ me.status = "connected" => me.announced = Desired /\ me.shown = On(Desired)

(* Every object on the air is one a client with a link has announced there,  *)
(* and will therefore take off, unless its announcer lost its link or        *)
(* crashed; and what such a client has announced is on the air, unless a     *)
(* client that ends spoke of it in between (client.py:152, beacon.py:43).    *)
AirAccounted ==
    /\ \A n \in On(air) \ orphans :
          \E c \in Clients : clients[c].link /\ clients[c].announced[n] # None
    /\ \A c \in Clients, n \in Objects :
          clients[c].link /\ clients[c].announced[n] # None /\ n \notin crossed
              => air[n] = clients[c].announced[n]

(* An event that is closed leaves the air: in the end only orphans stay, when*)
(* every task that can go on does (client.py:151).                           *)
AirClears == []<>(status \in {"active", "draft"} \/ On(air) \subseteq orphans)
===============================================================================
