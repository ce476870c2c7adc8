------------------------------- MODULE LiveView -------------------------------
(***************************************************************************)
(* A page that shows a live event: the hooks that poll its log and its     *)
(* map (useEventUpdates, useEventPositions), over the routes they ask and  *)
(* the event's APRS client.                                                *)
(*                                                                         *)
(* A hook does not wait for one poll before the next: the timer, a write   *)
(* and the opening of the map each send one, and answers come in any order *)
(* or not at all.  /updates loads the event's row when it authorizes the   *)
(* request, in a thread, and reads the log afterwards, so the log it sends *)
(* may be ahead of latest_seq, or be gone with the event.  /positions is   *)
(* authorized in the same way, and reads the store in one go.              *)
(*                                                                         *)
(* The log is gap-free (EventRoom.LogGapFree): entry i is the one with seq *)
(* i.  Everything else of a snapshot is replaced by each answer and left   *)
(* out.  The page shows one event; the list of events, on the way to       *)
(* another one, takes the page with it.                                    *)
(***************************************************************************)
EXTENDS AprsClient

CONSTANTS LogPolls, MapPolls  \* polls of each hook in flight

ASSUME NoTrailAssumption == None \notin Seq(Nat)

VARIABLES
    logged,   \* how many entries the event's log has, or had when it went
    pins,     \* the pinned ones
    page,     \* the log hook: its entries, their pins, since, and the status
    logPolls, \* its polls: asked, loaded (with the row) or answered
    map,      \* the map hook: trails by station, since
    mapPolls, \* its polls
    inOrder,  \* no answer of /positions was overtaken, came from before the
              \* map was opened, or from a store that replaced another
    shownBirth \* the store the map shows

logVars == <<logged, pins, page, logPolls>>
mapVars == <<map, mapPolls, inOrder, shownBirth>>
vars == <<aprsVars, left, logVars, mapVars>>

Entries == Seq(Nat)
Idle == [at |-> "idle"]
Trails == [Stations -> Seq(Nat) \cup {None}]
LogPoll == {Idle}
    \cup [at: {"asked"}, since: Nat]
    \cup [at: {"loaded"}, since: Nat, latest: Nat, status: STRING]
    \cup [at: {"answered"}, since: Nat, latest: Nat, status: STRING,
          upto: Nat, pins: SUBSET Nat]
MapPoll == {Idle}
    \cup [at: {"asked"}, since: Nat]
    \cup [at: {"answered"}, since: Nat, latest: Nat, birth: Nat, trails: Trails]

LiveTypeOK ==
    /\ AprsTypeOK
    /\ logged \in Nat /\ pins \subseteq 1..logged
    /\ page \in [log: Entries, pins: SUBSET Nat, since: Nat, status: STRING]
    /\ logPolls \in [LogPolls -> LogPoll]
    /\ map \in [trails: Trails, since: Nat]
    /\ mapPolls \in [MapPolls -> MapPoll]
    /\ inOrder \in BOOLEAN /\ shownBirth \in Nat

Nowhere == [s \in Stations |-> None]

Init ==
    /\ AprsInit
    /\ left \in Budgets
    /\ logged = 0 /\ pins = {}
    /\ page = [log |-> <<>>, pins |-> {}, since |-> 0, status |-> "active"]
    /\ logPolls = [k \in LogPolls |-> Idle]
    /\ map = [trails |-> Nowhere, since |-> 0]
    /\ mapPolls = [k \in MapPolls |-> Idle]
    /\ inOrder = TRUE /\ shownBirth = 0

------------------------------------------------------------------------------
(* The log, as EventRoom writes it *)

AprsSame == UNCHANGED <<aprsVars, mapVars>>

Write == /\ Spend("log")
         /\ status \in {"active", "closed"}
         /\ logged' = logged + 1
         /\ UNCHANGED <<pins, page, logPolls>> /\ AprsSame

Pin(i) == /\ Spend("log")
          /\ status # "deleted"
          /\ pins' = IF i \in pins THEN pins \ {i} ELSE pins \cup {i}
          /\ UNCHANGED <<logged, page, logPolls>> /\ AprsSame

------------------------------------------------------------------------------
(* useEventUpdates and /updates *)

\* The timer, while the status last seen is active, or a write of this page.
AskLog(k) ==
    /\ Spend("ask")
    /\ logPolls[k] = Idle
    /\ logPolls' = [logPolls EXCEPT ![k] = [at |-> "asked", since |-> page.since]]
    /\ UNCHANGED <<logged, pins, page>> /\ AprsSame

\* Authorization loads the row, with log_seq, if the event is there.
LoadRow(k) ==
    /\ logPolls[k].at = "asked"
    /\ status # "deleted"
    /\ logPolls' = [logPolls EXCEPT ![k] =
          [at |-> "loaded", since |-> @.since, latest |-> logged, status |-> status]]
    /\ UNCHANGED <<logged, pins, page, left>> /\ AprsSame

\* Every entry since then, upto the last one: none if the event was deleted
\* meanwhile, as its entries went with it.
AnswerLog(k) ==
    /\ logPolls[k].at = "loaded"
    /\ logPolls' = [logPolls EXCEPT ![k] =
          [at |-> "answered", since |-> @.since, latest |-> @.latest, status |-> @.status,
           upto |-> IF status = "deleted" THEN 0 ELSE logged,
           pins |-> IF status = "deleted" THEN {} ELSE pins]]
    /\ UNCHANGED <<logged, pins, page, left>> /\ AprsSame

Larger(m, n) == IF m < n THEN n ELSE m

Numbers(m, n) == [i \in 1..(n - m) |-> m + i]

\* Mutant: the entries behind the cursor are dropped, not those already shown.
NewerThanCursor(since, upto) == Numbers(Larger(since, page.since), upto)
LastSeq == IF page.log = <<>> THEN 0 ELSE page.log[Len(page.log)]
\* The entries of an answer after the last one shown.
Unseen(since, upto) == Numbers(Larger(since, LastSeq), upto)

MergeLog(k) ==
    /\ logPolls[k].at = "answered"
    /\ LET u == logPolls[k] IN
       page' = [log |-> page.log \o Unseen(u.since, u.upto), pins |-> u.pins,
                since |-> Larger(page.since, u.latest), status |-> u.status]
    /\ logPolls' = [logPolls EXCEPT ![k] = Idle]
    /\ UNCHANGED <<logged, pins, left>> /\ AprsSame

\* No answer: what was shown stays.
LoseLog(k) ==
    /\ logPolls[k] # Idle
    /\ logPolls' = [logPolls EXCEPT ![k] = Idle]
    /\ UNCHANGED <<logged, pins, page, left>> /\ AprsSame

------------------------------------------------------------------------------
(* useEventPositions and /positions *)

MapSame == UNCHANGED <<aprsVars, logVars>>

\* A poll is authorized while the event is there, and answered later; one that
\* is sent after it went fails.
MapAsked(since) == IF status = "deleted" THEN Idle ELSE [at |-> "asked", since |-> since]

\* Expanding the map starts over; a poll that was sent before is not forgotten.
OpenMap(k) ==
    /\ Spend("map")
    /\ mapPolls[k] = Idle
    /\ map' = [trails |-> Nowhere, since |-> 0]
    /\ shownBirth' = 0
    /\ mapPolls' = [mapPolls EXCEPT ![k] = MapAsked(0)]
    /\ UNCHANGED inOrder /\ MapSame

AskMap(k) ==
    /\ Spend("map")
    /\ mapPolls[k] = Idle
    /\ mapPolls' = [mapPolls EXCEPT ![k] = MapAsked(map.since)]
    /\ UNCHANGED <<map, inOrder, shownBirth>> /\ MapSame

\* The points of a trail that come after a given one, in their order.
After(points, since) ==
    LET among[n \in 0..Len(points)] ==   \* the first n
            IF n = 0 THEN <<>>
            ELSE IF points[n] > since THEN Append(among[n - 1], points[n]) ELSE among[n - 1]
    IN  among[Len(points)]

\* Every station the store has, with its points since then.
Snapshot(store, since) ==
    [s \in Stations |-> IF store.pool[s] = "none" THEN None ELSE After(store.trail[s], since)]

AnswerMap(k) ==
    /\ mapPolls[k].at = "asked"
    /\ mapPolls' = [mapPolls EXCEPT ![k] =
          LET store == IF current = None THEN EmptyStore(0) ELSE stores[current] IN
          [at |-> "answered", since |-> @.since, latest |-> store.seq,
           birth |-> store.birth, trails |-> Snapshot(store, @.since)]]
    /\ UNCHANGED <<map, inOrder, shownBirth, left>> /\ MapSame

Shown(s) == IF map.trails[s] = None THEN <<>> ELSE map.trails[s]
LastPoint(s) == IF Shown(s) = <<>> THEN 0 ELSE Shown(s)[Len(Shown(s))]

\* Mutant: the trail starts over with each answer.
Replaced(s, points) == points
Extended(s, points) == Shown(s) \o After(points, LastPoint(s))

\* The roster is the answer's: a station it does not name goes, trail and all.
MergeMap(k) ==
    /\ mapPolls[k].at = "answered"
    /\ LET u == mapPolls[k] IN
       /\ map' = [trails |-> [s \in Stations |-> IF u.trails[s] = None THEN None
                                                 ELSE Extended(s, u.trails[s])],
                  since |-> Larger(map.since, u.latest)]
       /\ inOrder' = (inOrder /\ u.since <= map.since /\ map.since <= u.latest
                      /\ shownBirth \in {0, u.birth})
       /\ shownBirth' = u.birth
    /\ mapPolls' = [mapPolls EXCEPT ![k] = Idle]
    /\ UNCHANGED left /\ MapSame

LoseMap(k) ==
    /\ mapPolls[k] # Idle
    /\ mapPolls' = [mapPolls EXCEPT ![k] = Idle]
    /\ UNCHANGED <<map, inOrder, shownBirth, left>> /\ MapSame

------------------------------------------------------------------------------
Page == \/ Write \/ \E i \in 1..logged : Pin(i)
        \/ \E k \in LogPolls :
              AskLog(k) \/ LoadRow(k) \/ AnswerLog(k) \/ MergeLog(k) \/ LoseLog(k)
        \/ \E k \in MapPolls :
              OpenMap(k) \/ AskMap(k) \/ AnswerMap(k) \/ MergeMap(k) \/ LoseMap(k)

Next == (AprsNext /\ UNCHANGED <<logVars, mapVars>>) \/ Page

\* A task goes on when what it awaits is there: every await of the client has a
\* timeout or is woken by a nudge.
Fairness == \A c \in Clients : WF_vars(Step(c) /\ UNCHANGED <<logVars, mapVars>>)

Spec == Init /\ [][Next]_vars /\ Fairness

------------------------------------------------------------------------------
(* The log a page shows is the event's log from its first entry on, each     *)
(* entry once and in order, and as long as the event is there nothing behind *)
(* the cursor is missing (useEventUpdates.ts:29): with polls that overlap,   *)
(* overtake one another or fail, rows loaded before the entries they come    *)
(* with, and a delete in between, whose empty answer takes nothing away.     *)
LogPrefix ==
    /\ page.log = Numbers(0, Len(page.log)) /\ Len(page.log) <= logged
    /\ page.since <= logged
    /\ status # "deleted" => page.since <= Len(page.log)

(* While answers come in order from one store, the map misses no point up to *)
(* its cursor that the store still has (useEventPositions.ts:30): through    *)
(* evictions, stations that come back, promotions and overlapping polls.     *)
TrailsComplete ==
    inOrder /\ current # None /\ shownBirth = stores[current].birth =>
        \A s \in Stations :
            \A i \in DOMAIN stores[current].trail[s] :
                LET q == stores[current].trail[s][i] IN
                q <= map.since => q \in {Shown(s)[j] : j \in DOMAIN Shown(s)}
===============================================================================
