--------------------------- MODULE LiveView_proofs ---------------------------
(***************************************************************************)
(* Proofs about LiveView and the APRS client it watches.  The log on the   *)
(* page needs an invariant of its own only, on the polls in flight.  What  *)
(* the client announces rests on the types, and twice on an invariant that *)
(* follows the client from one await to the next: Follows, for the news it *)
(* is told, and Linked, for the objects it has on the air.  The map on the *)
(* page needs MapInv, which says what each answer under way tells about    *)
(* the store it came from, and the value of After, a recursive function.   *)
(***************************************************************************)
EXTENDS LiveView, SequenceTheorems, FiniteSetTheorems, WellFoundedInduction, TLAPS

------------------------------------------------------------------------------
(* The log of the page *)

\* What a poll carries is behind the cursor, or not ahead of the log; and once
\* its row is loaded, behind what the page shows.
PollsBehind ==
    \A k \in LogPolls :
        /\ logPolls[k].at # "idle" => logPolls[k].since \in Nat /\ logPolls[k].since <= page.since
        /\ logPolls[k].at \in {"loaded", "answered"} =>
              /\ logPolls[k].latest \in Nat /\ logPolls[k].latest <= logged
              /\ logPolls[k].since <= Len(page.log)
        /\ logPolls[k].at = "answered" =>
              /\ logPolls[k].upto \in Nat /\ logPolls[k].upto <= logged
              /\ status # "deleted" => logPolls[k].latest <= logPolls[k].upto

LogInv ==
    /\ logged \in Nat
    /\ DOMAIN logPolls = LogPolls
    /\ page.log \in Seq(Nat) /\ page.since \in Nat
    /\ LogPrefix
    /\ PollsBehind

LEMMA NumbersAre ==
    ASSUME NEW m \in Nat, NEW n \in Nat
    PROVE  /\ Numbers(m, n) \in Seq(Nat)
           /\ Len(Numbers(m, n)) = IF m < n THEN n - m ELSE 0
           /\ \A i \in 1..Len(Numbers(m, n)) : Numbers(m, n)[i] = m + i
  <1>1. ASSUME NEW j \in Nat, NEW s, s = [i \in 1..j |-> m + i]
        PROVE  s \in Seq(Nat) /\ Len(s) = j /\ \A i \in 1..j : s[i] = m + i
    BY <1>1
  <1>2. CASE m <= n
    BY <1>2, <1>1, n - m \in Nat DEF Numbers
  <1>3. CASE n < m
    <2>1. 1..(n - m) = 1..0
      BY <1>3
    <2>2. Numbers(m, n) = [i \in 1..0 |-> m + i]
      BY <2>1 DEF Numbers
    <2> QED BY <2>2, <1>1, <1>3
  <1> QED BY <1>2, <1>3

LEMMA NumbersFromZero ==
    ASSUME NEW m \in Nat
    PROVE  /\ Numbers(0, m) \in Seq(Nat)
           /\ Len(Numbers(0, m)) = m
           /\ \A i \in 1..m : Numbers(0, m)[i] = i
  <1>1. /\ Numbers(0, m) \in Seq(Nat)
        /\ Len(Numbers(0, m)) = IF 0 < m THEN m - 0 ELSE 0
        /\ \A i \in 1..Len(Numbers(0, m)) : Numbers(0, m)[i] = 0 + i
    BY NumbersAre, 0 \in Nat
  <1>2. Len(Numbers(0, m)) = m
    BY <1>1
  <1> QED BY <1>1, <1>2

\* The numbers up to m with those after it.
LEMMA NumbersJoin ==
    ASSUME NEW m \in Nat, NEW n \in Nat
    PROVE  Numbers(0, m) \o Numbers(m, n) = Numbers(0, Larger(m, n))
  <1> DEFINE s == Numbers(0, m)
             r == Numbers(m, n)
             w == Numbers(0, Larger(m, n))
  <1>1. Larger(m, n) \in Nat
    BY DEF Larger
  <1>2. s \in Seq(Nat) /\ Len(s) = m /\ \A i \in 1..m : s[i] = i
    BY NumbersFromZero
  <1>3. r \in Seq(Nat) /\ Len(r) = (IF m < n THEN n - m ELSE 0)
        /\ \A i \in 1..Len(r) : r[i] = m + i
    BY NumbersAre
  <1>4. w \in Seq(Nat) /\ Len(w) = Larger(m, n) /\ \A i \in 1..Larger(m, n) : w[i] = i
    BY <1>1, NumbersFromZero
  <1> HIDE DEF s, r, w
  <1>5. s \o r \in Seq(Nat) /\ Len(s \o r) = Larger(m, n)
    <2>1. s \o r \in Seq(Nat) /\ Len(s \o r) = Len(s) + Len(r)
      BY <1>2, <1>3, ConcatProperties
    <2> QED BY <2>1, <1>2, <1>3 DEF Larger
  <1>6. \A i \in 1..Larger(m, n) : (s \o r)[i] = i
    BY <1>2, <1>3, <1>5, ConcatProperties
  <1>7. s \o r = w
    BY <1>4, <1>5, <1>6, SeqEqual
  <1> QED BY <1>7 DEF s, r, w

LEMMA LogInit == Init => LogInv
  BY NumbersAre DEF Init, LogInv, LogPrefix, PollsBehind, Idle, Numbers

\* An event that is deleted stays so.
LEMMA GoneStays ==
    ASSUME [Next]_vars, status = "deleted"
    PROVE  status' = "deleted"
  <1>1. CASE AprsNext
    <2>1. CASE \E c \in Clients : \/ Step(c) \/ BeaconTime(c) \/ BreakLink(c)
                                  \/ \E s \in Stations : Hear(c, s)
      BY <2>1 DEF Step, BeaconTime, BreakLink, Hear, Connect, Login, Fail, WakeUp, Refresh,
         Resume, SendKill, SendLive, SendDone, EndLoop, KillOne, KillDone, ByClient, Elsewhere,
         eventVars
    <2>2. CASE Shutdown \/ Restart
      BY <2>2 DEF Shutdown, Restart, eventVars
    <2>3. CASE ~(\E c \in Clients : \/ Step(c) \/ BeaconTime(c) \/ BreakLink(c)
                                    \/ \E s \in Stations : Hear(c, s))
               /\ ~(Shutdown \/ Restart)
      BY <1>1, <2>3 DEF AprsNext, Activate, Reopen, Start, Close, Delete, UpdateEvent,
         CreatePost, UpdatePost, DeletePost, EditPosts, CheckIn
    <2> QED BY <2>1, <2>2, <2>3
  <1>2. CASE Page
    BY <1>2 DEF Page, Write, Pin, AskLog, LoadRow, AnswerLog, MergeLog, LoseLog, AprsSame,
       OpenMap, AskMap, AnswerMap, MergeMap, LoseMap, MapSame, aprsVars, eventVars
  <1>3. CASE UNCHANGED vars
    BY <1>3 DEF vars, aprsVars, eventVars
  <1> QED BY <1>1, <1>2, <1>3 DEF Next

\* A step that leaves the page alone needs to be looked at for its poll only.
LEMMA PageStays ==
    ASSUME LogInv, status = "deleted" => status' = "deleted",
           UNCHANGED page, logged' \in Nat, logged <= logged',
           DOMAIN logPolls' = LogPolls, PollsBehind'
    PROVE  LogInv'
  <1>1. page.log \in Seq(Nat) /\ Len(page.log) \in Nat
    BY LenProperties DEF LogInv
  <1> QED BY <1>1 DEF LogInv, LogPrefix

\* An answer is merged.
LEMMA LogMerged ==
    ASSUME LogInv, NEW k \in LogPolls, MergeLog(k)
    PROVE  LogInv'
  <1> DEFINE m == Len(page.log)
             u == logPolls[k]
  <1>1. m \in Nat /\ u.since \in Nat /\ u.upto \in Nat /\ u.latest \in Nat
        /\ u.since <= m /\ u.upto <= logged /\ u.latest <= logged
        /\ (status # "deleted" => u.latest <= u.upto)
    BY DEF LogInv, LogPrefix, PollsBehind, MergeLog
  <1>2. LastSeq = m
    BY <1>1, NumbersAre DEF LastSeq, LogInv, LogPrefix, Numbers
  <1>3. Unseen(u.since, u.upto) = Numbers(m, u.upto)
    BY <1>1, <1>2 DEF Unseen, Larger
  <1>4. page'.log = Numbers(0, Larger(m, u.upto))
    BY <1>1, <1>3, NumbersJoin DEF MergeLog, LogInv, LogPrefix
  <1>5. Len(page'.log) = Larger(m, u.upto) /\ page'.log \in Seq(Nat)
    <2>1. Larger(m, u.upto) \in Nat
      BY <1>1 DEF Larger
    <2>2. Numbers(0, Larger(m, u.upto)) \in Seq(Nat)
          /\ Len(Numbers(0, Larger(m, u.upto))) = Larger(m, u.upto)
      BY <2>1, NumbersFromZero
    <2> QED BY <1>4, <2>2
  <1>6. page'.since = Larger(page.since, u.latest)
    BY DEF MergeLog
  <1>7. /\ LogPrefix' /\ page'.since \in Nat /\ page.since <= page'.since
        /\ m <= Len(page'.log)
    <2>1. page'.log = Numbers(0, Len(page'.log))
      BY <1>4, <1>5
    <2>2. /\ page.since \in Nat /\ page.since <= logged /\ m <= logged
          /\ (status # "deleted" => page.since <= m)
          /\ logged \in Nat /\ logged' = logged /\ status' = status
      BY DEF LogInv, LogPrefix, MergeLog, AprsSame, aprsVars, eventVars
    <2>3. /\ page'.since \in Nat /\ page.since <= page'.since
          /\ page'.since <= logged /\ Larger(m, u.upto) <= logged
          /\ (status # "deleted" => page'.since <= Larger(m, u.upto))
          /\ m <= Larger(m, u.upto)
      BY <1>1, <1>6, <2>2 DEF Larger
    <2> HIDE DEF m, u
    <2> QED BY <1>5, <2>1, <2>2, <2>3 DEF LogPrefix
  <1>8. logPolls' = [logPolls EXCEPT ![k] = Idle] /\ logged' = logged /\ status' = status
    BY DEF MergeLog, AprsSame, aprsVars, eventVars
  <1>9. PollsBehind'
    <2> SUFFICES ASSUME NEW j \in LogPolls, j # k, logPolls[j].at # "idle"
                 PROVE  /\ logPolls[j].since <= page'.since
                        /\ logPolls[j].at \in {"loaded", "answered"}
                              => logPolls[j].since <= Len(page'.log)
      BY <1>8 DEF PollsBehind, LogInv, Idle
    <2>1. /\ logPolls[j].since \in Nat /\ logPolls[j].since <= page.since
          /\ logPolls[j].at \in {"loaded", "answered"} => logPolls[j].since <= m
          /\ page.since \in Nat
      BY DEF PollsBehind, LogInv
    <2>2. Len(page'.log) \in Nat
      BY <1>5, LenProperties
    <2> HIDE DEF m, u
    <2> QED BY <1>1, <1>7, <2>1, <2>2
  <1> QED BY <1>5, <1>7, <1>8, <1>9 DEF LogInv

LEMMA LogStep == LogInv /\ [Next]_vars => LogInv'
  <1> SUFFICES ASSUME LogInv, [Next]_vars PROVE LogInv'
    OBVIOUS
  <1>a. status = "deleted" => status' = "deleted"
    BY GoneStays
  <1>b. Len(page.log) \in Nat
    BY LenProperties DEF LogInv
  <1>1. CASE UNCHANGED logVars
    <2>1. PollsBehind'
      BY <1>1, <1>a DEF LogInv, PollsBehind, logVars
    <2> QED BY <1>1, <1>a, <2>1, PageStays DEF LogInv, logVars
  <1>2. CASE Write
    <2>1. PollsBehind'
      BY <1>2, <1>a DEF Write, LogInv, PollsBehind
    <2> QED BY <1>2, <1>a, <2>1, PageStays DEF Write, LogInv
  <1>3. CASE \E i \in 1..logged : Pin(i)
    <2>1. PollsBehind'
      BY <1>3, <1>a DEF Pin, LogInv, PollsBehind
    <2> QED BY <1>3, <1>a, <2>1, PageStays DEF Pin, LogInv
  <1>4. ASSUME NEW k \in LogPolls, AskLog(k) PROVE LogInv'
    <2>1. PollsBehind'
      BY <1>4, <1>a DEF AskLog, LogInv, PollsBehind
    <2> QED BY <1>4, <1>a, <2>1, PageStays DEF AskLog, LogInv
  <1>5. ASSUME NEW k \in LogPolls, LoadRow(k) PROVE LogInv'
    <2>1. page.since \in Nat /\ page.since <= Len(page.log)
      BY <1>5 DEF LoadRow, LogInv, LogPrefix
    <2>2. PollsBehind'
      BY <1>5, <1>a, <1>b, <2>1 DEF LoadRow, LogInv, PollsBehind
    <2> QED BY <1>5, <1>a, <2>2, PageStays DEF LoadRow, LogInv
  <1>6. ASSUME NEW k \in LogPolls, AnswerLog(k) PROVE LogInv'
    <2>1. PollsBehind'
      BY <1>6, <1>a DEF AnswerLog, LogInv, PollsBehind, AprsSame, aprsVars, eventVars
    <2> QED BY <1>6, <1>a, <2>1, PageStays DEF AnswerLog, LogInv
  <1>7. ASSUME NEW k \in LogPolls, MergeLog(k) PROVE LogInv'
    BY <1>7, LogMerged
  <1>8. ASSUME NEW k \in LogPolls, LoseLog(k) PROVE LogInv'
    <2>1. PollsBehind'
      BY <1>8, <1>a DEF LoseLog, LogInv, PollsBehind, Idle
    <2> QED BY <1>8, <1>a, <2>1, PageStays DEF LoseLog, LogInv
  <1>9. ASSUME NEW k \in MapPolls,
               OpenMap(k) \/ AskMap(k) \/ AnswerMap(k) \/ MergeMap(k) \/ LoseMap(k)
        PROVE  UNCHANGED logVars
    BY <1>9 DEF OpenMap, AskMap, AnswerMap, MergeMap, LoseMap, MapSame
  <1> QED
    BY <1>1, <1>2, <1>3, <1>4, <1>5, <1>6, <1>7, <1>8, <1>9 DEF Next, Page, vars

(* The log on a page is the event's log from its first entry on, and nothing *)
(* behind the cursor is missing as long as the event is there, however polls *)
(* overlap, overtake one another, fail, or straddle a delete                 *)
(* (useEventUpdates.ts:29).                                                  *)
THEOREM PageShowsLog == Spec => []LogPrefix
  <1>1. LogInv => LogPrefix
    BY DEF LogInv
  <1> QED BY <1>1, LogInit, LogStep, PTL DEF Spec

------------------------------------------------------------------------------
(* The client's types *)

Typed ==
    /\ clients \in [Clients -> Client]
    /\ current \in Clients \cup {None}
    /\ posts \in [PostIds -> Post \cup {None}]
    /\ others \in BOOLEAN /\ checkedIn \subseteq Stations
    /\ air \in [Objects -> Places \cup {None}]

LEMMA DesiredTyped ==
    ASSUME Typed
    PROVE  Desired \in [Objects -> Places \cup {None}]
  <1> SUFFICES ASSUME NEW n \in Objects, NEW i \in Beaconed
               PROVE  posts[i].place \in Places
    BY DEF Desired
  <1>1. i \in PostIds /\ posts[i] # None /\ posts[i].place # None
    BY DEF Beaconed
  <1> QED BY <1>1 DEF Typed, Post

LEMMA EndedTyped ==
    /\ Ended \in Client
    /\ \A dirty \in BOOLEAN : NewClient(dirty) \in Client
  BY DEF Ended, NewClient, Client, Silent

LEMMA SendingTyped ==
    ASSUME Typed, NEW me \in Client, NEW force \in BOOLEAN
    PROVE  Sending(me, force) \in Client
  BY DesiredTyped DEF Sending, Client, On

LEMMA FailingTyped ==
    ASSUME NEW me \in Client
    PROVE  Failing(me) \in Client /\ Ending(me) \in Client
  BY DEF Failing, Ending, Client

LEMMA PacketTyped ==
    ASSUME Typed, NEW c \in Clients, NEW n \in Objects, NEW place \in Places \cup {None},
           Packet(c, n, place)
    PROVE  air' \in [Objects -> Places \cup {None}]
  BY DEF Packet, Typed, AirQuiet, airVars

\* A step of one task replaces its record by another one.
LEMMA UpdateTyped ==
    ASSUME Typed, NEW c \in Clients, NEW new \in Client, Update(c, new)
    PROVE  clients' \in [Clients -> Client]
  BY DEF Update, Typed

LEMMA StepTyped ==
    ASSUME Typed, NEW c \in Clients,
           Step(c) \/ BeaconTime(c) \/ BreakLink(c) \/ \E s \in Stations : Hear(c, s)
    PROVE  Typed'
  <1> DEFINE me == clients[c]
  <1>0. me \in Client
    BY DEF Typed
  <1>a. ASSUME ByClient \/ Elsewhere, AirQuiet, NEW new \in Client, Update(c, new)
        PROVE  Typed'
    BY <1>a, UpdateTyped DEF Typed, ByClient, Elsewhere, AirQuiet, airVars, eventVars
  <1>1. CASE Connect(c)
    <2>1. [me EXCEPT !.pc = "login", !.spec = Spec0] \in Client
      BY <1>0 DEF Client, Spec0, Typed
    <2> QED BY <1>1, <1>a, <2>1 DEF Connect
  <1>2. ASSUME NEW verified \in BOOLEAN, Login(c, verified)
        PROVE  Typed'
    <2> DEFINE in == [me EXCEPT !.announced = Silent, !.shown = {}, !.link = TRUE,
                                !.status = IF verified THEN "connected" ELSE "error"]
    <2>1. in \in Client
      BY <1>0 DEF Client, Silent
    <2>2. Sending(in, TRUE) \in Client
      BY <2>1, SendingTyped
    <2>3. [in EXCEPT !.pc = "read"] \in Client
      BY <2>1 DEF Client
    <2>4. Update(c, IF verified THEN Sending(in, TRUE) ELSE [in EXCEPT !.pc = "read"])
          /\ AirQuiet /\ ByClient
      BY <1>2 DEF Login
    <2> HIDE DEF in
    <2> QED BY <1>a, <2>2, <2>3, <2>4
  <1>3. CASE Fail(c)
    BY <1>0, <1>3, <1>a, FailingTyped DEF Fail
  <1>4. CASE WakeUp(c)
    <2>1. [me EXCEPT !.pc = "connect", !.dirty = FALSE] \in Client
          /\ [me EXCEPT !.pc = "ended", !.dirty = FALSE, !.status = "disabled"] \in Client
      BY <1>0 DEF Client
    <2> QED BY <1>4, <1>a, <2>1 DEF WakeUp
  <1>5. CASE Refresh(c)
    <2>1. [me EXCEPT !.pc = "sync", !.dirty = FALSE, !.spec = Spec0] \in Client
      BY <1>0 DEF Client, Spec0, Typed
    <2> QED BY <1>5, <1>a, <2>1 DEF Refresh
  <1>6. CASE Resume(c)
    <2>1. Sending(me, FALSE) \in Client
      BY <1>0, SendingTyped
    <2>2. [me EXCEPT !.pc = "read"] \in Client
      BY <1>0 DEF Client
    <2> QED BY <1>6, <1>a, <2>1, <2>2 DEF Resume
  <1>b. ASSUME NEW n \in Objects, NEW place \in Places \cup {None}, Packet(c, n, place),
               ByClient, NEW new \in Client, Update(c, new)
        PROVE  Typed'
    BY <1>b, UpdateTyped, PacketTyped DEF Typed, ByClient, Elsewhere, eventVars
  <1>c. ASSUME NEW n \in Objects PROVE [me EXCEPT !.announced[n] = None] \in Client
    BY <1>0 DEF Client
  <1>7. CASE SendKill(c) \/ KillOne(c)
    <2>1. PICK n \in Objects : Packet(c, n, None)
                               /\ Update(c, [me EXCEPT !.announced[n] = None]) /\ ByClient
      BY <1>7 DEF SendKill, KillOne, On
    <2> QED BY <2>1, <1>b, <1>c
  <1>8. CASE SendLive(c)
    <2>1. PICK n \in me.todo :
             /\ Packet(c, n, me.want[n])
             /\ Update(c, [me EXCEPT !.announced[n] = me.want[n], !.todo = @ \ {n}])
      BY <1>8 DEF SendLive
    <2>2. n \in Objects /\ me.want[n] \in Places \cup {None}
      BY <1>0 DEF Client
    <2>3. [me EXCEPT !.announced[n] = me.want[n], !.todo = @ \ {n}] \in Client
      BY <1>0, <2>2 DEF Client
    <2> QED BY <1>8, <1>b, <2>1, <2>2, <2>3 DEF SendLive
  <1>9. CASE SendDone(c)
    <2>1. [me EXCEPT !.pc = "read", !.shown = On(me.want), !.want = Silent] \in Client
      BY <1>0 DEF Client, On, Silent
    <2> QED BY <1>9, <1>a, <2>1 DEF SendDone
  <1>10. CASE EndLoop(c)
    BY <1>0, <1>10, <1>a, FailingTyped DEF EndLoop
  <1>11. CASE KillDone(c)
    <2>1. [me EXCEPT !.pc = "ended", !.status = "disabled", !.link = FALSE, !.shown = {}] \in Client
      BY <1>0 DEF Client
    <2> QED BY <1>11, <1>a, <2>1 DEF KillDone
  <1>12. CASE BeaconTime(c)
    BY <1>0, <1>12, <1>a, SendingTyped DEF BeaconTime
  <1>13. CASE BreakLink(c)
    <2>1. [me EXCEPT !.link = FALSE] \in Client
      BY <1>0 DEF Client
    <2>2. clients' \in [Clients -> Client]
      BY <1>13, <2>1, UpdateTyped DEF BreakLink
    <2> QED BY <1>13, <2>2 DEF BreakLink, Typed, ByClient, Elsewhere, eventVars
  <1>14. CASE \E s \in Stations : Hear(c, s)
    BY <1>14 DEF Hear, Typed, Elsewhere, AirQuiet, airVars, eventVars
  <1> QED
    BY <1>1, <1>2, <1>3, <1>4, <1>5, <1>6, <1>7, <1>8, <1>9, <1>10, <1>11, <1>12, <1>13, <1>14
       DEF Step

\* What requests do to the clients: start one, stop or nudge the current one.
LEMMA ManagedTyped ==
    ASSUME Typed, ManagerSame \/ Stop \/ (\E d \in BOOLEAN : StartClient(d))
                  \/ (clients' = Nudged /\ UNCHANGED current)
    PROVE  clients' \in [Clients -> Client] /\ current' \in Clients \cup {None}
  <1>1. CASE ManagerSame
    BY <1>1 DEF ManagerSame, Typed
  <1>a. ASSUME NEW c \in Clients
        PROVE  [clients EXCEPT ![c].running = FALSE, ![c].dirty = TRUE] \in [Clients -> Client]
               /\ [clients EXCEPT ![c].dirty = TRUE] \in [Clients -> Client]
    <2>1. clients[c] \in Client
      BY DEF Typed
    <2>2. [clients[c] EXCEPT !.running = FALSE, !.dirty = TRUE] \in Client
          /\ [clients[c] EXCEPT !.dirty = TRUE] \in Client
      BY <2>1 DEF Client
    <2>3. [clients EXCEPT ![c].running = FALSE, ![c].dirty = TRUE]
              = [clients EXCEPT ![c] = [clients[c] EXCEPT !.running = FALSE, !.dirty = TRUE]]
          /\ [clients EXCEPT ![c].dirty = TRUE]
              = [clients EXCEPT ![c] = [clients[c] EXCEPT !.dirty = TRUE]]
      BY DEF Typed
    <2> QED BY <2>2, <2>3 DEF Typed
  <1>2. CASE Stop
    BY <1>2, <1>a DEF Stop, Stopped, Typed
  <1>3. ASSUME NEW d \in BOOLEAN, StartClient(d)
        PROVE  clients' \in [Clients -> Client] /\ current' \in Clients \cup {None}
    BY <1>3, EndedTyped DEF StartClient, Typed
  <1>4. CASE clients' = Nudged /\ UNCHANGED current
    BY <1>4, <1>a DEF Nudged, Typed
  <1> QED BY <1>1, <1>2, <1>3, <1>4

LEMMA RequestTyped ==
    ASSUME Typed,
           \/ Activate \/ Reopen \/ Close \/ Delete \/ Shutdown \/ Restart
           \/ \E b, o \in BOOLEAN : UpdateEvent(b, o)
           \/ \E i \in PostIds : DeletePost(i) \/ \E row \in Post : CreatePost(i, row) \/ UpdatePost(i, row)
           \/ \E s \in Stations : CheckIn(s)
    PROVE  Typed'
  <1>1. CASE Activate \/ Reopen
    <2>1. ManagerSame \/ \E d \in BOOLEAN : StartClient(d)
      BY <1>1 DEF Activate, Reopen, Start
    <2> QED BY <1>1, <2>1, ManagedTyped DEF Activate, Reopen, Start, Typed, airVars
  <1>2. CASE Close \/ Delete \/ Shutdown
    <2>1. clients' \in [Clients -> Client] /\ current' \in Clients \cup {None}
      BY <1>2, ManagedTyped DEF Close, Delete, Shutdown
    <2> QED BY <1>2, <2>1 DEF Close, Delete, Shutdown, Typed, airVars, eventVars
  <1>3. ASSUME NEW b \in BOOLEAN, NEW o \in BOOLEAN, UpdateEvent(b, o)
        PROVE  Typed'
    <2>1. clients' \in [Clients -> Client] /\ current' \in Clients \cup {None}
      BY <1>3, ManagedTyped DEF UpdateEvent
    <2> QED BY <1>3, <2>1 DEF UpdateEvent, Typed, airVars
  <1>4. ASSUME NEW i \in PostIds, NEW row \in Post \cup {None}, EditPosts(i, row)
        PROVE  Typed'
    <2>1. clients' \in [Clients -> Client] /\ current' \in Clients \cup {None}
      BY <1>4, ManagedTyped DEF EditPosts, Told
    <2> QED BY <1>4, <2>1 DEF EditPosts, Typed, airVars
  <1>5. ASSUME NEW s \in Stations, CheckIn(s)
        PROVE  Typed'
    <2>1. clients' \in [Clients -> Client] /\ current' \in Clients \cup {None}
      BY <1>5, ManagedTyped DEF CheckIn
    <2> QED BY <1>5, <2>1 DEF CheckIn, Typed, airVars
  <1>6. CASE Restart
    <2>1. clients' \in [Clients -> Client] /\ current' \in Clients \cup {None}
      BY <1>6, EndedTyped DEF Restart
    <2> QED BY <1>6, <2>1 DEF Restart, Typed, eventVars
  <1> QED
    BY <1>1, <1>2, <1>3, <1>4, <1>5, <1>6 DEF CreatePost, UpdatePost, DeletePost

LEMMA TypedInit == Init => Typed
  BY EndedTyped, SettingsAssumption DEF Init, AprsInit, Typed, Silent

------------------------------------------------------------------------------
(* News reaches the client *)

\* What the record of a running client without a pending nudge has taken in.
Fits(me) ==
    /\ me.pc \in {"login", "sync", "send", "read"} => me.spec = Spec0
    /\ me.pc = "send" =>
          me.want = Desired /\ \A n \in On(me.want) \ me.todo : me.announced[n] = me.want[n]
    /\ me.pc = "read" /\ me.status = "connected" =>
          me.announced = Desired /\ me.shown = On(Desired)

Follows ==
    /\ Running => status = "active"
    /\ \A c \in Clients :
          c = current /\ clients[c].running /\ ~clients[c].dirty => Fits(clients[c])

LEMMA SameEvent ==
    ASSUME UNCHANGED eventVars
    PROVE  Desired' = Desired /\ Spec0' = Spec0
  <1>1. Beaconed' = Beaconed
    BY DEF eventVars, Beaconed
  <1>2. \A i : ObjectName(i)' = ObjectName(i)
    BY DEF eventVars, ObjectName, Earlier
  <1> QED BY <1>1, <1>2 DEF Desired, Spec0, eventVars

\* A step of a task that keeps its record fitting.
LEMMA UpdateFollows ==
    ASSUME Typed, Follows, NEW c \in Clients, NEW new \in Client,
           Update(c, new), Elsewhere,
           new.running = clients[c].running,
           c = current /\ new.running /\ ~new.dirty => Fits(new)
    PROVE  Follows'
  <1>1. clients' = [clients EXCEPT ![c] = new] /\ current' = current /\ status' = status
        /\ UNCHANGED eventVars
    BY DEF Update, Elsewhere, eventVars
  <1>2. Desired' = Desired /\ Spec0' = Spec0
    BY <1>1, SameEvent
  <1>3. Running' => status' = "active"
    BY <1>1 DEF Typed, Follows, Running
  <1>4. ASSUME NEW d \in Clients, d = current', clients'[d].running, ~clients'[d].dirty
        PROVE  Fits(clients[d])'
    <2>1. CASE d = c
      <3>1. clients'[d] = new
        BY <1>1, <2>1 DEF Typed
      <3> QED BY <1>1, <1>2, <1>4, <2>1, <3>1 DEF Fits
    <2>2. CASE d # c
      <3>1. clients'[d] = clients[d]
        BY <1>1, <2>2 DEF Typed
      <3>2. Fits(clients[d])
        BY <1>1, <1>4, <3>1 DEF Follows
      <3> QED BY <1>2, <3>1, <3>2 DEF Fits
    <2> QED BY <2>1, <2>2
  <1> QED BY <1>3, <1>4 DEF Follows

\* What send_objects has just read fits.
LEMMA SendingFits ==
    ASSUME NEW me \in Client, NEW force \in BOOLEAN, me.spec = Spec0
    PROVE  Fits(Sending(me, force))
  BY DEF Fits, Sending, Client, On

LEMMA SendingKeeps ==
    ASSUME NEW me \in Client, NEW force \in BOOLEAN
    PROVE  Sending(me, force).running = me.running /\ Sending(me, force).dirty = me.dirty
  BY DEF Sending, Client

LEMMA StepFollows ==
    ASSUME Typed, Follows, NEW c \in Clients,
           Step(c) \/ BeaconTime(c) \/ BreakLink(c) \/ \E s \in Stations : Hear(c, s)
    PROVE  Follows'
  <1> DEFINE me == clients[c]
  <1>0. me \in Client /\ Desired \in [Objects -> Places \cup {None}]
    BY DesiredTyped DEF Typed
  <1>f. c = current /\ me.running /\ ~me.dirty => Fits(me)
    BY DEF Follows
  <1>1. CASE Connect(c)
    <2> DEFINE new == [me EXCEPT !.pc = "login", !.spec = Spec0]
    <2>1. new \in Client /\ new.running = me.running /\ Fits(new)
      BY <1>0 DEF Client, Spec0, Typed, Fits
    <2>2. Update(c, new) /\ Elsewhere
      BY <1>1 DEF Connect, ByClient
    <2> HIDE DEF new
    <2> QED BY <2>1, <2>2, UpdateFollows
  <1>2. ASSUME NEW verified \in BOOLEAN, Login(c, verified)
        PROVE  Follows'
    <2> DEFINE in == [me EXCEPT !.announced = Silent, !.shown = {}, !.link = TRUE,
                                !.status = IF verified THEN "connected" ELSE "error"]
    <2>1. in \in Client /\ in.spec = me.spec /\ in.running = me.running /\ in.dirty = me.dirty
          /\ in.status = (IF verified THEN "connected" ELSE "error")
      BY <1>0 DEF Client, Silent
    <2>2. Update(c, IF verified THEN Sending(in, TRUE) ELSE [in EXCEPT !.pc = "read"])
          /\ Elsewhere /\ me.pc = "login"
      BY <1>2 DEF Login, ByClient
    <2>3. c = current /\ me.running /\ ~me.dirty => in.spec = Spec0
      BY <1>f, <2>1, <2>2 DEF Fits
    <2> HIDE DEF in
    <2>4. CASE verified
      <3>1. Update(c, Sending(in, TRUE))
        BY <2>2, <2>4
      <3>2. Sending(in, TRUE) \in Client /\ Sending(in, TRUE).running = me.running
            /\ Sending(in, TRUE).dirty = me.dirty
        BY <2>1, SendingTyped, SendingKeeps
      <3>3. c = current /\ me.running /\ ~me.dirty => Fits(Sending(in, TRUE))
        BY <2>1, <2>3, SendingFits
      <3> QED BY <2>2, <3>1, <3>2, <3>3, UpdateFollows
    <2>5. CASE ~verified
      <3> DEFINE new == [in EXCEPT !.pc = "read"]
      <3>1. Update(c, new)
        BY <2>2, <2>5
      <3>2. new \in Client /\ new.running = me.running /\ new.dirty = me.dirty
            /\ new.spec = in.spec /\ new.pc = "read" /\ new.status = "error"
        BY <2>1, <2>5 DEF Client
      <3> HIDE DEF new
      <3>3. c = current /\ me.running /\ ~me.dirty => Fits(new)
        BY <2>3, <3>2 DEF Fits
      <3> QED BY <2>2, <3>1, <3>2, <3>3, UpdateFollows
    <2> QED BY <2>4, <2>5
  <1>3. CASE Fail(c)
    <2>1. Failing(me) \in Client /\ Failing(me).running = me.running
          /\ Failing(me).pc \in {"wait", "ended"}
      BY <1>0, FailingTyped DEF Failing, Client
    <2>2. Fits(Failing(me))
      BY <2>1 DEF Fits
    <2> QED BY <1>3, <2>1, <2>2, UpdateFollows DEF Fail, ByClient
  <1>4. CASE WakeUp(c)
    <2> DEFINE new == IF me.running THEN [me EXCEPT !.pc = "connect", !.dirty = FALSE]
                      ELSE [me EXCEPT !.pc = "ended", !.dirty = FALSE, !.status = "disabled"]
    <2>1. new \in Client /\ new.running = me.running /\ new.pc \in {"connect", "ended"}
      BY <1>0 DEF Client
    <2>2. Update(c, new) /\ Elsewhere
      BY <1>4 DEF WakeUp, ByClient
    <2> HIDE DEF new
    <2>3. Fits(new)
      BY <2>1 DEF Fits
    <2> QED BY <2>1, <2>2, <2>3, UpdateFollows
  <1>5. CASE Refresh(c)
    <2> DEFINE new == [me EXCEPT !.pc = "sync", !.dirty = FALSE, !.spec = Spec0]
    <2>1. new \in Client /\ new.running = me.running /\ Fits(new)
      BY <1>0 DEF Client, Spec0, Typed, Fits
    <2>2. Update(c, new) /\ Elsewhere
      BY <1>5 DEF Refresh, ByClient
    <2> HIDE DEF new
    <2> QED BY <2>1, <2>2, UpdateFollows
  <1>6. CASE Resume(c) \/ BeaconTime(c)
    <2>1. me.pc \in {"sync", "read"} /\ Elsewhere
          /\ \/ me.status = "connected" /\ \E force \in BOOLEAN : Update(c, Sending(me, force))
             \/ me.status # "connected" /\ Update(c, [me EXCEPT !.pc = "read"])
      BY <1>6 DEF Resume, BeaconTime, ByClient
    <2>2. c = current /\ me.running /\ ~me.dirty => me.spec = Spec0
      BY <1>f, <2>1 DEF Fits
    <2>3. ASSUME NEW force \in BOOLEAN, Update(c, Sending(me, force))
          PROVE  Follows'
      <3>1. Sending(me, force) \in Client /\ Sending(me, force).running = me.running
            /\ Sending(me, force).dirty = me.dirty
        BY <1>0, SendingTyped, SendingKeeps
      <3>2. c = current /\ me.running /\ ~me.dirty => Fits(Sending(me, force))
        BY <1>0, <2>2, SendingFits
      <3> QED BY <2>1, <2>3, <3>1, <3>2, UpdateFollows
    <2>4. ASSUME me.status # "connected", Update(c, [me EXCEPT !.pc = "read"])
          PROVE  Follows'
      <3> DEFINE new == [me EXCEPT !.pc = "read"]
      <3>1. new \in Client /\ new.running = me.running /\ new.dirty = me.dirty
            /\ new.spec = me.spec /\ new.pc = "read" /\ new.status # "connected"
        BY <1>0, <2>4 DEF Client
      <3>2. Update(c, new)
        BY <2>4
      <3> HIDE DEF new
      <3>3. c = current /\ new.running /\ ~new.dirty => Fits(new)
        BY <2>2, <3>1 DEF Fits
      <3> QED BY <2>1, <3>1, <3>2, <3>3, UpdateFollows
    <2> QED BY <2>1, <2>3, <2>4
  <1>7. CASE SendKill(c)
    <2>1. PICK n \in On(me.announced) \ On(me.want) :
             Update(c, [me EXCEPT !.announced[n] = None]) /\ me.pc = "send" /\ Elsewhere
      BY <1>7 DEF SendKill, ByClient
    <2> DEFINE new == [me EXCEPT !.announced[n] = None]
    <2>2. new \in Client /\ new.running = me.running /\ new.dirty = me.dirty
          /\ new.spec = me.spec /\ new.pc = me.pc /\ new.want = me.want /\ new.todo = me.todo
          /\ new.announced = [me.announced EXCEPT ![n] = None]
      BY <1>0, <2>1 DEF Client
    <2>3. Update(c, new)
      BY <2>1
    <2> HIDE DEF new
    <2>4. c = current /\ me.running /\ ~me.dirty => Fits(new)
      BY <1>0, <1>f, <2>1, <2>2 DEF Fits, On, Client
    <2> QED BY <2>1, <2>2, <2>3, <2>4, UpdateFollows
  <1>8. CASE SendLive(c)
    <2>1. PICK n \in me.todo :
             Update(c, [me EXCEPT !.announced[n] = me.want[n], !.todo = @ \ {n}])
      BY <1>8 DEF SendLive
    <2> DEFINE new == [me EXCEPT !.announced[n] = me.want[n], !.todo = @ \ {n}]
    <2>2. new \in Client /\ new.running = me.running /\ new.dirty = me.dirty
          /\ new.spec = me.spec /\ new.pc = me.pc /\ new.want = me.want
          /\ new.todo = me.todo \ {n}
          /\ new.announced = [me.announced EXCEPT ![n] = me.want[n]]
      BY <1>0 DEF Client
    <2>3. Update(c, new) /\ me.pc = "send" /\ Elsewhere
      BY <1>8, <2>1 DEF SendLive, ByClient
    <2> HIDE DEF new
    <2>4. c = current /\ me.running /\ ~me.dirty => Fits(new)
      BY <1>0, <1>f, <2>2, <2>3 DEF Fits, On, Client
    <2> QED BY <2>2, <2>3, <2>4, UpdateFollows
  <1>9. CASE SendDone(c)
    <2> DEFINE new == [me EXCEPT !.pc = "read", !.shown = On(me.want), !.want = Silent]
    <2>1. new \in Client /\ new.running = me.running /\ new.dirty = me.dirty
          /\ new.spec = me.spec /\ new.pc = "read" /\ new.announced = me.announced
          /\ new.shown = On(me.want)
      BY <1>0 DEF Client, On, Silent
    <2>2. Update(c, new) /\ Elsewhere /\ me.pc = "send" /\ me.todo = {}
          /\ On(me.announced) \subseteq On(me.want)
      BY <1>9 DEF SendDone, ByClient
    <2> HIDE DEF new
    <2>3. ASSUME c = current, me.running, ~me.dirty PROVE Fits(new)
      <3>1. me.want = Desired /\ me.spec = Spec0
            /\ \A n \in On(me.want) : me.announced[n] = me.want[n]
        BY <1>f, <2>2, <2>3 DEF Fits
      <3>2. me.announced \in [Objects -> Places \cup {None}]
            /\ me.want \in [Objects -> Places \cup {None}]
        BY <1>0 DEF Client
      <3>3. \A n \in Objects : me.announced[n] = me.want[n]
        BY <2>2, <3>1 DEF On
      <3>4. me.announced = Desired
        BY <3>1, <3>2, <3>3
      <3> QED BY <2>1, <3>1, <3>4 DEF Fits
    <2> QED BY <2>1, <2>2, <2>3, UpdateFollows
  <1>10. CASE EndLoop(c)
    <2>1. Ending(me) \in Client /\ Ending(me).running = me.running /\ ~me.running
      BY <1>0, <1>10, FailingTyped DEF Ending, Client, EndLoop
    <2> QED BY <1>10, <2>1, UpdateFollows DEF EndLoop, ByClient
  <1>11. CASE KillOne(c) \/ KillDone(c)
    <2>1. CASE KillOne(c)
      <3>1. PICK n \in Objects : Update(c, [me EXCEPT !.announced[n] = None]) /\ Elsewhere
                                 /\ me.pc = "kill"
        BY <2>1 DEF KillOne, ByClient, On
      <3> DEFINE new == [me EXCEPT !.announced[n] = None]
      <3>2. new \in Client /\ new.running = me.running /\ new.pc = "kill"
        BY <1>0, <3>1 DEF Client
      <3>3. Update(c, new)
        BY <3>1
      <3> HIDE DEF new
      <3>4. Fits(new)
        BY <3>2 DEF Fits
      <3> QED BY <3>1, <3>2, <3>3, <3>4, UpdateFollows
    <2>2. CASE KillDone(c)
      <3> DEFINE new == [me EXCEPT !.pc = "ended", !.status = "disabled", !.link = FALSE,
                                   !.shown = {}]
      <3>1. new \in Client /\ new.running = me.running /\ new.pc = "ended"
        BY <1>0 DEF Client
      <3>2. Update(c, new) /\ Elsewhere
        BY <2>2 DEF KillDone, ByClient
      <3> HIDE DEF new
      <3>3. Fits(new)
        BY <3>1 DEF Fits
      <3> QED BY <3>1, <3>2, <3>3, UpdateFollows
    <2> QED BY <1>11, <2>1, <2>2
  <1>12. CASE BreakLink(c)
    <2> DEFINE new == [me EXCEPT !.link = FALSE]
    <2>1. new \in Client /\ new.running = me.running /\ new.dirty = me.dirty
          /\ new.spec = me.spec /\ new.pc = me.pc /\ new.announced = me.announced
          /\ new.shown = me.shown /\ new.want = me.want /\ new.todo = me.todo
          /\ new.status = me.status
      BY <1>0 DEF Client
    <2>2. Update(c, new) /\ Elsewhere
      BY <1>12 DEF BreakLink, ByClient
    <2> HIDE DEF new
    <2>3. c = current /\ me.running /\ ~me.dirty => Fits(new)
      BY <1>f, <2>1 DEF Fits
    <2> QED BY <2>1, <2>2, <2>3, UpdateFollows
  <1>13. CASE \E s \in Stations : Hear(c, s)
    <2>1. UNCHANGED <<eventVars, clients, current>>
      BY <1>13 DEF Hear, Elsewhere
    <2>2. Desired' = Desired /\ Spec0' = Spec0
      BY <2>1, SameEvent
    <2> QED BY <2>1, <2>2 DEF Follows, Running, Fits, eventVars
  <1> QED
    BY <1>1, <1>2, <1>3, <1>4, <1>5, <1>6, <1>7, <1>8, <1>9, <1>10, <1>11, <1>12, <1>13
       DEF Step

\* What requests do to the clients, seen from the current one.
LEMMA ManagedFollows ==
    ASSUME Typed, Follows,
           \/ Stop
           \/ clients' = Nudged /\ UNCHANGED <<current, status>>
           \/ status' = "active" /\ \E d \in BOOLEAN : StartClient(d)
    PROVE  Follows'
  <1>a. ASSUME NEW c \in Clients
        PROVE  /\ [clients EXCEPT ![c].running = FALSE, ![c].dirty = TRUE][c].running = FALSE
               /\ [clients EXCEPT ![c].dirty = TRUE][c].dirty = TRUE
               /\ [clients EXCEPT ![c].dirty = TRUE][c].running = clients[c].running
    BY clients[c] \in Client DEF Typed, Client
  <1>1. CASE Stop
    <2>1. current' = current
          /\ (current # None => clients' = [clients EXCEPT ![current].running = FALSE,
                                                            ![current].dirty = TRUE])
      BY <1>1 DEF Stop, Stopped
    <2>2. current # None => current \in Clients /\ ~clients'[current].running
      BY <2>1, <1>a DEF Typed
    <2>3. \A c \in Clients : c = current => current # None
      BY NoneAssumption
    <2> QED BY <2>1, <2>2, <2>3 DEF Follows, Running
  <1>2. CASE clients' = Nudged /\ UNCHANGED <<current, status>>
    <2>1. current # None =>
             /\ current \in Clients /\ clients'[current].dirty
             /\ clients'[current].running = clients[current].running
      BY <1>2, <1>a DEF Nudged, Typed
    <2>2. \A c \in Clients : c = current => current # None
      BY NoneAssumption
    <2> QED BY <1>2, <2>1, <2>2 DEF Follows, Running
  <1>3. ASSUME status' = "active", NEW d \in BOOLEAN, StartClient(d)
        PROVE  Follows'
    <2>1. PICK c \in Clients : clients' = [clients EXCEPT ![c] = NewClient(d)] /\ current' = c
      BY <1>3 DEF StartClient
    <2>2. clients'[c].pc = "connect"
      BY <2>1 DEF Typed, NewClient, Ended
    <2> QED BY <1>3, <2>1, <2>2 DEF Follows, Fits
  <1> QED BY <1>1, <1>2, <1>3

LEMMA RequestFollows ==
    ASSUME Typed, Follows,
           \/ Activate \/ Reopen \/ Close \/ Delete \/ Shutdown \/ Restart
           \/ \E b, o \in BOOLEAN : UpdateEvent(b, o)
           \/ \E i \in PostIds : DeletePost(i) \/ \E row \in Post : CreatePost(i, row) \/ UpdatePost(i, row)
           \/ \E s \in Stations : CheckIn(s)
    PROVE  Follows'
  <1>1. CASE Activate \/ Reopen
    <2>1. ~Running
      BY <1>1 DEF Activate, Reopen, Start, Follows
    <2> QED BY <1>1, <2>1, ManagedFollows DEF Activate, Reopen, Start
  <1>2. CASE Close \/ Delete \/ Shutdown
    BY <1>2, ManagedFollows DEF Close, Delete, Shutdown
  <1>3. ASSUME NEW b \in BOOLEAN, NEW o \in BOOLEAN, UpdateEvent(b, o)
        PROVE  Follows'
    <2>1. CASE Running \/ status # "active"
      BY <1>3, <2>1, ManagedFollows DEF UpdateEvent
    <2>2. CASE ~(Running \/ status # "active")
      BY <1>3, <2>2, ManagedFollows DEF UpdateEvent
    <2> QED BY <2>1, <2>2
  <1>4. ASSUME NEW i \in PostIds, NEW row \in Post \cup {None}, EditPosts(i, row)
        PROVE  Follows'
    BY <1>4, ManagedFollows DEF EditPosts, Told
  <1>5. ASSUME NEW s \in Stations, CheckIn(s)
        PROVE  Follows'
    BY <1>5, ManagedFollows DEF CheckIn
  <1>6. CASE Restart
    <2>1. CASE status = "active"
      <3>1. PICK c \in Clients :
               clients' = [d \in Clients |-> IF d = c THEN NewClient(FALSE) ELSE Ended]
               /\ current' = c
        BY <1>6, <2>1 DEF Restart
      <3>2. clients'[c].pc = "connect" /\ status' = "active"
        BY <1>6, <2>1, <3>1 DEF NewClient, Ended, Restart, eventVars
      <3> QED BY <3>1, <3>2 DEF Follows, Fits
    <2>2. CASE status # "active"
      <3>1. current' = None
        BY <1>6, <2>2 DEF Restart
      <3> QED BY <3>1, NoneAssumption DEF Follows, Running
    <2> QED BY <2>1, <2>2
  <1> QED
    BY <1>1, <1>2, <1>3, <1>4, <1>5, <1>6 DEF CreatePost, UpdatePost, DeletePost

LEMMA FollowsInit == Init => Follows
  BY NoneAssumption DEF Init, AprsInit, Follows, Running

\* The hooks only read what the client has.
LEMMA PageReads ==
    ASSUME Page
    PROVE  UNCHANGED aprsVars
  BY DEF Page, Write, Pin, AskLog, LoadRow, AnswerLog, MergeLog, LoseLog, AprsSame,
         OpenMap, AskMap, AnswerMap, MergeMap, LoseMap, MapSame

LEMMA FollowsStep ==
    ASSUME Typed, Follows, [Next]_vars
    PROVE  Typed' /\ Follows'
  <1>1. CASE UNCHANGED aprsVars
    <2>1. UNCHANGED <<eventVars, clients, current, air>>
      BY <1>1 DEF aprsVars, airVars
    <2>2. Desired' = Desired /\ Spec0' = Spec0
      BY <2>1, SameEvent
    <2>3. Typed'
      BY <2>1 DEF Typed, eventVars
    <2> QED BY <2>1, <2>2, <2>3 DEF Follows, Running, Fits, eventVars
  <1>2. CASE AprsNext
    <2>1. CASE \E c \in Clients :
                  Step(c) \/ BeaconTime(c) \/ BreakLink(c) \/ \E s \in Stations : Hear(c, s)
      BY <2>1, StepTyped, StepFollows
    <2> QED BY <1>2, <2>1, RequestTyped, RequestFollows DEF AprsNext
  <1> QED BY <1>1, <1>2, PageReads DEF Next, vars

(* When the client reads and no nudge is pending, its filter and its objects *)
(* are those of the event as it is now (manager.py:95, client.py:130).       *)
THEOREM ClientToldNews == Spec => []NewsTold
  <1>1. Typed /\ Follows => NewsTold
    BY DEF Follows, Fits, NewsTold
  <1>2. Init => Typed /\ Follows
    BY TypedInit, FollowsInit
  <1>3. Typed /\ Follows /\ [Next]_vars => (Typed /\ Follows)'
    BY FollowsStep
  <1> QED BY <1>1, <1>2, <1>3, PTL DEF Spec

------------------------------------------------------------------------------
(* What is on the air is accounted for *)

\* What APRS-IS still hears of a client's objects.
HeardOf(me) == IF me.link THEN me.announced ELSE Silent
Heard(c) == HeardOf(clients[c])

\* A client with a link is in its session, and one that may not transmit has
\* announced nothing when the session reads.
LinkFits(me) ==
    me.link => /\ me.pc \in {"read", "sync", "send", "kill"}
               /\ me.pc = "send" => me.status = "connected"
               /\ me.pc \in {"read", "sync"} /\ me.status # "connected" => me.announced = Silent

Linked == (\A c \in Clients : LinkFits(clients[c])) /\ AirAccounted

LEMMA AirByHeard ==
    AirAccounted <=>
        /\ \A n \in On(air) \ orphans : \E c \in Clients : Heard(c)[n] # None
        /\ \A c \in Clients, n \in Objects :
              Heard(c)[n] # None /\ n \notin crossed => air[n] = Heard(c)[n]
  <1>1. \A c \in Clients, n \in Objects :
           Heard(c)[n] = IF clients[c].link THEN clients[c].announced[n] ELSE None
    BY DEF Heard, HeardOf, Silent
  <1> QED BY <1>1 DEF AirAccounted, On

\* Nothing is sent, and what APRS-IS hears of the clients stays the same.
LEMMA HeardSame ==
    ASSUME AirAccounted, AirQuiet, \A c \in Clients : Heard(c)' = Heard(c)
    PROVE  AirAccounted'
  <1>1. /\ \A n \in On(air) \ orphans : \E c \in Clients : Heard(c)[n] # None
        /\ \A c \in Clients, n \in Objects :
              Heard(c)[n] # None /\ n \notin crossed => air[n] = Heard(c)[n]
    BY AirByHeard
  <1>2. air' = air /\ orphans' = orphans /\ crossed' = crossed /\ On(air)' = On(air)
    BY DEF AirQuiet, airVars, On
  <1>3. /\ \A n \in On(air)' \ orphans' : \E c \in Clients : Heard(c)'[n] # None
        /\ \A c \in Clients, n \in Objects :
              Heard(c)'[n] # None /\ n \notin crossed' => air'[n] = Heard(c)'[n]
    BY <1>1, <1>2
  <1>4. \A c \in Clients, n \in Objects :
           Heard(c)'[n] = IF clients'[c].link THEN clients'[c].announced[n] ELSE None
    BY DEF Heard, HeardOf, Silent
  <1> QED BY <1>3, <1>4 DEF AirAccounted, On

LEMMA QuietLinked ==
    ASSUME Typed, Linked, NEW c \in Clients, NEW new \in Client, Update(c, new), AirQuiet,
           LinkFits(new), HeardOf(new) = Heard(c)
    PROVE  Linked'
  <1>1. clients'[c] = new /\ \A d \in Clients \ {c} : clients'[d] = clients[d]
    BY DEF Update, Typed
  <1>2. \A d \in Clients : Heard(d)' = Heard(d)
    BY <1>1 DEF Heard, HeardOf, Silent
  <1>3. AirAccounted'
    BY <1>2, HeardSame DEF Linked
  <1> QED BY <1>1, <1>3 DEF Linked, LinkFits, Silent

\* A packet is sent, and the client remembers it.
LEMMA PacketLinked ==
    ASSUME Typed, Linked, NEW c \in Clients, NEW n \in Objects, NEW place \in Places \cup {None},
           Packet(c, n, place), NEW new \in Client, Update(c, new), LinkFits(new),
           new.link = clients[c].link,
           new.announced = [clients[c].announced EXCEPT ![n] = place]
    PROVE  Linked'
  <1>1. clients'[c] = new /\ \A d \in Clients \ {c} : clients'[d] = clients[d]
    BY DEF Update, Typed
  <1>2. \A d \in Clients : LinkFits(clients'[d])
    BY <1>1 DEF Linked
  <1>3. CASE ~clients[c].link
    <2>1. HeardOf(new) = Heard(c) /\ AirQuiet
      BY <1>3 DEF HeardOf, Heard, Packet
    <2> QED BY <2>1, QuietLinked
  <1>4. CASE clients[c].link
    <2>1. /\ air' = [air EXCEPT ![n] = place]
          /\ orphans' = orphans \ {n}
          /\ crossed \ {n} \subseteq crossed'
          /\ (\E d \in Clients \ {c} : clients[d].link /\ clients[d].announced[n] # None)
                => n \in crossed'
      BY <1>4 DEF Packet
    <2>2. /\ \A d \in Clients : clients'[d].link = clients[d].link
          /\ \A d \in Clients, m \in Objects :
                clients'[d].announced[m] = IF d = c /\ m = n THEN place
                                           ELSE clients[d].announced[m]
      BY <1>1 DEF Typed, Client
    <2>3. \A m \in Objects : air'[m] = IF m = n THEN place ELSE air[m]
      BY <2>1 DEF Typed
    <2>4. ASSUME NEW m \in Objects, air'[m] # None, m \notin orphans'
          PROVE  \E d \in Clients : clients'[d].link /\ clients'[d].announced[m] # None
      <3>1. CASE m = n
        BY <1>4, <2>2, <2>3, <2>4, <3>1
      <3>2. CASE m # n
        BY <2>1, <2>2, <2>3, <2>4, <3>2 DEF Linked, AirAccounted, On
      <3> QED BY <3>1, <3>2
    <2>5. ASSUME NEW d \in Clients, NEW m \in Objects,
                 clients'[d].link, clients'[d].announced[m] # None, m \notin crossed'
          PROVE  air'[m] = clients'[d].announced[m]
      <3>1. CASE m = n
        <4>1. d = c
          BY <2>1, <2>2, <2>5, <3>1
        <4> QED BY <2>2, <2>3, <3>1, <4>1
      <3>2. CASE m # n
        BY <2>1, <2>2, <2>3, <2>5, <3>2 DEF Linked, AirAccounted
      <3> QED BY <3>1, <3>2
    <2>6. AirAccounted'
      BY <2>4, <2>5 DEF AirAccounted, On
    <2> QED BY <1>2, <2>6 DEF Linked, LinkFits, Silent
  <1> QED BY <1>3, <1>4

LEMMA StepLinked ==
    ASSUME Typed, Linked, NEW c \in Clients,
           Step(c) \/ BeaconTime(c) \/ BreakLink(c) \/ \E s \in Stations : Hear(c, s)
    PROVE  Linked'
  <1> DEFINE me == clients[c]
  <1>0. me \in Client /\ LinkFits(me)
    BY DEF Typed, Linked
  <1>a. ASSUME ~me.link, NEW new \in Client, ~new.link \/ new.announced = Silent, LinkFits(new),
               Update(c, new), AirQuiet
        PROVE  Linked'
    BY <1>a, QuietLinked DEF Heard, HeardOf
  <1>b. ASSUME NEW new \in Client, new.link = me.link, new.announced = me.announced,
               LinkFits(new), Update(c, new), AirQuiet
        PROVE  Linked'
    BY <1>b, QuietLinked DEF Heard, HeardOf
  <1>1. CASE Connect(c)
    <2> DEFINE new == [me EXCEPT !.pc = "login", !.spec = Spec0]
    <2>1. ~me.link /\ Update(c, new) /\ AirQuiet
      BY <1>0, <1>1 DEF Connect, LinkFits
    <2>2. new \in Client /\ new.link = me.link
      BY <1>0 DEF Client, Spec0, Typed
    <2> HIDE DEF new
    <2> QED BY <1>a, <2>1, <2>2 DEF LinkFits
  <1>2. ASSUME NEW verified \in BOOLEAN, Login(c, verified)
        PROVE  Linked'
    <2> DEFINE in == [me EXCEPT !.announced = Silent, !.shown = {}, !.link = TRUE,
                                !.status = IF verified THEN "connected" ELSE "error"]
    <2>1. in \in Client /\ in.announced = Silent
          /\ in.status = (IF verified THEN "connected" ELSE "error")
      BY <1>0 DEF Client, Silent
    <2>2. Update(c, IF verified THEN Sending(in, TRUE) ELSE [in EXCEPT !.pc = "read"])
          /\ AirQuiet /\ ~me.link
      BY <1>0, <1>2 DEF Login, LinkFits
    <2> HIDE DEF in
    <2>3. CASE verified
      <3>1. Sending(in, TRUE) \in Client /\ Sending(in, TRUE).announced = Silent
            /\ Sending(in, TRUE).pc = "send" /\ Sending(in, TRUE).status = "connected"
        BY <2>1, <2>3, SendingTyped DEF Sending, Client
      <3>2. LinkFits(Sending(in, TRUE))
        BY <3>1 DEF LinkFits
      <3>3. Update(c, Sending(in, TRUE))
        BY <2>2, <2>3
      <3> QED BY <1>a, <2>2, <3>1, <3>2, <3>3
    <2>4. CASE ~verified
      <3> DEFINE new == [in EXCEPT !.pc = "read"]
      <3>1. new \in Client /\ new.announced = Silent /\ new.pc = "read"
        BY <2>1 DEF Client
      <3>2. Update(c, new)
        BY <2>2, <2>4
      <3> HIDE DEF new
      <3>3. LinkFits(new)
        BY <3>1 DEF LinkFits
      <3> QED BY <1>a, <2>2, <3>1, <3>2, <3>3
    <2> QED BY <2>3, <2>4
  <1>3. CASE Fail(c)
    <2>1. ~me.link /\ Update(c, Failing(me)) /\ AirQuiet
      BY <1>0, <1>3 DEF Fail, LinkFits
    <2>2. Failing(me) \in Client /\ ~Failing(me).link
      BY <1>0, FailingTyped DEF Failing, Client
    <2> QED BY <1>a, <2>1, <2>2 DEF LinkFits
  <1>4. CASE WakeUp(c)
    <2> DEFINE new == IF me.running THEN [me EXCEPT !.pc = "connect", !.dirty = FALSE]
                      ELSE [me EXCEPT !.pc = "ended", !.dirty = FALSE, !.status = "disabled"]
    <2>1. ~me.link /\ Update(c, new) /\ AirQuiet
      BY <1>0, <1>4 DEF WakeUp, LinkFits
    <2>2. new \in Client /\ new.link = me.link
      BY <1>0 DEF Client
    <2> HIDE DEF new
    <2> QED BY <1>a, <2>1, <2>2 DEF LinkFits
  <1>5. CASE Refresh(c)
    <2> DEFINE new == [me EXCEPT !.pc = "sync", !.dirty = FALSE, !.spec = Spec0]
    <2>1. me.pc = "read" /\ Update(c, new) /\ AirQuiet
      BY <1>5 DEF Refresh
    <2>2. new \in Client /\ new.link = me.link /\ new.announced = me.announced
          /\ new.pc = "sync" /\ new.status = me.status
      BY <1>0 DEF Client, Spec0, Typed
    <2> HIDE DEF new
    <2>3. LinkFits(new)
      BY <1>0, <2>1, <2>2 DEF LinkFits
    <2> QED BY <1>b, <2>1, <2>2, <2>3
  <1>6. CASE Resume(c) \/ BeaconTime(c)
    <2>1. me.pc \in {"sync", "read"} /\ AirQuiet
          /\ \/ me.status = "connected" /\ \E force \in BOOLEAN : Update(c, Sending(me, force))
             \/ me.status # "connected" /\ Update(c, [me EXCEPT !.pc = "read"])
      BY <1>6 DEF Resume, BeaconTime
    <2>2. ASSUME me.status = "connected", NEW force \in BOOLEAN, Update(c, Sending(me, force))
          PROVE  Linked'
      <3>1. Sending(me, force) \in Client /\ Sending(me, force).link = me.link
            /\ Sending(me, force).announced = me.announced
            /\ Sending(me, force).status = me.status /\ Sending(me, force).pc = "send"
        BY <1>0, SendingTyped DEF Sending, Client
      <3>2. LinkFits(Sending(me, force))
        BY <2>2, <3>1 DEF LinkFits
      <3> QED BY <1>b, <2>1, <2>2, <3>1, <3>2
    <2>3. ASSUME me.status # "connected", Update(c, [me EXCEPT !.pc = "read"])
          PROVE  Linked'
      <3> DEFINE new == [me EXCEPT !.pc = "read"]
      <3>1. new \in Client /\ new.link = me.link /\ new.announced = me.announced
            /\ new.pc = "read" /\ new.status = me.status
        BY <1>0 DEF Client
      <3>2. Update(c, new)
        BY <2>3
      <3> HIDE DEF new
      <3>3. LinkFits(new)
        BY <1>0, <2>1, <3>1 DEF LinkFits
      <3> QED BY <1>b, <2>1, <3>1, <3>2, <3>3
    <2> QED BY <2>1, <2>2, <2>3
  <1>7. CASE SendKill(c) \/ KillOne(c)
    <2>1. PICK n \in Objects : /\ Packet(c, n, None) /\ me.pc \in {"send", "kill"}
                               /\ Update(c, [me EXCEPT !.announced[n] = None])
      BY <1>7 DEF SendKill, KillOne, On
    <2> DEFINE new == [me EXCEPT !.announced[n] = None]
    <2>2. new \in Client /\ new.link = me.link /\ new.pc = me.pc /\ new.status = me.status
          /\ new.announced = [me.announced EXCEPT ![n] = None]
      BY <1>0, <2>1 DEF Client
    <2>3. Update(c, new)
      BY <2>1
    <2> HIDE DEF new
    <2>4. LinkFits(new)
      BY <1>0, <2>1, <2>2 DEF LinkFits
    <2> QED BY <2>1, <2>2, <2>3, <2>4, PacketLinked
  <1>8. CASE SendLive(c)
    <2>1. PICK n \in me.todo :
             /\ Packet(c, n, me.want[n])
             /\ Update(c, [me EXCEPT !.announced[n] = me.want[n], !.todo = @ \ {n}])
      BY <1>8 DEF SendLive
    <2> DEFINE new == [me EXCEPT !.announced[n] = me.want[n], !.todo = @ \ {n}]
    <2>2. new \in Client /\ new.link = me.link /\ new.pc = me.pc /\ new.status = me.status
          /\ new.announced = [me.announced EXCEPT ![n] = me.want[n]]
          /\ n \in Objects /\ me.want[n] \in Places \cup {None}
      BY <1>0 DEF Client
    <2>3. Update(c, new) /\ me.pc = "send"
      BY <1>8, <2>1 DEF SendLive
    <2> HIDE DEF new
    <2>4. LinkFits(new)
      BY <1>0, <2>2, <2>3 DEF LinkFits
    <2> QED BY <2>1, <2>2, <2>3, <2>4, PacketLinked
  <1>9. CASE SendDone(c)
    <2> DEFINE new == [me EXCEPT !.pc = "read", !.shown = On(me.want), !.want = Silent]
    <2>1. me.pc = "send" /\ Update(c, new) /\ AirQuiet
      BY <1>9 DEF SendDone
    <2>2. new \in Client /\ new.link = me.link /\ new.announced = me.announced
          /\ new.pc = "read" /\ new.status = me.status
      BY <1>0 DEF Client, On, Silent
    <2> HIDE DEF new
    <2>3. LinkFits(new)
      BY <1>0, <2>1, <2>2 DEF LinkFits
    <2> QED BY <1>b, <2>1, <2>2, <2>3
  <1>10. CASE EndLoop(c)
    <2>1. me.pc = "read" /\ Update(c, Ending(me)) /\ AirQuiet
      BY <1>10 DEF EndLoop
    <2>2. CASE me.status = "connected"
      <3>1. Ending(me) \in Client /\ Ending(me).link = me.link
            /\ Ending(me).announced = me.announced /\ Ending(me).pc = "kill"
        BY <1>0, <2>2, FailingTyped DEF Ending, Client
      <3>2. LinkFits(Ending(me))
        BY <3>1 DEF LinkFits
      <3> QED BY <1>b, <2>1, <3>1, <3>2
    <2>3. CASE me.status # "connected"
      <3>1. Ending(me) \in Client /\ ~Ending(me).link
        BY <1>0, <2>3, FailingTyped DEF Ending, Client
      <3>2. HeardOf(Ending(me)) = Heard(c) /\ LinkFits(Ending(me))
        BY <1>0, <2>1, <2>3, <3>1 DEF HeardOf, Heard, LinkFits
      <3> QED BY <2>1, <3>1, <3>2, QuietLinked
    <2> QED BY <2>2, <2>3
  <1>11. CASE KillDone(c)
    <2> DEFINE new == [me EXCEPT !.pc = "ended", !.status = "disabled", !.link = FALSE,
                                 !.shown = {}]
    <2>1. me.announced = Silent /\ Update(c, new) /\ AirQuiet
      BY <1>11 DEF KillDone
    <2>2. new \in Client /\ ~new.link
      BY <1>0 DEF Client
    <2> HIDE DEF new
    <2>3. HeardOf(new) = Heard(c) /\ LinkFits(new)
      BY <2>1, <2>2 DEF HeardOf, Heard, LinkFits
    <2> QED BY <2>1, <2>2, <2>3, QuietLinked
  <1>12. CASE BreakLink(c)
    <2> DEFINE new == [me EXCEPT !.link = FALSE]
    <2>1. new \in Client /\ ~new.link
      BY <1>0 DEF Client
    <2>2. clients' = [clients EXCEPT ![c] = new] /\ air' = air /\ crossed' = crossed
          /\ orphans' = orphans \cup {n \in On(air) :
                \A d \in Clients \ {c} : ~(clients[d].link /\ clients[d].announced[n] # None)}
      BY <1>12 DEF BreakLink, Update
    <2> HIDE DEF new
    <2>3. clients'[c] = new /\ \A d \in Clients \ {c} : clients'[d] = clients[d]
      BY <2>2 DEF Typed
    <2>4. ASSUME NEW n \in On(air), n \notin orphans'
          PROVE  \E d \in Clients : clients'[d].link /\ clients'[d].announced[n] # None
      BY <2>2, <2>3, <2>4
    <2>5. AirAccounted'
      BY <2>1, <2>2, <2>3, <2>4 DEF Linked, AirAccounted, On
    <2>6. \A d \in Clients : LinkFits(clients'[d])
      BY <2>1, <2>3 DEF Linked, LinkFits
    <2> QED BY <2>5, <2>6 DEF Linked, LinkFits, Silent
  <1>13. CASE \E s \in Stations : Hear(c, s)
    BY <1>13 DEF Hear, AirQuiet, airVars, Linked, LinkFits, AirAccounted, On, Silent
  <1> QED
    BY <1>1, <1>2, <1>3, <1>4, <1>5, <1>6, <1>7, <1>8, <1>9, <1>10, <1>11, <1>12, <1>13
       DEF Step

\* Requests send nothing: a client that starts, is stopped or is nudged has the
\* same objects as before, and the one that gives way to a new one had no link.
LEMMA ManagedLinked ==
    ASSUME Typed, Linked, UNCHANGED airVars,
           ManagerSame \/ Stop \/ (\E d \in BOOLEAN : StartClient(d)) \/ clients' = Nudged
    PROVE  Linked'
  <1>1. ASSUME \A c \in Clients :
                  \/ /\ clients'[c].link = clients[c].link
                     /\ clients'[c].announced = clients[c].announced
                     /\ clients'[c].pc = clients[c].pc
                     /\ clients'[c].status = clients[c].status
                  \/ ~clients'[c].link /\ ~clients[c].link
        PROVE  Linked'
    <2>1. \A c \in Clients : Heard(c)' = Heard(c)
      BY <1>1 DEF Heard, HeardOf, Silent
    <2>2. AirAccounted'
      BY <2>1, HeardSame DEF Linked, AirQuiet
    <2>3. \A c \in Clients : LinkFits(clients'[c])
      BY <1>1 DEF Linked, LinkFits
    <2> QED BY <2>2, <2>3 DEF Linked, LinkFits, Silent
  <1>2. CASE ManagerSame
    BY <1>1, <1>2 DEF ManagerSame
  <1>3. CASE Stop \/ clients' = Nudged
    <2>1. \A c \in Clients :
             /\ clients'[c].link = clients[c].link
             /\ clients'[c].announced = clients[c].announced
             /\ clients'[c].pc = clients[c].pc
             /\ clients'[c].status = clients[c].status
      <3> SUFFICES ASSUME NEW c \in Clients
                   PROVE  /\ clients'[c].link = clients[c].link
                          /\ clients'[c].announced = clients[c].announced
                          /\ clients'[c].pc = clients[c].pc
                          /\ clients'[c].status = clients[c].status
        OBVIOUS
      <3>1. clients[c] \in Client
        BY DEF Typed
      <3>2. \/ clients'[c] = clients[c]
            \/ clients'[c] = [clients[c] EXCEPT !.running = FALSE, !.dirty = TRUE]
            \/ clients'[c] = [clients[c] EXCEPT !.dirty = TRUE]
        BY <1>3, <3>1 DEF Stop, Stopped, Nudged, Typed, Client
      <3> QED BY <3>1, <3>2 DEF Client
    <2> QED BY <1>1, <2>1
  <1>4. ASSUME NEW d \in BOOLEAN, StartClient(d)
        PROVE  Linked'
    <2>1. PICK c \in Clients : clients[c].pc = "ended"
                               /\ clients' = [clients EXCEPT ![c] = NewClient(d)]
      BY <1>4 DEF StartClient
    <2>2. ~clients[c].link /\ ~clients'[c].link
      BY <2>1 DEF Linked, LinkFits, Typed, NewClient, Ended
    <2>3. \A e \in Clients \ {c} : clients'[e] = clients[e]
      BY <2>1 DEF Typed
    <2> QED BY <1>1, <2>2, <2>3
  <1> QED BY <1>2, <1>3, <1>4

LEMMA RequestLinked ==
    ASSUME Typed, Linked,
           \/ Activate \/ Reopen \/ Close \/ Delete \/ Shutdown \/ Restart
           \/ \E b, o \in BOOLEAN : UpdateEvent(b, o)
           \/ \E i \in PostIds : DeletePost(i) \/ \E row \in Post : CreatePost(i, row) \/ UpdatePost(i, row)
           \/ \E s \in Stations : CheckIn(s)
    PROVE  Linked'
  <1>1. CASE Activate \/ Reopen
    <2>1. UNCHANGED airVars /\ (ManagerSame \/ StartClient(FALSE))
      BY <1>1 DEF Activate, Reopen, Start
    <2> QED BY <2>1, ManagedLinked
  <1>2. CASE Close \/ Delete \/ Shutdown
    <2>1. UNCHANGED airVars /\ Stop
      BY <1>2 DEF Close, Delete, Shutdown
    <2> QED BY <2>1, ManagedLinked
  <1>3. ASSUME NEW b \in BOOLEAN, NEW o \in BOOLEAN, UpdateEvent(b, o)
        PROVE  Linked'
    <2>1. UNCHANGED airVars /\ (clients' = Nudged \/ StartClient(TRUE))
      BY <1>3 DEF UpdateEvent
    <2> QED BY <2>1, ManagedLinked
  <1>4. ASSUME NEW i \in PostIds, NEW row \in Post \cup {None}, EditPosts(i, row)
        PROVE  Linked'
    <2>1. UNCHANGED airVars /\ clients' = Nudged
      BY <1>4 DEF EditPosts, Told
    <2> QED BY <2>1, ManagedLinked
  <1>5. ASSUME NEW s \in Stations, CheckIn(s)
        PROVE  Linked'
    <2>1. UNCHANGED airVars /\ clients' = Nudged
      BY <1>5 DEF CheckIn
    <2> QED BY <2>1, ManagedLinked
  <1>6. CASE Restart
    <2>1. orphans' = On(air) /\ air' = air
      BY <1>6 DEF Restart
    <2>2. \A d \in Clients : clients'[d] = Ended \/ clients'[d] = NewClient(FALSE)
      BY <1>6 DEF Restart
    <2>3. ~Ended.link /\ ~NewClient(FALSE).link
      BY DEF NewClient, Ended
    <2>4. \A d \in Clients : ~clients'[d].link
      BY <2>2, <2>3
    <2> QED BY <2>1, <2>4 DEF Linked, LinkFits, AirAccounted, On, Silent
  <1> QED
    BY <1>1, <1>2, <1>3, <1>4, <1>5, <1>6 DEF CreatePost, UpdatePost, DeletePost

LEMMA LinkedInit == Init => Linked
  BY DEF Init, AprsInit, Linked, LinkFits, AirAccounted, On, Ended, Silent

LEMMA LinkedStep ==
    ASSUME Typed, Linked, [Next]_vars
    PROVE  Typed' /\ Linked'
  <1>1. CASE UNCHANGED aprsVars
    BY <1>1 DEF aprsVars, airVars, eventVars, Typed, Linked, LinkFits, AirAccounted, On, Silent
  <1>2. CASE AprsNext
    <2>1. CASE \E c \in Clients :
                  Step(c) \/ BeaconTime(c) \/ BreakLink(c) \/ \E s \in Stations : Hear(c, s)
      BY <2>1, StepTyped, StepLinked
    <2> QED BY <1>2, <2>1, RequestTyped, RequestLinked DEF AprsNext
  <1> QED BY <1>1, <1>2, PageReads DEF Next, vars

(* Every object on the air is one a client with a link announced there,      *)
(* unless its announcer lost its link or crashed, and what such a client has *)
(* announced is on the air (client.py:152).                                  *)
THEOREM ObjectsAccounted == Spec => []AirAccounted
  <1>1. Typed /\ Linked => AirAccounted
    BY DEF Linked
  <1>2. Init => Typed /\ Linked
    BY TypedInit, LinkedInit
  <1>3. Typed /\ Linked /\ [Next]_vars => (Typed /\ Linked)'
    BY LinkedStep
  <1> QED BY <1>1, <1>2, <1>3, PTL DEF Spec

------------------------------------------------------------------------------
(* The trails on the map *)

\* The least number of a set: induction with the property as the set of its
\* counterexamples, from the well-founded order on finite sets (as in
\* EventRoomLog_proofs).
LEMMA NatMin ==
    ASSUME NEW T, T \subseteq Nat, T # {}
    PROVE  \E n \in T : \A m \in T : n <= m
  <1> DEFINE Seg == {0..n : n \in T}
  <1>1. \A n \in T : n \in Nat /\ 0..n \in SUBSET Nat /\ IsFiniteSet(0..n)
    BY FS_Interval
  <1>2. Seg \subseteq FiniteSubsetsOf(Nat) /\ Seg # {}
    BY <1>1 DEF FiniteSubsetsOf
  <1>3. IsWellFoundedOn(StrictSubsetOrdering(Nat), FiniteSubsetsOf(Nat))
    BY FS_StrictSubsetOrderingWellFounded
  <1> HIDE DEF Seg
  <1>4. PICK x \in Seg : \A y \in Seg : ~(<<y, x>> \in StrictSubsetOrdering(Nat))
    BY <1>2, <1>3, WFMin
  <1>5. PICK n \in T : x = 0..n
    BY DEF Seg
  <1>6. ASSUME NEW m \in T, m < n PROVE FALSE
    <2>1. m \in Nat /\ n \in Nat /\ 0..m \in Seg
      BY <1>1 DEF Seg
    <2>2. 0..m \subseteq 0..n /\ 0..m # 0..n
      <3>1. n \in 0..n /\ n \notin 0..m /\ 0..m \subseteq 0..n
        BY <1>6, <2>1
      <3> QED BY <3>1
    <2>3. <<0..m, 0..n>> \in StrictSubsetOrdering(Nat)
      BY <1>1, <2>2 DEF StrictSubsetOrdering
    <2> QED BY <1>4, <1>5, <2>1, <2>3
  <1> QED
    <2>1. ASSUME NEW m \in T PROVE n <= m
      <3>1. m \in Nat /\ n \in Nat
        BY <1>1
      <3> QED BY <1>6, <3>1
    <2> QED BY <2>1

\* The points of a trail, and what adding to it and cutting it does to them.
Points(t) == {t[i] : i \in DOMAIN t}

LEMMA PointsAre ==
    ASSUME NEW t \in Seq(Nat)
    PROVE  /\ Points(t) \subseteq Nat
           /\ \A q : q \in Points(t) <=> \E i \in 1..Len(t) : q = t[i]
           /\ Points(<<>>) = {}
           /\ \A q \in Nat : Append(t, q) \in Seq(Nat) /\ Points(Append(t, q)) = Points(t) \cup {q}
           /\ t # <<>> => Tail(t) \in Seq(Nat) /\ Points(Tail(t)) \subseteq Points(t)
  <1>1. DOMAIN t = 1..Len(t) /\ Len(t) \in Nat /\ \A i \in 1..Len(t) : t[i] \in Nat
    BY LenProperties, ElementOfSeq
  <1>2. ASSUME NEW q \in Nat
        PROVE  Append(t, q) \in Seq(Nat) /\ Points(Append(t, q)) = Points(t) \cup {q}
    <2> DEFINE a == Append(t, q)
    <2>1. /\ a \in Seq(Nat) /\ Len(a) = Len(t) + 1 /\ DOMAIN a = 1..(Len(t) + 1)
          /\ \A i \in 1..Len(t) : a[i] = t[i]
          /\ a[Len(t) + 1] = q
      BY AppendProperties, LenProperties
    <2> HIDE DEF a
    <2>2. Points(a) = Points(t) \cup {q}
      <3>1. ASSUME NEW x \in Points(a) PROVE x \in Points(t) \cup {q}
        <4>1. PICK i \in 1..(Len(t) + 1) : x = a[i]
          BY <2>1 DEF Points
        <4>2. i = Len(t) + 1 \/ i \in 1..Len(t)
          BY <1>1
        <4> QED BY <1>1, <2>1, <4>1, <4>2 DEF Points
      <3>2. ASSUME NEW x \in Points(t) PROVE x \in Points(a)
        <4>1. PICK i \in 1..Len(t) : x = t[i]
          BY <1>1 DEF Points
        <4>2. i \in 1..(Len(t) + 1) /\ a[i] = x
          BY <1>1, <2>1, <4>1
        <4> QED BY <2>1, <4>2 DEF Points
      <3>3. q \in Points(a)
        BY <1>1, <2>1 DEF Points
      <3> QED BY <3>1, <3>2, <3>3
    <2> QED BY <2>1, <2>2 DEF a
  <1>3. ASSUME t # <<>> PROVE Tail(t) \in Seq(Nat) /\ Points(Tail(t)) \subseteq Points(t)
    <2> DEFINE r == Tail(t)
    <2>1. /\ r \in Seq(Nat) /\ Len(r) = Len(t) - 1 /\ DOMAIN r = 1..Len(r)
          /\ \A i \in 1..Len(r) : r[i] = t[i + 1]
      BY <1>3, HeadTailProperties, LenProperties
    <2> HIDE DEF r
    <2>2. \A i \in 1..Len(r) : i + 1 \in 1..Len(t)
      BY <1>1, <2>1
    <2>3. Points(r) \subseteq Points(t)
      BY <1>1, <2>1, <2>2 DEF Points
    <2> QED BY <2>1, <2>3 DEF r
  <1>4. Points(<<>>) = {}
    BY DEF Points
  <1> QED BY <1>1, <1>2, <1>3, <1>4 DEF Points

LEMMA PointsJoin ==
    ASSUME NEW s \in Seq(Nat), NEW t \in Seq(Nat)
    PROVE  s \o t \in Seq(Nat) /\ Points(s \o t) = Points(s) \cup Points(t)
  <1> DEFINE w == s \o t
  <1>1. /\ w \in Seq(Nat) /\ Len(w) = Len(s) + Len(t)
        /\ \A i \in 1..(Len(s) + Len(t)) : w[i] = IF i <= Len(s) THEN s[i] ELSE t[i - Len(s)]
    BY ConcatProperties
  <1>2. /\ DOMAIN s = 1..Len(s) /\ DOMAIN t = 1..Len(t) /\ DOMAIN w = 1..Len(w)
        /\ Len(s) \in Nat /\ Len(t) \in Nat
    BY <1>1, LenProperties
  <1> HIDE DEF w
  <1>3. ASSUME NEW x \in Points(w) PROVE x \in Points(s) \cup Points(t)
    <2>1. PICK i \in 1..Len(w) : x = w[i]
      BY <1>2 DEF Points
    <2>2. CASE i <= Len(s)
      <3>1. i \in 1..Len(s) /\ x = s[i]
        BY <1>1, <1>2, <2>1, <2>2
      <3> QED BY <1>2, <3>1 DEF Points
    <2>3. CASE ~(i <= Len(s))
      <3>1. i - Len(s) \in 1..Len(t) /\ x = t[i - Len(s)]
        BY <1>1, <1>2, <2>1, <2>3
      <3> QED BY <1>2, <3>1 DEF Points
    <2> QED BY <2>2, <2>3
  <1>4. ASSUME NEW x \in Points(s) PROVE x \in Points(w)
    <2>1. PICK i \in 1..Len(s) : x = s[i]
      BY <1>2 DEF Points
    <2>2. i \in 1..Len(w) /\ w[i] = x
      BY <1>1, <1>2, <2>1
    <2> QED BY <1>2, <2>2 DEF Points
  <1>5. ASSUME NEW x \in Points(t) PROVE x \in Points(w)
    <2>1. PICK i \in 1..Len(t) : x = t[i]
      BY <1>2 DEF Points
    <2>2. Len(s) + i \in 1..Len(w) /\ ~(Len(s) + i <= Len(s)) /\ (Len(s) + i) - Len(s) = i
      BY <1>1, <1>2
    <2>3. w[Len(s) + i] = x
      BY <1>1, <2>1, <2>2
    <2> QED BY <1>2, <2>2, <2>3 DEF Points
  <1> QED BY <1>1, <1>3, <1>4, <1>5 DEF w

\* One turn of the filter in After.
Among(points, since, m, f) ==
    [n \in 0..m |-> IF n = 0 THEN <<>>
                    ELSE IF points[n] > since THEN Append(f[n - 1], points[n]) ELSE f[n - 1]]

\* The recursion has a solution for each length ...
LEMMA AmongSolved ==
    ASSUME NEW points, NEW since, NEW m \in Nat
    PROVE  \E f : f = Among(points, since, m, f)
  <1> DEFINE Bad == {k \in Nat : ~\E f : f = Among(points, since, k, f)}
  <1>1. ASSUME Bad # {} PROVE FALSE
    <2>1. PICK k \in Bad : \A j \in Bad : k <= j
      <3>1. Bad \subseteq Nat
        OBVIOUS
      <3> HIDE DEF Bad
      <3> QED BY <1>1, <3>1, NatMin
    <2>2. k \in Nat
      OBVIOUS
    <2>3. k # 0
      <3> DEFINE f == [n \in 0..0 |-> <<>>]
      <3>1. f = Among(points, since, 0, f)
        BY DEF Among
      <3> HIDE DEF f
      <3> QED BY <3>1
    <2>4. k - 1 \in Nat /\ ~(k <= k - 1)
      BY <2>2, <2>3
    <2>5. k - 1 \notin Bad
      <3> HIDE DEF Bad
      <3> QED BY <2>1, <2>4
    <2>6. PICK g : g = Among(points, since, k - 1, g)
      BY <2>4, <2>5
    <2> DEFINE last == IF points[k] > since THEN Append(g[k - 1], points[k]) ELSE g[k - 1]
               h == [n \in 0..k |-> IF n < k THEN g[n] ELSE last]
    <2>7. ASSUME NEW n \in 0..k
          PROVE  h[n] = IF n = 0 THEN <<>>
                        ELSE IF points[n] > since THEN Append(h[n - 1], points[n]) ELSE h[n - 1]
      <3>1. CASE n = k
        <4>1. h[n] = last /\ h[n - 1] = g[n - 1]
          BY <2>4, <3>1
        <4> QED BY <2>3, <3>1, <4>1
      <3>2. CASE n # k /\ n # 0
        <4>1. n \in 0..(k - 1) /\ n < k /\ n - 1 \in 0..k /\ n - 1 < k
          BY <2>2, <3>2
        <4>2. h[n] = g[n] /\ h[n - 1] = g[n - 1]
          BY <4>1
        <4> HIDE DEF h
        <4>3. g[n] = IF n = 0 THEN <<>>
                     ELSE IF points[n] > since THEN Append(g[n - 1], points[n]) ELSE g[n - 1]
          BY <2>6, <4>1 DEF Among
        <4> QED BY <4>2, <4>3
      <3>3. CASE n # k /\ n = 0
        <4>1. n \in 0..(k - 1) /\ n < k
          BY <2>2, <3>3
        <4>2. h[n] = g[n]
          BY <4>1
        <4> HIDE DEF h
        <4>3. g[n] = <<>>
          BY <2>6, <3>3, <4>1 DEF Among
        <4> QED BY <3>3, <4>2, <4>3
      <3> QED BY <3>1, <3>2, <3>3
    <2>8. h = [n \in 0..k |-> h[n]]
      OBVIOUS
    <2> HIDE DEF h
    <2>9. h = Among(points, since, k, h)
      BY <2>7, <2>8 DEF Among
    <2> QED BY <2>9
  <1> QED BY <1>1

\* ... so After keeps the points after the given one, and no others.
LEMMA AfterIs ==
    ASSUME NEW points \in Seq(Nat), NEW since \in Nat
    PROVE  /\ After(points, since) \in Seq(Nat)
           /\ Points(After(points, since)) = {q \in Points(points) : q > since}
  <1> DEFINE len == Len(points)
             f == CHOOSE g : g = [n \in 0..len |-> IF n = 0 THEN <<>>
                                    ELSE IF points[n] > since THEN Append(g[n - 1], points[n])
                                    ELSE g[n - 1]]
             Kept(n) == {points[i] : i \in {j \in 1..n : points[j] > since}}
             Bad == {n \in 0..len : ~(f[n] \in Seq(Nat) /\ Points(f[n]) = Kept(n))}
  <1>1. len \in Nat /\ \A i \in 1..len : points[i] \in Nat
    BY LenProperties, ElementOfSeq
  <1>2. After(points, since) = f[len]
    BY Zenon DEF After
  <1>3. f = Among(points, since, len, f)
    <2>1. \E g : g = Among(points, since, len, g)
      BY <1>1, AmongSolved
    <2>2. f = CHOOSE g : g = Among(points, since, len, g)
      BY Zenon DEF Among
    <2> HIDE DEF f
    <2> QED BY <2>1, <2>2, Zenon
  <1> HIDE DEF f
  <1>4. ASSUME NEW n \in 0..len
        PROVE  f[n] = IF n = 0 THEN <<>>
                      ELSE IF points[n] > since THEN Append(f[n - 1], points[n]) ELSE f[n - 1]
    BY <1>3 DEF Among
  <1> HIDE DEF len
  <1>5. ASSUME Bad # {} PROVE FALSE
    <2>1. PICK n \in Bad : \A j \in Bad : n <= j
      <3>1. Bad \subseteq Nat
        BY <1>1
      <3> HIDE DEF Bad
      <3> QED BY <1>5, <3>1, NatMin
    <2>2. n \in 0..len /\ n \in Nat
      BY <1>1
    <2>3. n # 0
      <3>1. CASE n = 0
        <4>1. f[n] = <<>> /\ <<>> \in Seq(Nat) /\ Points(<<>>) = {} /\ Kept(n) = {}
          BY <1>4, <2>2, <3>1, EmptySeq DEF Points
        <4> QED BY <4>1
      <3> QED BY <3>1
    <2>4. n - 1 \in 0..len /\ ~(n <= n - 1) /\ n \in 1..len
      BY <1>1, <2>2, <2>3
    <2>5. f[n - 1] \in Seq(Nat) /\ Points(f[n - 1]) = Kept(n - 1)
      <3>1. n - 1 \notin Bad
        <4> HIDE DEF Bad
        <4> QED BY <2>1, <2>4
      <3> HIDE DEF Kept
      <3> QED BY <2>4, <3>1
    <2> DEFINE p == points[n]
    <2>6. p \in Nat
      BY <1>1, <2>4
    <2>7. Kept(n) = IF p > since THEN Kept(n - 1) \cup {p} ELSE Kept(n - 1)
      <3>1. \A i : i \in 1..n <=> i \in 1..(n - 1) \/ i = n
        BY <2>2, <2>3
      <3> QED BY <3>1
    <2>8. f[n] = IF p > since THEN Append(f[n - 1], p) ELSE f[n - 1]
      BY <1>4, <2>3, <2>4
    <2> HIDE DEF p, Kept
    <2>9. f[n] \in Seq(Nat) /\ Points(f[n]) = Kept(n)
      <3>1. Append(f[n - 1], p) \in Seq(Nat)
            /\ Points(Append(f[n - 1], p)) = Points(f[n - 1]) \cup {p}
        BY <2>5, <2>6, PointsAre
      <3> QED BY <2>5, <2>7, <2>8, <3>1
    <2> QED BY <2>1, <2>9
  <1>6. f[len] \in Seq(Nat) /\ Points(f[len]) = Kept(len)
    <2>1. len \in 0..len
      BY <1>1
    <2> HIDE DEF Kept
    <2> QED BY <1>5, <2>1
  <1>7. Kept(len) = {q \in Points(points) : q > since}
    <2>1. DOMAIN points = 1..len
      BY LenProperties DEF len
    <2> QED BY <2>1 DEF Points
  <1> HIDE DEF Kept
  <1> QED BY <1>2, <1>6, <1>7

\* A store of positions, whatever the order of its other stations.
StoreFits(store) ==
    /\ store \in [pool: [Stations -> {"none", "participant", "other"}], order: {store.order},
                  trail: [Stations -> Seq(Nat)], seq: Nat, birth: Nat]
    /\ \A s \in Stations :
          /\ store.pool[s] = "none" => store.trail[s] = <<>>
          /\ Points(store.trail[s]) \subseteq 1..store.seq

\* What becomes of a store: it forgets points, and new ones have new numbers.
Grows(store, new) ==
    /\ StoreFits(new)
    /\ new.birth = store.birth /\ new.seq >= store.seq
    /\ \A s \in Stations, q \in Nat :
          q \in Points(new.trail[s]) => q \in Points(store.trail[s]) \/ q > store.seq

LEMMA EmptyFits ==
    ASSUME NEW birth \in Nat
    PROVE  StoreFits(EmptyStore(birth)) /\ EmptyStore(birth).birth = birth
           /\ EmptyStore(birth).seq = 0
  <1>1. <<>> \in Seq(Nat)
    BY EmptySeq
  <1> QED BY <1>1 DEF EmptyStore, StoreFits, Points

\* A point more.
LEMMA AddPointGrows ==
    ASSUME NEW store, StoreFits(store), NEW s \in Stations, NEW kind \in {"participant", "other"}
    PROVE  Grows(store, AddPoint(store, s, kind))
  <1> DEFINE pool == PoolOf(store, s, kind)
             rest == SelectSeq(store.order, LAMBDA x : x # s)
             order == IF pool = "other" THEN Append(rest, s) ELSE rest
             full == Len(order) > MaxOthers
             gone == IF full THEN {Head(order)} ELSE {}
             seq == store.seq + 1
             left0 == IF full THEN Tail(order) ELSE order
             pools == [x \in Stations |-> IF x \in gone THEN "none" ELSE IF x = s THEN pool
                                          ELSE store.pool[x]]
             trails == [x \in Stations |-> IF x \in gone THEN <<>>
                                           ELSE IF x = s THEN Bounded(Append(store.trail[x], seq))
                                           ELSE store.trail[x]]
             new == [store EXCEPT !.seq = seq, !.order = left0, !.pool = pools, !.trail = trails]
  <1>1. AddPoint(store, s, kind) = new
    BY DEF AddPoint
  <1> HIDE DEF left0, gone
  <1>2. pool \in {"participant", "other"}
    BY DEF PoolOf
  <1> HIDE DEF pool
  <1>3. seq \in Nat /\ store.seq \in Nat /\ seq > store.seq
    BY DEF StoreFits
  <1>4. ASSUME NEW x \in Stations
        PROVE  /\ store.trail[x] \in Seq(Nat)
               /\ Bounded(Append(store.trail[x], seq)) \in Seq(Nat)
               /\ Points(Bounded(Append(store.trail[x], seq))) \subseteq Points(store.trail[x]) \cup {seq}
    <2> DEFINE old == store.trail[x]
               long == Append(old, seq)
    <2>1. old \in Seq(Nat)
      BY DEF StoreFits
    <2> HIDE DEF old, seq
    <2>2. long \in Seq(Nat) /\ Points(long) = Points(old) \cup {seq} /\ long # <<>>
      BY <1>3, <2>1, PointsAre, AppendProperties
    <2> HIDE DEF long
    <2>3. Tail(long) \in Seq(Nat) /\ Points(Tail(long)) \subseteq Points(long)
      BY <2>2, PointsAre
    <2>4. Bounded(long) \in Seq(Nat) /\ Points(Bounded(long)) \subseteq Points(long)
      BY <2>2, <2>3 DEF Bounded
    <2> QED BY <2>1, <2>2, <2>4 DEF long, old
  <1>5. pools \in [Stations -> {"none", "participant", "other"}]
    BY <1>2 DEF StoreFits
  <1>6. trails \in [Stations -> Seq(Nat)]
    <2> HIDE DEF seq
    <2>1. <<>> \in Seq(Nat)
      BY EmptySeq
    <2> QED BY <1>4, <2>1
  <1>7. ASSUME NEW x \in Stations
        PROVE  /\ pools[x] = "none" => trails[x] = <<>>
               /\ Points(trails[x]) \subseteq Points(store.trail[x]) \cup {seq}
               /\ Points(store.trail[x]) \subseteq 1..store.seq
    <2> HIDE DEF seq
    <2>1. /\ pools[x] = IF x \in gone THEN "none" ELSE IF x = s THEN pool ELSE store.pool[x]
          /\ trails[x] = IF x \in gone THEN <<>>
                         ELSE IF x = s THEN Bounded(Append(store.trail[x], seq)) ELSE store.trail[x]
      OBVIOUS
    <2>2. store.pool[x] = "none" => store.trail[x] = <<>>
      BY DEF StoreFits
    <2>3. Points(<<>>) = {}
      BY DEF Points
    <2>4. Points(store.trail[x]) \subseteq 1..store.seq
      BY DEF StoreFits
    <2> HIDE DEF pools, trails
    <2> QED BY <1>2, <1>4, <2>1, <2>2, <2>3, <2>4
  <1> HIDE DEF pools, trails, seq
  <1>8. /\ new.pool = pools /\ new.trail = trails /\ new.seq = seq /\ new.birth = store.birth
        /\ new \in [pool: [Stations -> {"none", "participant", "other"}], order: {new.order},
                    trail: [Stations -> Seq(Nat)], seq: Nat, birth: Nat]
    BY <1>3, <1>5, <1>6 DEF StoreFits
  <1> HIDE DEF new
  <1>9. StoreFits(new)
    <2>1. ASSUME NEW x \in Stations PROVE Points(new.trail[x]) \subseteq 1..new.seq
      <3>1. \A q \in Points(new.trail[x]) : q \in 1..store.seq \/ q = seq
        BY <1>7, <1>8
      <3> QED BY <1>3, <1>8, <3>1 DEF seq
    <2> QED BY <1>7, <1>8, <2>1 DEF StoreFits
  <1>10. \A x \in Stations, q \in Nat :
            q \in Points(new.trail[x]) => q \in Points(store.trail[x]) \/ q > store.seq
    BY <1>3, <1>7, <1>8
  <1> QED BY <1>1, <1>3, <1>8, <1>9, <1>10 DEF Grows

\* The other stations go.
LEMMA DropOthersGrows ==
    ASSUME NEW store, StoreFits(store)
    PROVE  Grows(store, DropOthers(store)) /\ Grows(store, store)
  <1> DEFINE kept == {x \in Stations : store.pool[x] = "participant"}
             pools == [x \in Stations |-> IF x \in kept THEN store.pool[x] ELSE "none"]
             trails == [x \in Stations |-> IF x \in kept THEN store.trail[x] ELSE <<>>]
             new == [store EXCEPT !.order = <<>>, !.pool = pools, !.trail = trails]
  <1>1. DropOthers(store) = new
    BY DEF DropOthers
  <1>2. pools \in [Stations -> {"none", "participant", "other"}]
    BY DEF StoreFits
  <1>3. trails \in [Stations -> Seq(Nat)]
    <2>1. <<>> \in Seq(Nat)
      BY EmptySeq
    <2> QED BY <2>1 DEF StoreFits
  <1>4. \A x \in Stations : /\ pools[x] = "none" => trails[x] = <<>>
                            /\ trails[x] = store.trail[x] \/ trails[x] = <<>>
    OBVIOUS
  <1> HIDE DEF pools, trails
  <1>5. /\ new.pool = pools /\ new.trail = trails /\ new.seq = store.seq
        /\ new.birth = store.birth /\ store.seq \in Nat
        /\ new \in [pool: [Stations -> {"none", "participant", "other"}], order: {new.order},
                    trail: [Stations -> Seq(Nat)], seq: Nat, birth: Nat]
    BY <1>2, <1>3 DEF StoreFits
  <1> HIDE DEF new
  <1>6. \A x \in Stations : Points(new.trail[x]) \subseteq Points(store.trail[x])
    BY <1>4, <1>5 DEF Points
  <1>7. StoreFits(new)
    BY <1>4, <1>5, <1>6 DEF StoreFits
  <1>8. Grows(store, store)
    BY <1>5 DEF Grows
  <1>9. Grows(store, new)
    <2>1. new.birth = store.birth /\ new.seq >= store.seq
      BY <1>5
    <2>2. \A x \in Stations, q \in Nat :
             q \in Points(new.trail[x]) => q \in Points(store.trail[x]) \/ q > store.seq
      BY <1>6
    <2> QED BY <1>7, <2>1, <2>2, Zenon DEF Grows
  <1> QED BY <1>1, <1>8, <1>9

\* An answer under way tells of all points up to its number that the store
\* still has and that were asked for, and of every station that has one.
Tells(u, store) ==
    /\ u.latest <= store.seq
    /\ \A s \in Stations, q \in Nat :
          q \in Points(store.trail[s]) /\ q <= u.latest =>
              u.trails[s] # None /\ (q > u.since => q \in Points(u.trails[s]))

AnswerRight(u) ==
    /\ u.since \in Nat /\ u.latest \in Nat /\ u.birth \in Nat /\ u.trails \in Trails
    /\ u.birth <= births
    /\ u.birth = 0 => u.latest = 0
    /\ \A s \in Stations :
          u.trails[s] # None => \A q \in Points(u.trails[s]) : q <= u.latest
    /\ current # None /\ u.birth = stores[current].birth => Tells(u, stores[current])

StoresRight ==
    /\ births \in Nat /\ DOMAIN stores = Clients
    /\ \A c \in Clients : StoreFits(stores[c]) /\ stores[c].birth <= births
    /\ current # None => stores[current].birth > 0

PollsRight ==
    /\ DOMAIN mapPolls = MapPolls
    /\ \A k \in MapPolls : /\ mapPolls[k].at = "asked" => mapPolls[k].since \in Nat
                           /\ mapPolls[k].at = "answered" => AnswerRight(mapPolls[k])

\* TrailsComplete, with the cursor behind the store's number.
Complete ==
    inOrder /\ current # None /\ shownBirth = stores[current].birth =>
        /\ map.since <= stores[current].seq
        /\ \A s \in Stations, q \in Nat :
              q \in Points(stores[current].trail[s]) /\ q <= map.since => q \in Points(Shown(s))

MapRight ==
    /\ map \in [trails: Trails, since: Nat]
    /\ inOrder \in BOOLEAN
    /\ shownBirth \in Nat /\ shownBirth <= births
    /\ \A s \in Stations : \A q \in Points(Shown(s)) : q <= map.since
    /\ inOrder /\ shownBirth = 0 => map.since = 0

MapInv == StoresRight /\ PollsRight /\ MapRight /\ Complete

LEMMA ShownIs ==
    ASSUME map.trails \in Trails, NEW s \in Stations
    PROVE  Shown(s) \in Seq(Nat) /\ LastPoint(s) \in Nat
           /\ (Shown(s) # <<>> => LastPoint(s) \in Points(Shown(s)))
           /\ (Shown(s) = <<>> => LastPoint(s) = 0)
  <1>1. Shown(s) \in Seq(Nat)
    <2>1. <<>> \in Seq(Nat)
      BY EmptySeq
    <2> QED BY <2>1 DEF Shown, Trails
  <1> DEFINE t == Shown(s)
  <1>2. t \in Seq(Nat)
    BY <1>1
  <1> HIDE DEF t
  <1>3. t # <<>> => t[Len(t)] \in Points(t) /\ t[Len(t)] \in Nat
    <2>1. ASSUME t # <<>> PROVE Len(t) \in 1..Len(t) /\ DOMAIN t = 1..Len(t)
      <3>1. Len(t) \in Nat /\ DOMAIN t = 1..Len(t) /\ Len(t) # 0
        BY <1>2, <2>1, EmptySeq, LenProperties
      <3> QED BY <3>1
    <2> QED BY <1>2, <2>1, ElementOfSeq DEF Points
  <1> QED BY <1>2, <1>3 DEF t, LastPoint

LEMMA MapInit == Init => MapInv
  <1> SUFFICES ASSUME Init PROVE MapInv
    OBVIOUS
  <1>1. StoresRight
    BY EmptyFits DEF Init, AprsInit, StoresRight
  <1>2. PollsRight
    BY DEF Init, PollsRight, Idle
  <1>3. MapRight /\ Complete
    <2>1. \A s \in Stations : Shown(s) = <<>>
      BY DEF Init, Shown, Nowhere
    <2>2. Points(<<>>) = {}
      BY DEF Points
    <2>3. map \in [trails: Trails, since: Nat] /\ map.since = 0
      BY DEF Init, Nowhere, Trails
    <2>4. current = None /\ births = 0 /\ shownBirth = 0 /\ inOrder = TRUE
      BY DEF Init, AprsInit
    <2> QED BY <2>1, <2>2, <2>3, <2>4 DEF MapRight, Complete
  <1> QED BY <1>1, <1>2, <1>3 DEF MapInv

\* A store that grows does not make an answer or the map incomplete.
LEMMA StoreGrown ==
    ASSUME Typed, MapInv, NEW c \in Clients, NEW new, Grows(stores[c], new),
           stores' = [stores EXCEPT ![c] = new], UNCHANGED <<current, births, mapVars>>
    PROVE  MapInv'
  <1>1. stores'[c] = new /\ DOMAIN stores' = Clients
        /\ \A d \in Clients : d # c => stores'[d] = stores[d]
    BY DEF MapInv, StoresRight
  <1>2. \A d \in Clients : Grows(stores[d], stores'[d])
    BY <1>1, DropOthersGrows DEF MapInv, StoresRight
  <1>3. current # None => current \in Clients
    BY DEF Typed
  <1>4. StoresRight'
    BY <1>1, <1>2, <1>3 DEF MapInv, StoresRight, Grows
  <1>5. current # None =>
           /\ stores[current].seq \in Nat /\ stores'[current].seq \in Nat
           /\ stores'[current].seq >= stores[current].seq
           /\ stores'[current].birth = stores[current].birth
           /\ \A s \in Stations, q \in Nat :
                 q \in Points(stores'[current].trail[s]) =>
                     q \in Points(stores[current].trail[s]) \/ q > stores[current].seq
    BY <1>2, <1>3 DEF Grows, StoreFits, MapInv, StoresRight
  <1>6. ASSUME NEW u, AnswerRight(u) PROVE AnswerRight(u)'
    <2>1. ASSUME current # None, u.birth = stores[current].birth
          PROVE  Tells(u, stores[current])'
      <3>1. Tells(u, stores[current]) /\ u.latest \in Nat
        BY <1>6, <2>1 DEF AnswerRight
      <3>2. u.latest <= stores'[current].seq
        BY <1>5, <2>1, <3>1 DEF Tells
      <3>3. ASSUME NEW s \in Stations, NEW q \in Nat,
                   q \in Points(stores'[current].trail[s]), q <= u.latest
            PROVE  u.trails[s] # None /\ (q > u.since => q \in Points(u.trails[s]))
        <4>1. ~(q > stores[current].seq)
          BY <1>5, <2>1, <3>1, <3>3 DEF Tells
        <4>2. q \in Points(stores[current].trail[s])
          BY <1>5, <2>1, <3>3, <4>1
        <4> QED BY <3>1, <3>3, <4>2 DEF Tells
      <3> QED BY <3>2, <3>3 DEF Tells
    <2> QED BY <1>5, <1>6, <2>1 DEF AnswerRight
  <1>7. PollsRight'
    BY <1>6 DEF MapInv, PollsRight, mapVars
  <1>8. MapRight'
    BY DEF MapInv, MapRight, mapVars, Shown
  <1>9. Complete'
    <2> SUFFICES ASSUME inOrder, current # None, shownBirth = stores[current].birth
                 PROVE  /\ map.since <= stores'[current].seq
                        /\ \A s \in Stations, q \in Nat :
                              q \in Points(stores'[current].trail[s]) /\ q <= map.since
                                  => q \in Points(Shown(s))
      BY <1>5 DEF Complete, mapVars, Shown
    <2>1. map.since \in Nat /\ map.since <= stores[current].seq
      BY DEF MapInv, MapRight, Complete
    <2>2. ASSUME NEW s \in Stations, NEW q \in Nat,
                 q \in Points(stores'[current].trail[s]), q <= map.since
          PROVE  q \in Points(Shown(s))
      <3>1. ~(q > stores[current].seq)
        BY <1>5, <2>1, <2>2
      <3>2. q \in Points(stores[current].trail[s])
        BY <1>5, <2>2, <3>1
      <3> QED BY <2>2, <3>2 DEF MapInv, Complete
    <2> QED BY <1>5, <2>1, <2>2
  <1> QED BY <1>4, <1>7, <1>8, <1>9 DEF MapInv

\* A new store takes the place of the old one: nothing that is shown or under
\* way is of it.
LEMMA StoreBorn ==
    ASSUME Typed, MapInv, NEW c \in Clients, births' = births + 1,
           stores' = [stores EXCEPT ![c] = EmptyStore(births + 1)], current' = c,
           UNCHANGED mapVars
    PROVE  MapInv'
  <1>1. births \in Nat /\ births' \in Nat /\ births' > births
    BY DEF MapInv, StoresRight
  <1>2. StoreFits(EmptyStore(births + 1)) /\ EmptyStore(births + 1).birth = births + 1
    BY <1>1, EmptyFits
  <1>3. stores'[c] = EmptyStore(births + 1) /\ DOMAIN stores' = Clients
        /\ \A d \in Clients : d # c => stores'[d] = stores[d]
    BY DEF MapInv, StoresRight
  <1>a. \A d \in Clients : stores[d].birth \in Nat /\ stores[d].birth <= births
                           /\ StoreFits(stores[d])
    BY DEF MapInv, StoresRight, StoreFits
  <1> HIDE DEF EmptyStore
  <1>4. StoresRight'
    BY <1>1, <1>2, <1>3, <1>a DEF StoresRight
  <1>5. stores'[current'].birth = births'
    BY <1>2, <1>3
  <1>6. PollsRight'
    <2>1. ASSUME NEW u, AnswerRight(u) PROVE AnswerRight(u)'
      <3>1. u.birth \in Nat /\ u.birth <= births
        BY <2>1 DEF AnswerRight
      <3>2. u.birth # stores'[current'].birth /\ u.birth <= births'
        BY <1>1, <1>5, <3>1
      <3> QED BY <2>1, <3>2 DEF AnswerRight
    <2> QED BY <2>1 DEF MapInv, PollsRight, mapVars
  <1>7. MapRight' /\ shownBirth' # stores'[current'].birth
    BY <1>1, <1>5 DEF MapInv, MapRight, mapVars, Shown
  <1>8. Complete'
    BY <1>7 DEF Complete
  <1> QED BY <1>4, <1>6, <1>7, <1>8 DEF MapInv

\* There is no store any more.
LEMMA StoreGone ==
    ASSUME MapInv, UNCHANGED <<stores, births, mapVars>>, current' = None \/ current' = current
    PROVE  MapInv'
  <1>1. StoresRight'
    BY DEF MapInv, StoresRight
  <1>2. PollsRight'
    <2>1. ASSUME NEW u, AnswerRight(u) PROVE AnswerRight(u)'
      BY <2>1 DEF AnswerRight
    <2> QED BY <2>1 DEF MapInv, PollsRight, mapVars
  <1>3. MapRight' /\ Complete'
    BY DEF MapInv, MapRight, Complete, mapVars, Shown
  <1> QED BY <1>1, <1>2, <1>3 DEF MapInv

\* The client and its manager: a store grows, is replaced or goes.
LEMMA ClientKeepsMap ==
    ASSUME Typed, MapInv, AprsNext, UNCHANGED mapVars
    PROVE  MapInv'
  <1>1. ASSUME NEW d, StartClient(d) PROVE MapInv'
    BY <1>1, StoreBorn DEF StartClient
  <1>2. ASSUME UNCHANGED <<stores, current, births>> PROVE MapInv'
    BY <1>2, StoreGone
  <1>3. CASE Activate \/ Reopen
    BY <1>1, <1>2, <1>3 DEF Activate, Reopen, Start, ManagerSame
  <1>4. CASE Close \/ Delete \/ Shutdown
    BY <1>2, <1>4 DEF Close, Delete, Shutdown, Stop
  <1>5. ASSUME NEW b, NEW o, UpdateEvent(b, o) PROVE MapInv'
    BY <1>1, <1>2, <1>5 DEF UpdateEvent
  <1>6. ASSUME NEW i, NEW row, EditPosts(i, row) PROVE MapInv'
    BY <1>2, <1>6 DEF EditPosts
  <1>7. ASSUME NEW s, CheckIn(s) PROVE MapInv'
    BY <1>2, <1>7 DEF CheckIn
  <1>8. CASE Restart
    <2>1. CASE status = "active"
      BY <1>8, <2>1, StoreBorn DEF Restart
    <2>2. CASE status # "active"
      BY <1>8, <2>2, StoreGone DEF Restart
    <2> QED BY <2>1, <2>2
  <1>9. ASSUME NEW c \in Clients, Step(c) PROVE MapInv'
    <2>1. CASE Resume(c)
      <3> DEFINE new == IF clients[c].spec.others THEN stores[c] ELSE DropOthers(stores[c])
      <3>1. stores' = [stores EXCEPT ![c] = new] /\ UNCHANGED <<current, births>>
        BY <2>1 DEF Resume, Elsewhere
      <3>2. Grows(stores[c], new)
        BY DropOthersGrows DEF MapInv, StoresRight
      <3> HIDE DEF new
      <3> QED BY <3>1, <3>2, StoreGrown
    <2>2. CASE ~Resume(c)
      <3>1. UNCHANGED <<stores, current, births>>
        BY <1>9, <2>2 DEF Step, Connect, Login, Fail, WakeUp, Refresh, SendKill, SendLive, SendDone,
                          EndLoop, KillOne, KillDone, ByClient, Elsewhere
      <3> QED BY <1>2, <3>1
    <2> QED BY <2>1, <2>2
  <1>10. ASSUME NEW c \in Clients, BeaconTime(c) \/ BreakLink(c) PROVE MapInv'
    BY <1>2, <1>10 DEF BeaconTime, BreakLink, ByClient, Elsewhere
  <1>11. ASSUME NEW c \in Clients, NEW s \in Stations, Hear(c, s) PROVE MapInv'
    <2> DEFINE kind == IF s \in clients[c].spec.calls THEN "participant" ELSE "other"
               new == AddPoint(stores[c], s, kind)
    <2>1. stores' = [stores EXCEPT ![c] = new] /\ UNCHANGED <<current, births>>
      BY <1>11 DEF Hear, Elsewhere
    <2>2. kind \in {"participant", "other"}
      OBVIOUS
    <2> HIDE DEF kind
    <2>3. Grows(stores[c], new)
      BY <2>2, AddPointGrows DEF MapInv, StoresRight
    <2> HIDE DEF new
    <2> QED BY <2>1, <2>3, StoreGrown
  <1> QED
    BY <1>3, <1>4, <1>5, <1>6, <1>7, <1>8, <1>9, <1>10, <1>11
       DEF AprsNext, CreatePost, UpdatePost, DeletePost

\* The store answers a poll.
LEMMA MapAnswered ==
    ASSUME Typed, MapInv, NEW k \in MapPolls, AnswerMap(k)
    PROVE  MapInv'
  <1> DEFINE store == IF current = None THEN EmptyStore(0) ELSE stores[current]
             since == mapPolls[k].since
             u == [at |-> "answered", since |-> since, latest |-> store.seq,
                   birth |-> store.birth, trails |-> Snapshot(store, since)]
  <1>1. /\ mapPolls' = [mapPolls EXCEPT ![k] = u]
        /\ UNCHANGED <<map, inOrder, shownBirth, stores, current, births>>
        /\ since \in Nat
    BY DEF AnswerMap, MapSame, aprsVars, MapInv, PollsRight
  <1>2. StoreFits(store) /\ store.birth <= births /\ (store.birth = 0 => store.seq = 0)
        /\ (current # None => store = stores[current])
    <2>1. CASE current = None
      <3>1. StoreFits(EmptyStore(0)) /\ EmptyStore(0).birth = 0 /\ EmptyStore(0).seq = 0
        BY EmptyFits
      <3> HIDE DEF EmptyStore
      <3>2. 0 <= births
        BY DEF MapInv, StoresRight
      <3> QED BY <2>1, <3>1, <3>2
    <2>2. CASE current # None
      <3>1. current \in Clients
        BY <2>2 DEF Typed
      <3> QED BY <2>2, <3>1 DEF MapInv, StoresRight
    <2> QED BY <2>1, <2>2
  <1> HIDE DEF store, since
  <1>3. store.seq \in Nat /\ store.birth \in Nat
        /\ \A s \in Stations : store.trail[s] \in Seq(Nat)
    BY <1>2 DEF StoreFits
  <1>4. ASSUME NEW s \in Stations
        PROVE  /\ After(store.trail[s], since) \in Seq(Nat)
               /\ Points(After(store.trail[s], since)) = {q \in Points(store.trail[s]) : q > since}
    BY <1>1, <1>3, AfterIs
  <1>5. ASSUME NEW s \in Stations
        PROVE  u.trails[s] = IF store.pool[s] = "none" THEN None ELSE After(store.trail[s], since)
    BY DEF Snapshot
  <1>6. u.trails \in Trails
    <2>1. u.trails = Snapshot(store, since)
      OBVIOUS
    <2> QED BY <1>4, <2>1 DEF Snapshot, Trails
  <1>7. u.at = "answered" /\ u.since = since /\ u.latest = store.seq /\ u.birth = store.birth
    OBVIOUS
  <1> HIDE DEF u
  <1>8. \A s \in Stations : u.trails[s] # None => \A q \in Points(u.trails[s]) : q <= u.latest
    <2>1. ASSUME NEW s \in Stations, u.trails[s] # None, NEW q \in Points(u.trails[s])
          PROVE  q <= u.latest
      <3>1. q \in Points(store.trail[s])
        BY <1>4, <1>5, <2>1
      <3>2. q \in 1..store.seq
        BY <1>2, <3>1 DEF StoreFits
      <3> QED BY <1>3, <1>7, <3>2
    <2> QED BY <2>1
  <1>9. Tells(u, store)
    <2>1. ASSUME NEW s \in Stations, NEW q \in Nat, q \in Points(store.trail[s])
          PROVE  u.trails[s] # None /\ (q > u.since => q \in Points(u.trails[s]))
      <3>1. store.trail[s] # <<>>
        BY <2>1 DEF Points
      <3>2. store.pool[s] # "none"
        BY <1>2, <3>1 DEF StoreFits
      <3>3. u.trails[s] = After(store.trail[s], since)
        BY <1>5, <3>2
      <3>4. u.trails[s] # None
        BY <1>4, <3>3, NoTrailAssumption
      <3> QED BY <1>4, <1>7, <2>1, <3>3, <3>4
    <2> QED BY <1>3, <1>7, <2>1 DEF Tells
  <1>10. AnswerRight(u)
    BY <1>1, <1>2, <1>3, <1>6, <1>7, <1>8, <1>9 DEF AnswerRight
  <1>11. PollsRight'
    <2>1. \A v : AnswerRight(v) => AnswerRight(v)'
      BY <1>1 DEF AnswerRight
    <2> QED BY <1>1, <1>7, <1>10, <2>1 DEF MapInv, PollsRight
  <1>12. StoresRight' /\ MapRight' /\ Complete'
    BY <1>1 DEF MapInv, StoresRight, MapRight, Complete, Shown
  <1> QED BY <1>11, <1>12 DEF MapInv

\* A trail on the map with the points of an answer.
LEMMA ExtendedIs ==
    ASSUME map.trails \in Trails, NEW s \in Stations, NEW t \in Seq(Nat)
    PROVE  /\ Extended(s, t) \in Seq(Nat)
           /\ Points(Extended(s, t)) = Points(Shown(s)) \cup {q \in Points(t) : q > LastPoint(s)}
  <1>1. Shown(s) \in Seq(Nat) /\ LastPoint(s) \in Nat
    BY ShownIs
  <1> DEFINE old == Shown(s)
             last == LastPoint(s)
             more == After(t, last)
  <1>2. more \in Seq(Nat) /\ Points(more) = {q \in Points(t) : q > last}
    BY <1>1, AfterIs
  <1>3. Extended(s, t) = old \o more
    BY DEF Extended
  <1>4. old \in Seq(Nat)
    BY <1>1
  <1> HIDE DEF old, more
  <1>5. old \o more \in Seq(Nat) /\ Points(old \o more) = Points(old) \cup Points(more)
    BY <1>2, <1>4, PointsJoin
  <1> QED BY <1>2, <1>3, <1>5 DEF old

\* An answer is merged.
LEMMA MapMerged ==
    ASSUME Typed, MapInv, NEW k \in MapPolls, MergeMap(k)
    PROVE  MapInv'
  <1> DEFINE u == mapPolls[k]
             new == [s \in Stations |-> IF u.trails[s] = None THEN None ELSE Extended(s, u.trails[s])]
  <1>1. /\ map' = [trails |-> new, since |-> Larger(map.since, u.latest)]
        /\ inOrder' = (inOrder /\ u.since <= map.since /\ map.since <= u.latest
                       /\ shownBirth \in {0, u.birth})
        /\ shownBirth' = u.birth
        /\ mapPolls' = [mapPolls EXCEPT ![k] = Idle]
        /\ UNCHANGED <<stores, current, births>>
    BY DEF MergeMap, MapSame, aprsVars
  <1>2. AnswerRight(u)
    BY DEF MergeMap, MapInv, PollsRight
  <1> HIDE DEF u
  <1>3. map.trails \in Trails /\ map.since \in Nat
    BY DEF MapInv, MapRight
  <1>4. ASSUME NEW s \in Stations, u.trails[s] # None
        PROVE  /\ Extended(s, u.trails[s]) \in Seq(Nat)
               /\ Points(Extended(s, u.trails[s]))
                    = Points(Shown(s)) \cup {q \in Points(u.trails[s]) : q > LastPoint(s)}
    <2>1. u.trails[s] \in Seq(Nat)
      BY <1>2, <1>4 DEF AnswerRight, Trails
    <2> QED BY <1>3, <2>1, ExtendedIs
  <1>5. new \in Trails
    BY <1>4 DEF Trails
  <1>6. ASSUME NEW s \in Stations
        PROVE  Shown(s)' = IF u.trails[s] = None THEN <<>> ELSE Extended(s, u.trails[s])
    <2>1. map'.trails[s] = IF u.trails[s] = None THEN None ELSE Extended(s, u.trails[s])
      BY <1>1
    <2> QED BY <1>4, <2>1, NoTrailAssumption DEF Shown
  <1> HIDE DEF new
  <1>7. /\ map'.since = Larger(map.since, u.latest) /\ map'.since \in Nat
        /\ map.since <= map'.since /\ u.latest <= map'.since
        /\ map' \in [trails: Trails, since: Nat]
    BY <1>1, <1>2, <1>3, <1>5 DEF Larger, AnswerRight
  <1>8. ASSUME NEW s \in Stations, NEW q \in Points(Shown(s))' PROVE q <= map'.since
    <2>1. u.trails[s] # None
      BY <1>6, <1>8 DEF Points
    <2>2. q \in Points(Shown(s)) \/ q \in Points(u.trails[s])
      BY <1>4, <1>6, <1>8, <2>1 DEF Points
    <2>3. q \in Nat /\ (q <= map.since \/ q <= u.latest)
      <3>1. Points(Shown(s)) \subseteq Nat
        BY <1>3, ShownIs, PointsAre
      <3>2. Points(u.trails[s]) \subseteq Nat
        <4>1. u.trails[s] \in Seq(Nat)
          BY <1>2, <2>1 DEF AnswerRight, Trails
        <4> QED BY <4>1, PointsAre
      <3> QED BY <1>2, <2>1, <2>2, <3>1, <3>2 DEF MapInv, MapRight, AnswerRight
    <2> QED BY <1>2, <1>3, <1>7, <2>3 DEF AnswerRight
  <1>9. MapRight'
    <2>1. ASSUME inOrder', shownBirth' = 0 PROVE map'.since = 0
      <3>1. map.since <= u.latest /\ u.birth = 0
        BY <1>1, <2>1
      <3>2. u.latest = 0
        BY <1>2, <3>1 DEF AnswerRight
      <3> QED BY <1>3, <1>7, <3>1, <3>2 DEF Larger
    <2>2. inOrder' \in BOOLEAN
      BY <1>1
    <2>3. shownBirth' \in Nat /\ shownBirth' <= births'
      BY <1>1, <1>2 DEF AnswerRight
    <2> QED BY <1>7, <1>8, <2>1, <2>2, <2>3 DEF MapRight
  <1>10. ASSUME inOrder', current # None, u.birth = stores[current].birth
         PROVE  /\ map'.since <= stores[current].seq
                /\ \A s \in Stations, q \in Nat :
                      q \in Points(stores[current].trail[s]) /\ q <= map'.since
                          => q \in Points(Shown(s)')
    <2> DEFINE store == stores[current]
    <2>1. inOrder /\ u.since <= map.since /\ map.since <= u.latest /\ shownBirth \in {0, u.birth}
      BY <1>1, <1>10
    <2>2. Tells(u, store) /\ u.latest \in Nat /\ u.since \in Nat
      BY <1>2, <1>10 DEF AnswerRight
    <2>3. map'.since = u.latest
      BY <1>3, <1>7, <2>1, <2>2 DEF Larger
    <2>4. ASSUME NEW s \in Stations, NEW q \in Nat, q \in Points(store.trail[s]), q <= u.latest
          PROVE  q \in Points(Shown(s)')
      <3>1. u.trails[s] # None /\ (q > u.since => q \in Points(u.trails[s]))
        BY <2>2, <2>4 DEF Tells
      <3>2. Shown(s)' = Extended(s, u.trails[s])
        BY <1>6, <3>1
      <3>3. Points(Shown(s)') = Points(Shown(s)) \cup {x \in Points(u.trails[s]) : x > LastPoint(s)}
        BY <1>4, <3>1, <3>2
      <3>4. CASE q <= map.since
        <4>1. q # 0
          <5>1. current \in Clients
            BY <1>10 DEF Typed
          <5>2. q \in 1..store.seq
            BY <2>4, <5>1 DEF MapInv, StoresRight, StoreFits
          <5> QED BY <5>2
        <4>2. shownBirth = u.birth
          BY <1>3, <2>1, <3>4, <4>1 DEF MapInv, MapRight
        <4>3. q \in Points(Shown(s))
          BY <1>10, <2>1, <2>4, <3>4, <4>2 DEF MapInv, Complete
        <4> QED BY <3>3, <4>3
      <3>5. CASE ~(q <= map.since)
        <4>1. q > u.since
          BY <1>3, <2>1, <2>2, <3>5
        <4>2. q \in Points(u.trails[s])
          BY <3>1, <4>1
        <4>3. LastPoint(s) \in Nat /\ LastPoint(s) <= map.since
          <5>1. LastPoint(s) \in Nat
                /\ (Shown(s) # <<>> => LastPoint(s) \in Points(Shown(s)))
                /\ (Shown(s) = <<>> => LastPoint(s) = 0)
            BY <1>3, ShownIs
          <5> QED BY <1>3, <5>1 DEF MapInv, MapRight
        <4>4. q > LastPoint(s)
          BY <1>3, <3>5, <4>3
        <4> QED BY <3>3, <4>2, <4>4
      <3> QED BY <3>4, <3>5
    <2>5. u.latest <= store.seq
      BY <2>2 DEF Tells
    <2> QED BY <2>3, <2>4, <2>5
  <1>11. Complete'
    BY <1>1, <1>10 DEF Complete, Points
  <1>12. PollsRight'
    <2>1. \A v : AnswerRight(v) => AnswerRight(v)'
      BY <1>1 DEF AnswerRight
    <2> QED BY <1>1, <2>1 DEF MapInv, PollsRight, Idle
  <1>13. StoresRight'
    BY <1>1 DEF MapInv, StoresRight
  <1> QED BY <1>9, <1>11, <1>12, <1>13 DEF MapInv

\* The types are kept by themselves.
LEMMA TypedStep == Typed /\ [Next]_vars => Typed'
  <1> SUFFICES ASSUME Typed, [Next]_vars PROVE Typed'
    OBVIOUS
  <1>1. CASE UNCHANGED aprsVars
    BY <1>1 DEF aprsVars, airVars, eventVars, Typed
  <1>2. CASE AprsNext
    BY <1>2, StepTyped, RequestTyped DEF AprsNext
  <1> QED BY <1>1, <1>2, PageReads DEF Next, vars

\* Every step of a page or of a client.
LEMMA MapStep ==
    ASSUME Typed, MapInv, [Next]_vars
    PROVE  MapInv'
  <1>a. \A v : UNCHANGED <<stores, current, births>> => (AnswerRight(v) => AnswerRight(v)')
    BY DEF AnswerRight
  <1>1. CASE AprsNext /\ UNCHANGED <<logVars, mapVars>>
    BY <1>1, ClientKeepsMap
  <1>2. CASE UNCHANGED <<aprsVars, mapVars>>
    BY <1>2, StoreGone DEF aprsVars
  <1>3. ASSUME NEW k \in MapPolls, OpenMap(k) PROVE MapInv'
    <2>1. /\ map' = [trails |-> Nowhere, since |-> 0] /\ shownBirth' = 0
          /\ mapPolls' = [mapPolls EXCEPT ![k] = MapAsked(0)]
          /\ UNCHANGED <<inOrder, stores, current, births>>
      BY <1>3 DEF OpenMap, MapSame, aprsVars
    <2>2. PollsRight'
      BY <1>a, <2>1 DEF MapInv, PollsRight, MapAsked, Idle
    <2>3. \A s \in Stations : Shown(s)' = <<>>
      BY <2>1 DEF Shown, Nowhere
    <2>4. map' \in [trails: Trails, since: Nat] /\ map'.since = 0
      BY <2>1 DEF Nowhere, Trails
    <2>5. MapRight'
      BY <2>1, <2>3, <2>4 DEF MapInv, MapRight, StoresRight, Points
    <2>6. StoresRight' /\ Complete'
      BY <2>1 DEF MapInv, StoresRight, Complete
    <2> QED BY <2>2, <2>5, <2>6 DEF MapInv
  <1>4. ASSUME NEW k \in MapPolls, AskMap(k) \/ LoseMap(k) PROVE MapInv'
    <2>1. UNCHANGED <<map, shownBirth, inOrder, stores, current, births>>
      BY <1>4 DEF AskMap, LoseMap, MapSame, aprsVars
    <2>2. PollsRight'
      <3>1. CASE AskMap(k)
        <4>1. mapPolls' = [mapPolls EXCEPT ![k] = MapAsked(map.since)]
          BY <3>1 DEF AskMap
        <4>2. map.since \in Nat
          BY DEF MapInv, MapRight
        <4> QED BY <1>a, <2>1, <4>1, <4>2 DEF MapInv, PollsRight, MapAsked, Idle
      <3>2. CASE LoseMap(k)
        <4>1. mapPolls' = [mapPolls EXCEPT ![k] = [at |-> "idle"]]
          BY <3>2 DEF LoseMap, Idle
        <4> QED BY <1>a, <2>1, <4>1 DEF MapInv, PollsRight
      <3> QED BY <1>4, <3>1, <3>2
    <2>3. StoresRight' /\ MapRight' /\ Complete'
      BY <2>1 DEF MapInv, StoresRight, MapRight, Complete, Shown
    <2> QED BY <2>2, <2>3 DEF MapInv
  <1>5. ASSUME NEW k \in MapPolls, AnswerMap(k) PROVE MapInv'
    BY <1>5, MapAnswered
  <1>6. ASSUME NEW k \in MapPolls, MergeMap(k) PROVE MapInv'
    BY <1>6, MapMerged
  <1>7. ASSUME Write \/ (\E i \in 1..logged : Pin(i))
               \/ \E k \in LogPolls :
                     AskLog(k) \/ LoadRow(k) \/ AnswerLog(k) \/ MergeLog(k) \/ LoseLog(k)
        PROVE  UNCHANGED <<aprsVars, mapVars>>
    BY <1>7 DEF Write, Pin, AskLog, LoadRow, AnswerLog, MergeLog, LoseLog, AprsSame
  <1>8. CASE UNCHANGED vars
    BY <1>2, <1>8 DEF vars
  <1> QED BY <1>1, <1>2, <1>3, <1>4, <1>5, <1>6, <1>7, <1>8 DEF Next, Page

(* While answers come in order from one store, the map misses no point up to *)
(* its cursor that the store still has (useEventPositions.ts:30), for any    *)
(* number of stations, polls in flight, clients and points.                  *)
THEOREM MapShowsTrails == Spec => []TrailsComplete
  <1>1. Typed /\ MapInv => TrailsComplete
    <2> SUFFICES ASSUME Typed, MapInv, inOrder, current # None,
                        shownBirth = stores[current].birth,
                        NEW s \in Stations, NEW i \in DOMAIN stores[current].trail[s],
                        stores[current].trail[s][i] <= map.since
                 PROVE  stores[current].trail[s][i] \in Points(Shown(s))
      BY DEF TrailsComplete, Points
    <2>1. stores[current].trail[s] \in Seq(Nat)
      <3>1. current \in Clients
        BY DEF Typed
      <3> QED BY <3>1 DEF MapInv, StoresRight, StoreFits
    <2>2. /\ stores[current].trail[s][i] \in Points(stores[current].trail[s])
          /\ stores[current].trail[s][i] \in Nat
      BY <2>1, PointsAre DEF Points
    <2> QED BY <2>2 DEF MapInv, Complete
  <1>2. Init => Typed /\ MapInv
    BY TypedInit, MapInit
  <1>3. Typed /\ MapInv /\ [Next]_vars => (Typed /\ MapInv)'
    <2>1. Typed /\ [Next]_vars => Typed'
      BY TypedStep
    <2> QED BY <2>1, MapStep
  <1> QED BY <1>1, <1>2, <1>3, PTL DEF Spec
===============================================================================
