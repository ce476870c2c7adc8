---------------------------- MODULE CheckIns_proofs ----------------------------
(***************************************************************************)
(* Theorems about CheckIns, for any messages, sessions, callsigns and      *)
(* workers.  The invariant says what an import in progress holds: which    *)
(* stored messages it may still file, which check-in is the latest of each *)
(* callsign, and which check-ins its next commit deletes.                  *)
(***************************************************************************)
EXTENDS CheckIns, TLAPS

Used(i) == rows[i].state # "unused"

IdleOK(w) == jobs[w].pc = "idle" => jobs[w] = Idle

HalfOK(w) == jobs[w].half # 0 => jobs[w].half \in jobs[w].todo /\ raws[jobs[w].half] = "parsed"

ReuseOK(w) == \A m \in jobs[w].reuse : raws[m] # "none"

\* The latest check-in of a callsign is of a message before all that remain.
LatestOK(w) ==
    jobs[w].pc = "scan" =>
        \A c \in Callsigns : jobs[w].latest[c] # 0 =>
            /\ Used(jobs[w].latest[c])
            /\ rows[jobs[w].latest[c]].session = jobs[w].session
            /\ from[rows[jobs[w].latest[c]].raw] = c
            /\ \A m \in jobs[w].todo : rows[jobs[w].latest[c]].raw < m

DroppedOK(w) == \A i \in jobs[w].dropped : Used(i) /\ \E j \in Ids : LaterInstead(i, j)

MadeOK(w) ==
    jobs[w].pc = "scan" =>
        \A i \in jobs[w].made :
            /\ Used(i)
            /\ Live(i) /\ from[rows[i].raw] # None =>
                  i \in jobs[w].dropped \/ jobs[w].latest[from[rows[i].raw]] = i

\* A row is of a stored message that scans skip.
RowsOK == \A i \in Ids : Used(i) => rows[i].raw \in Times /\ raws[rows[i].raw] = "parsed"

\* A stored message that an import may still file has no check-in, and no
\* other import may file it, or it is shared.
ClaimsOK ==
    \A w \in Workers : \A m \in Claimed(w) : m \notin shared =>
        /\ \A i \in Ids : Live(i) => rows[i].raw # m
        /\ \A v \in Workers \ {w} : m \notin Claimed(v)

JobOK(w) == /\ IdleOK(w) /\ HalfOK(w) /\ ReuseOK(w)
            /\ LatestOK(w) /\ DroppedOK(w) /\ MadeOK(w)

IInv ==
    /\ TypeOK
    /\ \A w \in Workers : JobOK(w)
    /\ RowsOK
    /\ ClaimsOK
    /\ NothingLost
    /\ LatestWins
    /\ OnePerMessage

\* What no step undoes: a row keeps its session and message, and comes back to
\* life in no step; a stored message stays stored.
RowsKept ==
    \A i \in Ids : Used(i) =>
        /\ rows'[i].state # "unused"
        /\ rows'[i].session = rows[i].session
        /\ rows'[i].raw = rows[i].raw
        /\ rows'[i].state = "live" => rows[i].state = "live"

RawsKept ==
    \A m \in Times : /\ raws[m] # "none" => raws'[m] # "none"
                     /\ raws[m] = "parsed" => raws'[m] = "parsed"

------------------------------------------------------------------------------
(* What the steps of an import do to its job *)

\* A job that does nothing is a job.
LEMMA IdleTyped == Idle \in Job
  BY RowAssumption, HorizonAssumption DEF Idle, NewJob, Job, Times, Ids

\* An import's record rewritten, field by field.
LEMMA HalfSet ==
    ASSUME NEW r \in Job, NEW h \in 0..Horizon
    PROVE  /\ [r EXCEPT !.half = h, !.dropped = {}] \in Job
           /\ [r EXCEPT !.half = h, !.dropped = {}].pc = r.pc
           /\ [r EXCEPT !.half = h, !.dropped = {}].session = r.session
           /\ [r EXCEPT !.half = h, !.dropped = {}].todo = r.todo
           /\ [r EXCEPT !.half = h, !.dropped = {}].reuse = r.reuse
           /\ [r EXCEPT !.half = h, !.dropped = {}].half = h
           /\ [r EXCEPT !.half = h, !.dropped = {}].latest = r.latest
           /\ [r EXCEPT !.half = h, !.dropped = {}].dropped = {}
           /\ [r EXCEPT !.half = h, !.dropped = {}].made = r.made
  BY DEF Job

\* An import starts with nothing filed, nothing to delete, nothing half done.
LEMMA BeginEffect ==
    ASSUME TypeOK, NEW w \in Workers, NEW pc \in {"scan", "reparse"}, NEW s \in Sessions,
           NEW todo \in SUBSET Times, NEW reuse \in SUBSET Times,
           Begin(w, pc, s, todo, reuse)
    PROVE  /\ jobs' \in [Workers -> Job]
           /\ jobs'[w].pc = pc /\ jobs'[w].session = s
           /\ jobs'[w].todo = todo /\ jobs'[w].reuse = reuse
           /\ jobs'[w].half = 0 /\ jobs'[w].latest = [c \in Callsigns |-> 0]
           /\ jobs'[w].dropped = {} /\ jobs'[w].made = {}
           /\ \A v \in Workers \ {w} : jobs'[v] = jobs[v]
  <1> DEFINE J == NewJob(pc, s, todo, reuse)
  <1>1. /\ J \in Job
        /\ J.pc = pc /\ J.session = s /\ J.todo = todo /\ J.reuse = reuse
        /\ J.half = 0 /\ J.latest = [c \in Callsigns |-> 0]
        /\ J.dropped = {} /\ J.made = {}
    BY RowAssumption, HorizonAssumption DEF NewJob, Job, Times, Ids
  <1>2. jobs' = [jobs EXCEPT ![w] = J]
    BY DEF Begin
  <1> HIDE DEF J
  <1>3. jobs' \in [Workers -> Job] /\ jobs'[w] = J /\ \A v \in Workers \ {w} : jobs'[v] = jobs[v]
    BY <1>1, <1>2 DEF TypeOK
  <1> QED BY <1>1, <1>3

\* The geocoder's commit marks the message, and nothing is left to delete.
LEMMA GeocodeEffect ==
    ASSUME TypeOK, NEW w \in Workers, NEW m \in Times, GeocodeCommit(w, m)
    PROVE  /\ jobs' \in [Workers -> Job]
           /\ jobs'[w].pc = jobs[w].pc /\ jobs'[w].session = jobs[w].session
           /\ jobs'[w].todo = jobs[w].todo /\ jobs'[w].reuse = jobs[w].reuse
           /\ jobs'[w].half = m /\ jobs'[w].latest = jobs[w].latest
           /\ jobs'[w].dropped = {} /\ jobs'[w].made = jobs[w].made
           /\ \A v \in Workers \ {w} : jobs'[v] = jobs[v]
  <1> DEFINE J == [jobs[w] EXCEPT !.half = m, !.dropped = {}]
  <1>1. jobs[w] \in Job /\ m \in 0..Horizon
    BY HorizonAssumption DEF TypeOK, Times
  <1>2. /\ J \in Job
        /\ J.pc = jobs[w].pc /\ J.session = jobs[w].session
        /\ J.todo = jobs[w].todo /\ J.reuse = jobs[w].reuse
        /\ J.half = m /\ J.latest = jobs[w].latest
        /\ J.dropped = {} /\ J.made = jobs[w].made
    BY <1>1, HalfSet
  <1>3. jobs' = [jobs EXCEPT ![w] = J]
    BY DEF GeocodeCommit
  <1> HIDE DEF J
  <1>4. jobs' \in [Workers -> Job] /\ jobs'[w] = J /\ \A v \in Workers \ {w} : jobs'[v] = jobs[v]
    BY <1>2, <1>3 DEF TypeOK
  <1> QED BY <1>2, <1>4

\* A message filed leaves the list, and its row is the latest of its callsign.
LEMMA ProcessEffect ==
    ASSUME TypeOK, NEW w \in Workers, NEW m \in Times, ProcessMessage(w, m)
    PROVE  \E i \in Ids :
               /\ NextRow(i)
               /\ rows' = [WithoutDropped(w) EXCEPT
                              ![i] = [state |-> "live", session |-> jobs[w].session, raw |-> m]]
               /\ jobs' \in [Workers -> Job]
               /\ jobs'[w].pc = jobs[w].pc /\ jobs'[w].session = jobs[w].session
               /\ jobs'[w].todo = jobs[w].todo \ {m} /\ jobs'[w].reuse = jobs[w].reuse
               /\ jobs'[w].half = 0 /\ jobs'[w].latest = Latest(w, m, i)
               /\ jobs'[w].dropped = Replaced(w, m) /\ jobs'[w].made = jobs[w].made \cup {i}
               /\ \A v \in Workers \ {w} : jobs'[v] = jobs[v]
  <1>1. PICK i \in Ids :
            /\ NextRow(i)
            /\ rows' = [WithoutDropped(w) EXCEPT
                           ![i] = [state |-> "live", session |-> jobs[w].session, raw |-> m]]
            /\ jobs' = [jobs EXCEPT ![w] = Filed(w, m, i)]
    BY DEF ProcessMessage
  <1>2. jobs[w] \in Job /\ 0 \in 0..Horizon
    BY HorizonAssumption DEF TypeOK
  <1>3. Latest(w, m, i) \in [Callsigns -> 0..MaxRows]
    BY <1>2, RowAssumption DEF Latest, Job, Ids
  <1>4. Replaced(w, m) \in SUBSET Ids
    <2>1. CASE jobs[w].pc = "scan" /\ from[m] # None
      <3>1. from[m] \in Callsigns
        BY <2>1 DEF TypeOK
      <3>2. jobs[w].latest[from[m]] \in 0..MaxRows
        BY <1>2, <3>1 DEF Job
      <3> QED BY <2>1, <3>2, RowAssumption DEF Replaced, Ids
    <2>2. CASE ~(jobs[w].pc = "scan" /\ from[m] # None)
      BY <2>2 DEF Replaced
    <2> QED BY <2>1, <2>2
  <1>5. jobs[w].todo \ {m} \in SUBSET Times /\ jobs[w].made \cup {i} \in SUBSET Ids
    BY <1>2 DEF Job
  <1>a. PICK r \in Job, t \in SUBSET Times, l \in [Callsigns -> 0..MaxRows],
             d \in SUBSET Ids, k \in SUBSET Ids :
            /\ r = jobs[w] /\ t = jobs[w].todo \ {m} /\ l = Latest(w, m, i)
            /\ d = Replaced(w, m) /\ k = jobs[w].made \cup {i}
    BY <1>2, <1>3, <1>4, <1>5
  <1> DEFINE J == Filed(w, m, i)
  <1>b. J = [r EXCEPT !.todo = t, !.half = 0, !.latest = l, !.dropped = d, !.made = k]
    BY <1>a DEF Filed
  <1> HIDE DEF J
  <1>c. /\ J \in Job
        /\ J.pc = r.pc /\ J.session = r.session /\ J.todo = t /\ J.reuse = r.reuse
        /\ J.half = 0 /\ J.latest = l /\ J.dropped = d /\ J.made = k
    BY <1>2, <1>b DEF Job
  <1>6. /\ J \in Job
        /\ J.pc = jobs[w].pc /\ J.session = jobs[w].session
        /\ J.todo = jobs[w].todo \ {m} /\ J.reuse = jobs[w].reuse
        /\ J.half = 0 /\ J.latest = Latest(w, m, i)
        /\ J.dropped = Replaced(w, m) /\ J.made = jobs[w].made \cup {i}
    BY <1>a, <1>c
  <1>7. jobs' = [jobs EXCEPT ![w] = J]
    BY <1>1 DEF J
  <1>8. jobs' \in [Workers -> Job] /\ jobs'[w] = J /\ \A v \in Workers \ {w} : jobs'[v] = jobs[v]
    BY <1>2, <1>6, <1>7 DEF TypeOK
  <1> QED BY <1>1, <1>6, <1>8

\* A commit deletes the rows that are due and changes no other.
LEMMA DroppedEffect ==
    ASSUME TypeOK, NEW w \in Workers
    PROVE  /\ WithoutDropped(w) \in [Ids -> Row]
           /\ \A i \in Ids :
                 /\ WithoutDropped(w)[i].session = rows[i].session
                 /\ WithoutDropped(w)[i].raw = rows[i].raw
                 /\ WithoutDropped(w)[i].state =
                       IF i \in jobs[w].dropped /\ Live(i) THEN "replaced" ELSE rows[i].state
  <1>1. ASSUME NEW i \in Ids
        PROVE  /\ [rows[i] EXCEPT !.state = "replaced"] \in Row
               /\ [rows[i] EXCEPT !.state = "replaced"].state = "replaced"
               /\ [rows[i] EXCEPT !.state = "replaced"].session = rows[i].session
               /\ [rows[i] EXCEPT !.state = "replaced"].raw = rows[i].raw
               /\ rows[i] \in Row
    <2>1. rows[i] \in Row
      BY DEF TypeOK
    <2> QED BY <2>1 DEF Row
  <1> QED BY <1>1 DEF WithoutDropped

\* The table after a message has been filed.
LEMMA FiledEffect ==
    ASSUME TypeOK, NEW w \in Workers, NEW m \in Times, NEW i \in Ids, NextRow(i),
           jobs[w].session \in Sessions \cup {None},
           rows' = [WithoutDropped(w) EXCEPT
                       ![i] = [state |-> "live", session |-> jobs[w].session, raw |-> m]]
    PROVE  /\ rows' \in [Ids -> Row]
           /\ rows'[i].state = "live" /\ rows'[i].session = jobs[w].session /\ rows'[i].raw = m
           /\ \A j \in Ids \ {i} : rows'[j] = WithoutDropped(w)[j]
           /\ RowsKept
  <1> DEFINE R == [state |-> "live", session |-> jobs[w].session, raw |-> m]
  <1>1. R \in Row /\ R.state = "live" /\ R.session = jobs[w].session /\ R.raw = m
    BY HorizonAssumption DEF Row, Times
  <1> HIDE DEF R
  <1>2. rows' = [WithoutDropped(w) EXCEPT ![i] = R]
    BY DEF R
  <1>3. rows' \in [Ids -> Row] /\ rows'[i] = R /\ \A j \in Ids \ {i} : rows'[j] = WithoutDropped(w)[j]
    BY <1>1, <1>2, DroppedEffect
  <1>4. RowsKept
    <2> SUFFICES ASSUME NEW j \in Ids, Used(j)
                 PROVE  /\ rows'[j].state # "unused"
                        /\ rows'[j].session = rows[j].session
                        /\ rows'[j].raw = rows[j].raw
                        /\ rows'[j].state = "live" => rows[j].state = "live"
      BY DEF RowsKept
    <2>1. j # i
      BY DEF Used, NextRow
    <2> QED BY <1>3, <2>1, DroppedEffect DEF Used, Live
  <1> QED BY <1>1, <1>3, <1>4

------------------------------------------------------------------------------
(* Types *)

\* What is half done is a message.
LEMMA HalfTyped ==
    ASSUME TypeOK, NEW w \in Workers
    PROVE  jobs[w].half = 0 \/ jobs[w].half \in Times
  <1>1. jobs[w].half \in 0..Horizon
    BY DEF TypeOK, Job
  <1> QED BY <1>1, HorizonAssumption DEF Times

\* Every step keeps the types.
LEMMA TypesHold == ASSUME TypeOK, [Next]_vars PROVE TypeOK'
  <1> USE HorizonAssumption
  <1>1. CASE Tick
    BY <1>1 DEF Tick, TypeOK, store
  <1>2. ASSUME NEW m \in Times, Arrive(m) PROVE TypeOK'
    BY <1>2 DEF Arrive, TypeOK, store
  <1>3. ASSUME NEW s \in Sessions, SetScheduled(s) \/ Purge(s) PROVE TypeOK'
    BY <1>3 DEF SetScheduled, Purge, TypeOK, store
  <1>4. ASSUME NEW i \in Ids, DeleteCheckin(i) PROVE TypeOK'
    <2>1. [rows[i] EXCEPT !.state = "removed"] \in Row
      BY DEF TypeOK, Row
    <2>2. rows' = [rows EXCEPT ![i] = [rows[i] EXCEPT !.state = "removed"]]
      BY <1>4 DEF DeleteCheckin
    <2>3. rows' \in [Ids -> Row]
      BY <2>1, <2>2 DEF TypeOK
    <2> QED BY <1>4, <2>3 DEF DeleteCheckin, TypeOK, world
  <1>5. ASSUME NEW w \in Workers, PersistRawMessages(w) PROVE TypeOK'
    BY <1>5 DEF PersistRawMessages, TypeOK, world
  <1>6. ASSUME NEW w \in Workers, NEW s \in Sessions, StartScan(w, s) PROVE TypeOK'
    <2>1. NewMessages \in SUBSET Times /\ NewMessages \cap Stored \in SUBSET Times
      BY DEF NewMessages, Stored, TypeOK
    <2>2. jobs' \in [Workers -> Job]
      BY <1>6, <2>1, BeginEffect DEF StartScan
    <2>3. shared' \subseteq Times
      BY <1>6, <2>1 DEF StartScan, Begin, TypeOK
    <2> QED BY <1>6, <2>2, <2>3 DEF StartScan, TypeOK, world, store
  <1>7. ASSUME NEW s \in Sessions, StartReparse(s) PROVE TypeOK'
    <2>1. Orphans(s) \in SUBSET Times
      BY DEF Orphans, Stored
    <2>2. jobs' \in [Workers -> Job]
      BY <1>7, <2>1, BeginEffect DEF StartReparse
    <2>3. shared' \subseteq Times
      BY <1>7, <2>1 DEF StartReparse, Begin, TypeOK
    <2> QED BY <1>7, <2>2, <2>3 DEF StartReparse, TypeOK, world, store
  <1>8. ASSUME NEW w \in Workers, NEW m \in Times, GeocodeCommit(w, m) PROVE TypeOK'
    <2>1. jobs' \in [Workers -> Job]
      BY <1>8, GeocodeEffect
    <2>2. rows' \in [Ids -> Row]
      BY <1>8, DroppedEffect DEF GeocodeCommit
    <2> QED BY <1>8, <2>1, <2>2 DEF GeocodeCommit, TypeOK, world
  <1>9. ASSUME NEW w \in Workers, NEW m \in Times, ProcessMessage(w, m) PROVE TypeOK'
    <2>1. jobs[w].session \in Sessions \cup {None}
      BY DEF TypeOK, Job
    <2>2. jobs' \in [Workers -> Job] /\ rows' \in [Ids -> Row]
      BY <1>9, <2>1, ProcessEffect, FiledEffect
    <2> QED BY <1>9, <2>2 DEF ProcessMessage, TypeOK, world
  <1>10. ASSUME NEW w \in Workers, Finish(w) PROVE TypeOK'
    <2>1. jobs' \in [Workers -> Job]
      BY <1>10, IdleTyped DEF Finish, TypeOK
    <2>2. rows' \in [Ids -> Row]
      BY <1>10, DroppedEffect DEF Finish
    <2> QED BY <1>10, <2>1, <2>2 DEF Finish, TypeOK, world
  <1>11. ASSUME NEW w \in Workers, Fail(w) PROVE TypeOK'
    <2>1. jobs' \in [Workers -> Job]
      BY <1>11, IdleTyped DEF Fail, TypeOK
    <2>2. interrupted' \subseteq Times
      BY <1>11, HalfTyped DEF Fail, TypeOK
    <2> QED BY <1>11, <2>1, <2>2 DEF Fail, TypeOK, world, store
  <1>12. CASE Restart
    <2>1. jobs' \in [Workers -> Job]
      BY <1>12, IdleTyped DEF Restart, TypeOK
    <2>2. {jobs[w].half : w \in Workers} \ {0} \subseteq Times
      BY HalfTyped
    <2>3. interrupted' \subseteq Times
      BY <1>12, <2>2 DEF Restart, TypeOK
    <2> QED BY <1>12, <2>1, <2>3 DEF Restart, TypeOK, world, store
  <1>13. CASE UNCHANGED vars
    BY <1>13 DEF vars, world, store, TypeOK
  <1> QED
    BY <1>1, <1>2, <1>3, <1>4, <1>5, <1>6, <1>7, <1>8, <1>9, <1>10, <1>11, <1>12, <1>13
       DEF Next, Import

\* TypeOK holds in every reachable state.
THEOREM TypeCorrect == Spec => []TypeOK
  <1>1. Init => TypeOK
    BY IdleTyped, HorizonAssumption DEF Init, TypeOK, NoRow, Row
  <1> QED BY <1>1, TypesHold, PTL DEF Spec

------------------------------------------------------------------------------
(* What steps keep *)

\* No row comes to life in a step.
NoNewRow == \A i \in Ids : rows'[i].state # "unused" => Used(i)

\* A row is replaced only if an import has it to delete.
ReplacedWasDropped ==
    \A i \in Ids : rows'[i].state = "replaced" =>
        rows[i].state = "replaced" \/ \E w \in Workers : i \in jobs[w].dropped

\* A later check-in of the same callsign stays one, whatever its state.
LEMMA LaterKept ==
    ASSUME RowsKept, from' = from, NEW i \in Ids, NEW j \in Ids, Used(i), LaterInstead(i, j)
    PROVE  LaterInstead(i, j)'
  BY DEF RowsKept, LaterInstead, Used

\* A job that does not change stays right: rows and messages only grow.
LEMMA JobStays ==
    ASSUME TypeOK, NEW w \in Workers, JobOK(w), jobs'[w] = jobs[w],
           RowsKept, RawsKept, from' = from
    PROVE  JobOK(w)'
  <1>0. jobs[w] \in Job
    BY DEF TypeOK
  <1>1. IdleOK(w)' /\ HalfOK(w)' /\ ReuseOK(w)'
    <2>1. jobs[w].reuse \subseteq Times
      BY <1>0 DEF Job
    <2>2. jobs[w].half = 0 \/ jobs[w].half \in Times
      BY HalfTyped
    <2> QED BY <2>1, <2>2 DEF JobOK, IdleOK, HalfOK, ReuseOK, RawsKept, Idle, NewJob
  <1>2. LatestOK(w)'
    <2> SUFFICES ASSUME jobs[w].pc = "scan", NEW c \in Callsigns, jobs[w].latest[c] # 0
                 PROVE  /\ Used(jobs[w].latest[c])'
                        /\ rows'[jobs[w].latest[c]].session = jobs[w].session
                        /\ from[rows'[jobs[w].latest[c]].raw] = c
                        /\ \A m \in jobs[w].todo : rows'[jobs[w].latest[c]].raw < m
      BY DEF LatestOK, Used
    <2>1. jobs[w].latest[c] \in Ids
      BY <1>0, RowAssumption DEF Job, Ids
    <2> QED BY <2>1 DEF JobOK, LatestOK, RowsKept, Used
  <1>3. DroppedOK(w)'
    <2> SUFFICES ASSUME NEW i \in jobs[w].dropped
                 PROVE  Used(i)' /\ \E j \in Ids : LaterInstead(i, j)'
      BY DEF DroppedOK, Used
    <2>1. i \in Ids /\ Used(i)
      BY <1>0 DEF Job, JobOK, DroppedOK
    <2>2. PICK j \in Ids : LaterInstead(i, j)
      BY DEF JobOK, DroppedOK
    <2>3. LaterInstead(i, j)'
      BY <2>1, <2>2, LaterKept
    <2> QED BY <2>1, <2>3 DEF RowsKept, Used
  <1>4. MadeOK(w)'
    <2> SUFFICES ASSUME jobs[w].pc = "scan", NEW i \in jobs[w].made
                 PROVE  /\ Used(i)'
                        /\ Live(i)' /\ from[rows'[i].raw] # None =>
                              i \in jobs[w].dropped \/ jobs[w].latest[from[rows'[i].raw]] = i
      BY DEF MadeOK, Used, Live
    <2>1. i \in Ids /\ Used(i)
      BY <1>0 DEF Job, JobOK, MadeOK
    <2> QED BY <2>1 DEF JobOK, MadeOK, RowsKept, Used, Live
  <1> QED BY <1>1, <1>2, <1>3, <1>4 DEF JobOK

\* An import that has ended holds nothing.
LEMMA JobEnds ==
    ASSUME NEW w \in Workers, jobs'[w] = Idle
    PROVE  JobOK(w)' /\ Claimed(w)' = {}
  BY DEF JobOK, IdleOK, HalfOK, ReuseOK, LatestOK, DroppedOK, MadeOK, Claimed, Idle, NewJob

\* Rows that are not new keep being of parsed messages.
LEMMA RowsStayOK ==
    ASSUME TypeOK, RowsOK, RowsKept, RawsKept, NoNewRow
    PROVE  RowsOK'
  BY DEF RowsOK, RowsKept, RawsKept, NoNewRow, Used

\* What imports had to delete was superseded: so is every row replaced.
LEMMA LatestStillWins ==
    ASSUME TypeOK, LatestWins, \A w \in Workers : JobOK(w), RowsKept, from' = from,
           ReplacedWasDropped
    PROVE  LatestWins'
  <1> SUFFICES ASSUME NEW i \in Ids, rows'[i].state = "replaced"
               PROVE  \E j \in Ids : LaterInstead(i, j)'
    BY DEF LatestWins
  <1>1. Used(i) /\ \E j \in Ids : LaterInstead(i, j)
    <2>1. CASE rows[i].state = "replaced"
      BY <2>1 DEF LatestWins, Used
    <2>2. CASE \E w \in Workers : i \in jobs[w].dropped
      BY <2>2 DEF JobOK, DroppedOK
    <2> QED BY <2>1, <2>2 DEF ReplacedWasDropped
  <1>2. PICK j \in Ids : LaterInstead(i, j)
    BY <1>1
  <1> QED BY <1>1, <1>2, LaterKept

\* With no new row and no new claim, messages keep to one check-in.
LEMMA OneStays ==
    ASSUME TypeOK, ClaimsOK, OnePerMessage, RowsKept, NoNewRow, shared \subseteq shared',
           \A w \in Workers : Claimed(w)' \subseteq Claimed(w)
    PROVE  ClaimsOK' /\ OnePerMessage'
  <1>1. \A i \in Ids : Live(i)' => Live(i) /\ rows'[i].raw = rows[i].raw
    BY DEF RowsKept, NoNewRow, Live, Used
  <1>2. OnePerMessage'
    BY <1>1 DEF OnePerMessage
  <1>3. ClaimsOK'
    BY <1>1 DEF ClaimsOK
  <1> QED BY <1>2, <1>3

------------------------------------------------------------------------------
(* The invariant, action by action *)

\* Steps of the world, deletions and stored mail leave the imports alone.
LEMMA OthersKeep ==
    ASSUME IInv, TypeOK', UNCHANGED <<from, jobs, interrupted, shared>>,
           RowsKept, RawsKept, NoNewRow, ReplacedWasDropped,
           \A m \in Times : raws'[m] = "parsed" => raws[m] = "parsed"
    PROVE  IInv'
  <1>1. \A w \in Workers : JobOK(w)'
    BY JobStays DEF IInv
  <1>2. RowsOK' /\ LatestWins'
    BY RowsStayOK, LatestStillWins DEF IInv
  <1>3. \A w \in Workers : Claimed(w)' = Claimed(w)
    BY DEF Claimed
  <1>4. ClaimsOK' /\ OnePerMessage'
    BY <1>3, OneStays DEF IInv
  <1>5. NothingLost'
    BY DEF IInv, NothingLost, RowsKept, Used
  <1> QED BY <1>1, <1>2, <1>4, <1>5 DEF IInv

\* The list of a new import: what it takes from stored rows has no check-in.
LEMMA BeginKeeps ==
    ASSUME IInv, TypeOK', NEW w \in Workers, NEW pc \in {"scan", "reparse"}, NEW s \in Sessions,
           NEW todo \in SUBSET Times, NEW reuse \in SUBSET Times, Free(w),
           Begin(w, pc, s, todo, reuse), UNCHANGED <<from, store, interrupted>>,
           \A m \in reuse : raws[m] # "none" /\ \A i \in Ids : Live(i) => rows[i].raw # m
    PROVE  IInv'
  <1>1. /\ jobs'[w].pc = pc /\ jobs'[w].session = s
        /\ jobs'[w].todo = todo /\ jobs'[w].reuse = reuse
        /\ jobs'[w].half = 0 /\ jobs'[w].latest = [c \in Callsigns |-> 0]
        /\ jobs'[w].dropped = {} /\ jobs'[w].made = {}
        /\ \A v \in Workers \ {w} : jobs'[v] = jobs[v]
    <2>1. jobs'[w] = NewJob(pc, s, todo, reuse) /\ \A v \in Workers \ {w} : jobs'[v] = jobs[v]
      BY DEF IInv, TypeOK, Begin
    <2> QED BY <2>1 DEF NewJob
  <1>2. UNCHANGED <<rows, raws>>
    BY DEF store
  <1>3. RowsKept /\ RawsKept /\ NoNewRow /\ ReplacedWasDropped
    BY <1>2 DEF RowsKept, RawsKept, NoNewRow, ReplacedWasDropped, Used
  <1>4. \A v \in Workers : JobOK(v)'
    <2>1. JobOK(w)'
      BY <1>1, <1>2 DEF JobOK, IdleOK, HalfOK, ReuseOK, LatestOK, DroppedOK, MadeOK
    <2>2. ASSUME NEW v \in Workers, v # w PROVE JobOK(v)'
      BY <1>1, <1>3, <2>2, JobStays DEF IInv
    <2> QED BY <2>1, <2>2
  <1>5. RowsOK' /\ LatestWins'
    BY <1>3, RowsStayOK, LatestStillWins DEF IInv
  <1>6. jobs[w].half = 0
    BY DEF IInv, JobOK, IdleOK, Free, Idle, NewJob
  <1>7. NothingLost'
    <2>1. \A v \in Workers, m \in Times : jobs[v].half = m => jobs'[v].half = m
      BY <1>1, <1>6, HorizonAssumption DEF Times
    <2> QED BY <1>2, <2>1 DEF IInv, NothingLost
  <1>8. OnePerMessage'
    BY <1>2 DEF IInv, OnePerMessage, Live, Begin
  <1>9. ClaimsOK'
    <2>1. Claimed(w)' \subseteq reuse
      BY <1>1, HorizonAssumption DEF Claimed, Times
    <2>2. \A v \in Workers \ {w} : Claimed(v)' = Claimed(v)
      BY <1>1 DEF Claimed
    <2>3. \A v \in Workers \ {w} : \A m \in reuse : m \in Claimed(v) => m \in shared'
      BY DEF Begin
    <2>4. shared \subseteq shared'
      BY DEF Begin
    <2>5. \A v \in Workers : \A m \in Claimed(v)' : m \notin shared' =>
              \A i \in Ids : rows[i].state = "live" => rows[i].raw # m
      BY <2>1, <2>2, <2>4 DEF IInv, ClaimsOK, Live
    <2>6. \A v \in Workers : \A m \in Claimed(v)' : m \notin shared' =>
              \A u \in Workers \ {v} : m \notin Claimed(u)'
      BY <2>1, <2>2, <2>3, <2>4 DEF IInv, ClaimsOK
    <2> QED BY <1>2, <2>5, <2>6 DEF ClaimsOK, Live
  <1> QED BY <1>4, <1>5, <1>7, <1>8, <1>9 DEF IInv

\* An import ends, by its last commit or anyhow: what it holds is let go.
LEMMA EndKeeps ==
    ASSUME IInv, TypeOK', NEW ended \in SUBSET Workers,
           \A w \in ended : jobs'[w] = Idle,
           \A w \in Workers \ ended : jobs'[w] = jobs[w],
           \A w \in ended : jobs[w].half # 0 => jobs[w].half \in interrupted',
           UNCHANGED <<from, raws, shared>>, interrupted \subseteq interrupted',
           RowsKept, NoNewRow, ReplacedWasDropped
    PROVE  IInv'
  <1>1. RawsKept
    BY DEF RawsKept
  <1>2. \A w \in Workers : JobOK(w)'
    BY <1>1, JobStays, JobEnds DEF IInv
  <1>3. RowsOK' /\ LatestWins'
    BY <1>1, RowsStayOK, LatestStillWins DEF IInv
  <1>4. \A w \in Workers : Claimed(w)' \subseteq Claimed(w)
    <2>1. \A w \in ended : Claimed(w)' = {}
      BY JobEnds
    <2>2. \A w \in Workers \ ended : Claimed(w)' = Claimed(w)
      BY DEF Claimed
    <2> QED BY <2>1, <2>2
  <1>5. ClaimsOK' /\ OnePerMessage'
    BY <1>4, OneStays DEF IInv
  <1>6. NothingLost'
    <2> SUFFICES ASSUME NEW m \in Times, raws[m] = "parsed"
                 PROVE  \/ \E i \in Ids : rows'[i].state # "unused" /\ rows'[i].raw = m
                        \/ m \in interrupted'
                        \/ \E w \in Workers : jobs'[w].half = m
      BY DEF NothingLost
    <2>1. CASE \E i \in Ids : rows[i].state # "unused" /\ rows[i].raw = m
      BY <2>1 DEF RowsKept, Used
    <2>2. CASE m \in interrupted
      BY <2>2
    <2>3. ASSUME NEW w \in Workers, jobs[w].half = m
          PROVE  m \in interrupted' \/ jobs'[w].half = m
      BY <2>3, HorizonAssumption DEF Times
    <2> QED BY <2>1, <2>2, <2>3 DEF IInv, NothingLost
  <1> QED BY <1>2, <1>3, <1>5, <1>6 DEF IInv

\* The geocoder's commit: the message is stored as parsed and half done.
LEMMA GeocodeKeeps ==
    ASSUME IInv, TypeOK', NEW w \in Workers, NEW m \in Times, GeocodeCommit(w, m)
    PROVE  IInv'
  <1>0. TypeOK /\ jobs[w] \in Job /\ JobOK(w)
    BY DEF IInv, TypeOK
  <1>1. /\ jobs'[w].pc = jobs[w].pc /\ jobs'[w].session = jobs[w].session
        /\ jobs'[w].todo = jobs[w].todo /\ jobs'[w].reuse = jobs[w].reuse
        /\ jobs'[w].half = m /\ jobs'[w].latest = jobs[w].latest
        /\ jobs'[w].dropped = {} /\ jobs'[w].made = jobs[w].made
        /\ \A v \in Workers \ {w} : jobs'[v] = jobs[v]
    BY <1>0, GeocodeEffect
  <1>2. /\ raws' = [raws EXCEPT ![m] = "parsed"] /\ rows' = WithoutDropped(w)
        /\ jobs[w].half = 0 /\ m \in jobs[w].todo /\ jobs[w].pc # "idle"
        /\ m \in jobs[w].reuse \/ raws[m] = "none"
        /\ UNCHANGED <<from, interrupted, shared>>
    BY HorizonAssumption DEF GeocodeCommit, Turn, Insertable, Free, world, Times
  <1>a. from' = from
    BY <1>2
  <1>3. RowsKept /\ NoNewRow /\ ReplacedWasDropped
    BY <1>0, <1>2, DroppedEffect DEF RowsKept, NoNewRow, ReplacedWasDropped, Used, Live
  <1>4. RawsKept /\ raws'[m] = "parsed"
    BY <1>0, <1>2 DEF RawsKept, TypeOK
  <1>5. \A i \in Ids : i \in jobs[w].dropped => rows'[i].state # "live"
    BY <1>0, <1>2, DroppedEffect DEF Live
  <1>6. \A v \in Workers : JobOK(v)'
    <2>1. ASSUME NEW v \in Workers, v # w PROVE JobOK(v)'
      BY <1>0, <1>1, <1>2, <1>3, <1>4, <2>1, JobStays DEF IInv
    <2>2. IdleOK(w)' /\ HalfOK(w)' /\ ReuseOK(w)'
      <3>1. jobs[w].reuse \subseteq Times
        BY <1>0 DEF Job
      <3> QED BY <1>0, <1>1, <1>2, <1>4, <3>1 DEF JobOK, IdleOK, HalfOK, ReuseOK, RawsKept
    <2>3. LatestOK(w)'
      <3> SUFFICES ASSUME jobs[w].pc = "scan", NEW c \in Callsigns, jobs[w].latest[c] # 0
                   PROVE  /\ rows'[jobs[w].latest[c]].state # "unused"
                          /\ rows'[jobs[w].latest[c]].session = jobs[w].session
                          /\ from[rows'[jobs[w].latest[c]].raw] = c
                          /\ \A l \in jobs[w].todo : rows'[jobs[w].latest[c]].raw < l
        BY <1>1, <1>a DEF LatestOK, Used
      <3>1. jobs[w].latest[c] \in Ids
        BY <1>0, RowAssumption DEF Job, Ids
      <3>2. /\ Used(jobs[w].latest[c])
            /\ rows[jobs[w].latest[c]].session = jobs[w].session
            /\ from[rows[jobs[w].latest[c]].raw] = c
            /\ \A l \in jobs[w].todo : rows[jobs[w].latest[c]].raw < l
        BY <1>0 DEF JobOK, LatestOK
      <3> QED BY <1>3, <3>1, <3>2 DEF RowsKept, Used
    <2>4. DroppedOK(w)'
      BY <1>1 DEF DroppedOK
    <2>5. MadeOK(w)'
      <3> SUFFICES ASSUME jobs[w].pc = "scan", NEW i \in jobs[w].made
                   PROVE  /\ Used(i)'
                          /\ Live(i)' /\ from[rows'[i].raw] # None =>
                                jobs[w].latest[from[rows'[i].raw]] = i
        BY <1>1, <1>2 DEF MadeOK, Used, Live
      <3>1. i \in Ids /\ Used(i)
        BY <1>0 DEF Job, JobOK, MadeOK
      <3> QED BY <1>0, <1>3, <1>5, <3>1 DEF JobOK, MadeOK, RowsKept, Used, Live
    <2>6. JobOK(w)'
      BY <2>2, <2>3, <2>4, <2>5 DEF JobOK
    <2> QED BY <2>1, <2>6
  <1>7. RowsOK' /\ LatestWins'
    BY <1>2, <1>3, <1>4, RowsStayOK, LatestStillWins DEF IInv
  <1>8. \A i \in Ids : Live(i)' => Live(i) /\ rows'[i].raw = rows[i].raw
    BY <1>3 DEF RowsKept, NoNewRow, Live, Used
  <1>9. OnePerMessage'
    BY <1>2, <1>8 DEF IInv, OnePerMessage
  <1>10. ClaimsOK'
    <2>1. \A v \in Workers \ {w} : Claimed(v)' = Claimed(v)
      BY <1>1 DEF Claimed
    <2>2. Claimed(w)' \subseteq Claimed(w) \cup {m}
      BY <1>1 DEF Claimed
    <2>3. ASSUME m \notin Claimed(w)
          PROVE  /\ \A i \in Ids : Live(i) => rows[i].raw # m
                 /\ \A v \in Workers \ {w} : m \notin Claimed(v)
      <3>1. raws[m] = "none"
        BY <1>2, <2>3 DEF Claimed
      <3>2. \A i \in Ids : Live(i) => rows[i].raw # m
        BY <3>1 DEF IInv, RowsOK, Live, Used
      <3>3. \A v \in Workers \ {w} : m \notin Claimed(v)
        BY <3>1, HorizonAssumption DEF IInv, JobOK, HalfOK, ReuseOK, Claimed, Times
      <3> QED BY <3>2, <3>3
    <2> QED BY <1>2, <1>8, <2>1, <2>2, <2>3 DEF IInv, ClaimsOK
  <1>11. NothingLost'
    <2> SUFFICES ASSUME NEW l \in Times, raws'[l] = "parsed"
                 PROVE  \/ \E i \in Ids : rows'[i].state # "unused" /\ rows'[i].raw = l
                        \/ l \in interrupted'
                        \/ \E v \in Workers : jobs'[v].half = l
      BY DEF NothingLost
    <2>1. CASE l = m
      BY <1>1, <2>1
    <2>2. CASE l # m
      <3>1. raws[l] = "parsed"
        BY <1>0, <1>2, <2>2 DEF TypeOK
      <3>2. \A v \in Workers : jobs[v].half = l => jobs'[v].half = l
        BY <1>1, <1>2, HorizonAssumption DEF Times
      <3> QED BY <1>2, <1>3, <3>1, <3>2 DEF IInv, NothingLost, RowsKept, Used
    <2> QED BY <2>1, <2>2
  <1> QED BY <1>6, <1>7, <1>9, <1>10, <1>11 DEF IInv

\* A message is filed: what the job says of rows, and the message's claims.
LEMMA ProcessKeeps ==
    ASSUME IInv, TypeOK', NEW w \in Workers, NEW m \in Times, ProcessMessage(w, m)
    PROVE  IInv'
  <1>0. TypeOK /\ jobs[w] \in Job /\ JobOK(w)
    BY DEF IInv, TypeOK
  <1>s. jobs[w].session \in Sessions \cup {None}
    BY <1>0 DEF Job
  <1>1. PICK n \in Ids :
            /\ NextRow(n)
            /\ rows' = [WithoutDropped(w) EXCEPT
                           ![n] = [state |-> "live", session |-> jobs[w].session, raw |-> m]]
            /\ jobs'[w].pc = jobs[w].pc /\ jobs'[w].session = jobs[w].session
            /\ jobs'[w].todo = jobs[w].todo \ {m} /\ jobs'[w].reuse = jobs[w].reuse
            /\ jobs'[w].half = 0 /\ jobs'[w].latest = Latest(w, m, n)
            /\ jobs'[w].dropped = Replaced(w, m) /\ jobs'[w].made = jobs[w].made \cup {n}
            /\ \A v \in Workers \ {w} : jobs'[v] = jobs[v]
    BY <1>0, ProcessEffect
  <1>2. /\ raws' = [raws EXCEPT ![m] = "parsed"]
        /\ m \in jobs[w].todo /\ jobs[w].half \in {0, m} /\ jobs[w].pc # "idle"
        /\ jobs[w].pc = "scan" => \A l \in jobs[w].todo : m <= l
        /\ m \in jobs[w].reuse \/ raws[m] = "none" \/ jobs[w].half = m
        /\ UNCHANGED <<interrupted, shared>>
    BY DEF ProcessMessage, Turn, Insertable, Free
  <1>a. from' = from
    BY DEF ProcessMessage, world
  <1>3. /\ rows'[n].state = "live" /\ rows'[n].session = jobs[w].session /\ rows'[n].raw = m
        /\ \A i \in Ids \ {n} : rows'[i] = WithoutDropped(w)[i]
        /\ RowsKept
    BY <1>0, <1>s, <1>1, FiledEffect
  <1>4. RawsKept /\ raws'[m] = "parsed"
    BY <1>0, <1>2 DEF RawsKept, TypeOK
  <1>5. \A i \in Ids \ {n} :
            /\ rows'[i].state # "unused" => Used(i)
            /\ rows'[i].session = rows[i].session
            /\ rows'[i].raw = rows[i].raw
            /\ rows'[i].state = "live" => Live(i) /\ i \notin jobs[w].dropped
            /\ rows'[i].state = "replaced" => rows[i].state = "replaced" \/ i \in jobs[w].dropped
    BY <1>0, <1>3, DroppedEffect DEF Used, Live
  <1>6. ReplacedWasDropped
    BY <1>3, <1>5 DEF ReplacedWasDropped
  <1>7. rows[n].state = "unused"
    BY <1>1 DEF NextRow
  <1>8. jobs[w].pc = "scan" => \A l \in jobs[w].todo \ {m} : m < l
    <2>1. jobs[w].todo \subseteq Times
      BY <1>0 DEF Job
    <2> QED BY <1>2, <2>1, HorizonAssumption DEF Times
  <1> DEFINE c == from[m]
  <1> DEFINE old == jobs[w].latest[c]
  <1>9. ASSUME jobs[w].pc = "scan", c # None, old # 0
        PROVE  /\ old \in Ids /\ Used(old) /\ old # n
               /\ rows'[old].session = jobs[w].session /\ rows'[old].raw = rows[old].raw
               /\ from[rows[old].raw] = c /\ rows[old].raw < m
    <2>1. c \in Callsigns
      BY <1>0, <1>9 DEF TypeOK
    <2>2. old \in Ids
      BY <1>0, <1>9, <2>1, RowAssumption DEF Job, Ids
    <2>3. /\ Used(old) /\ rows[old].session = jobs[w].session
          /\ from[rows[old].raw] = c /\ rows[old].raw < m
      BY <1>0, <1>2, <1>9, <2>1 DEF JobOK, LatestOK
    <2>4. old # n
      BY <1>7, <2>3 DEF Used
    <2> QED BY <1>5, <2>2, <2>3, <2>4
  <1> HIDE DEF c, old
  <1>10. Replaced(w, m) = IF jobs[w].pc = "scan" /\ c # None /\ old # 0 THEN {old} ELSE {}
    BY DEF Replaced, c, old
  <1>11. \A b \in Callsigns : jobs'[w].latest[b] = IF b = c THEN n ELSE jobs[w].latest[b]
    BY <1>1 DEF Latest, c
  <1>12. JobOK(w)'
    <2>1. IdleOK(w)' /\ HalfOK(w)' /\ ReuseOK(w)'
      <3>1. jobs[w].reuse \subseteq Times
        BY <1>0 DEF Job
      <3> QED BY <1>0, <1>1, <1>2, <1>4, <3>1 DEF JobOK, IdleOK, HalfOK, ReuseOK, RawsKept
    <2>2. LatestOK(w)'
      <3> SUFFICES ASSUME jobs[w].pc = "scan", NEW b \in Callsigns, jobs'[w].latest[b] # 0
                   PROVE  /\ rows'[jobs'[w].latest[b]].state # "unused"
                          /\ rows'[jobs'[w].latest[b]].session = jobs[w].session
                          /\ from[rows'[jobs'[w].latest[b]].raw] = b
                          /\ \A l \in jobs[w].todo \ {m} : rows'[jobs'[w].latest[b]].raw < l
        BY <1>1, <1>a DEF LatestOK, Used
      <3>1. CASE b = c
        <4>1. jobs'[w].latest[b] = n
          BY <1>11, <3>1
        <4> QED BY <1>3, <1>8, <3>1, <4>1 DEF c
      <3>2. CASE b # c
        <4>1. jobs'[w].latest[b] = jobs[w].latest[b]
          BY <1>11, <3>2
        <4>2. jobs[w].latest[b] \in Ids
          BY <1>0, <4>1, RowAssumption DEF Job, Ids
        <4>3. /\ Used(jobs[w].latest[b])
              /\ rows[jobs[w].latest[b]].session = jobs[w].session
              /\ from[rows[jobs[w].latest[b]].raw] = b
              /\ \A l \in jobs[w].todo : rows[jobs[w].latest[b]].raw < l
          BY <1>0, <4>1 DEF JobOK, LatestOK
        <4> QED BY <1>3, <4>1, <4>2, <4>3 DEF RowsKept, Used
      <3> QED BY <3>1, <3>2
    <2>3. DroppedOK(w)'
      <3> SUFFICES ASSUME NEW i \in Replaced(w, m)
                   PROVE  rows'[i].state # "unused" /\ \E j \in Ids : LaterInstead(i, j)'
        BY <1>1 DEF DroppedOK, Used
      <3>1. jobs[w].pc = "scan" /\ c # None /\ old # 0 /\ i = old
        BY <1>10
      <3>2. /\ i \in Ids /\ Used(i) /\ rows'[i].session = jobs[w].session
            /\ rows'[i].raw = rows[i].raw /\ from[rows[i].raw] = c /\ rows[i].raw < m
        BY <1>9, <3>1
      <3>3. /\ rows'[n].state # "unused" /\ rows'[n].session = rows'[i].session
            /\ rows'[n].raw > rows'[i].raw /\ from'[rows'[i].raw] # None
            /\ from'[rows'[n].raw] = from'[rows'[i].raw]
        BY <1>3, <1>a, <3>1, <3>2, <1>0, HorizonAssumption DEF c, Times, TypeOK, Row
      <3>4. LaterInstead(i, n)'
        BY <3>3 DEF LaterInstead
      <3>5. rows'[i].state # "unused"
        BY <1>3, <3>2 DEF RowsKept
      <3> QED BY <1>3, <3>4, <3>5
    <2>4. MadeOK(w)'
      <3> SUFFICES ASSUME jobs[w].pc = "scan", NEW i \in jobs[w].made \cup {n}
                   PROVE  /\ rows'[i].state # "unused"
                          /\ rows'[i].state = "live" /\ from[rows'[i].raw] # None =>
                                \/ i \in Replaced(w, m)
                                \/ jobs'[w].latest[from[rows'[i].raw]] = i
        BY <1>1, <1>a DEF MadeOK, Used, Live
      <3>1. CASE i = n
        <4>1. c # None => c \in Callsigns
          BY <1>0 DEF TypeOK, c
        <4> QED BY <1>3, <1>11, <3>1, <4>1 DEF c
      <3>2. CASE i # n
        <4>1. i \in jobs[w].made /\ i \in Ids /\ Used(i)
          BY <1>0, <3>2 DEF Job, JobOK, MadeOK
        <4>2. rows'[i].state # "unused" /\ rows'[i].raw = rows[i].raw
          BY <1>3, <4>1 DEF RowsKept
        <4>3. ASSUME rows'[i].state = "live", from[rows[i].raw] # None
              PROVE  i \in Replaced(w, m) \/ jobs'[w].latest[from[rows[i].raw]] = i
          <5>1. jobs[w].latest[from[rows[i].raw]] = i
            BY <1>0, <1>5, <3>2, <4>1, <4>3 DEF JobOK, MadeOK
          <5>2. rows[i].raw \in Times
            BY <4>1 DEF IInv, RowsOK
          <5>3. from[rows[i].raw] \in Callsigns
            BY <1>0, <4>3, <5>2 DEF TypeOK
          <5>4. CASE from[rows[i].raw] = c
            <6>1. old = i /\ old # 0
              BY <4>1, <5>1, <5>4, RowAssumption DEF old, Ids
            <6> QED BY <1>10, <4>3, <5>4, <6>1
          <5>5. CASE from[rows[i].raw] # c
            BY <1>11, <5>1, <5>3, <5>5
          <5> QED BY <5>4, <5>5
        <4> QED BY <4>2, <4>3
      <3> QED BY <3>1, <3>2
    <2> QED BY <2>1, <2>2, <2>3, <2>4 DEF JobOK
  <1>13. \A v \in Workers : JobOK(v)'
    <2>1. ASSUME NEW v \in Workers, v # w PROVE JobOK(v)'
      BY <1>0, <1>1, <1>3, <1>4, <1>a, <2>1, JobStays DEF IInv
    <2> QED BY <1>12, <2>1
  <1>14. RowsOK'
    <2> SUFFICES ASSUME NEW i \in Ids, rows'[i].state # "unused"
                 PROVE  rows'[i].raw \in Times /\ raws'[rows'[i].raw] = "parsed"
      BY DEF RowsOK, Used
    <2>1. CASE i = n
      BY <1>3, <1>4, <2>1
    <2>2. CASE i # n
      BY <1>4, <1>5, <2>2 DEF IInv, RowsOK, RawsKept
    <2> QED BY <2>1, <2>2
  <1>15. LatestWins'
    BY <1>0, <1>3, <1>6, <1>a, LatestStillWins DEF IInv
  <1>16. ASSUME m \notin shared
         PROVE  /\ \A i \in Ids : Live(i) => rows[i].raw # m
                /\ \A v \in Workers \ {w} : m \notin Claimed(v)
    <2>1. CASE m \in Claimed(w)
      BY <1>16, <2>1 DEF IInv, ClaimsOK
    <2>2. CASE m \notin Claimed(w)
      <3>1. raws[m] = "none"
        BY <1>2, <2>2 DEF Claimed
      <3>2. \A i \in Ids : Live(i) => rows[i].raw # m
        BY <3>1 DEF IInv, RowsOK, Live, Used
      <3>3. \A v \in Workers \ {w} : m \notin Claimed(v)
        BY <3>1, HorizonAssumption DEF IInv, JobOK, HalfOK, ReuseOK, Claimed, Times
      <3> QED BY <3>2, <3>3
    <2> QED BY <2>1, <2>2
  <1>17. OnePerMessage'
    <2> SUFFICES ASSUME NEW i \in Ids, NEW j \in Ids,
                        rows'[i].state = "live", rows'[j].state = "live",
                        rows'[i].raw = rows'[j].raw, i # j
                 PROVE  rows'[i].raw \in shared
      BY <1>2 DEF OnePerMessage, Live
    <2>1. CASE i # n /\ j # n
      BY <1>5, <2>1 DEF IInv, OnePerMessage
    <2>2. CASE i = n \/ j = n
      BY <1>3, <1>5, <1>16, <2>2
    <2> QED BY <2>1, <2>2
  <1>18. ClaimsOK'
    <2>1. Claimed(w)' \subseteq Claimed(w) \ {m}
      <3>1. jobs[w].todo \subseteq Times
        BY <1>0 DEF Job
      <3> QED BY <1>1, <3>1, HorizonAssumption DEF Claimed, Times
    <2>2. \A v \in Workers \ {w} : Claimed(v)' = Claimed(v)
      BY <1>1 DEF Claimed
    <2>3. ASSUME NEW v \in Workers, NEW l \in Claimed(v)', l \notin shared
          PROVE  /\ \A i \in Ids : rows'[i].state = "live" => rows'[i].raw # l
                 /\ \A u \in Workers \ {v} : l \notin Claimed(u)'
      <3>1. l \in Claimed(v) /\ l # m
        BY <1>16, <2>1, <2>2, <2>3
      <3>2. \A i \in Ids : rows'[i].state = "live" => rows'[i].raw # l
        BY <1>3, <1>5, <2>3, <3>1 DEF IInv, ClaimsOK
      <3>3. \A u \in Workers \ {v} : l \notin Claimed(u)'
        BY <2>1, <2>2, <2>3, <3>1 DEF IInv, ClaimsOK
      <3> QED BY <3>2, <3>3
    <2> QED BY <1>2, <2>3 DEF ClaimsOK, Live
  <1>19. NothingLost'
    <2> SUFFICES ASSUME NEW l \in Times, raws'[l] = "parsed"
                 PROVE  \/ \E i \in Ids : rows'[i].state # "unused" /\ rows'[i].raw = l
                        \/ l \in interrupted'
                        \/ \E v \in Workers : jobs'[v].half = l
      BY DEF NothingLost
    <2>1. CASE l = m
      BY <1>3, <2>1
    <2>2. CASE l # m
      <3>1. raws[l] = "parsed"
        BY <1>0, <1>2, <2>2 DEF TypeOK
      <3>2. \A v \in Workers : jobs[v].half = l => jobs'[v].half = l
        BY <1>1, <1>2, <2>2, HorizonAssumption DEF Times
      <3> QED BY <1>2, <1>3, <3>1, <3>2 DEF IInv, NothingLost, RowsKept, Used
    <2> QED BY <2>1, <2>2
  <1> QED BY <1>13, <1>14, <1>15, <1>17, <1>18, <1>19 DEF IInv

\* Every step keeps the invariant.
LEMMA InvHolds == ASSUME IInv, [Next]_vars PROVE IInv'
  <1>0. TypeOK /\ TypeOK'
    BY TypesHold DEF IInv
  <1>1. CASE Tick \/ (\E m \in Times : Arrive(m))
             \/ (\E s \in Sessions : SetScheduled(s) \/ Purge(s)) \/ UNCHANGED vars
    <2>1. UNCHANGED <<from, raws, rows, jobs, interrupted, shared>>
      BY <1>1 DEF Tick, Arrive, SetScheduled, Purge, vars, world, store
    <2> QED BY <1>0, <2>1, OthersKeep
            DEF RowsKept, RawsKept, NoNewRow, ReplacedWasDropped, Used
  <1>2. ASSUME NEW d \in Ids, DeleteCheckin(d) PROVE IInv'
    <2>1. UNCHANGED <<from, raws, jobs, interrupted, shared>>
      BY <1>2 DEF DeleteCheckin, world
    <2>2. [rows[d] EXCEPT !.state = "removed"].state = "removed"
          /\ [rows[d] EXCEPT !.state = "removed"].session = rows[d].session
          /\ [rows[d] EXCEPT !.state = "removed"].raw = rows[d].raw
      BY <1>0 DEF TypeOK, Row
    <2>3. rows' = [rows EXCEPT ![d] = [rows[d] EXCEPT !.state = "removed"]] /\ Live(d)
      BY <1>2 DEF DeleteCheckin
    <2>4. /\ rows'[d].state = "removed" /\ rows'[d].session = rows[d].session
          /\ rows'[d].raw = rows[d].raw /\ \A i \in Ids \ {d} : rows'[i] = rows[i]
      BY <1>0, <2>2, <2>3 DEF TypeOK
    <2>5. RowsKept /\ NoNewRow /\ ReplacedWasDropped
      BY <2>3, <2>4 DEF RowsKept, NoNewRow, ReplacedWasDropped, Used, Live
    <2> QED BY <1>0, <2>1, <2>5, OthersKeep DEF RawsKept
  <1>3. ASSUME NEW w \in Workers, PersistRawMessages(w) PROVE IInv'
    <2>1. UNCHANGED <<from, rows, jobs, interrupted, shared>>
      BY <1>3 DEF PersistRawMessages, world
    <2>2. RawsKept /\ \A m \in Times : raws'[m] = "parsed" => raws[m] = "parsed"
      BY <1>3 DEF PersistRawMessages, RawsKept
    <2> QED BY <1>0, <2>1, <2>2, OthersKeep
            DEF RowsKept, NoNewRow, ReplacedWasDropped, Used
  <1>4. ASSUME NEW w \in Workers, NEW s \in Sessions, StartScan(w, s) PROVE IInv'
    <2> DEFINE reuse == NewMessages \cap Stored
    <2>1. NewMessages \in SUBSET Times /\ reuse \in SUBSET Times
      BY DEF NewMessages, Stored, IInv, TypeOK
    <2>2. \A m \in reuse : raws[m] # "none" /\ \A i \in Ids : Live(i) => rows[i].raw # m
      BY DEF NewMessages, Stored, IInv, RowsOK, Live, Used
    <2>3. Free(w) /\ Begin(w, "scan", s, NewMessages, reuse)
          /\ UNCHANGED <<from, store, interrupted>>
      BY <1>4 DEF StartScan, world
    <2> HIDE DEF reuse
    <2> QED BY <1>0, <2>1, <2>2, <2>3, BeginKeeps
  <1>5. ASSUME NEW s \in Sessions, StartReparse(s) PROVE IInv'
    <2>1. Orphans(s) \in SUBSET Times
      BY DEF Orphans, Stored
    <2>2. \A m \in Orphans(s) : raws[m] # "none" /\ \A i \in Ids : Live(i) => rows[i].raw # m
      BY DEF Orphans, Stored
    <2>3. "loop" \in Workers /\ Free("loop")
          /\ Begin("loop", "reparse", s, Orphans(s), Orphans(s))
          /\ UNCHANGED <<from, store, interrupted>>
      BY <1>5 DEF StartReparse, world, LoopFree, Free
    <2> QED BY <1>0, <2>1, <2>2, <2>3, BeginKeeps
  <1>6. ASSUME NEW w \in Workers, NEW m \in Times, GeocodeCommit(w, m) \/ ProcessMessage(w, m)
        PROVE  IInv'
    BY <1>0, <1>6, GeocodeKeeps, ProcessKeeps
  <1>7. ASSUME NEW w \in Workers, Finish(w) PROVE IInv'
    <2>1. /\ jobs'[w] = Idle /\ \A v \in Workers \ {w} : jobs'[v] = jobs[v]
          /\ rows' = WithoutDropped(w) /\ UNCHANGED <<from, raws, interrupted, shared>>
      BY <1>0, <1>7 DEF Finish, TypeOK, world
    <2>2. RowsKept /\ NoNewRow /\ ReplacedWasDropped
      BY <1>0, <2>1, DroppedEffect DEF RowsKept, NoNewRow, ReplacedWasDropped, Used, Live
    <2>3. jobs[w].half = 0
      BY <1>7 DEF Finish, IInv, JobOK, HalfOK
    <2> DEFINE ended == {w}
    <2>4. ended \in SUBSET Workers /\ \A v \in ended : v = w
      OBVIOUS
    <2>5. \A v \in Workers \ ended : v # w
      OBVIOUS
    <2> HIDE DEF ended
    <2> QED BY <1>0, <2>1, <2>2, <2>3, <2>4, <2>5, EndKeeps
  <1>8. ASSUME NEW w \in Workers, Fail(w) PROVE IInv'
    <2>1. /\ jobs'[w] = Idle /\ \A v \in Workers \ {w} : jobs'[v] = jobs[v]
          /\ interrupted \subseteq interrupted'
          /\ jobs[w].half # 0 => jobs[w].half \in interrupted'
          /\ UNCHANGED <<from, raws, rows, shared>>
      BY <1>0, <1>8 DEF Fail, TypeOK, world, store
    <2>2. RowsKept /\ NoNewRow /\ ReplacedWasDropped
      BY <2>1 DEF RowsKept, NoNewRow, ReplacedWasDropped, Used
    <2> DEFINE ended == {w}
    <2>4. ended \in SUBSET Workers /\ \A v \in ended : v = w
      OBVIOUS
    <2>5. \A v \in Workers \ ended : v # w
      OBVIOUS
    <2> HIDE DEF ended
    <2> QED BY <1>0, <2>1, <2>2, <2>4, <2>5, EndKeeps
  <1>9. CASE Restart
    <2>1. /\ \A w \in Workers : jobs'[w] = Idle
          /\ interrupted \subseteq interrupted'
          /\ \A w \in Workers : jobs[w].half # 0 => jobs[w].half \in interrupted'
          /\ UNCHANGED <<from, raws, rows, shared>>
      BY <1>9 DEF Restart, world, store
    <2>2. RowsKept /\ NoNewRow /\ ReplacedWasDropped
      BY <2>1 DEF RowsKept, NoNewRow, ReplacedWasDropped, Used
    <2> DEFINE ended == Workers
    <2>3. ended \in SUBSET Workers /\ (\A v \in ended : v \in Workers) /\ Workers \ ended = {}
      OBVIOUS
    <2> HIDE DEF ended
    <2> QED BY <1>0, <2>1, <2>2, <2>3, EndKeeps
  <1> QED
    BY <1>1, <1>2, <1>3, <1>4, <1>5, <1>6, <1>7, <1>8, <1>9 DEF Next, Import

\* The empty tables satisfy it.
LEMMA InitInv == Init => IInv
  <1> SUFFICES ASSUME Init PROVE IInv
    OBVIOUS
  <1>1. TypeOK
    BY IdleTyped, HorizonAssumption DEF Init, TypeOK, NoRow, Row
  <1>2. \A w \in Workers : jobs[w] = Idle
    BY DEF Init
  <1>3. \A w \in Workers : JobOK(w) /\ Claimed(w) = {}
    BY <1>2 DEF JobOK, IdleOK, HalfOK, ReuseOK, LatestOK, DroppedOK, MadeOK, Claimed, Idle, NewJob
  <1>4. \A i \in Ids : rows[i].state = "unused"
    BY DEF Init, NoRow
  <1>5. \A m \in Times : raws[m] = "none"
    BY DEF Init
  <1> QED BY <1>1, <1>3, <1>4, <1>5
          DEF IInv, RowsOK, ClaimsOK, NothingLost, LatestWins, OnePerMessage, Used, Live

\* The invariant holds in every reachable state.
LEMMA Inductive == Spec => []IInv
  BY InitInv, InvHolds, PTL DEF Spec

------------------------------------------------------------------------------
(* Theorems *)

\* No message is lost: scans skip a parsed message only if it has or had a
\* check-in, is being imported, or was given up after the geocoder's commit.
THEOREM MessagesKept == Spec => []NothingLost
  <1>1. IInv => NothingLost
    BY DEF IInv
  <1> QED BY <1>1, Inductive, PTL

\* A scan deletes a check-in only for a later one of the same callsign in the
\* same session.
THEOREM OnlyEarlierReplaced == Spec => []LatestWins
  <1>1. IInv => LatestWins
    BY DEF IInv
  <1> QED BY <1>1, Inductive, PTL

\* A message has one check-in, unless two imports had its stored row at a time.
THEOREM NoMessageTwice == Spec => []OnePerMessage
  <1>1. IInv => OnePerMessage
    BY DEF IInv
  <1> QED BY <1>1, Inductive, PTL

\* A scan that ends has left one check-in per callsign.
THEOREM ScanLeavesOne == Spec => OneLeftPerCallsign
  <1> DEFINE One(w) == jobs[w].pc = "scan" /\ Finish(w) =>
          \A i, j \in jobs[w].made :
              /\ rows'[i].state = "live" /\ rows'[j].state = "live"
              /\ from[rows[i].raw] # None
              /\ from[rows[i].raw] = from[rows[j].raw]
              => i = j
  <1>1. ASSUME IInv, NEW w \in Workers PROVE One(w)
    <2> SUFFICES ASSUME jobs[w].pc = "scan", Finish(w), NEW i \in jobs[w].made, NEW j \in jobs[w].made,
                        rows'[i].state = "live", rows'[j].state = "live",
                        from[rows[i].raw] # None, from[rows[i].raw] = from[rows[j].raw]
                 PROVE  i = j
      OBVIOUS
    <2>1. TypeOK /\ JobOK(w) /\ i \in Ids /\ j \in Ids
      BY <1>1 DEF IInv, TypeOK, Job
    <2>2. \A k \in Ids : rows'[k].state = "live" => Live(k) /\ k \notin jobs[w].dropped
      BY <2>1, DroppedEffect DEF Finish, Live
    <2>3. jobs[w].latest[from[rows[i].raw]] = i /\ jobs[w].latest[from[rows[j].raw]] = j
      BY <2>1, <2>2 DEF JobOK, MadeOK
    <2> QED BY <2>3
  <1>2. IInv => [\A w \in Workers : One(w)]_vars
    BY <1>1
  <1> QED BY <1>2, Inductive, PTL DEF OneLeftPerCallsign
===============================================================================
