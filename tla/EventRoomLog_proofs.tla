------------------------- MODULE EventRoomLog_proofs -------------------------
(***************************************************************************)
(* What the log of an EventRoom is good for: it implements EventLog, the   *)
(* roster and the report can be recomputed from it, and every message has  *)
(* its entry.  The proofs stand on IndInv, the inductive invariant of      *)
(* EventRoom_proofs: a commit that gets its numbers was prepared from the  *)
(* latest row.                                                             *)
(***************************************************************************)
EXTENDS EventRoom_proofs, FiniteSetTheorems, WellFoundedInduction

------------------------------------------------------------------------------
(* What a step adds to the log *)

\* Two entries that tell the same; numbers and pins apart.
Same(e, f) == e.kind = f.kind /\ e.callsign = f.callsign /\ e.new_status = f.new_status

\* log \o new, but for the numbers of the new entries.
AddsToLog(new) ==
    /\ Len(log') = Len(log) + Len(new)
    /\ \A i \in 1..Len(log) : Same(log'[i], log[i])
    /\ \A i \in 1..Len(new) : Same(log'[Len(log) + i], new[i])

\* A commit adds its entries (add_log_entry).
LEMMA CommitAdds ==
    ASSUME IndInv, NEW row \in EventRow, NEW new \in Seq(Entry),
           log' = log \o Stamped(row, new)
    PROVE  AddsToLog(new)
<1> DEFINE added == Stamped(row, new)
<1>1. added \in Seq(Entry) /\ Len(added) = Len(new)
  BY StampedFacts
<1>2. log \in Seq(Entry) /\ Len(log) \in Nat /\ Len(new) \in Nat
  BY LenProperties DEF IndInv, TypeOK
<1>3. \A i \in 1..Len(new) : new[i] \in Entry
  BY ElementOfSeq
<1>4. ASSUME NEW i \in 1..Len(new) PROVE Same(added[i], new[i])
  BY <1>3 DEF Stamped, Same, Entry
<1>0. log' = log \o added
  OBVIOUS
<1> HIDE DEF added
<1>5. /\ Len(log') = Len(log) + Len(new)
      /\ \A i \in 1..Len(log) + Len(new) :
            log'[i] = IF i <= Len(log) THEN log[i] ELSE added[i - Len(log)]
  <2>1. /\ Len(log \o added) = Len(log) + Len(added)
        /\ \A i \in 1..Len(log) + Len(added) :
              (log \o added)[i] = IF i <= Len(log) THEN log[i] ELSE added[i - Len(log)]
    BY <1>1, <1>2, ConcatProperties
  <2> QED BY <2>1, <1>0, <1>1
<1>6. ASSUME NEW i \in 1..Len(log) PROVE Same(log'[i], log[i])
  <2>1. log'[i] = log[i]
    BY <1>2, <1>5
  <2> QED BY <2>1 DEF Same
<1>7. ASSUME NEW i \in 1..Len(new) PROVE Same(log'[Len(log) + i], new[i])
  <2>1. /\ Len(log) + i \in 1..Len(log) + Len(new) /\ ~(Len(log) + i <= Len(log))
        /\ (Len(log) + i) - Len(log) = i
    BY <1>2
  <2>2. log'[Len(log) + i] = added[i]
    BY <2>1, <1>5
  <2> QED BY <2>2, <1>4
<1> QED BY <1>5, <1>6, <1>7 DEF AddsToLog

\* set_log_pinned adds nothing.
LEMMA PinAdds ==
    ASSUME IndInv, NEW r \in Requests, SetLogPinned(r)
    PROVE  AddsToLog(<<>>)
<1>1. PICK k \in 1..Len(log), pin \in Pins : log' = [log EXCEPT ![k].pinned = pin]
  BY DEF SetLogPinned
<1> DEFINE e == [log[k] EXCEPT !.pinned = pin]
<1>2. log \in Seq(Entry) /\ Len(log) \in Nat /\ log[k] \in Entry
  BY ElementOfSeq, LenProperties DEF IndInv, TypeOK
<1>3. e \in Entry /\ Same(e, log[k])
  BY <1>2, FlagAssumption DEF Entry, Same
<1>4. log' = [log EXCEPT ![k] = e]
  BY <1>1
<1> HIDE DEF e
<1>5. /\ Len(log') = Len(log)
      /\ \A i \in 1..Len(log) : log'[i] = IF i = k THEN e ELSE log[i]
  BY <1>2, <1>3, <1>4, ExceptSeq
<1>6. \A i \in 1..Len(log) : Same(log'[i], log[i])
  BY <1>3, <1>5 DEF Same
<1>7. Len(<<>>) = 0
  OBVIOUS
<1> QED BY <1>2, <1>5, <1>6, <1>7 DEF AddsToLog

\* A step that leaves the log alone.
LEMMA NothingAdds ==
    ASSUME IndInv, log' = log
    PROVE  AddsToLog(<<>>)
<1>1. Len(log) \in Nat /\ Len(<<>>) = 0
  BY LenProperties DEF IndInv, TypeOK
<1> QED BY <1>1 DEF AddsToLog, Same

\* The handlers that commit entries do so for an event in the status their
\* copy shows (ActiveWriter), and add just those.
LEMMA HandlerAdds ==
    ASSUME IndInv, NEW r \in Requests, NEW statuses, Handles(r, statuses),
           NEW new \in Seq(Entry), Len(new) # 0, NEW status \in {"active", "closed"},
           CommitLog(requests[r].row, new, status)
    PROVE  /\ AddsToLog(new)
           /\ event.status \in statuses
           /\ event'.status = status
<1>1. requests[r].row \in EventRow
  BY DEF IndInv, SnapshotsTell, Handles
<1>2. log' = log \o Stamped(requests[r].row, new)
  BY DEF CommitLog
<1>3. event'.status = status
  BY DEF CommitLog, IndInv, TypeOK, EventRow
<1> QED BY <1>1, <1>2, <1>3, CommitAdds, ActiveWriter

------------------------------------------------------------------------------
(* The log implements EventLog *)

KindsOf(L) == [i \in 1..Len(L) |-> L[i].kind]

\* What is added to the log is added to its kinds.
LEMMA KindsAdded ==
    ASSUME IndInv, IndInv', NEW new \in Seq(Entry), AddsToLog(new)
    PROVE  KindsOf(log)' = KindsOf(log) \o KindsOf(new)
<1>1. /\ log \in Seq(Entry) /\ log' \in Seq(Entry)
      /\ Len(log) \in Nat /\ Len(log') \in Nat /\ Len(new) \in Nat
  BY LenProperties DEF IndInv, TypeOK
<1>2. ASSUME NEW L \in Seq(Entry)
      PROVE  KindsOf(L) \in Seq(Kinds) /\ Len(KindsOf(L)) = Len(L)
  <2>1. Len(L) \in Nat /\ \A i \in 1..Len(L) : L[i].kind \in Kinds
    <3>1. Len(L) \in Nat /\ \A i \in 1..Len(L) : L[i] \in Entry
      BY ElementOfSeq, LenProperties
    <3> QED BY <3>1 DEF Entry
  <2>2. KindsOf(L) \in [1..Len(L) -> Kinds]
    BY <2>1 DEF KindsOf
  <2> QED BY <2>1, <2>2, SeqDef, LenProperties
<1> DEFINE old == KindsOf(log)
           add == KindsOf(new)
           now == KindsOf(log')
<1>3. /\ old \in Seq(Kinds) /\ Len(old) = Len(log)
      /\ add \in Seq(Kinds) /\ Len(add) = Len(new)
      /\ now \in Seq(Kinds) /\ Len(now) = Len(log')
  BY <1>1, <1>2
<1>4. /\ \A i \in 1..Len(log) : old[i] = log[i].kind
      /\ \A i \in 1..Len(new) : add[i] = new[i].kind
      /\ \A i \in 1..Len(log') : now[i] = log'[i].kind
  BY DEF KindsOf
<1>5. now = KindsOf(log)'
  BY DEF KindsOf
<1> HIDE DEF old, add, now
<1>6. /\ old \o add \in Seq(Kinds)
      /\ Len(old \o add) = Len(old) + Len(add)
      /\ \A i \in 1..Len(old) + Len(add) :
            (old \o add)[i] = IF i <= Len(old) THEN old[i] ELSE add[i - Len(old)]
  BY <1>3, ConcatProperties
<1>7. Len(now) = Len(old) + Len(add)
  BY <1>3 DEF AddsToLog
<1>8. ASSUME NEW i \in 1..Len(log) + Len(new) PROVE now[i] = (old \o add)[i]
  <2>1. CASE i <= Len(log)
    <3>1. i \in 1..Len(log) /\ i \in 1..Len(log')
      BY <2>1, <1>1, <1>3, <1>7
    <3>2. now[i] = log[i].kind
      BY <3>1, <1>4 DEF AddsToLog, Same
    <3> QED BY <3>1, <3>2, <1>1, <1>3, <1>4, <1>6, <2>1
  <2>2. CASE ~(i <= Len(log))
    <3> DEFINE j == i - Len(log)
    <3>1. j \in 1..Len(new) /\ i = Len(log) + j /\ i \in 1..Len(log')
      BY <2>2, <1>1, <1>3, <1>7
    <3>2. now[i] = log'[i].kind
      BY <3>1, <1>4
    <3>3. log'[i].kind = new[j].kind
      <4> HIDE DEF j
      <4> QED BY <3>1 DEF AddsToLog, Same
    <3>4. (old \o add)[i] = add[j]
      BY <1>1, <1>3, <1>6, <2>2
    <3> HIDE DEF j
    <3> QED BY <3>1, <3>2, <3>3, <3>4, <1>4
  <2> QED BY <2>1, <2>2
<1>9. now = old \o add
  <2> DEFINE both == old \o add
  <2>1. both \in Seq(Kinds) /\ Len(both) = Len(now) /\ \A i \in 1..Len(now) : now[i] = both[i]
    BY <1>1, <1>3, <1>6, <1>7, <1>8
  <2> HIDE DEF both
  <2>2. now = both
    BY <2>1, <1>3, SeqEqual
  <2> QED BY <2>2 DEF both
<1> QED BY <1>5, <1>9 DEF old, add

\* One entry adds its kind.
LEMMA OneKind ==
    ASSUME IndInv, IndInv', NEW e \in Entry, AddsToLog(<<e>>)
    PROVE  KindsOf(log)' = Append(KindsOf(log), e.kind)
<1>1. <<e>> \in Seq(Entry) /\ Len(<<e>>) = 1 /\ <<e>>[1] = e
  OBVIOUS
<1>2. KindsOf(log)' = KindsOf(log) \o KindsOf(<<e>>)
  BY <1>1, KindsAdded
<1>3. e.kind \in Kinds
  BY DEF Entry
<1>4. KindsOf(<<e>>) = <<e.kind>>
  <2>1. /\ KindsOf(<<e>>) \in Seq(Kinds) /\ Len(KindsOf(<<e>>)) = 1
        /\ KindsOf(<<e>>)[1] = e.kind
    <3>1. KindsOf(<<e>>) = [i \in 1..1 |-> e.kind]
      BY <1>1 DEF KindsOf
    <3> DEFINE k == KindsOf(<<e>>)
    <3>2. k \in [1..1 -> Kinds] /\ k[1] = e.kind
      BY <1>3, <3>1
    <3> HIDE DEF k
    <3>3. k \in Seq(Kinds) /\ Len(k) = 1
      <4>1. 1 \in Nat
        OBVIOUS
      <4>2. k \in Seq(Kinds)
        BY <3>2, <4>1, SeqDef
      <4> QED BY <3>2, <4>1, <4>2, LenProperties
    <3> QED BY <3>2, <3>3 DEF k
  <2> DEFINE k == KindsOf(<<e>>)
  <2> HIDE DEF k
  <2>2. k \in Seq(Kinds) /\ Len(k) = 1 /\ k[1] = e.kind
    BY <2>1 DEF k
  <2>3. <<e.kind>> \in Seq(Kinds) /\ Len(<<e.kind>>) = 1 /\ <<e.kind>>[1] = e.kind
    BY <1>3
  <2>4. k = <<e.kind>>
    BY <2>2, <2>3, SeqEqual
  <2> QED BY <2>4 DEF k
<1>5. KindsOf(log) \in Seq(Kinds)
  <2>1. log \in Seq(Entry) /\ Len(log) \in Nat /\ \A i \in 1..Len(log) : log[i] \in Entry
    BY ElementOfSeq, LenProperties DEF IndInv, TypeOK
  <2>2. KindsOf(log) \in [1..Len(log) -> Kinds]
    BY <2>1 DEF KindsOf, Entry
  <2> QED BY <2>1, <2>2, SeqDef
<1> HIDE DEF KindsOf
<1> QED BY <1>2, <1>3, <1>4, <1>5, AppendIsConcat

\* A step that adds nothing and leaves the status alone is no step of EventLog.
LEMMA QuietPromise ==
    ASSUME IndInv, IndInv', event'.status = event.status, AddsToLog(<<>>)
    PROVE  UNCHANGED Promise!logVars
<1>1. Len(log) \in Nat /\ Len(log') = Len(log) /\ \A i \in 1..Len(log) : log'[i].kind = log[i].kind
  <2>1. Len(<<>>) = 0 /\ Len(log) \in Nat
    BY LenProperties DEF IndInv, TypeOK
  <2> QED BY <2>1 DEF AddsToLog, Same
<1>2. [i \in 1..Len(log') |-> log'[i].kind] = [i \in 1..Len(log) |-> log[i].kind]
  BY <1>1
<1> QED BY <1>2 DEF Promise!logVars

\* activate_event, close_event and reopen_event are Transitions.
LEMMA LifecyclePromise ==
    ASSUME IndInv, IndInv', NEW r \in Requests, NEW from, NEW to \in {"active", "closed"},
           NEW kind \in Kinds, Handles(r, {from}),
           CommitLog(requests[r].row, LifecycleEntry(kind), to)
    PROVE  Promise!Transition(from, to, kind)
<1>1. /\ LifecycleEntry(kind) \in Seq(Entry) /\ Len(LifecycleEntry(kind)) # 0
      /\ LogEntry(kind, None, None, Unpinned) \in Entry
  <2>1. Unpinned \in BOOLEAN
    BY DEF Unpinned
  <2>2. LogEntry(kind, None, None, Unpinned) \in Entry
    BY <2>1, LogEntryType
  <2>3. LifecycleEntry(kind) \in Seq(Entry) /\ Len(LifecycleEntry(kind)) = 1
    BY PlainEntries DEF LifecycleEntry
  <2> QED BY <2>2, <2>3
<1>2. /\ AddsToLog(LifecycleEntry(kind))
      /\ event.status = from
      /\ event'.status = to
  BY <1>1, HandlerAdds
<1>3. LogEntry(kind, None, None, Unpinned).kind = kind
  BY DEF LogEntry
<1>4. KindsOf(log)' = Append(KindsOf(log), kind)
  BY <1>1, <1>2, <1>3, OneKind DEF LifecycleEntry
<1> QED BY <1>2, <1>4 DEF Promise!Transition, KindsOf

\* An operator's commit is a Record.
LEMMA OperatorPromise ==
    ASSUME IndInv, IndInv', NEW r \in Requests, Handles(r, {"active"}),
           NEW new \in Seq(Entry), Len(new) # 0, Len(new) <= 3,
           \A i \in 1..Len(new) : new[i].kind = "operator",
           CommitLog(requests[r].row, new, event.status)
    PROVE  Promise!Record
<1>1. Len(new) \in 1..3
  <2>1. Len(new) \in Nat
    BY LenProperties
  <2>2. \A n \in Nat : n # 0 /\ n <= 3 => n \in 1..3
    BY ONLY SMT
  <2> QED BY <2>1, <2>2, Zenon
<1>2. event.status = "active"
  BY ActiveWriter
<1>3. AddsToLog(new) /\ event'.status = event.status
  BY <1>2, HandlerAdds
<1>4. KindsOf(log)' = KindsOf(log) \o KindsOf(new)
  BY <1>3, KindsAdded
<1>5. KindsOf(new) = [i \in 1..Len(new) |-> "operator"]
  BY DEF KindsOf
<1>6. \E n \in 1..3 : KindsOf(log)' = KindsOf(log) \o [i \in 1..n |-> "operator"]
  BY <1>1, <1>4, <1>5
<1> QED BY <1>2, <1>3, <1>6 DEF Promise!Record, KindsOf

\* What a PATCH of a participant logs: at most three entries of the operator
\* about the callsign; the first tells the new status, if there is one.
LEMMA PatchEntriesShape ==
    ASSUME NEW c \in Callsigns, NEW patch \in Patches
    PROVE  LET new == PatchEntries(c, patch) IN
           /\ Len(new) <= 3
           /\ \A i \in 1..Len(new) : new[i].kind = "operator" /\ new[i].callsign = c
           /\ patch.status \in {"unset", participants[c].status} =>
                 \A i \in 1..Len(new) : new[i].new_status = None
           /\ patch.status \notin {"unset", participants[c].status} =>
                 /\ new # <<>>
                 /\ new[1].new_status = patch.status
                 /\ \A i \in 2..Len(new) : new[i].new_status = None
<1> DEFINE plain == patch.status \in {"unset", participants[c].status}
           told == StatusEntries(c, patch)
           assigned == AssignEntries(c, patch)
           placed == LocationEntries(c, patch)
           new == PatchEntries(c, patch)
           About(e, s) == e.kind = "operator" /\ e.callsign = c /\ e.new_status = s
<1>1. new = (told \o assigned) \o placed
  BY DEF PatchEntries
<1>2. /\ new \in Seq(Entry) /\ told \in Seq(Entry) /\ assigned \in Seq(Entry) /\ placed \in Seq(Entry)
  <2>1. /\ patch.status \in ParticipantStatus \cup {"unset"}
        /\ "operator" \in Kinds
    BY DEF Patches, Kinds
  <2>2. told \in Seq(Entry)
    <3>1. CASE plain
      BY <3>1, EmptySeq DEF StatusEntries
    <3>2. CASE ~plain
      BY <2>1, <3>2, PlainEntries DEF StatusEntries
    <3> QED BY <3>1, <3>2
  <2>3. assigned \in Seq(Entry)
    BY <2>1, PlainEntries, EmptySeq DEF AssignEntries
  <2>4. placed \in Seq(Entry)
    BY <2>1, PlainEntries, EmptySeq DEF LocationEntries
  <2> QED BY <2>2, <2>3, <2>4, PatchEntriesType
<1>3. IF plain THEN Len(told) = 0 ELSE Len(told) = 1 /\ About(told[1], patch.status)
  BY DEF StatusEntries, LogEntry
<1>4. Len(assigned) = 0 \/ (Len(assigned) = 1 /\ About(assigned[1], None))
  BY DEF AssignEntries, LogEntry
<1>5. Len(placed) = 0 \/ (Len(placed) = 1 /\ About(placed[1], None))
  BY DEF LocationEntries, LogEntry
<1> HIDE DEF told, assigned, placed, new, About, plain
<1> DEFINE both == told \o assigned
<1>6. /\ both \in Seq(Entry) /\ Len(both) = Len(told) + Len(assigned)
      /\ \A i \in 1..Len(told) + Len(assigned) :
            both[i] = IF i <= Len(told) THEN told[i] ELSE assigned[i - Len(told)]
  BY <1>2, ConcatProperties
<1>7. new = both \o placed
  BY <1>1
<1> HIDE DEF both
<1>8. /\ Len(new) = Len(both) + Len(placed)
      /\ \A i \in 1..Len(both) + Len(placed) :
            new[i] = IF i <= Len(both) THEN both[i] ELSE placed[i - Len(both)]
  <2>1. /\ Len(both \o placed) = Len(both) + Len(placed)
        /\ \A i \in 1..Len(both) + Len(placed) :
              (both \o placed)[i] = IF i <= Len(both) THEN both[i] ELSE placed[i - Len(both)]
    <3>1. both \in Seq(Entry) /\ placed \in Seq(Entry)
      BY <1>2, <1>6
    <3> QED BY <3>1, ConcatProperties
  <2> QED BY <2>1, <1>7
<1>9. Len(new) <= 3
  BY <1>3, <1>4, <1>5, <1>6, <1>8
<1>10. ASSUME plain PROVE \A i \in 1..Len(new) : About(new[i], None)
  BY <1>3, <1>4, <1>5, <1>6, <1>8, <1>10
<1>11. ASSUME ~plain
       PROVE  /\ Len(new) \in 1..3 /\ About(new[1], patch.status)
              /\ \A i \in 2..Len(new) : About(new[i], None)
  <2>1. Len(told) = 1 /\ About(told[1], patch.status)
    BY <1>3, <1>11
  <2>2. Len(new) \in 1..3
    BY <1>4, <1>5, <1>6, <1>8, <2>1
  <2>3. new[1] = told[1]
    BY <1>4, <1>5, <1>6, <1>8, <2>1
  <2>4. \A i \in 2..Len(new) : About(new[i], None)
    BY <1>4, <1>5, <1>6, <1>8, <2>1
  <2> QED BY <2>1, <2>2, <2>3, <2>4
<1>12. \A i \in 1..Len(new) : i = 1 \/ i \in 2..Len(new)
  BY <1>2, LenProperties
<1>13. CASE plain
  BY <1>9, <1>10, <1>13 DEF About, plain, new
<1>14. CASE ~plain
  <2>1. new # <<>>
    BY <1>2, <1>11, <1>14, EmptySeq
  <2> QED BY <1>9, <1>11, <1>12, <1>14, <2>1 DEF About, plain, new
<1> QED BY <1>13, <1>14

Mapped == [Promise!Next]_(Promise!logVars)

\* The operator's entry of check_in and of add_note.
LEMMA OneEntry ==
    ASSUME NEW c \in Callsigns \cup {None}, NEW s \in ParticipantStatus \cup {None},
           NEW pin \in BOOLEAN
    PROVE  LET new == <<LogEntry("operator", c, s, pin)>> IN
           /\ new \in Seq(Entry) /\ Len(new) = 1 /\ new # <<>>
           /\ new[1].kind = "operator" /\ new[1].callsign = c /\ new[1].new_status = s
<1>1. "operator" \in Kinds
  BY DEF Kinds
<1>2. LogEntry("operator", c, s, pin) \in Entry
  BY <1>1, LogEntryType
<1>3. /\ LogEntry("operator", c, s, pin).kind = "operator"
      /\ LogEntry("operator", c, s, pin).callsign = c
      /\ LogEntry("operator", c, s, pin).new_status = s
  BY DEF LogEntry
<1> QED BY <1>2, <1>3

\* The handlers, one by one.
LEMMA HandlerPromise ==
    ASSUME IndInv, IndInv', NEW r \in Requests, Handler(r)
    PROVE  Mapped
<1>1. CASE Activate(r)
  <2>1. /\ Handles(r, {"draft"})
        /\ CommitLog(requests[r].row, LifecycleEntry("activated"), "active")
    BY <1>1 DEF Activate
  <2>2. Promise!Transition("draft", "active", "activated")
    BY <2>1, LifecyclePromise DEF Kinds
  <2> QED BY <2>2 DEF Mapped, Promise!Next
<1>2. CASE Close(r)
  <2>1. /\ Handles(r, {"active"})
        /\ CommitLog(requests[r].row, LifecycleEntry("closed"), "closed")
    BY <1>2 DEF Close
  <2>2. Promise!Transition("active", "closed", "closed")
    BY <2>1, LifecyclePromise DEF Kinds
  <2> QED BY <2>2 DEF Mapped, Promise!Next
<1>3. CASE Reopen(r)
  <2>1. /\ Handles(r, {"closed"})
        /\ CommitLog(requests[r].row, LifecycleEntry("reopened"), "active")
    BY <1>3 DEF Reopen
  <2>2. Promise!Transition("closed", "active", "reopened")
    BY <2>1, LifecyclePromise DEF Kinds
  <2> QED BY <2>2 DEF Mapped, Promise!Next
<1>4. CASE Delete(r)
  <2>1. event.status \in Live /\ event'.status = "deleted" /\ log' = <<>>
    BY <1>4 DEF Delete, Handles, IndInv, TypeOK, EventRow
  <2>2. [i \in 1..Len(log') |-> log'[i].kind] = <<>>
    <3>1. Len(log') = 0
      BY <2>1
    <3>2. [i \in 1..0 |-> log'[i].kind] = <<>>
      OBVIOUS
    <3> QED BY <3>1, <3>2
  <2>3. Promise!Delete
    BY <2>1, <2>2 DEF Promise!Delete, Live
  <2> QED BY <2>3 DEF Mapped, Promise!Next
<1>5. CASE CheckIn(r)
  <2>1. PICK c \in Callsigns :
          CommitLog(requests[r].row, <<LogEntry("operator", c, "checked_in", Unpinned)>>,
                    event.status)
    BY <1>5 DEF CheckIn
  <2>2. Handles(r, {"active"})
    BY <1>5 DEF CheckIn
  <2> DEFINE new == <<LogEntry("operator", c, "checked_in", Unpinned)>>
  <2>3. new \in Seq(Entry) /\ Len(new) = 1 /\ new[1].kind = "operator"
    BY OneEntry DEF ParticipantStatus, Unpinned
  <2> HIDE DEF new
  <2>4. Promise!Record
    <3>1. CommitLog(requests[r].row, new, event.status)
      BY <2>1 DEF new
    <3>2. \A i \in 1..Len(new) : new[i].kind = "operator"
      BY <2>3
    <3>3. Len(new) # 0 /\ Len(new) <= 3
      BY <2>3
    <3> QED BY <2>2, <2>3, <3>1, <3>2, <3>3, OperatorPromise
  <2> QED BY <2>4 DEF Mapped, Promise!Next
<1>6. CASE AddNote(r)
  <2>1. PICK c \in Callsigns \cup {None}, pin \in Pins :
          CommitLog(requests[r].row, <<LogEntry("operator", c, None, pin)>>, event.status)
    BY <1>6 DEF AddNote
  <2>2. Handles(r, {"active"})
    BY <1>6 DEF AddNote
  <2> DEFINE new == <<LogEntry("operator", c, None, pin)>>
  <2>3. new \in Seq(Entry) /\ Len(new) = 1 /\ new[1].kind = "operator"
    BY OneEntry, FlagAssumption
  <2> HIDE DEF new
  <2>4. Promise!Record
    <3>1. CommitLog(requests[r].row, new, event.status)
      BY <2>1 DEF new
    <3>2. \A i \in 1..Len(new) : new[i].kind = "operator"
      BY <2>3
    <3>3. Len(new) # 0 /\ Len(new) <= 3
      BY <2>3
    <3> QED BY <2>2, <2>3, <3>1, <3>2, <3>3, OperatorPromise
  <2> QED BY <2>4 DEF Mapped, Promise!Next
<1>7. CASE UpdateParticipant(r)
  <2>1. PICK c \in Callsigns, patch \in Patches :
          IF PatchEntries(c, patch) = <<>> THEN UNCHANGED <<event, log>>
          ELSE CommitLog(requests[r].row, PatchEntries(c, patch), event.status)
    BY <1>7 DEF UpdateParticipant
  <2>2. Handles(r, {"active"})
    BY <1>7 DEF UpdateParticipant
  <2> DEFINE new == PatchEntries(c, patch)
  <2>3. /\ new \in Seq(Entry) /\ Len(new) <= 3 /\ \A i \in 1..Len(new) : new[i].kind = "operator"
        /\ new # <<>> => Len(new) # 0
    BY PatchEntriesShape, PatchEntriesType, EmptySeq
  <2> HIDE DEF new
  <2>4. CASE new = <<>>
    <3>1. event' = event /\ log' = log
      BY <2>1, <2>4 DEF new
    <3> QED BY <3>1, NothingAdds, QuietPromise DEF Mapped
  <2>5. CASE new # <<>>
    <3>1. CommitLog(requests[r].row, new, event.status)
      BY <2>1, <2>5 DEF new
    <3>2. Promise!Record
      BY <2>2, <2>3, <2>5, <3>1, OperatorPromise
    <3> QED BY <3>2 DEF Mapped, Promise!Next
  <2> QED BY <2>4, <2>5
<1>8. CASE SetLogPinned(r)
  <2>1. event'.status = event.status
    BY <1>8 DEF SetLogPinned
  <2> QED BY <1>8, <2>1, PinAdds, QuietPromise DEF Mapped
<1>9. CASE \/ Refuse(r) \/ DispatchMessage(r) \/ UpdateEvent(r) \/ SendMessage(r)
           \/ CreatePost(r) \/ UpdatePost(r) \/ DeletePost(r)
           \/ SetMessageStatus(r) \/ RetryMessage(r) \/ Rescan(r)
  <2>1. log' = log /\ event'.status = event.status
    <3>1. CASE Refuse(r) \/ DispatchMessage(r) \/ CreatePost(r) \/ UpdatePost(r) \/ DeletePost(r)
      BY <3>1 DEF Refuse, DispatchMessage, CreatePost, UpdatePost, DeletePost, tables
    <3>2. CASE UpdateEvent(r) \/ SendMessage(r)
      BY <3>2 DEF UpdateEvent, SendMessage, IndInv, TypeOK, EventRow
    <3>3. CASE SetMessageStatus(r) \/ RetryMessage(r) \/ Rescan(r)
      BY <3>3 DEF SetMessageStatus, RetryMessage, Rescan, tables
    <3> QED BY <1>9, <3>1, <3>2, <3>3
  <2> QED BY <2>1, NothingAdds, QuietPromise DEF Mapped
<1> QED BY <1>1, <1>2, <1>3, <1>4, <1>5, <1>6, <1>7, <1>8, <1>9 DEF Handler

\* What a scan's commit adds: the breadcrumb of one message.
LEMMA BreadCrumbAdds ==
    ASSUME IndInv, NEW s \in Scanners, ScanCommit(s), log' # log
    PROVE  /\ AddsToLog(BreadCrumb)
           /\ BreadCrumb = <<BreadCrumb[1]>> /\ BreadCrumb[1] \in Entry
           /\ BreadCrumb[1].kind = "inbound" /\ BreadCrumb[1].new_status = None
           /\ event.status \in {"active", "closed"}
           /\ event'.status = event.status
           /\ ~Routed(scans[s].raw)
           /\ messages' = Append(messages, [msg_seq |-> scans[s].row.msg_seq + 1,
                                            raw |-> scans[s].raw,
                                            status |-> "unread", delivery |-> None])
           /\ event'.msg_seq = scans[s].row.msg_seq + 1
<1> DEFINE e == LogEntry("inbound", None, None, Unpinned)
<1>1. /\ scans[s].row \in EventRow /\ event.status \notin {"none", "draft"}
      /\ scans[s].row.log_seq + 1 \in Nat /\ scans[s].row.msg_seq + 1 \in Nat
  BY DEF ScanCommit, IndInv, SnapshotsTell, EventRow
<1>2. /\ event.status \in Live
      /\ ~Routed(scans[s].raw)
      /\ log' = log \o Stamped(scans[s].row, BreadCrumb)
      /\ messages' = Append(messages, [msg_seq |-> scans[s].row.msg_seq + 1,
                                       raw |-> scans[s].raw,
                                       status |-> "unread", delivery |-> None])
      /\ event' = [event EXCEPT !.log_seq = scans[s].row.log_seq + 1,
                                !.msg_seq = scans[s].row.msg_seq + 1]
  BY DEF ScanCommit
<1>3. e \in Entry /\ e.kind = "inbound" /\ e.new_status = None
  <2>1. "inbound" \in Kinds /\ Unpinned \in BOOLEAN
    BY DEF Kinds, Unpinned
  <2>2. e \in Entry
    BY <2>1, LogEntryType
  <2> QED BY <2>2 DEF LogEntry
<1>4. BreadCrumb = <<e>>
  BY DEF BreadCrumb
<1> HIDE DEF e
<1>5. BreadCrumb[1] = e /\ BreadCrumb \in Seq(Entry)
  BY <1>3, <1>4
<1>6. AddsToLog(BreadCrumb)
  BY <1>1, <1>2, <1>5, CommitAdds
<1>7. event'.status = event.status /\ event'.msg_seq = scans[s].row.msg_seq + 1
  BY <1>1, <1>2 DEF IndInv, TypeOK, EventRow
<1>8. event.status \in {"active", "closed"}
  BY <1>1, <1>2 DEF Live
<1> QED BY <1>2, <1>3, <1>4, <1>5, <1>6, <1>7, <1>8

\* A scan's commit is a Receive; its other steps are none.
LEMMA ScanPromise ==
    ASSUME IndInv, IndInv', NEW s \in Scanners, ScanStep(s)
    PROVE  Mapped
<1>1. CASE ScanCommit(s) /\ log' # log
  <2>1. KindsOf(log)' = Append(KindsOf(log), "inbound")
    <3>1. /\ AddsToLog(<<BreadCrumb[1]>>)
          /\ BreadCrumb[1] \in Entry /\ BreadCrumb[1].kind = "inbound"
      BY <1>1, BreadCrumbAdds
    <3> QED BY <3>1, OneKind
  <2>2. Promise!Receive
    BY <1>1, <2>1, BreadCrumbAdds DEF Promise!Receive, KindsOf
  <2> QED BY <2>2 DEF Mapped, Promise!Next
<1>2. CASE log' = log
  <2>1. event'.status = event.status
    <3>1. CASE ScanCommit(s)
      BY <3>1 DEF ScanCommit, IndInv, TypeOK, EventRow
    <3>2. CASE StartScan(s) \/ ScanPick(s) \/ ScanEnd(s)
      BY <3>2 DEF StartScan, ScanPick, ScanEnd, tables
    <3> QED BY <3>1, <3>2 DEF ScanStep
  <2> QED BY <1>2, <2>1, NothingAdds, QuietPromise DEF Mapped
<1>3. CASE StartScan(s) \/ ScanPick(s) \/ ScanEnd(s)
  <2>1. log' = log
    BY <1>3 DEF StartScan, ScanPick, ScanEnd, tables
  <2> QED BY <2>1, <1>2
<1> QED BY <1>1, <1>2, <1>3 DEF ScanStep

\* Every step of EventRoom is a step of EventLog or none.
LEMMA StepPromise ==
    ASSUME IndInv, IndInv', [Next]_vars
    PROVE  Mapped
<1>1. CASE Create
  <2>1. event.status = "none" /\ event'.status = "draft" /\ log' = log
    BY <1>1 DEF Create, IndInv, TypeOK, EventRow
  <2>2. Promise!Create
    BY <2>1 DEF Promise!Create
  <2> QED BY <2>2 DEF Mapped, Promise!Next
<1>2. CASE \/ \E m \in Raws : Arrive(m)
           \/ \E r \in Requests : Authorize(r)
           \/ Restart \/ UNCHANGED vars
  <2>1. log' = log /\ event' = event
    BY <1>2 DEF Arrive, Authorize, Restart, vars, tables
  <2> QED BY <2>1, NothingAdds, QuietPromise DEF Mapped
<1>3. ASSUME NEW r \in Requests, Handler(r) PROVE Mapped
  BY <1>3, HandlerPromise
<1>4. ASSUME NEW s \in Scanners, ScanStep(s) PROVE Mapped
  BY <1>4, ScanPromise
<1> QED BY <1>1, <1>2, <1>3, <1>4 DEF Next

\* The events module keeps the promise of EventLog: seen from its status and
\* the kinds of its entries, an event does nothing but EventLog's steps,
\* whatever requests, scans, restarts and outdated sessions produce it.
THEOREM LogKeepsPromise == Spec => ImplementsEventLog
<1>1. Init => Promise!Init
  <2> SUFFICES ASSUME Init PROVE Promise!Init
    OBVIOUS
  <2>1. event.status = "none" /\ log = <<>> /\ Len(log) = 0
    BY DEF Init
  <2>2. [i \in 1..Len(log) |-> log[i].kind] = <<>>
    <3>1. [i \in 1..0 |-> log[i].kind] = <<>>
      OBVIOUS
    <3> QED BY <2>1, <3>1
  <2> QED BY <2>1, <2>2 DEF Promise!Init
<1>2. IndInv /\ IndInv' /\ [Next]_vars => [Promise!Next]_(Promise!logVars)
  BY StepPromise DEF Mapped
<1> QED BY <1>1, <1>2, InitIndInv, NextKeeps, PTL DEF Spec, ImplementsEventLog, Promise!Spec

------------------------------------------------------------------------------
(* Posts *)

\* The handlers that write posts or participants, and what they write.
LEMMA HandlerPosts ==
    ASSUME TypeOK, PostsResolve, NEW r \in Requests, Handler(r)
    PROVE  PostsResolve'
<1>1. /\ posts \in [PostIds -> PostNames \cup {None}]
      /\ participants \in [Callsigns -> Participant]
      /\ \A c \in Callsigns : participants[c].post \in PostIds \cup {None}
      /\ None \notin PostNames
  BY NoneAssumption DEF TypeOK, Participant
<1>2. CASE CreatePost(r)
  <2>1. PICK p \in PostIds, n \in PostNames :
          ~NameTaken(n, {}) /\ posts' = [posts EXCEPT ![p] = n] /\ participants' = participants
    BY <1>2 DEF CreatePost
  <2>2. \A q \in PostIds : posts[q] # n
    BY <2>1 DEF NameTaken
  <2>3. \A q \in PostIds : posts'[q] = IF q = p THEN n ELSE posts[q]
    BY <1>1, <2>1
  <2> QED BY <1>1, <2>1, <2>2, <2>3 DEF PostsResolve
<1>3. CASE UpdatePost(r)
  <2>1. PICK p \in PostIds, n \in PostNames :
          ~NameTaken(n, {p}) /\ posts' = [posts EXCEPT ![p] = n] /\ participants' = participants
    BY <1>3 DEF UpdatePost
  <2>2. \A q \in PostIds : q # p => posts[q] # n
    BY <2>1 DEF NameTaken
  <2>3. \A q \in PostIds : posts'[q] = IF q = p THEN n ELSE posts[q]
    BY <1>1, <2>1
  <2> QED BY <1>1, <2>1, <2>2, <2>3 DEF PostsResolve
<1>4. CASE DeletePost(r)
  <2>1. PICK p \in PostIds :
          /\ \A c \in Callsigns : participants[c].post # p
          /\ posts' = [posts EXCEPT ![p] = None] /\ participants' = participants
    BY <1>4 DEF DeletePost
  <2>2. \A q \in PostIds : posts'[q] = IF q = p THEN None ELSE posts[q]
    BY <1>1, <2>1
  <2> QED BY <1>1, <2>1, <2>2 DEF PostsResolve
<1>5. ASSUME NEW c \in Callsigns, NEW x, x.post # None => posts[x.post] # None,
             posts' = posts, participants' = [participants EXCEPT ![c] = x]
      PROVE  PostsResolve'
  <2>1. \A d \in Callsigns : participants'[d] = IF d = c THEN x ELSE participants[d]
    BY <1>1, <1>5
  <2> QED BY <1>5, <2>1 DEF PostsResolve
<1>6. CASE CheckIn(r)
  <2>1. PICK c \in Callsigns, p \in PostsNow \cup {None} :
          participants' = [participants EXCEPT
              ![c] = [status |-> "checked_in", post |-> IF p # None THEN p ELSE @.post]]
    BY <1>6 DEF CheckIn
  <2> DEFINE x == [status |-> "checked_in", post |-> IF p # None THEN p ELSE participants[c].post]
  <2>2. participants' = [participants EXCEPT ![c] = x] /\ posts' = posts
    BY <1>6, <2>1 DEF CheckIn
  <2>3. x.post # None => posts[x.post] # None
    BY DEF PostsNow, PostsResolve
  <2> HIDE DEF x
  <2> QED BY <1>5, <2>2, <2>3
<1>7. CASE UpdateParticipant(r)
  <2>1. PICK c \in Callsigns, patch \in Patches :
          participants' = [participants EXCEPT ![c] = Patched(@, patch)]
    BY <1>7 DEF UpdateParticipant
  <2> DEFINE x == Patched(participants[c], patch)
  <2>2. participants' = [participants EXCEPT ![c] = x] /\ posts' = posts
    BY <1>7, <2>1 DEF UpdateParticipant
  <2>3. x.post = IF patch.post = <<"unset">> THEN participants[c].post
                 ELSE IF patch.post = <<"clear">> THEN None ELSE patch.post[2]
    BY DEF Patched
  <2>4. ASSUME patch.post # <<"unset">>, patch.post # <<"clear">>
        PROVE  patch.post[2] \in PostsNow
    <3>1. patch.post \in {<<"assign", q>> : q \in PostsNow}
      BY <2>4 DEF Patches
    <3> QED BY <3>1
  <2> HIDE DEF x
  <2>5. x.post # None => posts[x.post] # None
    BY <2>3, <2>4 DEF PostsNow, PostsResolve
  <2> QED BY <1>5, <2>2, <2>5
<1>8. CASE Delete(r)
  <2>1. /\ participants' = [c \in Callsigns |-> NoParticipant]
        /\ posts' = [p \in PostIds |-> None]
    BY <1>8 DEF Delete
  <2> QED BY <2>1 DEF PostsResolve, NoParticipant
<1>9. CASE UNCHANGED <<posts, participants>>
  BY <1>9 DEF PostsResolve
<1>10. CASE \/ Refuse(r) \/ DispatchMessage(r) \/ Activate(r) \/ Close(r) \/ Reopen(r)
            \/ UpdateEvent(r) \/ AddNote(r) \/ SetLogPinned(r) \/ SendMessage(r)
            \/ SetMessageStatus(r) \/ RetryMessage(r) \/ Rescan(r)
  <2>1. UNCHANGED <<posts, participants>>
    BY <1>10 DEF Refuse, DispatchMessage, Activate, Close, Reopen, UpdateEvent, AddNote,
       SetLogPinned, SendMessage, SetMessageStatus, RetryMessage, Rescan, tables
  <2> QED BY <2>1, <1>9
<1> QED BY <1>2, <1>3, <1>4, <1>6, <1>7, <1>8, <1>10 DEF Handler

\* Post names stay unique and every assignment resolves (create_post,
\* update_post, delete_post, _resolve_post), whichever requests interleave:
\* the invariant is inductive with the types.
THEOREM PostsAlwaysResolve == Spec => []PostsResolve
<1>1. Init => PostsResolve
  BY DEF Init, NoParticipant, PostsResolve
<1>2. TypeOK /\ PostsResolve /\ [Next]_vars => PostsResolve'
  <2> SUFFICES ASSUME TypeOK, PostsResolve, [Next]_vars PROVE PostsResolve'
    OBVIOUS
  <2>1. ASSUME NEW r \in Requests, Handler(r) PROVE PostsResolve'
    BY <2>1, HandlerPosts
  <2>2. CASE UNCHANGED <<posts, participants>>
    BY <2>2 DEF PostsResolve
  <2>3. CASE \/ Create \/ Restart \/ UNCHANGED vars
             \/ \E r \in Requests : Authorize(r)
             \/ \E m \in Raws : Arrive(m)
             \/ \E s \in Scanners : ScanStep(s)
    <3>1. UNCHANGED <<posts, participants>>
      BY <2>3 DEF Create, Restart, vars, tables, Authorize, Arrive, ScanStep, StartScan,
         ScanPick, ScanCommit, ScanEnd
    <3> QED BY <3>1, <2>2
  <2> QED BY <2>1, <2>3 DEF Next
<1> QED BY <1>1, <1>2, TypeCorrect, PTL DEF Spec

------------------------------------------------------------------------------
(* Messages *)

\* A scan that is about to commit holds the message it commits.
ScanHolds == \A s \in Scanners : scans[s].pc = "commit" => scans[s].raw \in Raws

\* Only ScanPick sets a message aside.
LEMMA ScanHoldsKeeps ==
    ASSUME TypeOK, ScanHolds, [Next]_vars
    PROVE  ScanHolds'
<1>1. scans \in [Scanners -> Scan]
  BY DEF TypeOK
<1>2. ASSUME NEW s \in Scanners, NEW x, x.pc = "commit" => x.raw \in Raws,
             scans' = [scans EXCEPT ![s] = x]
      PROVE  ScanHolds'
  BY <1>1, <1>2 DEF ScanHolds
<1>3. ASSUME NEW s \in Scanners, ScanPick(s) PROVE ScanHolds'
  <2>1. PICK m \in scans[s].todo :
          \/ scans' = [scans EXCEPT ![s] = IdleScan]
          \/ scans' = [scans EXCEPT
                    ![s].row = IF @ = None THEN event ELSE @,
                    ![s].pc = IF Routed(m) THEN "run" ELSE "commit",
                    ![s].todo = @ \ {m},
                    ![s].raw = IF Routed(m) THEN None ELSE m]
    BY <1>3 DEF ScanPick
  <2>2. scans[s] \in Scan /\ m \in Raws
    BY <1>1 DEF Scan
  <2>3. CASE scans' = [scans EXCEPT ![s] = IdleScan]
    BY <1>2, <2>3 DEF IdleScan
  <2>4. CASE scans' = [scans EXCEPT
                    ![s].row = IF @ = None THEN event ELSE @,
                    ![s].pc = IF Routed(m) THEN "run" ELSE "commit",
                    ![s].todo = @ \ {m},
                    ![s].raw = IF Routed(m) THEN None ELSE m]
    <3> DEFINE x == [pc |-> IF Routed(m) THEN "run" ELSE "commit",
                     row |-> IF scans[s].row = None THEN event ELSE scans[s].row,
                     todo |-> scans[s].todo \ {m},
                     raw |-> IF Routed(m) THEN None ELSE m]
    <3>1. scans' = [scans EXCEPT ![s] = x]
      BY <1>1, <2>2, <2>4 DEF Scan
    <3>2. x.pc = "commit" => x.raw \in Raws
      BY <2>2
    <3> HIDE DEF x
    <3> QED BY <1>2, <3>1, <3>2
  <2> QED BY <2>1, <2>3, <2>4
<1>4. ASSUME NEW s \in Scanners, ScanCommit(s) PROVE ScanHolds'
  <2>1. \/ scans' = [scans EXCEPT ![s] = IdleScan]
        \/ \E row : scans' = [scans EXCEPT ![s] =
                                [@ EXCEPT !.pc = "run", !.raw = None, !.row = row]]
    BY <1>4 DEF ScanCommit
  <2>2. CASE scans' = [scans EXCEPT ![s] = IdleScan]
    BY <1>2, <2>2 DEF IdleScan
  <2>3. ASSUME NEW row, scans' = [scans EXCEPT ![s] =
                                    [@ EXCEPT !.pc = "run", !.raw = None, !.row = row]]
        PROVE  ScanHolds'
    <3> DEFINE x == [scans[s] EXCEPT !.pc = "run", !.raw = None, !.row = row]
    <3>1. scans' = [scans EXCEPT ![s] = x]
      BY <2>3
    <3>2. x.pc # "commit"
      <4>1. scans[s] \in Scan
        BY <1>1
      <4> QED BY <4>1 DEF Scan
    <3> HIDE DEF x
    <3> QED BY <1>2, <3>1, <3>2
  <2> QED BY <2>1, <2>2, <2>3
<1>5. ASSUME NEW s \in Scanners, StartScan(s) \/ ScanEnd(s) PROVE ScanHolds'
  <2> DEFINE x == [pc |-> "run", row |-> event, todo |-> mailbox, raw |-> None]
  <2>1. scans' = [scans EXCEPT ![s] = x] \/ scans' = [scans EXCEPT ![s] = IdleScan]
    BY <1>5 DEF StartScan, ScanEnd, Begin
  <2>2. x.pc # "commit" /\ IdleScan.pc # "commit"
    BY DEF IdleScan
  <2> HIDE DEF x
  <2> QED BY <1>2, <2>1, <2>2
<1>6. CASE UNCHANGED scans
  BY <1>6 DEF ScanHolds
<1>7. ASSUME NEW r \in Requests, Handler(r) PROVE ScanHolds'
  <2>1. CASE Rescan(r)
    <3> DEFINE x == [pc |-> "run", row |-> requests[r].row, todo |-> mailbox, raw |-> None]
    <3>1. "loop" \in Scanners /\ (scans' = scans \/ scans' = [scans EXCEPT !["loop"] = x])
      BY <2>1 DEF Rescan, Begin
    <3>2. x.pc # "commit"
      OBVIOUS
    <3> HIDE DEF x
    <3> QED BY <1>2, <1>6, <3>1, <3>2
  <2>2. CASE \/ Refuse(r) \/ DispatchMessage(r) \/ Activate(r) \/ Close(r) \/ Reopen(r)
             \/ UpdateEvent(r) \/ Delete(r) \/ CreatePost(r) \/ UpdatePost(r) \/ DeletePost(r)
             \/ CheckIn(r) \/ UpdateParticipant(r) \/ AddNote(r) \/ SetLogPinned(r)
             \/ SendMessage(r) \/ SetMessageStatus(r) \/ RetryMessage(r)
    BY <1>6, <2>2 DEF Refuse, DispatchMessage, Activate, Close, Reopen, UpdateEvent, Delete,
       CreatePost, UpdatePost, DeletePost, CheckIn, UpdateParticipant, AddNote, SetLogPinned,
       SendMessage, SetMessageStatus, RetryMessage
  <2> QED BY <1>7, <2>1, <2>2 DEF Handler
<1>8. CASE Restart
  BY <1>8 DEF Restart, ScanHolds, IdleScan
<1>9. CASE \/ Create \/ UNCHANGED vars
           \/ \E r \in Requests : Authorize(r)
           \/ \E m \in Raws : Arrive(m)
  BY <1>6, <1>9 DEF Create, Authorize, Arrive, vars
<1> QED BY <1>3, <1>4, <1>5, <1>7, <1>8, <1>9 DEF Next, ScanStep

\* One more index, counted or not.
LEMMA CountGrows ==
    ASSUME NEW n \in Nat, NEW A, NEW B, A \subseteq 1..n, B \subseteq 1..n + 1,
           \A i \in 1..n : i \in B <=> i \in A
    PROVE  /\ IsFiniteSet(A) /\ Cardinality(A) \in Nat
           /\ Cardinality(B) = IF n + 1 \in B THEN Cardinality(A) + 1 ELSE Cardinality(A)
<1>1. IsFiniteSet(A) /\ Cardinality(A) \in Nat
  <2>1. IsFiniteSet(1..n)
    BY FS_Interval
  <2> QED BY <2>1, FS_Subset, FS_CardinalityType
<1>2. \A i \in 1..n + 1 : i = n + 1 \/ i \in 1..n
  OBVIOUS
<1>3. n + 1 \notin A
  OBVIOUS
<1>4. CASE n + 1 \in B
  <2>1. B = A \cup {n + 1}
    BY <1>2, <1>4
  <2> QED BY <1>1, <1>3, <1>4, <2>1, FS_AddElement
<1>5. CASE n + 1 \notin B
  <2>1. B = A
    BY <1>2, <1>5
  <2> QED BY <1>1, <1>5, <2>1
<1> QED BY <1>4, <1>5

InboundOf(M) == {i \in 1..Len(M) : M[i].raw # None}
CrumbsOf(L) == {i \in 1..Len(L) : L[i].kind = "inbound"}

\* A log that grows by other entries has the same breadcrumbs.
LEMMA OtherEntries ==
    ASSUME IndInv, NEW new \in Seq(Entry), AddsToLog(new),
           \A i \in 1..Len(new) : new[i].kind # "inbound"
    PROVE  CrumbsOf(log') = CrumbsOf(log)
<1>1. Len(log) \in Nat /\ Len(new) \in Nat
  BY LenProperties DEF IndInv, TypeOK
<1>2. Len(log') = Len(log) + Len(new)
  BY DEF AddsToLog
<1>3. \A i \in 1..Len(log) : log'[i].kind = log[i].kind
  BY DEF AddsToLog, Same
<1>4. ASSUME NEW i \in 1..Len(log'), i \notin 1..Len(log) PROVE log'[i].kind # "inbound"
  <2> DEFINE j == i - Len(log)
  <2>1. j \in 1..Len(new) /\ i = Len(log) + j
    BY <1>1, <1>2, <1>4
  <2> HIDE DEF j
  <2>2. log'[i].kind = new[j].kind
    BY <2>1 DEF AddsToLog, Same
  <2> QED BY <2>1, <2>2
<1>5. 1..Len(log) \subseteq 1..Len(log')
  BY <1>1, <1>2
<1> QED BY <1>3, <1>4, <1>5 DEF CrumbsOf

\* No handler writes a breadcrumb.
LEMMA HandlerCrumbs ==
    ASSUME IndInv, NEW r \in Requests, Handler(r), ~Delete(r)
    PROVE  CrumbsOf(log') = CrumbsOf(log)
<1>0. \A i \in 1..Len(<<>>) : <<>>[i].kind # "inbound"
  OBVIOUS
<1>1. CASE Activate(r) \/ Close(r) \/ Reopen(r)
  <2>1. PICK kind \in Kinds \ {"inbound"}, status \in {"active", "closed"}, statuses \in SUBSET Live :
          /\ Handles(r, statuses)
          /\ CommitLog(requests[r].row, LifecycleEntry(kind), status)
    BY <1>1 DEF Activate, Close, Reopen, Kinds, Live
  <2> DEFINE new == LifecycleEntry(kind)
  <2>2. new \in Seq(Entry) /\ Len(new) = 1 /\ new[1].kind = kind
    <3>1. new \in Seq(Entry) /\ Len(new) = 1
      BY PlainEntries DEF LifecycleEntry
    <3> QED BY <3>1 DEF LifecycleEntry, LogEntry
  <2>3. CommitLog(requests[r].row, new, status) /\ Len(new) # 0
    BY <2>1, <2>2
  <2> HIDE DEF new
  <2>5. AddsToLog(new)
    BY <2>1, <2>2, <2>3, HandlerAdds
  <2>4. \A i \in 1..Len(new) : new[i].kind # "inbound"
    BY <2>2
  <2> QED BY <2>2, <2>5, <2>4, OtherEntries
<1>2. CASE CheckIn(r) \/ AddNote(r) \/ UpdateParticipant(r)
  <2>1. PICK new \in Seq(Entry) :
          /\ \A i \in 1..Len(new) : new[i].kind = "operator"
          /\ \/ new = <<>> /\ log' = log
             \/ new # <<>> /\ CommitLog(requests[r].row, new, event.status)
    <3>1. CASE CheckIn(r)
      <4>1. PICK c \in Callsigns :
              CommitLog(requests[r].row, <<LogEntry("operator", c, "checked_in", Unpinned)>>,
                        event.status)
        BY <3>1 DEF CheckIn
      <4> DEFINE new == <<LogEntry("operator", c, "checked_in", Unpinned)>>
      <4>2. new \in Seq(Entry) /\ Len(new) = 1 /\ new[1].kind = "operator" /\ new # <<>>
        BY OneEntry DEF ParticipantStatus, Unpinned
      <4>3. CommitLog(requests[r].row, new, event.status)
        BY <4>1
      <4> HIDE DEF new
      <4> QED BY <4>2, <4>3
    <3>2. CASE AddNote(r)
      <4>1. PICK c \in Callsigns \cup {None}, pin \in Pins :
              CommitLog(requests[r].row, <<LogEntry("operator", c, None, pin)>>, event.status)
        BY <3>2 DEF AddNote
      <4> DEFINE new == <<LogEntry("operator", c, None, pin)>>
      <4>2. new \in Seq(Entry) /\ Len(new) = 1 /\ new[1].kind = "operator" /\ new # <<>>
        BY OneEntry, FlagAssumption
      <4>3. CommitLog(requests[r].row, new, event.status)
        BY <4>1
      <4> HIDE DEF new
      <4> QED BY <4>2, <4>3
    <3>3. CASE UpdateParticipant(r)
      <4>1. PICK c \in Callsigns, patch \in Patches :
              IF PatchEntries(c, patch) = <<>> THEN UNCHANGED <<event, log>>
              ELSE CommitLog(requests[r].row, PatchEntries(c, patch), event.status)
        BY <3>3 DEF UpdateParticipant
      <4> DEFINE new == PatchEntries(c, patch)
      <4>2. new \in Seq(Entry) /\ \A i \in 1..Len(new) : new[i].kind = "operator"
        BY PatchEntriesShape, PatchEntriesType
      <4>3. \/ new = <<>> /\ log' = log
            \/ new # <<>> /\ CommitLog(requests[r].row, new, event.status)
        BY <4>1
      <4> HIDE DEF new
      <4> QED BY <4>2, <4>3
    <3> QED BY <1>2, <3>1, <3>2, <3>3
  <2>2. CASE new = <<>> /\ log' = log
    BY <2>2 DEF CrumbsOf
  <2>3. CASE new # <<>> /\ CommitLog(requests[r].row, new, event.status)
    <3>1. requests[r].row \in EventRow
      BY <1>2 DEF CheckIn, AddNote, UpdateParticipant, Handles, IndInv, SnapshotsTell
    <3>2. log' = log \o Stamped(requests[r].row, new)
      BY <2>3 DEF CommitLog
    <3>3. AddsToLog(new)
      BY <3>1, <3>2, CommitAdds
    <3> QED BY <2>1, <3>3, OtherEntries
  <2> QED BY <2>1, <2>2, <2>3
<1>3. CASE SetLogPinned(r)
  <2>1. <<>> \in Seq(Entry)
    OBVIOUS
  <2> QED BY <1>0, <1>3, <2>1, PinAdds, OtherEntries
<1>4. CASE \/ Refuse(r) \/ DispatchMessage(r) \/ UpdateEvent(r) \/ SendMessage(r)
           \/ CreatePost(r) \/ UpdatePost(r) \/ DeletePost(r)
           \/ SetMessageStatus(r) \/ RetryMessage(r) \/ Rescan(r)
  <2>1. log' = log
    BY <1>4 DEF Refuse, DispatchMessage, UpdateEvent, SendMessage, CreatePost, UpdatePost,
       DeletePost, SetMessageStatus, RetryMessage, Rescan, tables
  <2> QED BY <2>1
<1> QED BY <1>1, <1>2, <1>3, <1>4 DEF Handler

\* One message is replaced: its raw message stays.
Replaces(i, m) ==
    /\ messages' = [messages EXCEPT ![i] = m]
    /\ m.raw = messages[i].raw

\* What a handler does to the messages, deletion apart.
LEMMA HandlerMessages ==
    ASSUME IndInv, NEW r \in Requests, Handler(r), ~Delete(r)
    PROVE  \/ messages' = messages
           \/ \E i \in 1..Len(messages), m \in Message : Replaces(i, m)
           \/ SendMessage(r) /\ \E m \in Message : m.raw = None /\ messages' = Append(messages, m)
<1>1. messages \in Seq(Message) /\ \A i \in 1..Len(messages) : messages[i] \in Message
  BY ElementOfSeq DEF IndInv, TypeOK
<1>2. ASSUME NEW i \in 1..Len(messages), NEW d \in DeliveryOutcomes,
             messages' = [messages EXCEPT ![i].delivery = d]
      PROVE  \E m \in Message : Replaces(i, m)
  <2> DEFINE m == [messages[i] EXCEPT !.delivery = d]
  <2>1. m \in Message /\ m.raw = messages[i].raw
    BY <1>1, NoneAssumption DEF Message
  <2>2. messages' = [messages EXCEPT ![i] = m]
    BY <1>2
  <2> HIDE DEF m
  <2> QED BY <2>1, <2>2 DEF Replaces
<1>3. CASE DispatchMessage(r)
  <2> DEFINE k == requests[r].message
  <2>1. k \in Nat
    BY DEF IndInv, TypeOK, Request
  <2> HIDE DEF k
  <2>2. ASSUME NEW d \in DeliveryOutcomes, messages' = [messages EXCEPT ![k].delivery = d]
        PROVE  messages' = messages \/ \E i \in 1..Len(messages), e \in DeliveryOutcomes :
                                         messages' = [messages EXCEPT ![i].delivery = e]
    <3>1. CASE k \in 1..Len(messages)
      BY <2>2, <3>1
    <3>2. CASE k \notin 1..Len(messages)
      <4> DEFINE m == [messages[k] EXCEPT !.delivery = d]
      <4>1. messages' = [messages EXCEPT ![k] = m]
        BY <2>2
      <4> HIDE DEF m
      <4>2. messages \in [1..Len(messages) -> Message]
        BY <1>1, LenProperties
      <4> QED BY <3>2, <4>1, <4>2
    <3> QED BY <3>1, <3>2
  <2>3. \/ messages' = messages
        \/ \E d \in DeliveryOutcomes : messages' = [messages EXCEPT ![k].delivery = d]
    BY <1>3 DEF DispatchMessage, k
  <2> QED BY <1>2, <2>2, <2>3
<1>4. CASE SetMessageStatus(r)
  <2>1. PICK i \in 1..Len(messages), s \in Triage : messages' = [messages EXCEPT ![i].status = s]
    BY <1>4 DEF SetMessageStatus
  <2> DEFINE m == [messages[i] EXCEPT !.status = s]
  <2>2. s \in MessageStatus
    BY TriageAssumption DEF MessageStatus
  <2>3. m \in Message /\ m.raw = messages[i].raw
    BY <1>1, <2>2 DEF Message
  <2>4. messages' = [messages EXCEPT ![i] = m]
    BY <2>1
  <2> HIDE DEF m
  <2> QED BY <2>3, <2>4 DEF Replaces
<1>5. CASE RetryMessage(r)
  <2>1. PICK i \in 1..Len(messages), d \in DeliveryOutcomes :
          messages' = [messages EXCEPT ![i].delivery = d]
    BY <1>5 DEF RetryMessage, Outbound
  <2> QED BY <1>2, <2>1
<1>6. CASE SendMessage(r)
  <2> DEFINE m == [msg_seq |-> requests[r].row.msg_seq + 1, raw |-> None,
                   status |-> "read", delivery |-> None]
  <2>1. messages' = Append(messages, m) /\ event' = [event EXCEPT !.msg_seq = m.msg_seq]
    BY <1>6 DEF SendMessage
  <2>2. requests[r].row \in EventRow
    BY <1>6 DEF SendMessage, Handles, IndInv, SnapshotsTell
  <2>3. m.msg_seq \in Nat
    BY <2>2 DEF EventRow
  <2>4. m \in Message /\ m.raw = None
    BY <2>3 DEF Message, MessageStatus
  <2> QED BY <1>6, <2>1, <2>4
<1>7. CASE \/ Refuse(r) \/ Activate(r) \/ Close(r) \/ Reopen(r) \/ UpdateEvent(r)
           \/ CreatePost(r) \/ UpdatePost(r) \/ DeletePost(r) \/ CheckIn(r)
           \/ UpdateParticipant(r) \/ AddNote(r) \/ SetLogPinned(r) \/ Rescan(r)
  BY <1>7 DEF Refuse, Activate, Close, Reopen, UpdateEvent, CreatePost, UpdatePost, DeletePost,
     CheckIn, UpdateParticipant, AddNote, SetLogPinned, Rescan, tables
<1> QED BY <1>2, <1>3, <1>4, <1>5, <1>6, <1>7 DEF Handler

\* The index view of a message replaced.
LEMMA MessagesReplaced ==
    ASSUME TypeOK, NEW k \in 1..Len(messages), NEW m \in Message, Replaces(k, m)
    PROVE  /\ Len(messages') = Len(messages)
           /\ \A i \in 1..Len(messages) : messages'[i] = IF i = k THEN m ELSE messages[i]
           /\ \A i \in 1..Len(messages) : messages'[i].raw = messages[i].raw
<1>1. messages \in Seq(Message)
  BY DEF TypeOK
<1>2. /\ Len(messages') = Len(messages)
      /\ \A i \in 1..Len(messages) : messages'[i] = IF i = k THEN m ELSE messages[i]
  BY <1>1, ExceptSeq DEF Replaces
<1> QED BY <1>2 DEF Replaces

\* The other way: a message is added.
LEMMA MessagesAppended ==
    ASSUME TypeOK, NEW m \in Message, messages' = Append(messages, m)
    PROVE  /\ Len(messages) \in Nat
           /\ Len(messages') = Len(messages) + 1
           /\ \A i \in 1..Len(messages) : messages'[i] = messages[i]
           /\ messages'[Len(messages) + 1] = m
<1>1. messages \in Seq(Message)
  BY DEF TypeOK
<1> QED BY <1>1, AppendProperties, LenProperties

\* RoutedOnce, with names for the two sets it counts.
OneEach ==
    /\ \A i, j \in 1..Len(messages) :
          messages[i].raw # None /\ messages[i].raw = messages[j].raw => i = j
    /\ Cardinality(InboundOf(messages)) = Cardinality(CrumbsOf(log))

\* OneEach is RoutedOnce.
LEMMA OneEachIs == RoutedOnce <=> OneEach
BY DEF RoutedOnce, OneEach, InboundOf, CrumbsOf

\* A handler adds neither an inbound message nor a breadcrumb; deletion
\* takes all of both.
LEMMA HandlerRoutes ==
    ASSUME IndInv, OneEach, NEW r \in Requests, Handler(r)
    PROVE  OneEach'
<1>1. CASE Delete(r)
  <2>1. messages' = <<>> /\ log' = <<>>
    BY <1>1 DEF Delete
  <2>2. Len(messages') = 0 /\ Len(log') = 0
    BY <2>1
  <2>3. InboundOf(messages') = {} /\ CrumbsOf(log') = {}
    BY <2>2 DEF InboundOf, CrumbsOf
  <2> QED BY <2>2, <2>3 DEF OneEach
<1>2. CASE ~Delete(r)
  <2>1. CrumbsOf(log') = CrumbsOf(log)
    BY <1>2, HandlerCrumbs
  <2>2. CASE messages' = messages
    BY <2>1, <2>2 DEF OneEach
  <2>3. ASSUME NEW k \in 1..Len(messages), NEW m \in Message, Replaces(k, m)
        PROVE  OneEach'
    <3>1. /\ Len(messages') = Len(messages)
          /\ \A i \in 1..Len(messages) : messages'[i].raw = messages[i].raw
      BY <2>3, MessagesReplaced DEF IndInv
    <3>2. InboundOf(messages') = InboundOf(messages)
      BY <3>1 DEF InboundOf
    <3> QED BY <2>1, <3>1, <3>2 DEF OneEach
  <2>4. ASSUME NEW m \in Message, m.raw = None, messages' = Append(messages, m)
        PROVE  OneEach'
    <3>1. /\ Len(messages) \in Nat /\ Len(messages') = Len(messages) + 1
          /\ \A i \in 1..Len(messages) : messages'[i] = messages[i]
          /\ messages'[Len(messages) + 1].raw = None
      BY <2>4, MessagesAppended DEF IndInv
    <3>2. \A i \in 1..Len(messages') : i \in 1..Len(messages) \/ i = Len(messages) + 1
      BY <3>1
    <3>3. InboundOf(messages') = InboundOf(messages)
      BY <3>1, <3>2 DEF InboundOf
    <3>4. \A i, j \in 1..Len(messages') :
              messages'[i].raw # None /\ messages'[i].raw = messages'[j].raw => i = j
      BY <3>1, <3>2 DEF OneEach
    <3> QED BY <2>1, <3>3, <3>4 DEF OneEach
  <2> QED BY <1>2, <2>2, <2>3, <2>4, HandlerMessages
<1> QED BY <1>1, <1>2

\* The commit of a scan adds one message and its breadcrumb, for a raw message
\* that has none.
LEMMA ScanRoutes ==
    ASSUME IndInv, OneEach, ScanHolds, NEW s \in Scanners, ScanStep(s)
    PROVE  OneEach'
<1>1. CASE ScanCommit(s) /\ log' # log
  <2> DEFINE m == [msg_seq |-> scans[s].row.msg_seq + 1, raw |-> scans[s].raw,
                   status |-> "unread", delivery |-> None]
  <2>1. /\ AddsToLog(BreadCrumb) /\ BreadCrumb = <<BreadCrumb[1]>>
        /\ BreadCrumb[1].kind = "inbound"
        /\ ~Routed(scans[s].raw)
        /\ messages' = Append(messages, m)
    BY <1>1, BreadCrumbAdds
  <2>2. scans[s].raw \in Raws /\ scans[s].row \in EventRow
    BY <1>1 DEF ScanCommit, ScanHolds, IndInv, SnapshotsTell
  <2>3. m \in Message /\ m.raw = scans[s].raw /\ m.raw # None
    BY <2>2, NoneAssumption DEF Message, MessageStatus, EventRow
  <2> HIDE DEF m
  <2>4. /\ Len(messages) \in Nat /\ Len(messages') = Len(messages) + 1
        /\ \A i \in 1..Len(messages) : messages'[i] = messages[i]
        /\ messages'[Len(messages) + 1] = m
    BY <2>1, <2>3, MessagesAppended DEF IndInv
  <2>5. \A i \in 1..Len(messages) : messages[i].raw # m.raw
    BY <2>1, <2>3 DEF Routed
  <2>6. \A i \in 1..Len(messages') : i \in 1..Len(messages) \/ i = Len(messages) + 1
    BY <2>4
  <2>7. \A i, j \in 1..Len(messages') :
            messages'[i].raw # None /\ messages'[i].raw = messages'[j].raw => i = j
    BY <2>4, <2>5, <2>6 DEF OneEach
  <2>8. Cardinality(InboundOf(messages')) = Cardinality(InboundOf(messages)) + 1
    <3> DEFINE A == InboundOf(messages)
               B == InboundOf(messages')
    <3>1. /\ A \subseteq 1..Len(messages) /\ B \subseteq 1..Len(messages) + 1
          /\ \A i \in 1..Len(messages) : i \in B <=> i \in A
          /\ Len(messages) + 1 \in B
      BY <2>3, <2>4 DEF InboundOf
    <3> HIDE DEF A, B
    <3> QED BY <2>4, <3>1, CountGrows DEF A, B
  <2>9. Cardinality(CrumbsOf(log')) = Cardinality(CrumbsOf(log)) + 1
    <3>1. Len(log) \in Nat /\ Len(BreadCrumb) = 1
      BY <2>1, LenProperties DEF IndInv, TypeOK
    <3>2. /\ Len(log') = Len(log) + 1
          /\ \A i \in 1..Len(log) : log'[i].kind = log[i].kind
          /\ log'[Len(log) + 1].kind = "inbound"
      BY <2>1, <3>1 DEF AddsToLog, Same
    <3> DEFINE A == CrumbsOf(log)
               B == CrumbsOf(log')
    <3>3. /\ A \subseteq 1..Len(log) /\ B \subseteq 1..Len(log) + 1
          /\ \A i \in 1..Len(log) : i \in B <=> i \in A
          /\ Len(log) + 1 \in B
      BY <3>1, <3>2 DEF CrumbsOf
    <3> HIDE DEF A, B
    <3> QED BY <3>1, <3>3, CountGrows DEF A, B
  <2> QED BY <2>7, <2>8, <2>9 DEF OneEach
<1>2. CASE log' = log /\ messages' = messages
  BY <1>2 DEF OneEach
<1>3. CASE ScanCommit(s) /\ log' = log
  <2>1. scans[s].row \in EventRow /\ event.log_seq \in Nat
    BY <1>3 DEF ScanCommit, IndInv, SnapshotsTell, TypeOK, EventRow
  <2>2. messages' = messages \/ log' = log \o Stamped(scans[s].row, BreadCrumb)
    BY <1>3 DEF ScanCommit
  <2>3. CASE log' = log \o Stamped(scans[s].row, BreadCrumb)
    <3>1. BreadCrumb \in Seq(Entry) /\ Len(BreadCrumb) = 1
      BY PlainEntries DEF BreadCrumb, Kinds
    <3>2. AddsToLog(BreadCrumb)
      BY <2>1, <2>3, <3>1, CommitAdds
    <3>3. Len(log) \in Nat
      BY LenProperties DEF IndInv, TypeOK
    <3> QED BY <1>3, <3>1, <3>2, <3>3 DEF AddsToLog
  <2> QED BY <1>2, <1>3, <2>2, <2>3
<1>4. CASE StartScan(s) \/ ScanPick(s) \/ ScanEnd(s)
  BY <1>2, <1>4 DEF StartScan, ScanPick, ScanEnd, tables
<1> QED BY <1>1, <1>3, <1>4 DEF ScanStep

\* A raw message becomes at most one message of the event, and every inbound
\* message has its breadcrumb, however scans and deletions overlap
\* (route_event_messages).  The invariant is inductive with IndInv and with
\* what a scan holds when it commits.
THEOREM MessagesRoutedOnce == Spec => []RoutedOnce
<1>1. Init => OneEach /\ ScanHolds
  <2> SUFFICES ASSUME Init PROVE OneEach /\ ScanHolds
    OBVIOUS
  <2>1. messages = <<>> /\ log = <<>> /\ Len(messages) = 0 /\ Len(log) = 0
    BY DEF Init
  <2>2. InboundOf(messages) = {} /\ CrumbsOf(log) = {}
    BY <2>1 DEF InboundOf, CrumbsOf
  <2>3. OneEach
    BY <2>1, <2>2 DEF OneEach
  <2>4. ScanHolds
    BY DEF Init, IdleScan, ScanHolds
  <2> QED BY <2>3, <2>4
<1>2. IndInv /\ OneEach /\ ScanHolds /\ [Next]_vars => OneEach' /\ ScanHolds'
  <2> SUFFICES ASSUME IndInv, OneEach, ScanHolds, [Next]_vars PROVE OneEach' /\ ScanHolds'
    OBVIOUS
  <2>1. ScanHolds'
    BY ScanHoldsKeeps DEF IndInv
  <2>2. ASSUME NEW r \in Requests, Handler(r) PROVE OneEach'
    BY <2>2, HandlerRoutes
  <2>3. ASSUME NEW s \in Scanners, ScanStep(s) PROVE OneEach'
    BY <2>3, ScanRoutes
  <2>4. ASSUME \/ Create \/ Restart \/ UNCHANGED vars
               \/ \E r \in Requests : Authorize(r)
               \/ \E m \in Raws : Arrive(m)
        PROVE  OneEach'
    <3>1. messages' = messages /\ log' = log
      BY <2>4 DEF Create, Restart, vars, tables, Authorize, Arrive
    <3> QED BY <3>1 DEF OneEach
  <2>5. OneEach'
    BY <2>2, <2>3, <2>4 DEF Next
  <2> QED BY <2>1, <2>5
<1> QED BY <1>1, <1>2, InitIndInv, NextKeeps, OneEachIs, PTL DEF Spec

------------------------------------------------------------------------------
(* Induction over the log *)

\* The least number of a set.  The library's induction theorems take the
\* property as an operator, which the provers cannot instantiate; this is the
\* same principle with the property as the set of its counterexamples, and it
\* follows from the order on finite sets being well-founded.
LEMMA NatMin ==
  ASSUME NEW T, T \subseteq Nat, T # {}
  PROVE  \E n \in T : \A m \in T : n <= m
<1> DEFINE Seg == {0..n : n \in T}
<1>1. Seg \subseteq FiniteSubsetsOf(Nat)
  <2> SUFFICES ASSUME NEW n \in T PROVE 0..n \in FiniteSubsetsOf(Nat)
    OBVIOUS
  <2>1. n \in Nat
    OBVIOUS
  <2>2. IsFiniteSet(0..n)
    BY <2>1, FS_Interval
  <2>3. 0..n \in SUBSET Nat
    BY <2>1
  <2> QED BY <2>2, <2>3 DEF FiniteSubsetsOf
<1>2. Seg # {}
  OBVIOUS
<1>3. IsWellFoundedOn(StrictSubsetOrdering(Nat), FiniteSubsetsOf(Nat))
  BY FS_StrictSubsetOrderingWellFounded
<1> HIDE DEF Seg
<1>4. PICK x \in Seg : \A y \in Seg : ~(<<y, x>> \in StrictSubsetOrdering(Nat))
  BY <1>1, <1>2, <1>3, WFMin
<1> USE DEF Seg
<1>5. PICK n \in T : x = 0..n
  BY DEF Seg
<1>6. ASSUME NEW m \in T, m < n PROVE FALSE
  <2>0. m \in Nat /\ n \in Nat
    OBVIOUS
  <2>1. 0..m \in Seg
    BY DEF Seg
  <2>2. 0..m \subseteq 0..n /\ 0..m # 0..n
    <3>1. n \in 0..n /\ n \notin 0..m
      BY <2>0, <1>6
    <3>2. 0..m \subseteq 0..n
      BY <2>0, <1>6
    <3> QED BY <3>1, <3>2
  <2>3. <<0..m, 0..n>> \in StrictSubsetOrdering(Nat)
    <3>1. 0..m \in SUBSET Nat /\ 0..n \in SUBSET Nat
      BY <2>0
    <3> HIDE DEF Seg
    <3> QED BY <2>2, <3>1 DEF StrictSubsetOrdering
  <2> QED BY <1>4, <1>5, <2>1, <2>3
<1>7. \A m \in T : n <= m
  <2> TAKE m \in T
  <2>0. m \in Nat /\ n \in Nat
    OBVIOUS
  <2> QED BY <1>6, <2>0
<1> QED BY <1>7

\* What compute_report does with one entry: the body of Report's pass.
Stint == [open: Nat, done: Seq(Nat \X Nat)]
NoStint == [open |-> 0, done |-> <<>>]
StintAfter(was, i, e, c) ==
    LET now == IF e.callsign = c THEN e.new_status ELSE None IN
    IF now = "checked_in" /\ was.open = 0 THEN [was EXCEPT !.open = i]
    ELSE IF now = "checked_out" /\ was.open # 0
    THEN [open |-> 0, done |-> Append(was.done, <<was.open, i>>)]
    ELSE was

\* Report, as an operator of the log.
ReportOf(L, c) ==
    LET after[i \in 0..Len(L)] ==
            IF i = 0 THEN [open |-> 0, done |-> <<>>]
            ELSE LET was == after[i-1]
                     now == IF L[i].callsign = c THEN L[i].new_status ELSE None IN
                 IF now = "checked_in" /\ was.open = 0 THEN [was EXCEPT !.open = i]
                 ELSE IF now = "checked_out" /\ was.open # 0
                 THEN [open |-> 0, done |-> Append(was.done, <<was.open, i>>)]
                 ELSE was
    IN after[Len(L)]

\* a[i] is what the pass has found after i entries of L.
Pass(a, L, c, n) ==
    /\ a \in [0..n -> Stint]
    /\ a[0] = NoStint
    /\ \A i \in 1..n : a[i] = StintAfter(a[i-1], i, L[i], c)

\* One entry takes a stint to a stint.
LEMMA StintAfterType ==
    ASSUME NEW was \in Stint, NEW i \in Nat, NEW e, NEW c
    PROVE  StintAfter(was, i, e, c) \in Stint
<1>1. /\ was.open \in Nat /\ was.done \in Seq(Nat \X Nat)
      /\ was = [open |-> was.open, done |-> was.done]
  BY DEF Stint
<1>2. [was EXCEPT !.open = i] \in Stint
  BY DEF Stint
<1>3. [open |-> 0, done |-> Append(was.done, <<was.open, i>>)] \in Stint
  <2>1. Append(was.done, <<was.open, i>>) \in Seq(Nat \X Nat)
    BY <1>1, AppendProperties
  <2> QED BY <2>1 DEF Stint
<1> QED BY <1>2, <1>3 DEF StintAfter

\* Every log has its pass: there is no least number of entries without one.
LEMMA PassExists ==
    ASSUME NEW L, NEW c, NEW n \in Nat
    PROVE  \E a : Pass(a, L, c, n)
<1> DEFINE Without == {m \in Nat : ~\E a : Pass(a, L, c, m)}
<1>1. ASSUME Without # {} PROVE FALSE
  <2>1. PICK m \in Without : \A k \in Without : m <= k
    BY <1>1, NatMin
  <2>2. m # 0
    <3> DEFINE a == [i \in 0..0 |-> NoStint]
    <3>1. NoStint \in Stint
      <4>1. <<>> \in Seq(Nat \X Nat)
        OBVIOUS
      <4> QED BY <4>1 DEF NoStint, Stint
    <3>2. a \in [0..0 -> Stint] /\ a[0] = NoStint
      BY <3>1
    <3> HIDE DEF a
    <3>3. Pass(a, L, c, 0)
      BY <3>2 DEF Pass
    <3>4. 0 \notin Without
      BY <3>3
    <3> QED BY <2>1, <3>4
  <2>3. m \in Nat /\ m - 1 \in Nat /\ m - 1 \notin Without
    BY <2>1, <2>2
  <2>4. PICK b : Pass(b, L, c, m - 1)
    BY <2>3
  <2> DEFINE last == StintAfter(b[m - 1], m, L[m], c)
             a == [i \in 0..m |-> IF i = m THEN last ELSE b[i]]
  <2>5. b \in [0..(m - 1) -> Stint]
    BY <2>4 DEF Pass
  <2>6. last \in Stint
    <3>1. b[m - 1] \in Stint
      BY <2>3, <2>5
    <3> QED BY <2>3, <3>1, StintAfterType
  <2>7. a \in [0..m -> Stint]
    <3> HIDE DEF last
    <3> QED BY <2>3, <2>5, <2>6
  <2>8. a[0] = NoStint /\ a[m] = last /\ \A i \in 0..m - 1 : a[i] = b[i]
    <3> HIDE DEF last
    <3> QED BY <2>3, <2>4 DEF Pass
  <2> HIDE DEF a
  <2>9. ASSUME NEW i \in 1..m PROVE a[i] = StintAfter(a[i-1], i, L[i], c)
    <3>1. i - 1 \in 0..m - 1 /\ a[i-1] = b[i-1]
      BY <2>3, <2>8
    <3>2. CASE i = m
      BY <2>8, <3>1, <3>2
    <3>3. CASE i # m
      <4>1. i \in 1..(m - 1) /\ i \in 0..m - 1
        BY <2>3, <3>3
      <4> QED BY <2>4, <2>8, <3>1, <4>1 DEF Pass
    <3> QED BY <3>2, <3>3
  <2>10. Pass(a, L, c, m)
    BY <2>7, <2>8, <2>9 DEF Pass
  <2> QED BY <2>1, <2>10
<1> QED BY <1>1

\* Two passes that see the same callsigns and statuses agree.
LEMMA PassesAgree ==
    ASSUME NEW L, NEW M, NEW c, NEW n \in Nat, NEW m \in Nat, n <= m, NEW a, NEW b,
           Pass(a, L, c, n), Pass(b, M, c, m),
           \A i \in 1..n : L[i].callsign = M[i].callsign /\ L[i].new_status = M[i].new_status
    PROVE  a[n] = b[n]
<1> DEFINE Apart == {i \in 0..n : a[i] # b[i]}
<1>1. ASSUME Apart # {} PROVE FALSE
  <2>1. PICK k \in Apart : \A i \in Apart : k <= i
    <3>1. Apart \subseteq Nat
      OBVIOUS
    <3> HIDE DEF Apart
    <3> QED BY <1>1, <3>1, NatMin
  <2>2. k # 0
    BY <2>1 DEF Pass
  <2>3. k \in 1..n /\ k \in 1..m /\ k - 1 \in 0..n /\ k - 1 \notin Apart
    BY <2>1, <2>2
  <2>4. a[k-1] = b[k-1]
    BY <2>3
  <2>5. a[k] = StintAfter(a[k-1], k, L[k], c) /\ b[k] = StintAfter(b[k-1], k, M[k], c)
    BY <2>3 DEF Pass
  <2>6. L[k].callsign = M[k].callsign /\ L[k].new_status = M[k].new_status
    BY <2>3
  <2>7. a[k] = b[k]
    BY <2>4, <2>5, <2>6 DEF StintAfter
  <2> QED BY <2>1, <2>7
<1>2. n \in 0..n
  OBVIOUS
<1> QED BY <1>1, <1>2

\* The report is where the pass ends: the recursive definition has a solution.
LEMMA ReportIsPass ==
    ASSUME NEW L \in Seq(Entry), NEW c, NEW a, Pass(a, L, c, Len(L))
    PROVE  ReportOf(L, c) = a[Len(L)]
<1> DEFINE Body(g) == [i \in 0..Len(L) |->
                         IF i = 0 THEN NoStint ELSE StintAfter(g[i-1], i, L[i], c)]
           f == CHOOSE g : g = Body(g)
<1>1. Len(L) \in Nat
  BY LenProperties
<1>2. a = Body(a)
  <2>1. a \in [0..Len(L) -> Stint]
    BY DEF Pass
  <2>2. ASSUME NEW i \in 0..Len(L) PROVE a[i] = Body(a)[i]
    <3>1. CASE i = 0
      BY <3>1 DEF Pass
    <3>2. CASE i # 0
      <4>1. i \in 1..Len(L)
        BY <1>1, <3>2
      <4> QED BY <3>2, <4>1 DEF Pass
    <3> QED BY <3>1, <3>2
  <2> QED BY <2>1, <2>2
<1>3. f = Body(f)
  <2>1. \E g : g = Body(g)
    <3> HIDE DEF Body
    <3> QED BY <1>2
  <2> HIDE DEF Body
  <2> QED BY <2>1, Zenon
<1>4. ReportOf(L, c) = f[Len(L)]
  BY Zenon DEF ReportOf, StintAfter, NoStint
<1> HIDE DEF f
<1>5. /\ f[0] = NoStint
      /\ \A i \in 1..Len(L) : f[i] = StintAfter(f[i-1], i, L[i], c)
  <2>1. \A i \in 0..Len(L) : Body(f)[i] = IF i = 0 THEN NoStint ELSE StintAfter(f[i-1], i, L[i], c)
    OBVIOUS
  <2> HIDE DEF Body
  <2>2. \A i \in 0..Len(L) : f[i] = IF i = 0 THEN NoStint ELSE StintAfter(f[i-1], i, L[i], c)
    BY <1>3, <2>1
  <2>3. 0 \in 0..Len(L) /\ \A i \in 1..Len(L) : i \in 0..Len(L) /\ i # 0
    BY <1>1
  <2> QED BY <2>2, <2>3
<1> DEFINE Apart == {i \in 0..Len(L) : f[i] # a[i]}
<1>6. ASSUME Apart # {} PROVE FALSE
  <2>1. PICK k \in Apart : \A i \in Apart : k <= i
    <3>1. Apart \subseteq Nat
      OBVIOUS
    <3> HIDE DEF Apart
    <3> QED BY <1>6, <3>1, NatMin
  <2>2. k # 0
    BY <1>5, <2>1 DEF Pass
  <2>3. k \in 1..Len(L) /\ k - 1 \in 0..Len(L) /\ k - 1 \notin Apart
    BY <1>1, <2>1, <2>2
  <2>4. f[k] = a[k]
    BY <1>5, <2>3 DEF Pass
  <2> QED BY <2>1, <2>4
<1>7. Len(L) \in 0..Len(L)
  BY <1>1
<1> QED BY <1>4, <1>6, <1>7

\* The entry tells nothing of c's status.
Quiet(e, c) == e.callsign = c => e.new_status = None

\* Entries that tell nothing leave the pass where it is.
LEMMA QuietTail ==
    ASSUME NEW M, NEW c, NEW n \in Nat, NEW m \in Nat, n <= m, NEW b, Pass(b, M, c, m),
           \A i \in n + 1..m : Quiet(M[i], c)
    PROVE  b[m] = b[n]
<1> DEFINE Apart == {i \in n..m : b[i] # b[n]}
<1>1. ASSUME Apart # {} PROVE FALSE
  <2>1. PICK k \in Apart : \A i \in Apart : k <= i
    <3>1. Apart \subseteq Nat
      OBVIOUS
    <3> HIDE DEF Apart
    <3> QED BY <1>1, <3>1, NatMin
  <2>2. k # n
    BY <2>1
  <2>3. k \in n + 1..m /\ k \in 1..m /\ k - 1 \in n..m /\ k - 1 \notin Apart
    BY <2>1, <2>2
  <2>4. b[k-1] = b[n] /\ b[k] = StintAfter(b[k-1], k, M[k], c)
    BY <2>3 DEF Pass
  <2>5. b[k] = b[k-1]
    BY <2>3, <2>4, NoneAssumption DEF Quiet, StintAfter
  <2> QED BY <2>1, <2>4, <2>5
<1>2. m \in n..m
  OBVIOUS
<1> QED BY <1>1, <1>2

\* M repeats L, pins and numbers apart, and goes on.
Continues(L, M) ==
    /\ L \in Seq(Entry) /\ M \in Seq(Entry)
    /\ Len(L) \in Nat /\ Len(M) \in Nat /\ Len(L) <= Len(M)
    /\ \A i \in 1..Len(L) : L[i].callsign = M[i].callsign /\ L[i].new_status = M[i].new_status

\* The report of a log that goes on quietly is the same.
LEMMA ReportQuiet ==
    ASSUME NEW L, NEW M, NEW c, Continues(L, M),
           \A i \in Len(L) + 1..Len(M) : Quiet(M[i], c)
    PROVE  ReportOf(M, c) = ReportOf(L, c) /\ ReportOf(L, c) \in Stint
<1> USE DEF Continues
<1>1. PICK a : Pass(a, L, c, Len(L))
  BY PassExists
<1>2. PICK b : Pass(b, M, c, Len(M))
  BY PassExists
<1>3. ReportOf(L, c) = a[Len(L)] /\ ReportOf(M, c) = b[Len(M)]
  BY <1>1, <1>2, ReportIsPass
<1>4. a[Len(L)] = b[Len(L)]
  BY <1>1, <1>2, PassesAgree
<1>5. b[Len(M)] = b[Len(L)]
  BY <1>2, QuietTail
<1>6. a[Len(L)] \in Stint
  BY <1>1 DEF Pass
<1> QED BY <1>3, <1>4, <1>5, <1>6

\* If only its first new entry tells something, one step of the pass is added.
LEMMA ReportLoud ==
    ASSUME NEW L, NEW M, NEW c, Continues(L, M), Len(L) < Len(M),
           \A i \in Len(L) + 2..Len(M) : Quiet(M[i], c)
    PROVE  /\ ReportOf(M, c) = StintAfter(ReportOf(L, c), Len(L) + 1, M[Len(L) + 1], c)
           /\ ReportOf(L, c) \in Stint
<1> USE DEF Continues
<1>1. PICK a : Pass(a, L, c, Len(L))
  BY PassExists
<1>2. PICK b : Pass(b, M, c, Len(M))
  BY PassExists
<1>3. ReportOf(L, c) = a[Len(L)] /\ ReportOf(M, c) = b[Len(M)]
  BY <1>1, <1>2, ReportIsPass
<1>4. a[Len(L)] = b[Len(L)]
  BY <1>1, <1>2, PassesAgree
<1>5. b[Len(M)] = b[Len(L) + 1]
  <2> DEFINE n == Len(L) + 1
  <2>1. n \in Nat /\ n <= Len(M) /\ n + 1 = Len(L) + 2
    OBVIOUS
  <2>2. \A i \in n + 1..Len(M) : Quiet(M[i], c)
    BY <2>1
  <2> DEFINE m == Len(M)
  <2>3. m \in Nat /\ n <= m /\ Pass(b, M, c, m) /\ \A i \in n + 1..m : Quiet(M[i], c)
    BY <1>2, <2>1, <2>2
  <2> HIDE DEF n, m
  <2>4. b[m] = b[n]
    BY <2>1, <2>3, QuietTail
  <2> QED BY <2>4 DEF n, m
<1>6. b[Len(L) + 1] = StintAfter(b[Len(L)], Len(L) + 1, M[Len(L) + 1], c)
  <2>1. Len(L) + 1 \in 1..Len(M) /\ (Len(L) + 1) - 1 = Len(L)
    OBVIOUS
  <2> QED BY <1>2, <2>1 DEF Pass
<1>7. a[Len(L)] \in Stint
  BY <1>1 DEF Pass
<1> QED BY <1>3, <1>4, <1>5, <1>6, <1>7

------------------------------------------------------------------------------
(* Roster, log and report agree *)

LastToldOf(L, c, s) ==
    \E i \in 1..Len(L) :
        /\ L[i].callsign = c /\ L[i].new_status = s
        /\ \A j \in (i+1)..Len(L) : L[j].callsign = c => L[j].new_status = None
CheckOutsOf(L, c) == {i \in 1..Len(L) : L[i].callsign = c /\ L[i].new_status = "checked_out"}

\* What RosterMatchesLog says of one callsign, of a log and of a status.
RosterOf(L, c, s) ==
    /\ IF s = None
       THEN \A i \in 1..Len(L) : ~(L[i].callsign = c /\ L[i].new_status # None)
       ELSE LastToldOf(L, c, s)
    /\ ReportOf(L, c).open # 0 <=> s \notin {None, "checked_out"}
    /\ Len(ReportOf(L, c).done) = Cardinality(CheckOutsOf(L, c))
RosterTold == \A c \in Callsigns : RosterOf(log, c, participants[c].status)

\* RosterTold is RosterMatchesLog.
LEMMA RosterToldIs == RosterMatchesLog <=> RosterTold
<1>1. \A c \in Callsigns : Report(c) = ReportOf(log, c)
  BY Zenon DEF Report, ReportOf
<1>2. \A c \in Callsigns : /\ CheckOuts(c) = CheckOutsOf(log, c)
                           /\ \A s : LastStatus(c, s) <=> LastToldOf(log, c, s)
  BY DEF CheckOuts, CheckOutsOf, LastStatus, LastToldOf
<1> QED BY <1>1, <1>2 DEF RosterMatchesLog, RosterTold, RosterOf

\* Entries that tell nothing of c leave c's row of the roster right.
LEMMA RosterQuiet ==
    ASSUME NEW L, NEW M, NEW c, NEW s, Continues(L, M),
           \A i \in Len(L) + 1..Len(M) : Quiet(M[i], c),
           RosterOf(L, c, s)
    PROVE  RosterOf(M, c, s)
<1> USE DEF Continues
<1>1. ReportOf(M, c) = ReportOf(L, c)
  BY ReportQuiet
<1>2. ASSUME NEW i \in 1..Len(M) PROVE i \in 1..Len(L) \/ i \in Len(L) + 1..Len(M)
  OBVIOUS
<1>3. \A i \in Len(L) + 1..Len(M) : M[i].callsign = c => M[i].new_status = None
  BY DEF Quiet
<1>4. CheckOutsOf(M, c) = CheckOutsOf(L, c)
  BY <1>2, <1>3, NoneAssumption DEF CheckOutsOf
<1>5. CASE s = None
  BY <1>1, <1>2, <1>3, <1>4, <1>5 DEF RosterOf
<1>6. CASE s # None
  <2>1. PICK i \in 1..Len(L) :
          /\ L[i].callsign = c /\ L[i].new_status = s
          /\ \A j \in (i+1)..Len(L) : L[j].callsign = c => L[j].new_status = None
    BY <1>6 DEF RosterOf, LastToldOf
  <2>2. i \in 1..Len(M) /\ M[i].callsign = c /\ M[i].new_status = s
    BY <2>1
  <2>3. ASSUME NEW j \in (i+1)..Len(M), M[j].callsign = c PROVE M[j].new_status = None
    <3>1. CASE j \in 1..Len(L)
      <4>1. j \in (i+1)..Len(L)
        BY <3>1
      <4> QED BY <2>1, <2>3, <3>1, <4>1
    <3>2. CASE j \in Len(L) + 1..Len(M)
      BY <1>3, <2>3, <3>2
    <3>3. j \in 1..Len(M)
      OBVIOUS
    <3> QED BY <1>2, <3>1, <3>2, <3>3
  <2>4. LastToldOf(M, c, s)
    BY <2>2, <2>3 DEF LastToldOf
  <2> QED BY <1>1, <1>4, <1>6, <2>4 DEF RosterOf
<1> QED BY <1>5, <1>6

\* An entry that tells c's new status, written when the code allows it: who is
\* not on the event can only check in.  A check-out closes the open stint.
LEMMA RosterLoud ==
    ASSUME NEW L, NEW M, NEW c, NEW old, NEW s \in ParticipantStatus, Continues(L, M),
           Len(L) < Len(M),
           M[Len(L) + 1].callsign = c, M[Len(L) + 1].new_status = s,
           \A i \in Len(L) + 2..Len(M) : Quiet(M[i], c),
           old \in {None, "checked_out"} => s = "checked_in",
           RosterOf(L, c, old)
    PROVE  RosterOf(M, c, s)
<1> USE DEF Continues
<1> DEFINE n == Len(L)
           was == ReportOf(L, c)
           now == ReportOf(M, c)
<1>1. /\ now = StintAfter(was, n + 1, M[n + 1], c)
      /\ was \in Stint
  BY ReportLoud
<1>2. s # None
  BY NoneAssumption DEF ParticipantStatus
<1>3. LastToldOf(M, c, s)
  <2>1. n + 1 \in 1..Len(M) /\ (n + 1) + 1 = n + 2
    OBVIOUS
  <2>2. \A j \in n + 2..Len(M) : M[j].callsign = c => M[j].new_status = None
    BY DEF Quiet
  <2> QED BY <2>1, <2>2 DEF LastToldOf
<1>4. was.open # 0 <=> old \notin {None, "checked_out"}
  BY DEF RosterOf
<1>5. was.open \in Nat /\ was.done \in Seq(Nat \X Nat)
  BY <1>1 DEF Stint
<1> HIDE DEF was, now
<1>6. /\ s = "checked_in" => now.open # 0 /\ now.done = was.done
      /\ s = "checked_out" => now.open = 0 /\ now.done = Append(was.done, <<was.open, n + 1>>)
      /\ s \notin {"checked_in", "checked_out"} => now = was
  <2>1. n + 1 # 0
    OBVIOUS
  <2>2. CASE s = "checked_in" /\ was.open = 0
    <3>1. now = [was EXCEPT !.open = n + 1]
      BY <1>1, <2>2 DEF StintAfter
    <3>2. now.open = n + 1 /\ now.done = was.done
      BY <1>1, <3>1 DEF Stint
    <3> QED BY <2>1, <2>2, <3>2
  <2>3. CASE s = "checked_in" /\ was.open # 0
    BY <1>1, <2>3 DEF StintAfter
  <2>4. CASE s = "checked_out"
    <3>1. was.open # 0
      BY <1>4, <2>4
    <3> QED BY <1>1, <2>4, <3>1 DEF StintAfter
  <2>5. CASE s \notin {"checked_in", "checked_out"}
    BY <1>1, <2>5 DEF StintAfter
  <2> QED BY <2>2, <2>3, <2>4, <2>5
<1>7. now.open # 0 <=> s \notin {None, "checked_out"}
  BY <1>2, <1>4, <1>6
<1>8. Len(now.done) = IF s = "checked_out" THEN Len(was.done) + 1 ELSE Len(was.done)
  <2>1. CASE s = "checked_out"
    <3>1. <<was.open, n + 1>> \in Nat \X Nat
      BY <1>5
    <3> QED BY <1>5, <1>6, <2>1, <3>1, AppendProperties
  <2> QED BY <1>6, <2>1
<1>9. Cardinality(CheckOutsOf(M, c)) =
        IF s = "checked_out" THEN Cardinality(CheckOutsOf(L, c)) + 1
        ELSE Cardinality(CheckOutsOf(L, c))
  <2> DEFINE A == CheckOutsOf(L, c)
             B == CheckOutsOf(M, c)
  <2>1. A \subseteq 1..n
    BY DEF CheckOutsOf
  <2>2. \A i \in 1..n : i \in B <=> i \in A
    BY DEF CheckOutsOf
  <2>3. B \subseteq 1..n + 1
    <3> SUFFICES ASSUME NEW i \in 1..Len(M), i \notin 1..n + 1, i \in B PROVE FALSE
      BY DEF CheckOutsOf
    <3>1. i \in n + 2..Len(M)
      OBVIOUS
    <3>2. M[i].callsign = c /\ M[i].new_status = "checked_out"
      BY DEF CheckOutsOf
    <3> QED BY <3>1, <3>2, NoneAssumption DEF Quiet
  <2>4. n + 1 \in B <=> s = "checked_out"
    BY DEF CheckOutsOf
  <2>5. n \in Nat
    OBVIOUS
  <2> HIDE DEF A, B, n
  <2>6. Cardinality(B) = IF n + 1 \in B THEN Cardinality(A) + 1 ELSE Cardinality(A)
    BY <2>1, <2>2, <2>3, <2>5, CountGrows
  <2> QED BY <2>4, <2>6 DEF A, B
<1>10. Len(was.done) = Cardinality(CheckOutsOf(L, c))
  BY DEF RosterOf, was
<1>11. Len(now.done) = Cardinality(CheckOutsOf(M, c))
  BY <1>8, <1>9, <1>10
<1> QED BY <1>2, <1>3, <1>7, <1>11 DEF RosterOf, now

\* What is added to the log continues it.
LEMMA AddedContinues ==
    ASSUME IndInv, IndInv', NEW new \in Seq(Entry), AddsToLog(new)
    PROVE  /\ Continues(log, log') /\ Len(log') = Len(log) + Len(new) /\ Len(new) \in Nat
           /\ \A i \in Len(log) + 1..Len(log') :
                 /\ i - Len(log) \in 1..Len(new)
                 /\ log'[i].callsign = new[i - Len(log)].callsign
                 /\ log'[i].new_status = new[i - Len(log)].new_status
<1>1. /\ log \in Seq(Entry) /\ log' \in Seq(Entry)
      /\ Len(log) \in Nat /\ Len(log') \in Nat /\ Len(new) \in Nat
  BY LenProperties DEF IndInv, TypeOK
<1>2. Len(log') = Len(log) + Len(new)
  BY DEF AddsToLog
<1>3. Continues(log, log')
  BY <1>1, <1>2 DEF Continues, AddsToLog, Same
<1>4. ASSUME NEW i \in Len(log) + 1..Len(log')
      PROVE  /\ i - Len(log) \in 1..Len(new)
             /\ log'[i].callsign = new[i - Len(log)].callsign
             /\ log'[i].new_status = new[i - Len(log)].new_status
  <2> DEFINE j == i - Len(log)
  <2>1. j \in 1..Len(new) /\ i = Len(log) + j
    BY <1>1, <1>2
  <2> HIDE DEF j
  <2>2. Same(log'[i], new[j])
    BY <2>1 DEF AddsToLog
  <2> QED BY <2>1, <2>2 DEF Same, j
<1> QED BY <1>1, <1>2, <1>3, <1>4

\* Entries without a status, and no change of the roster's.
LEMMA QuietStep ==
    ASSUME IndInv, IndInv', RosterTold, NEW new \in Seq(Entry), AddsToLog(new),
           \A i \in 1..Len(new) : new[i].new_status = None,
           \A c \in Callsigns : participants'[c].status = participants[c].status
    PROVE  RosterTold'
<1>1. /\ Continues(log, log')
      /\ \A i \in Len(log) + 1..Len(log') : log'[i].new_status = None
  BY AddedContinues
<1>2. ASSUME NEW c \in Callsigns PROVE RosterOf(log', c, participants'[c].status)
  <2> DEFINE L == log
             M == log'
             s == participants[c].status
  <2>1. /\ Continues(L, M) /\ RosterOf(L, c, s)
        /\ \A i \in Len(L) + 1..Len(M) : Quiet(M[i], c)
    BY <1>1 DEF RosterTold, Quiet
  <2>2. participants'[c].status = s
    OBVIOUS
  <2> HIDE DEF L, M, s
  <2>3. RosterOf(M, c, s)
    BY <2>1, RosterQuiet
  <2> QED BY <2>2, <2>3 DEF M
<1> QED BY <1>2 DEF RosterTold

\* Entries whose first one tells a new status of c, and the roster says so.
LEMMA LoudStep ==
    ASSUME IndInv, IndInv', RosterTold, NEW new \in Seq(Entry), AddsToLog(new), Len(new) # 0,
           NEW c \in Callsigns, NEW s \in ParticipantStatus,
           new[1].callsign = c, new[1].new_status = s,
           \A i \in 2..Len(new) : new[i].new_status = None,
           participants[c].status \in {None, "checked_out"} => s = "checked_in",
           participants'[c].status = s,
           \A d \in Callsigns : d # c => participants'[d].status = participants[d].status
    PROVE  RosterTold'
<1>1. /\ Continues(log, log') /\ Len(log') = Len(log) + Len(new) /\ Len(new) \in Nat
      /\ Len(log) \in Nat /\ Len(log) < Len(log')
      /\ \A i \in Len(log) + 1..Len(log') :
            /\ i - Len(log) \in 1..Len(new)
            /\ log'[i].callsign = new[i - Len(log)].callsign
            /\ log'[i].new_status = new[i - Len(log)].new_status
  BY AddedContinues DEF Continues
<1>2. log'[Len(log) + 1].callsign = c /\ log'[Len(log) + 1].new_status = s
  <2>1. Len(log) + 1 \in Len(log) + 1..Len(log') /\ (Len(log) + 1) - Len(log) = 1
    BY <1>1
  <2> QED BY <1>1, <2>1
<1>3. ASSUME NEW i \in Len(log) + 2..Len(log') PROVE log'[i].new_status = None
  <2>1. i \in Len(log) + 1..Len(log') /\ i - Len(log) \in 2..Len(new)
    BY <1>1
  <2> QED BY <1>1, <2>1
<1>4. ASSUME NEW d \in Callsigns PROVE RosterOf(log', d, participants'[d].status)
  <2> DEFINE L == log
             M == log'
             old == participants[d].status
  <2>1. Continues(L, M) /\ RosterOf(L, d, old)
    BY <1>1 DEF RosterTold
  <2>2. CASE d = c
    <3>1. /\ Len(L) < Len(M)
          /\ M[Len(L) + 1].callsign = d /\ M[Len(L) + 1].new_status = s
          /\ \A i \in Len(L) + 2..Len(M) : Quiet(M[i], d)
          /\ old \in {None, "checked_out"} => s = "checked_in"
      BY <1>1, <1>2, <1>3, <2>2 DEF Quiet
    <3> HIDE DEF L, M, old
    <3>2. RosterOf(M, d, s)
      BY <2>1, <3>1, RosterLoud
    <3> QED BY <2>2, <3>2 DEF M
  <2>3. CASE d # c
    <3>1. ASSUME NEW i \in Len(L) + 1..Len(M) PROVE Quiet(M[i], d)
      <4>1. CASE i = Len(L) + 1
        BY <1>2, <2>3, <4>1 DEF Quiet
      <4>2. CASE i # Len(L) + 1
        <5>1. i \in Len(log) + 2..Len(log')
          BY <1>1, <4>2
        <5> QED BY <1>3, <5>1 DEF Quiet
      <4> QED BY <4>1, <4>2
    <3>2. participants'[d].status = old
      BY <2>3
    <3> HIDE DEF L, M, old
    <3>3. RosterOf(M, d, old)
      BY <2>1, <3>1, RosterQuiet
    <3> QED BY <3>2, <3>3 DEF M
  <2> QED BY <2>2, <2>3
<1> QED BY <1>4 DEF RosterTold

\* An empty log and an empty roster agree.
LEMMA EmptyRoster ==
    ASSUME NEW c
    PROVE  RosterOf(<<>>, c, None)
<1> DEFINE L == <<>>
           a == [i \in 0..0 |-> NoStint]
<1>1. L \in Seq(Entry) /\ Len(L) = 0
  OBVIOUS
<1>2. NoStint \in Stint /\ NoStint.open = 0 /\ Len(NoStint.done) = 0
  <2>1. <<>> \in Seq(Nat \X Nat) /\ Len(<<>>) = 0
    OBVIOUS
  <2> QED BY <2>1 DEF NoStint, Stint
<1>3. a \in [0..0 -> Stint] /\ a[0] = NoStint
  BY <1>2
<1> HIDE DEF L, a
<1>4. Pass(a, L, c, Len(L))
  BY <1>1, <1>3 DEF Pass
<1>5. ReportOf(L, c) = NoStint
  BY <1>1, <1>3, <1>4, ReportIsPass
<1>6. CheckOutsOf(L, c) = {}
  BY <1>1 DEF CheckOutsOf
<1>7. RosterOf(L, c, None)
  BY <1>1, <1>2, <1>5, <1>6, FS_EmptySet DEF RosterOf
<1> QED BY <1>7 DEF L

\* check_in.
LEMMA CheckInRoster ==
    ASSUME IndInv, IndInv', RosterTold, NEW r \in Requests, CheckIn(r)
    PROVE  RosterTold'
<1>1. PICK c \in Callsigns, p \in PostsNow \cup {None} :
        /\ participants[c].status \in {None, "checked_out"}
        /\ CommitLog(requests[r].row, <<LogEntry("operator", c, "checked_in", Unpinned)>>, event.status)
        /\ participants' = [participants EXCEPT
               ![c] = [status |-> "checked_in", post |-> IF p # None THEN p ELSE @.post]]
  BY DEF CheckIn
<1> DEFINE new == <<LogEntry("operator", c, "checked_in", Unpinned)>>
<1>2. /\ new \in Seq(Entry) /\ Len(new) = 1
      /\ new[1].callsign = c /\ new[1].new_status = "checked_in"
  <2>1. "checked_in" \in ParticipantStatus /\ Unpinned \in BOOLEAN
    BY DEF ParticipantStatus, Unpinned
  <2> QED BY <2>1, OneEntry
<1>3. requests[r].row \in EventRow
  BY DEF CheckIn, Handles, IndInv, SnapshotsTell
<1>4. log' = log \o Stamped(requests[r].row, new)
  BY <1>1 DEF CommitLog
<1> HIDE DEF new
<1>5. AddsToLog(new)
  BY <1>2, <1>3, <1>4, CommitAdds
<1>6. /\ participants'[c].status = "checked_in"
      /\ \A d \in Callsigns : d # c => participants'[d].status = participants[d].status
  BY <1>1 DEF IndInv, TypeOK
<1>7. "checked_in" \in ParticipantStatus /\ \A i \in 2..Len(new) : new[i].new_status = None
  BY <1>2 DEF ParticipantStatus
<1> QED BY <1>2, <1>5, <1>6, <1>7, LoudStep

\* update_participant.
LEMMA UpdateParticipantRoster ==
    ASSUME IndInv, IndInv', RosterTold, NEW r \in Requests, UpdateParticipant(r)
    PROVE  RosterTold'
<1>1. PICK c \in Callsigns, patch \in Patches :
        /\ MayPatch(c, patch)
        /\ IF PatchEntries(c, patch) = <<>> THEN UNCHANGED <<event, log>>
           ELSE CommitLog(requests[r].row, PatchEntries(c, patch), event.status)
        /\ participants' = [participants EXCEPT ![c] = Patched(@, patch)]
  BY DEF UpdateParticipant
<1> DEFINE new == PatchEntries(c, patch)
           old == participants[c].status
<1>2. /\ new \in Seq(Entry)
      /\ \A i \in 1..Len(new) : new[i].callsign = c
      /\ patch.status \in {"unset", old} => \A i \in 1..Len(new) : new[i].new_status = None
      /\ patch.status \notin {"unset", old} =>
            /\ new # <<>>
            /\ new[1].new_status = patch.status
            /\ \A i \in 2..Len(new) : new[i].new_status = None
  BY PatchEntriesShape, PatchEntriesType
<1>3. requests[r].row \in EventRow
  BY DEF UpdateParticipant, Handles, IndInv, SnapshotsTell
<1>4. AddsToLog(new)
  <2>1. CASE new = <<>>
    BY <1>1, <2>1, NothingAdds
  <2>2. CASE new # <<>>
    <3>1. log' = log \o Stamped(requests[r].row, new)
      BY <1>1, <2>2 DEF CommitLog
    <3> HIDE DEF new
    <3> QED BY <1>2, <1>3, <3>1, CommitAdds
  <2> QED BY <2>1, <2>2
<1>5. /\ participants'[c].status = IF patch.status = "unset" THEN old ELSE patch.status
      /\ \A d \in Callsigns : d # c => participants'[d].status = participants[d].status
  BY <1>1 DEF IndInv, TypeOK, Patched
<1>6. patch.status \in ParticipantStatus \cup {"unset"}
  BY DEF Patches
<1>7. old # None /\ (old = "checked_out" => patch.status \in {"unset", "checked_out", "checked_in"})
  BY <1>1 DEF MayPatch
<1> HIDE DEF new
<1>8. CASE patch.status \in {"unset", old}
  <2>1. \A d \in Callsigns : participants'[d].status = participants[d].status
    BY <1>5, <1>8
  <2> QED BY <1>2, <1>4, <1>8, <2>1, QuietStep
<1>9. CASE patch.status \notin {"unset", old}
  <2>1. Len(new) # 0 /\ new[1].callsign = c /\ new[1].new_status = patch.status
    <3>1. Len(new) # 0 /\ Len(new) \in Nat
      BY <1>2, <1>9, EmptySeq, LenProperties
    <3>2. 1 \in 1..Len(new)
      BY <3>1
    <3> QED BY <1>2, <1>9, <3>1, <3>2
  <2>2. patch.status \in ParticipantStatus
    BY <1>6, <1>9
  <2>3. old \in {None, "checked_out"} => patch.status = "checked_in"
    BY <1>7, <1>9
  <2>4. participants'[c].status = patch.status
    BY <1>5, <1>9
  <2>5. \A i \in 2..Len(new) : new[i].new_status = None
    BY <1>2, <1>9
  <2> HIDE DEF old
  <2> QED BY <1>2, <1>4, <1>5, <2>1, <2>2, <2>3, <2>4, <2>5, LoudStep DEF old
<1> QED BY <1>8, <1>9

\* The handlers, one by one.
LEMMA HandlerRoster ==
    ASSUME IndInv, IndInv', RosterTold, NEW r \in Requests, Handler(r)
    PROVE  RosterTold'
<1>1. ASSUME NEW kind \in {"activated", "closed", "reopened"}, NEW statuses,
             Handles(r, statuses), NEW status \in {"active", "closed"},
             CommitLog(requests[r].row, LifecycleEntry(kind), status),
             participants' = participants
      PROVE  RosterTold'
  <2> DEFINE e == LogEntry(kind, None, None, Unpinned)
             new == <<e>>
  <2>1. kind \in Kinds /\ Unpinned \in BOOLEAN
    BY DEF Kinds, Unpinned
  <2>2. e \in Entry
    BY <2>1, LogEntryType
  <2>3. e.new_status = None
    BY DEF LogEntry
  <2>4. LifecycleEntry(kind) = new
    BY DEF LifecycleEntry
  <2> HIDE DEF e
  <2>5. new \in Seq(Entry) /\ Len(new) = 1 /\ \A i \in 1..Len(new) : new[i].new_status = None
    BY <2>2, <2>3
  <2> HIDE DEF new
  <2>6. AddsToLog(new)
    BY <1>1, <2>4, <2>5, HandlerAdds
  <2>7. \A c \in Callsigns : participants'[c].status = participants[c].status
    BY <1>1
  <2> QED BY <2>5, <2>6, <2>7, QuietStep
<1>2. CASE Activate(r)
  BY <1>1, <1>2 DEF Activate
<1>3. CASE Close(r)
  BY <1>1, <1>3 DEF Close
<1>4. CASE Reopen(r)
  BY <1>1, <1>4 DEF Reopen
<1>5. CASE Delete(r)
  <2>1. log' = <<>> /\ participants' = [c \in Callsigns |-> NoParticipant]
    BY <1>5 DEF Delete
  <2>2. ASSUME NEW c \in Callsigns PROVE RosterOf(log', c, participants'[c].status)
    <3>1. participants'[c].status = None
      BY <2>1 DEF NoParticipant
    <3>2. RosterOf(<<>>, c, None)
      BY EmptyRoster
    <3> QED BY <2>1, <3>1, <3>2
  <2> QED BY <2>2 DEF RosterTold
<1>6. CASE CheckIn(r)
  BY <1>6, CheckInRoster
<1>7. CASE UpdateParticipant(r)
  BY <1>7, UpdateParticipantRoster
<1>8. CASE AddNote(r)
  <2>1. PICK c \in Callsigns \cup {None}, pin \in Pins :
          CommitLog(requests[r].row, <<LogEntry("operator", c, None, pin)>>, event.status)
    BY <1>8 DEF AddNote
  <2> DEFINE new == <<LogEntry("operator", c, None, pin)>>
  <2>2. pin \in BOOLEAN
    BY FlagAssumption
  <2>3. new \in Seq(Entry) /\ Len(new) = 1 /\ new[1].new_status = None
    BY <2>2, OneEntry
  <2>4. requests[r].row \in EventRow
    BY <1>8 DEF AddNote, Handles, IndInv, SnapshotsTell
  <2>5. log' = log \o Stamped(requests[r].row, new)
    BY <2>1 DEF CommitLog
  <2> HIDE DEF new
  <2>6. AddsToLog(new)
    BY <2>3, <2>4, <2>5, CommitAdds
  <2>7. \A i \in 1..Len(new) : new[i].new_status = None
    BY <2>3
  <2>8. \A d \in Callsigns : participants'[d].status = participants[d].status
    BY <1>8 DEF AddNote
  <2> QED BY <2>3, <2>6, <2>7, <2>8, QuietStep
<1>9. CASE SetLogPinned(r)
  <2>1. AddsToLog(<<>>)
    BY <1>9, PinAdds
  <2>2. \A d \in Callsigns : participants'[d].status = participants[d].status
    BY <1>9 DEF SetLogPinned
  <2>3. <<>> \in Seq(Entry) /\ \A i \in 1..Len(<<>>) : <<>>[i].new_status = None
    OBVIOUS
  <2> QED BY <2>1, <2>2, <2>3, QuietStep
<1>10. CASE \/ Refuse(r) \/ DispatchMessage(r) \/ UpdateEvent(r) \/ SendMessage(r)
            \/ CreatePost(r) \/ UpdatePost(r) \/ DeletePost(r)
            \/ SetMessageStatus(r) \/ RetryMessage(r) \/ Rescan(r)
  <2>1. log' = log /\ participants' = participants
    BY <1>10 DEF Refuse, DispatchMessage, UpdateEvent, SendMessage, CreatePost, UpdatePost,
       DeletePost, SetMessageStatus, RetryMessage, Rescan, tables
  <2> QED BY <2>1 DEF RosterTold
<1> QED BY <1>2, <1>3, <1>4, <1>5, <1>6, <1>7, <1>8, <1>9, <1>10 DEF Handler

\* A scan's breadcrumb tells no status and touches no row of the roster.
LEMMA ScanRoster ==
    ASSUME IndInv, IndInv', RosterTold, NEW s \in Scanners, ScanStep(s)
    PROVE  RosterTold'
<1>1. participants' = participants
  BY DEF ScanStep, StartScan, ScanPick, ScanCommit, ScanEnd, tables
<1>2. CASE log' = log
  BY <1>1, <1>2 DEF RosterTold
<1>3. CASE log' # log
  <2>1. ScanCommit(s)
    BY <1>3 DEF ScanStep, StartScan, ScanPick, ScanEnd, tables
  <2>2. /\ AddsToLog(BreadCrumb) /\ BreadCrumb = <<BreadCrumb[1]>>
        /\ BreadCrumb[1] \in Entry /\ BreadCrumb[1].new_status = None
    BY <1>3, <2>1, BreadCrumbAdds
  <2> DEFINE e == BreadCrumb[1]
             new == <<e>>
  <2>3. AddsToLog(new) /\ e \in Entry /\ e.new_status = None
    BY <2>2
  <2> HIDE DEF e
  <2>4. new \in Seq(Entry) /\ \A i \in 1..Len(new) : new[i].new_status = None
    BY <2>3
  <2>5. \A d \in Callsigns : participants'[d].status = participants[d].status
    BY <1>1
  <2> HIDE DEF new
  <2> QED BY <2>3, <2>4, <2>5, QuietStep
<1> QED BY <1>2, <1>3

\* Roster, log and report agree in every state: whoever edits the roster and
\* with whatever outdated session, a participant's status is the last one the
\* log records, and the report opens and closes one stint per check-in and
\* check-out (check_in, update_participant, compute_report).
THEOREM RosterAlwaysMatches == Spec => []RosterMatchesLog
<1>1. Init => RosterTold
  <2> SUFFICES ASSUME Init, NEW c \in Callsigns PROVE RosterOf(log, c, participants[c].status)
    BY DEF RosterTold
  <2>1. log = <<>> /\ participants[c].status = None
    BY DEF Init, NoParticipant
  <2>2. RosterOf(<<>>, c, None)
    BY EmptyRoster
  <2> QED BY <2>1, <2>2
<1>2. IndInv /\ IndInv' /\ RosterTold /\ [Next]_vars => RosterTold'
  <2> SUFFICES ASSUME IndInv, IndInv', RosterTold, [Next]_vars PROVE RosterTold'
    OBVIOUS
  <2>1. ASSUME NEW r \in Requests, Handler(r) PROVE RosterTold'
    BY <2>1, HandlerRoster
  <2>2. ASSUME NEW s \in Scanners, ScanStep(s) PROVE RosterTold'
    BY <2>2, ScanRoster
  <2>3. ASSUME \/ Create \/ Restart \/ UNCHANGED vars
               \/ \E r \in Requests : Authorize(r)
               \/ \E m \in Raws : Arrive(m)
        PROVE  RosterTold'
    <3>1. log' = log /\ participants' = participants
      BY <2>3 DEF Create, Restart, Authorize, Arrive, vars, tables
    <3> QED BY <3>1 DEF RosterTold
  <2> QED BY <2>1, <2>2, <2>3 DEF Next
<1>3. RosterTold => RosterMatchesLog
  BY RosterToldIs
<1> QED BY <1>1, <1>2, <1>3, InitIndInv, NextKeeps, PTL DEF Spec

==============================================================================
