--------------------------- MODULE EventRoom_proofs ---------------------------
(***************************************************************************)
(* What holds of EventRoom for every set of requests, scanners, callsigns, *)
(* posts and messages, and for every bound.                                *)
(***************************************************************************)
EXTENDS EventRoom, SequenceTheorems, TLAPS

------------------------------------------------------------------------------
(* The entries of a commit *)

\* An entry made by LogEntry is a log entry.
LEMMA LogEntryType ==
    ASSUME NEW kind \in Kinds, NEW c \in Callsigns \cup {None},
           NEW s \in ParticipantStatus \cup {None}, NEW pin \in BOOLEAN
    PROVE  LogEntry(kind, c, s, pin) \in Entry
BY DEF LogEntry, Entry

\* add_log_entry keeps the number of new entries and numbers them from the
\* row's log_seq on.
LEMMA StampedFacts ==
    ASSUME NEW row \in EventRow, NEW new \in Seq(Entry)
    PROVE  /\ Stamped(row, new) \in Seq(Entry)
           /\ Len(Stamped(row, new)) = Len(new)
           /\ \A i \in 1..Len(new) : Stamped(row, new)[i].seq = row.log_seq + i
<1>1. Len(new) \in Nat /\ \A i \in 1..Len(new) : new[i] \in Entry
  BY ElementOfSeq, LenProperties
<1>2. row.log_seq \in Nat
  BY DEF EventRow
<1>3. ASSUME NEW i \in 1..Len(new)
      PROVE  [new[i] EXCEPT !.seq = row.log_seq + i] \in Entry
  <2>1. new[i] \in Entry /\ row.log_seq + i \in Nat
    BY <1>1, <1>2
  <2> QED BY <2>1 DEF Entry
<1>4. Stamped(row, new) \in [1..Len(new) -> Entry]
  BY <1>3 DEF Stamped
<1>5. Stamped(row, new) \in Seq(Entry) /\ Len(Stamped(row, new)) = Len(new)
  BY <1>1, <1>4, SeqDef
<1>6. \A i \in 1..Len(new) : Stamped(row, new)[i].seq = row.log_seq + i
  BY <1>1 DEF Stamped, Entry
<1> QED BY <1>5, <1>6

\* The argument the whole log rests on: a commit that the unique constraint
\* lets through was prepared from the latest number.
LEMMA FreeMeansLatest ==
    ASSUME TypeOK, LogGapFree, NEW row \in EventRow, NEW new, Len(new) \in Nat \ {0},
           row.log_seq <= event.log_seq, SeqsFree(row, new)
    PROVE  row.log_seq = Len(log)
<1>1. Len(log) \in Nat /\ event.log_seq = Len(log) /\ row.log_seq \in Nat
  BY LenProperties DEF TypeOK, LogGapFree, EventRow
<1>2. ASSUME row.log_seq < Len(log) PROVE FALSE
  <2>1. row.log_seq + 1 \in 1..Len(log) /\ 1 \in 1..Len(new)
    BY <1>1, <1>2
  <2>2. log[row.log_seq + 1].seq = row.log_seq + 1
    BY <2>1 DEF LogGapFree
  <2> QED BY <2>1, <2>2 DEF SeqsFree
<1> QED BY <1>1, <1>2

\* So the log stays gap-free, whatever the session's other columns say.
LEMMA CommitKeepsOrder ==
    ASSUME TypeOK, LogGapFree, NEW row \in EventRow, NEW new \in Seq(Entry), Len(new) # 0,
           row.log_seq <= event.log_seq, NEW status \in EventStatus, 
           CommitLog(row, new, status)
    PROVE  /\ LogGapFree'
           /\ event' \in EventRow
           /\ log' \in Seq(Entry)
           /\ event'.status = status
           /\ event'.log_seq > event.log_seq
           /\ row.log_seq = event.log_seq
<1>1. Len(new) \in Nat \ {0} /\ Len(log) \in Nat /\ log \in Seq(Entry)
  BY LenProperties DEF TypeOK
<1>2. row.log_seq = Len(log) /\ event.log_seq = Len(log)
  BY <1>1, FreeMeansLatest DEF CommitLog, LogGapFree
<1>3. /\ log' = log \o Stamped(row, new)
      /\ event' = [event EXCEPT !.log_seq = row.log_seq + Len(new), !.status = status]
  BY DEF CommitLog
<1>4. /\ Stamped(row, new) \in Seq(Entry)
      /\ Len(Stamped(row, new)) = Len(new)
      /\ \A i \in 1..Len(new) : Stamped(row, new)[i].seq = row.log_seq + i
  BY StampedFacts
<1>5. /\ log' \in Seq(Entry)
      /\ Len(log') = Len(log) + Len(new)
      /\ \A i \in 1..Len(log) + Len(new) :
            log'[i] = IF i <= Len(log) THEN log[i] ELSE Stamped(row, new)[i - Len(log)]
  <2> DEFINE added == Stamped(row, new)
  <2>1. /\ log \o added \in Seq(Entry)
        /\ Len(log \o added) = Len(log) + Len(added)
        /\ \A i \in 1..Len(log) + Len(added) :
              (log \o added)[i] = IF i <= Len(log) THEN log[i] ELSE added[i - Len(log)]
    <3> HIDE DEF added
    <3> QED BY <1>1, <1>4, ConcatProperties DEF added
  <2> QED BY <2>1, <1>3, <1>4
<1>6. \A i \in 1..Len(log') : log'[i].seq = i
  <2> SUFFICES ASSUME NEW i \in 1..Len(log) + Len(new) PROVE log'[i].seq = i
    BY <1>5
  <2>1. CASE i <= Len(log)
    BY <2>1, <1>1, <1>5 DEF LogGapFree
  <2>2. CASE i > Len(log)
    <3>1. i - Len(log) \in 1..Len(new)
      BY <2>2, <1>1
    <3>2. log'[i] = Stamped(row, new)[i - Len(log)]
      BY <2>2, <1>1, <1>5
    <3>3. log'[i].seq = row.log_seq + (i - Len(log))
      BY <3>1, <3>2, <1>4
    <3> QED BY <3>3, <1>1, <1>2
  <2> QED BY <1>1, <2>1, <2>2
<1>7. /\ event' \in EventRow
      /\ event'.log_seq = Len(log')
      /\ event'.status = status
  <2>1. event \in EventRow /\ row.log_seq + Len(new) = Len(log) + Len(new)
    BY <1>2 DEF TypeOK
  <2>2. Len(log) + Len(new) \in Nat
    BY <1>1
  <2> QED BY <2>1, <2>2, <1>3, <1>5 DEF EventRow
<1> QED BY <1>1, <1>2, <1>5, <1>6, <1>7 DEF LogGapFree

------------------------------------------------------------------------------
(* The inductive invariant *)

IndInv == TypeOK /\ LogGapFree /\ SnapshotsTell

\* Initially there is no row, no entry and no session.
LEMMA InitIndInv == Init => IndInv
<1> SUFFICES ASSUME Init PROVE IndInv
  OBVIOUS
<1>1. /\ event \in EventRow /\ event.status = "none" /\ event.log_seq = 0
  BY DEF Init, EventRow, EventStatus
<1>2. log \in Seq(Entry) /\ messages \in Seq(Message) /\ Len(log) = 0
  BY EmptySeq DEF Init
<1>3. participants \in [Callsigns -> Participant]
  BY DEF Init, NoParticipant, Participant
<1>4. requests \in [Requests -> Request] /\ \A r \in Requests : requests[r].pc = "idle"
  BY DEF Init, IdleRequest, Request
<1>5. scans \in [Scanners -> Scan] /\ \A s \in Scanners : scans[s].pc = "idle"
  BY DEF Init, IdleScan, Scan
<1>6. posts \in [PostIds -> PostNames \cup {None}] /\ mailbox \in SUBSET Raws /\ aprs \in BOOLEAN
  BY DEF Init
<1>7. TypeOK
  BY <1>1, <1>2, <1>3, <1>4, <1>5, <1>6 DEF TypeOK
<1>8. LogGapFree
  BY <1>1, <1>2 DEF LogGapFree
<1>9. SnapshotsTell
  BY <1>4, <1>5 DEF SnapshotsTell
<1> QED BY <1>7, <1>8, <1>9 DEF IndInv

\* A write that numbers an entry makes every other copy of the row outdated; a
\* write that does not leaves number and status alone.
LEMMA SnapshotsStay ==
    ASSUME TypeOK, SnapshotsTell, event' \in EventRow,
           \/ /\ event.status # "deleted"
              /\ event'.log_seq > event.log_seq
              /\ event'.status # "none"
              /\ event'.status = "draft" => event.status = "draft"
           \/ event'.log_seq = event.log_seq /\ event'.status = event.status,
           NEW r \in Requests, NEW x \in Request, x.pc # "authorized",
           requests' = [requests EXCEPT ![r] = x], scans' = scans
    PROVE  SnapshotsTell' /\ requests' \in [Requests -> Request]
<1> USE DEF Snapshot
<1>1. event.log_seq \in Nat /\ event'.log_seq \in Nat /\ requests \in [Requests -> Request]
  BY DEF TypeOK, EventRow
<1>2. requests' \in [Requests -> Request]
  BY <1>1
<1>3. ASSUME NEW q \in Requests, requests'[q].pc = "authorized"
      PROVE  /\ requests'[q].row \in EventRow
             /\ event'.status # "none"
             /\ event'.status # "deleted" => Snapshot(requests[q].row)'
  <2>1. q # r /\ requests'[q] = requests[q]
    BY <1>1, <1>3
  <2>2. requests[q].row \in EventRow /\ requests[q].row.log_seq \in Nat
    BY <2>1, <1>3 DEF SnapshotsTell, EventRow
  <2> QED BY <1>1, <1>3, <2>1, <2>2 DEF SnapshotsTell
<1>4. ASSUME NEW s \in Scanners, scans'[s].pc # "idle"
      PROVE  /\ scans'[s].pc = "commit" => scans'[s].row \in EventRow
             /\ event'.status \notin {"none", "draft"}
             /\ event'.status # "deleted" /\ scans'[s].row \in EventRow => Snapshot(scans[s].row)'
  <2>1. ASSUME scans[s].row \in EventRow PROVE scans[s].row.log_seq \in Nat
    BY <2>1 DEF EventRow
  <2> QED BY <1>1, <1>4, <2>1 DEF SnapshotsTell
<1> QED BY <1>2, <1>3, <1>4 DEF SnapshotsTell

\* A handler that found the event active in its copy, and whose entry gets a
\* number, writes to an event that is active.
LEMMA ActiveWriter ==
    ASSUME IndInv, NEW r \in Requests, NEW statuses, Handles(r, statuses),
           NEW new \in Seq(Entry), Len(new) # 0, NEW status,
           CommitLog(requests[r].row, new, status)
    PROVE  event.status \in statuses /\ event.status \in Live
<1>1. /\ requests[r].row \in EventRow
      /\ requests[r].row.log_seq <= event.log_seq
      /\ requests[r].row.log_seq = event.log_seq => requests[r].row.status = event.status
  BY DEF IndInv, SnapshotsTell, Snapshot, Handles, Live
<1>2. Len(new) \in Nat \ {0}
  BY LenProperties
<1>3. requests[r].row.log_seq = event.log_seq
  BY <1>1, <1>2, FreeMeansLatest DEF IndInv, CommitLog, LogGapFree
<1> QED BY <1>1, <1>3 DEF Handles

\* A handler that commits log entries.
LEMMA LoggedWrite ==
    ASSUME IndInv, NEW r \in Requests, NEW statuses, Handles(r, statuses),
           NEW new \in Seq(Entry), Len(new) # 0, NEW status \in {"active", "closed"},
           CommitLog(requests[r].row, new, status), Answer(r), scans' = scans
    PROVE  /\ LogGapFree' /\ SnapshotsTell'
           /\ event' \in EventRow /\ log' \in Seq(Entry) /\ requests' \in [Requests -> Request]
           /\ event'.status = status
           /\ requests[r].row.status = event.status
<1>1. /\ requests[r].row \in EventRow
      /\ requests[r].row.log_seq <= event.log_seq
      /\ requests[r].row.log_seq = event.log_seq => requests[r].row.status = event.status
  BY DEF IndInv, SnapshotsTell, Snapshot, Handles, Live
<1>2. status \in EventStatus
  BY DEF EventStatus
<1>3. /\ LogGapFree' /\ event' \in EventRow /\ log' \in Seq(Entry)
      /\ event'.status = status /\ event'.log_seq > event.log_seq
      /\ requests[r].row.log_seq = event.log_seq
  BY <1>1, <1>2, CommitKeepsOrder DEF IndInv
<1>4. IdleRequest \in Request /\ IdleRequest.pc = "idle"
  BY DEF IdleRequest, Request
<1>5. event.status # "deleted"
  BY DEF Handles, Live
<1>6. SnapshotsTell' /\ requests' \in [Requests -> Request]
  BY <1>3, <1>4, <1>5, SnapshotsStay DEF IndInv, Answer
<1> QED BY <1>1, <1>3, <1>6

\* A handler that commits none.
LEMMA UnloggedWrite ==
    ASSUME IndInv, NEW r \in Requests, Answer(r), scans' = scans, event' \in EventRow,
           event'.log_seq = event.log_seq, event'.status = event.status
    PROVE  SnapshotsTell' /\ requests' \in [Requests -> Request]
<1>1. IdleRequest \in Request /\ IdleRequest.pc = "idle"
  BY DEF IdleRequest, Request
<1> QED BY <1>1, SnapshotsStay DEF IndInv, Answer

\* A handler that leaves the event row and the log alone.
LEMMA AnswerOnly ==
    ASSUME IndInv, NEW r \in Requests, Answer(r), UNCHANGED <<event, log, scans>>
    PROVE  /\ event' \in EventRow /\ log' \in Seq(Entry) /\ requests' \in [Requests -> Request]
           /\ LogGapFree' /\ SnapshotsTell'
<1>1. event' \in EventRow /\ log' \in Seq(Entry)
  BY DEF IndInv, TypeOK
<1> QED BY <1>1, UnloggedWrite DEF IndInv, LogGapFree

\* The entries the operations write.
LEMMA NewEntries ==
    ASSUME NEW kind \in Kinds, NEW c \in Callsigns \cup {None},
           NEW s \in ParticipantStatus \cup {None}, NEW pin \in BOOLEAN
    PROVE  /\ <<LogEntry(kind, c, s, pin)>> \in Seq(Entry)
           /\ Len(<<LogEntry(kind, c, s, pin)>>) = 1
BY LogEntryType

\* The same of an entry that is not pinned.
LEMMA PlainEntries ==
    ASSUME NEW kind \in Kinds, NEW c \in Callsigns \cup {None},
           NEW s \in ParticipantStatus \cup {None}
    PROVE  /\ <<LogEntry(kind, c, s, Unpinned)>> \in Seq(Entry)
           /\ Len(<<LogEntry(kind, c, s, Unpinned)>>) = 1
<1>1. Unpinned \in BOOLEAN
  BY DEF Unpinned
<1> QED BY <1>1, NewEntries

\* What a PATCH of a participant logs is a sequence of entries.
LEMMA PatchEntriesType ==
    ASSUME NEW c \in Callsigns, NEW patch \in Patches
    PROVE  PatchEntries(c, patch) \in Seq(Entry)
<1>1. patch.status \in ParticipantStatus \cup {"unset"}
  BY DEF Patches
<1>2. "operator" \in Kinds
  BY DEF Kinds
<1>3. StatusEntries(c, patch) \in Seq(Entry)
  <2>1. CASE patch.status \in {"unset", participants[c].status}
    BY <2>1, EmptySeq DEF StatusEntries
  <2>2. CASE patch.status \notin {"unset", participants[c].status}
    BY <1>1, <1>2, <2>2, PlainEntries DEF StatusEntries
  <2> QED BY <2>1, <2>2
<1>4. AssignEntries(c, patch) \in Seq(Entry)
  BY <1>2, PlainEntries, EmptySeq DEF AssignEntries
<1>5. LocationEntries(c, patch) \in Seq(Entry)
  BY <1>2, PlainEntries, EmptySeq DEF LocationEntries
<1>6. StatusEntries(c, patch) \o AssignEntries(c, patch) \in Seq(Entry)
  BY <1>3, <1>4, ConcatProperties
<1> QED BY <1>5, <1>6, ConcatProperties DEF PatchEntries

\* A patched participant is a participant.
LEMMA PatchedType ==
    ASSUME NEW old \in Participant, NEW patch \in Patches
    PROVE  Patched(old, patch) \in Participant
<1>1. /\ patch.status \in ParticipantStatus \cup {"unset"}
      /\ patch.post \in {<<"unset">>, <<"clear">>} \cup {<<"assign", p>> : p \in PostsNow}
  BY DEF Patches
<1>2. ASSUME patch.post # <<"unset">>, patch.post # <<"clear">> PROVE patch.post[2] \in PostIds
  <2>1. PICK p \in PostsNow : patch.post = <<"assign", p>>
    BY <1>1, <1>2
  <2> QED BY <2>1 DEF PostsNow
<1> QED BY <1>1, <1>2 DEF Patched, Participant

------------------------------------------------------------------------------
(* Every step keeps the invariant *)

\* activate_event, close_event, reopen_event.
LEMMA LifecycleKeeps ==
    ASSUME IndInv, NEW r \in Requests, Activate(r) \/ Close(r) \/ Reopen(r)
    PROVE  IndInv'
<1>1. PICK kind \in Kinds, status \in {"active", "closed"},
           statuses \in SUBSET {"draft", "active", "closed"} :
        /\ Handles(r, statuses)
        /\ CommitLog(requests[r].row, LifecycleEntry(kind), status)
        /\ Answer(r)
        /\ UNCHANGED <<participants, posts, messages, mailbox, scans>>
  BY DEF Activate, Close, Reopen, Kinds
<1>2. LifecycleEntry(kind) \in Seq(Entry) /\ Len(LifecycleEntry(kind)) # 0
  BY PlainEntries DEF LifecycleEntry
<1>3. /\ LogGapFree' /\ SnapshotsTell'
      /\ event' \in EventRow /\ log' \in Seq(Entry) /\ requests' \in [Requests -> Request]
  BY <1>1, <1>2, LoggedWrite
<1>4. aprs' \in BOOLEAN
  BY FlagAssumption DEF Activate, Close, Reopen, EnsureStarted, IndInv, TypeOK
<1>5. TypeOK'
  BY <1>1, <1>3, <1>4 DEF IndInv, TypeOK
<1> QED BY <1>3, <1>5 DEF IndInv

\* update_event: no number is minted.
LEMMA UpdateEventKeeps ==
    ASSUME IndInv, NEW r \in Requests, UpdateEvent(r)
    PROVE  IndInv'
<1>1. /\ event' \in EventRow /\ event'.log_seq = event.log_seq /\ event'.status = event.status
      /\ Answer(r) /\ UNCHANGED <<log, participants, posts, messages, mailbox, scans>>
  BY DEF UpdateEvent, IndInv, TypeOK, EventRow
<1>2. SnapshotsTell' /\ requests' \in [Requests -> Request]
  BY <1>1, UnloggedWrite
<1>3. aprs' \in BOOLEAN
  BY FlagAssumption DEF UpdateEvent, EnsureStarted, IndInv, TypeOK
<1>4. TypeOK'
  BY <1>1, <1>2, <1>3 DEF IndInv, TypeOK
<1>5. LogGapFree'
  BY <1>1 DEF IndInv, LogGapFree
<1> QED BY <1>2, <1>4, <1>5 DEF IndInv

\* delete_event_route: the log starts over, and no copy matters any more.
LEMMA DeleteKeeps ==
    ASSUME IndInv, NEW r \in Requests, Delete(r)
    PROVE  IndInv'
<1>1. /\ event' \in EventRow /\ event'.status = "deleted" /\ event'.log_seq = 0
  BY DEF Delete, IndInv, TypeOK, EventRow, EventStatus
<1>2. log' \in Seq(Entry) /\ messages' \in Seq(Message) /\ Len(log') = 0
  BY EmptySeq DEF Delete
<1>3. participants' \in [Callsigns -> Participant] /\ posts' \in [PostIds -> PostNames \cup {None}]
  BY DEF Delete, NoParticipant, Participant
<1>4. requests' \in [Requests -> Request] /\ UNCHANGED <<mailbox, scans>> /\ aprs' \in BOOLEAN
  BY DEF Delete, Answer, IdleRequest, Request, IndInv, TypeOK
<1>5. TypeOK'
  BY <1>1, <1>2, <1>3, <1>4 DEF IndInv, TypeOK
<1>6. LogGapFree'
  BY <1>1, <1>2 DEF LogGapFree
<1>7. SnapshotsTell'
  <2>1. ASSUME NEW q \in Requests, requests'[q].pc = "authorized"
        PROVE  requests'[q].row \in EventRow
    BY <2>1 DEF Delete, Answer, IdleRequest, IndInv, TypeOK, SnapshotsTell
  <2>2. ASSUME NEW s \in Scanners, scans'[s].pc = "commit"
        PROVE  scans'[s].row \in EventRow
    BY <1>4, <2>2 DEF IndInv, SnapshotsTell
  <2> QED BY <1>1, <2>1, <2>2 DEF SnapshotsTell
<1> QED BY <1>5, <1>6, <1>7 DEF IndInv

\* create_post, update_post, delete_post.
LEMMA PostsKeep ==
    ASSUME IndInv, NEW r \in Requests, CreatePost(r) \/ UpdatePost(r) \/ DeletePost(r)
    PROVE  IndInv'
<1>1. Answer(r) /\ UNCHANGED <<event, log, participants, messages, mailbox, scans, aprs>>
  BY DEF CreatePost, UpdatePost, DeletePost
<1>2. posts' \in [PostIds -> PostNames \cup {None}]
  BY DEF CreatePost, UpdatePost, DeletePost, IndInv, TypeOK
<1> QED BY <1>1, <1>2, AnswerOnly DEF IndInv, TypeOK

\* check_in.
LEMMA CheckInKeeps ==
    ASSUME IndInv, NEW r \in Requests, CheckIn(r)
    PROVE  IndInv'
<1>1. PICK c \in Callsigns, p \in PostsNow \cup {None} :
        /\ CommitLog(requests[r].row, <<LogEntry("operator", c, "checked_in", Unpinned)>>, event.status)
        /\ participants' = [participants EXCEPT
               ![c] = [status |-> "checked_in", post |-> IF p # None THEN p ELSE @.post]]
  BY DEF CheckIn
<1>2. /\ <<LogEntry("operator", c, "checked_in", Unpinned)>> \in Seq(Entry)
      /\ Len(<<LogEntry("operator", c, "checked_in", Unpinned)>>) # 0
  <2>1. "operator" \in Kinds /\ "checked_in" \in ParticipantStatus
    BY DEF Kinds, ParticipantStatus
  <2> QED BY <2>1, PlainEntries
<1>3. /\ Handles(r, {"active"}) /\ Answer(r)
      /\ UNCHANGED <<posts, messages, mailbox, scans, aprs>>
  BY DEF CheckIn
<1>4. event.status \in {"active", "closed"}
  BY <1>1, <1>2, <1>3, ActiveWriter
<1>5. /\ LogGapFree' /\ SnapshotsTell'
      /\ event' \in EventRow /\ log' \in Seq(Entry) /\ requests' \in [Requests -> Request]
  BY <1>1, <1>2, <1>3, <1>4, LoggedWrite
<1>6. participants' \in [Callsigns -> Participant]
  <2>1. participants[c] \in Participant /\ p \in PostIds \cup {None}
    BY DEF IndInv, TypeOK, PostsNow
  <2>2. [status |-> "checked_in", post |-> IF p # None THEN p ELSE participants[c].post] \in Participant
    BY <2>1 DEF Participant, ParticipantStatus
  <2> QED BY <1>1, <2>2 DEF IndInv, TypeOK
<1>7. TypeOK'
  BY <1>3, <1>5, <1>6 DEF IndInv, TypeOK
<1> QED BY <1>5, <1>7 DEF IndInv

\* add_note.
LEMMA NoteKeeps ==
    ASSUME IndInv, NEW r \in Requests, AddNote(r)
    PROVE  IndInv'
<1>1. PICK c \in Callsigns \cup {None}, pin \in Pins :
        CommitLog(requests[r].row, <<LogEntry("operator", c, None, pin)>>, event.status)
  BY DEF AddNote
<1>2. /\ <<LogEntry("operator", c, None, pin)>> \in Seq(Entry)
      /\ Len(<<LogEntry("operator", c, None, pin)>>) # 0
  <2>1. "operator" \in Kinds /\ pin \in BOOLEAN
    BY FlagAssumption DEF Kinds
  <2> QED BY <2>1, NewEntries
<1>3. /\ Handles(r, {"active"}) /\ Answer(r)
      /\ UNCHANGED <<participants, posts, messages, mailbox, scans, aprs>>
  BY DEF AddNote
<1>4. event.status \in {"active", "closed"}
  BY <1>1, <1>2, <1>3, ActiveWriter
<1>5. /\ LogGapFree' /\ SnapshotsTell'
      /\ event' \in EventRow /\ log' \in Seq(Entry) /\ requests' \in [Requests -> Request]
  BY <1>1, <1>2, <1>3, <1>4, LoggedWrite
<1>6. TypeOK'
  BY <1>3, <1>5 DEF IndInv, TypeOK
<1> QED BY <1>5, <1>6 DEF IndInv

\* update_participant.
LEMMA UpdateParticipantKeeps ==
    ASSUME IndInv, NEW r \in Requests, UpdateParticipant(r)
    PROVE  IndInv'
<1>1. PICK c \in Callsigns, patch \in Patches :
        /\ IF PatchEntries(c, patch) = <<>> THEN UNCHANGED <<event, log>>
           ELSE CommitLog(requests[r].row, PatchEntries(c, patch), event.status)
        /\ participants' = [participants EXCEPT ![c] = Patched(@, patch)]
  BY DEF UpdateParticipant
<1>2. PatchEntries(c, patch) \in Seq(Entry)
  BY PatchEntriesType
<1>3. /\ Handles(r, {"active"}) /\ Answer(r)
      /\ UNCHANGED <<posts, messages, mailbox, scans, aprs>>
  BY DEF UpdateParticipant
<1>4. /\ LogGapFree' /\ SnapshotsTell'
      /\ event' \in EventRow /\ log' \in Seq(Entry) /\ requests' \in [Requests -> Request]
  <2>1. CASE PatchEntries(c, patch) = <<>>
    BY <1>1, <1>3, <2>1, AnswerOnly
  <2>2. CASE PatchEntries(c, patch) # <<>>
    <3>1. Len(PatchEntries(c, patch)) # 0
      BY <1>2, <2>2, EmptySeq
    <3>2. event.status \in {"active", "closed"}
      BY <1>1, <1>2, <1>3, <2>2, <3>1, ActiveWriter
    <3> QED BY <1>1, <1>2, <1>3, <2>2, <3>1, <3>2, LoggedWrite
  <2> QED BY <2>1, <2>2
<1>5. participants' \in [Callsigns -> Participant]
  <2>1. participants[c] \in Participant
    BY DEF IndInv, TypeOK
  <2> QED BY <1>1, <2>1, PatchedType DEF IndInv, TypeOK
<1>6. TypeOK'
  BY <1>3, <1>4, <1>5 DEF IndInv, TypeOK
<1> QED BY <1>4, <1>6 DEF IndInv

\* One element of a sequence is replaced.
LEMMA SetLogPinnedKeeps ==
    ASSUME IndInv, NEW r \in Requests, SetLogPinned(r)
    PROVE  IndInv'
<1>1. PICK i \in 1..Len(log), pin \in Pins : log' = [log EXCEPT ![i].pinned = pin]
  BY DEF SetLogPinned
<1>2. /\ Answer(r)
      /\ UNCHANGED <<event, participants, posts, messages, mailbox, scans, aprs>>
  BY DEF SetLogPinned
<1> DEFINE e == [log[i] EXCEPT !.pinned = pin]
<1>3. log \in Seq(Entry) /\ log[i] \in Entry
  BY ElementOfSeq DEF IndInv, TypeOK
<1>4. e \in Entry /\ e.seq = log[i].seq
  BY <1>3, FlagAssumption DEF Entry
<1>5. log' = [log EXCEPT ![i] = e]
  BY <1>1
<1> HIDE DEF e
<1>6. /\ log' \in Seq(Entry) /\ Len(log') = Len(log)
      /\ \A j \in 1..Len(log) : log'[j] = IF j = i THEN e ELSE log[j]
  BY <1>3, <1>4, <1>5, ExceptSeq
<1>7. LogGapFree'
  BY <1>2, <1>4, <1>6 DEF IndInv, LogGapFree
<1>8. SnapshotsTell' /\ requests' \in [Requests -> Request]
  BY <1>2, UnloggedWrite DEF IndInv, TypeOK
<1>9. TypeOK'
  BY <1>2, <1>6, <1>8 DEF IndInv, TypeOK
<1> QED BY <1>7, <1>8, <1>9 DEF IndInv

\* set_message_status, retry_failed.
LEMMA TriageKeeps ==
    ASSUME IndInv, NEW r \in Requests, SetMessageStatus(r) \/ RetryMessage(r)
    PROVE  IndInv'
<1>1. /\ Answer(r)
      /\ UNCHANGED <<event, log, participants, posts, mailbox, scans, aprs>>
  BY DEF SetMessageStatus, RetryMessage
<1>2. PICK i \in 1..Len(messages), m \in Message : messages' = [messages EXCEPT ![i] = m]
  <2>1. ASSUME NEW i \in 1..Len(messages) PROVE messages[i] \in Message
    BY ElementOfSeq DEF IndInv, TypeOK
  <2>2. CASE SetMessageStatus(r)
    <3>1. PICK i \in 1..Len(messages), s \in Triage : messages' = [messages EXCEPT ![i].status = s]
      BY <2>2 DEF SetMessageStatus
    <3>2. s \in MessageStatus
      BY TriageAssumption DEF MessageStatus
    <3>3. [messages[i] EXCEPT !.status = s] \in Message
      BY <2>1, <3>2 DEF Message
    <3> QED BY <3>1, <3>3
  <2>3. CASE RetryMessage(r)
    <3>1. PICK i \in 1..Len(messages), d \in DeliveryOutcomes :
            messages' = [messages EXCEPT ![i].delivery = d]
      BY <2>3 DEF RetryMessage, Outbound
    <3>2. [messages[i] EXCEPT !.delivery = d] \in Message
      BY <2>1 DEF Message
    <3> QED BY <3>1, <3>2
  <2> QED BY <2>2, <2>3
<1>3. messages' \in Seq(Message)
  BY <1>2, ExceptSeq DEF IndInv, TypeOK
<1> QED BY <1>1, <1>3, AnswerOnly DEF IndInv, TypeOK

\* send_event_message: only msg_seq moves.
LEMMA SendKeeps ==
    ASSUME IndInv, NEW r \in Requests, SendMessage(r)
    PROVE  IndInv'
<1> DEFINE m == [msg_seq |-> requests[r].row.msg_seq + 1, raw |-> None,
                 status |-> "read", delivery |-> None]
           x == [pc |-> "dispatch", row |-> None, message |-> Len(messages) + 1]
<1>1. /\ requests[r].pc = "authorized"
      /\ messages' = Append(messages, m)
      /\ event' = [event EXCEPT !.msg_seq = requests[r].row.msg_seq + 1]
      /\ requests' = [requests EXCEPT ![r] = x]
      /\ UNCHANGED <<log, participants, posts, mailbox, scans, aprs>>
  BY DEF SendMessage, Handles
<1>2. requests[r].row.msg_seq \in Nat /\ messages \in Seq(Message) /\ Len(messages) \in Nat
  BY <1>1, LenProperties DEF IndInv, SnapshotsTell, EventRow, TypeOK
<1>3. m \in Message /\ x \in Request /\ x.pc # "authorized"
  BY <1>2 DEF Message, MessageStatus, Request
<1>4. /\ event' \in EventRow /\ event'.log_seq = event.log_seq /\ event'.status = event.status
  <2>1. event \in EventRow /\ requests[r].row.msg_seq + 1 \in Nat
    BY <1>2 DEF IndInv, TypeOK
  <2> QED BY <1>1, <2>1 DEF EventRow
<1> HIDE DEF m, x
<1>5. messages' \in Seq(Message)
  BY <1>1, <1>2, <1>3, AppendProperties
<1>6. SnapshotsTell' /\ requests' \in [Requests -> Request]
  BY <1>1, <1>3, <1>4, SnapshotsStay DEF IndInv
<1>7. TypeOK'
  BY <1>1, <1>4, <1>5, <1>6 DEF IndInv, TypeOK
<1>8. LogGapFree'
  BY <1>1, <1>4 DEF IndInv, LogGapFree
<1> QED BY <1>6, <1>7, <1>8 DEF IndInv

\* dispatch_delivery.
LEMMA DispatchKeeps ==
    ASSUME IndInv, NEW r \in Requests, DispatchMessage(r)
    PROVE  IndInv'
<1>1. /\ Answer(r)
      /\ UNCHANGED <<event, log, participants, posts, mailbox, scans, aprs>>
  BY DEF DispatchMessage
<1>2. messages \in Seq(Message) /\ DOMAIN messages = 1..Len(messages)
  BY LenProperties DEF IndInv, TypeOK
<1>3. ASSUME NEW d \in DeliveryOutcomes, NEW k \in Nat,
             messages' = [messages EXCEPT ![k].delivery = d]
      PROVE  messages' \in Seq(Message)
  <2> DEFINE m == [messages[k] EXCEPT !.delivery = d]
  <2>1. messages' = [messages EXCEPT ![k] = m]
    BY <1>3
  <2>2. CASE k \in 1..Len(messages)
    <3>1. messages[k] \in Message
      BY <1>2, <2>2, ElementOfSeq
    <3>2. m \in Message
      BY <3>1 DEF Message
    <3> HIDE DEF m
    <3> QED BY <1>2, <2>1, <2>2, <3>2, ExceptSeq
  <2>3. CASE k \notin 1..Len(messages)
    <3> HIDE DEF m
    <3>1. messages \in [1..Len(messages) -> Message]
      BY <1>2, LenProperties
    <3>2. messages' = messages
      BY <2>1, <2>3, <3>1
    <3> QED BY <1>2, <3>2
  <2> QED BY <2>2, <2>3
<1>4. messages' \in Seq(Message)
  <2>1. requests[r].message \in Nat
    BY DEF IndInv, TypeOK, Request
  <2> QED BY <1>2, <1>3, <2>1 DEF DispatchMessage
<1> QED BY <1>1, <1>4, AnswerOnly DEF IndInv, TypeOK

\* Rescan starts a scan from the copy its request holds; if nothing changed
\* since, it is a scan like any other.
LEMMA RescanKeeps ==
    ASSUME IndInv, NEW r \in Requests, Rescan(r)
    PROVE  IndInv'
<1> DEFINE row == requests[r].row
<1>1. /\ "loop" \in Scanners /\ Answer(r) /\ UNCHANGED <<tables, mailbox, aprs>>
      /\ requests[r].pc = "authorized" /\ event.status \in Live
  BY DEF Rescan, Handles
<1>2. requests \in [Requests -> Request] /\ scans \in [Scanners -> Scan] /\ mailbox \in SUBSET Raws
  BY DEF IndInv, TypeOK
<1>3. row \in EventRow /\ (event.status # "deleted" => Snapshot(row))
  BY <1>1 DEF IndInv, SnapshotsTell
<1>4. requests' \in [Requests -> Request]
      /\ \A q \in Requests : requests'[q].pc = "authorized" => requests'[q] = requests[q]
  BY <1>1, <1>2 DEF Answer, IdleRequest, Request
<1>5. CASE event.status = "active"
  <2> DEFINE new == [pc |-> "run", row |-> row, todo |-> mailbox, raw |-> None]
  <2>1. scans' = [scans EXCEPT !["loop"] = new]
    BY <1>5 DEF Rescan, Begin
  <2>2. new \in Scan
    BY <1>2, <1>3 DEF Scan
  <2>3. scans' \in [Scanners -> Scan]
    BY <1>2, <2>1, <2>2
  <2>4. TypeOK'
    BY <1>1, <1>2, <1>4, <2>3 DEF IndInv, TypeOK, tables
  <2>5. ASSUME NEW s \in Scanners, scans'[s].pc # "idle"
        PROVE  /\ scans'[s].pc = "commit" => scans'[s].row \in EventRow
               /\ event'.status \notin {"none", "draft"}
               /\ event'.status # "deleted" /\ scans'[s].row \in EventRow => Snapshot(scans'[s].row)
    <3>1. CASE s = "loop"
      BY <1>1, <1>2, <1>3, <1>5, <2>1, <3>1 DEF tables
    <3>2. CASE s # "loop"
      BY <1>1, <1>2, <2>1, <2>5, <3>2 DEF tables, IndInv, SnapshotsTell
    <3> QED BY <3>1, <3>2
  <2> HIDE DEF new
  <2>6. SnapshotsTell'
    BY <1>1, <1>4, <2>5 DEF tables, IndInv, SnapshotsTell, Snapshot
  <2>7. LogGapFree'
    BY <1>1 DEF IndInv, LogGapFree, tables
  <2> QED BY <2>4, <2>6, <2>7 DEF IndInv
<1>6. CASE event.status # "active"
  <2>1. UNCHANGED scans
    BY <1>6 DEF Rescan
  <2> QED BY <1>1, <2>1, AnswerOnly DEF IndInv, TypeOK, tables
<1> QED BY <1>5, <1>6

\* A step of a scan that writes nothing.
LEMMA ScanOnly ==
    ASSUME IndInv, NEW s \in Scanners, NEW x \in Scan,
           x.pc = "commit" => x.row \in EventRow,
           x.pc # "idle" => event.status \notin {"none", "draft"},
           event.status # "deleted" /\ x.pc # "idle" /\ x.row \in EventRow => Snapshot(x.row),
           scans' = [scans EXCEPT ![s] = x], UNCHANGED <<tables, mailbox, requests, aprs>>
    PROVE  IndInv'
<1>1. scans \in [Scanners -> Scan] /\ scans' \in [Scanners -> Scan]
  BY DEF IndInv, TypeOK
<1>2. TypeOK'
  BY <1>1 DEF IndInv, TypeOK, tables
<1>3. ASSUME NEW q \in Scanners, scans'[q].pc # "idle"
      PROVE  /\ scans'[q].pc = "commit" => scans'[q].row \in EventRow
             /\ event.status \notin {"none", "draft"}
             /\ event.status # "deleted" /\ scans'[q].row \in EventRow => Snapshot(scans'[q].row)
  <2>1. CASE q = s
    BY <1>1, <1>3, <2>1
  <2>2. CASE q # s
    BY <1>1, <1>3, <2>2 DEF IndInv, SnapshotsTell
  <2> QED BY <2>1, <2>2
<1>4. SnapshotsTell'
  BY <1>3 DEF IndInv, SnapshotsTell, Snapshot, tables
<1>5. LogGapFree'
  BY DEF IndInv, LogGapFree, tables
<1> QED BY <1>2, <1>4, <1>5 DEF IndInv

\* An idle scan.
LEMMA IdleScanType == IdleScan \in Scan /\ IdleScan.pc = "idle"
BY DEF IdleScan, Scan

\* A scan that starts has the row as it is.
LEMMA StartScanKeeps ==
    ASSUME IndInv, NEW s \in Scanners, StartScan(s)
    PROVE  IndInv'
<1> DEFINE x == [pc |-> "run", row |-> event, todo |-> mailbox, raw |-> None]
<1>1. /\ event.status = "active" /\ scans' = [scans EXCEPT ![s] = x]
      /\ UNCHANGED <<tables, mailbox, requests, aprs>>
  BY DEF StartScan, Begin
<1>2. x \in Scan
  BY DEF Scan, IndInv, TypeOK
<1>3. Snapshot(x.row)
  BY DEF Snapshot, IndInv, TypeOK, EventRow
<1>4. x.pc = "run"
  OBVIOUS
<1> HIDE DEF x
<1> QED BY <1>1, <1>2, <1>3, <1>4, ScanOnly

\* A scan keeps its copy, or reloads the row after a rollback.
LEMMA ScanPickKeeps ==
    ASSUME IndInv, NEW s \in Scanners, ScanPick(s)
    PROVE  IndInv'
<1>1. PICK m \in scans[s].todo :
        \/ scans' = [scans EXCEPT ![s] = IdleScan]
        \/ /\ scans[s].row # None \/ event.status \in Live
           /\ scans' = [scans EXCEPT
                  ![s].row = IF @ = None THEN event ELSE @,
                  ![s].pc = IF Routed(m) THEN "run" ELSE "commit",
                  ![s].todo = @ \ {m},
                  ![s].raw = IF Routed(m) THEN None ELSE m]
  BY DEF ScanPick
<1>2. scans[s].pc = "run" /\ UNCHANGED <<tables, mailbox, requests, aprs>>
  BY DEF ScanPick
<1>3. scans[s] \in Scan /\ scans \in [Scanners -> Scan]
  BY DEF IndInv, TypeOK
<1>4. /\ event.status \notin {"none", "draft"}
      /\ event.status # "deleted" /\ scans[s].row \in EventRow => Snapshot(scans[s].row)
  BY <1>2 DEF IndInv, SnapshotsTell
<1>5. CASE scans' = [scans EXCEPT ![s] = IdleScan]
  BY <1>2, <1>5, IdleScanType, ScanOnly
<1>6. CASE scans' = [scans EXCEPT
               ![s].row = IF @ = None THEN event ELSE @,
               ![s].pc = IF Routed(m) THEN "run" ELSE "commit",
               ![s].todo = @ \ {m},
               ![s].raw = IF Routed(m) THEN None ELSE m]
  <2> DEFINE row == IF scans[s].row = None THEN event ELSE scans[s].row
             x == [pc |-> IF Routed(m) THEN "run" ELSE "commit", row |-> row,
                   todo |-> scans[s].todo \ {m}, raw |-> IF Routed(m) THEN None ELSE m]
  <2>1. row \in EventRow
    BY <1>3 DEF IndInv, TypeOK, Scan
  <2>2. event.status # "deleted" => Snapshot(row)
    BY <1>4, <2>1 DEF Snapshot, IndInv, TypeOK, EventRow
  <2> HIDE DEF row
  <2>3. m \in Raws /\ x \in Scan /\ x.row \in EventRow
    BY <1>1, <1>3, <2>1 DEF Scan
  <2>4. scans' = [scans EXCEPT ![s] = x]
    BY <1>3, <1>6 DEF Scan, row
  <2>5. x.row = row
    OBVIOUS
  <2> HIDE DEF x
  <2> QED BY <1>2, <1>4, <2>2, <2>3, <2>4, <2>5, ScanOnly
<1> QED BY <1>1, <1>5, <1>6

\* A scan that ends.
LEMMA ScanEndKeeps ==
    ASSUME IndInv, NEW s \in Scanners, ScanEnd(s)
    PROVE  IndInv'
BY IdleScanType, ScanOnly DEF ScanEnd

\* The commit of a message: the scan's own copy moves on with the row, and
\* every other copy falls behind.
LEMMA ScanCommitKeeps ==
    ASSUME IndInv, NEW s \in Scanners, ScanCommit(s)
    PROVE  IndInv'
<1> DEFINE row == scans[s].row
           new == [msg_seq |-> row.msg_seq + 1, raw |-> scans[s].raw,
                   status |-> "unread", delivery |-> None]
<1>1. /\ scans[s].pc = "commit" /\ UNCHANGED <<participants, posts, mailbox, requests, aprs>>
      /\ scans[s] \in Scan /\ scans \in [Scanners -> Scan] /\ row \in EventRow
      /\ event.status \notin {"none", "draft"}
      /\ event.status # "deleted" => Snapshot(row)
  BY DEF ScanCommit, IndInv, TypeOK, SnapshotsTell
<1>2. CASE /\ event.status \in Live
           /\ SeqsFree(row, BreadCrumb)
           /\ log' = log \o Stamped(row, BreadCrumb)
           /\ messages' = Append(messages, new)
           /\ event' = [event EXCEPT !.log_seq = row.log_seq + 1, !.msg_seq = row.msg_seq + 1]
           /\ scans' = [scans EXCEPT ![s] =
                  [@ EXCEPT !.pc = "run", !.raw = None,
                            !.row = [row EXCEPT !.log_seq = @ + 1, !.msg_seq = @ + 1]]]
  <2>1. BreadCrumb \in Seq(Entry) /\ Len(BreadCrumb) = 1
    <3>1. "inbound" \in Kinds
      BY DEF Kinds
    <3> QED BY <3>1, PlainEntries DEF BreadCrumb
  <2>2. /\ event.status # "deleted" /\ Snapshot(row)
        /\ row.log_seq \in Nat /\ row.msg_seq \in Nat /\ event.log_seq \in Nat
    BY <1>1, <1>2 DEF Live, EventRow, IndInv, TypeOK
  <2>3. row.log_seq = event.log_seq /\ row.status = event.status
    <3>1. row.log_seq = Len(log)
      <4>1. Len(BreadCrumb) \in Nat \ {0} /\ row.log_seq <= event.log_seq
        BY <2>1, <2>2 DEF Snapshot
      <4> QED BY <1>1, <1>2, <4>1, FreeMeansLatest DEF IndInv
    <3> QED BY <3>1, <2>2 DEF IndInv, LogGapFree, Snapshot
  <2> DEFINE mid == [event EXCEPT !.log_seq = row.log_seq + 1]
  <2>4. /\ event' \in EventRow /\ event'.log_seq = row.log_seq + 1 /\ event'.status = event.status
    <3>1. event \in EventRow /\ row.log_seq + 1 \in Nat /\ row.msg_seq + 1 \in Nat
      BY <2>2 DEF IndInv, TypeOK
    <3> QED BY <1>2, <3>1 DEF EventRow
  <2>5. log' \in Seq(Entry) /\ LogGapFree'
    <3>1. /\ Stamped(row, BreadCrumb) \in Seq(Entry)
          /\ Len(Stamped(row, BreadCrumb)) = 1
          /\ Stamped(row, BreadCrumb)[1].seq = row.log_seq + 1
      BY <1>1, <2>1, StampedFacts
    <3>2. log \in Seq(Entry) /\ Len(log) \in Nat /\ Len(log) = row.log_seq
      BY <2>3, LenProperties DEF IndInv, TypeOK, LogGapFree
    <3> DEFINE added == Stamped(row, BreadCrumb)
    <3>3. log' = log \o added
      BY <1>2
    <3> HIDE DEF added
    <3>4. /\ log' \in Seq(Entry) /\ Len(log') = Len(log) + 1
          /\ \A i \in 1..Len(log) + 1 :
                log'[i] = IF i <= Len(log) THEN log[i] ELSE added[i - Len(log)]
      BY <3>1, <3>2, <3>3, ConcatProperties DEF added
    <3>5. \A i \in 1..Len(log') : log'[i].seq = i
      <4> SUFFICES ASSUME NEW i \in 1..Len(log) + 1 PROVE log'[i].seq = i
        BY <3>4
      <4>1. CASE i <= Len(log)
        BY <4>1, <3>2, <3>4 DEF IndInv, LogGapFree
      <4>2. CASE i = Len(log) + 1
        <5>1. log'[i] = added[1]
          <6>1. ~(i <= Len(log)) /\ i - Len(log) = 1
            BY <4>2, <3>2
          <6>2. log'[i] = added[i - Len(log)]
            BY <6>1, <3>4
          <6> QED BY <6>1, <6>2
        <5> QED BY <5>1, <4>2, <3>1, <3>2 DEF added
      <4> QED BY <3>2, <4>1, <4>2
    <3> QED BY <2>4, <3>2, <3>4, <3>5 DEF LogGapFree
  <2>6. messages' \in Seq(Message)
    <3>1. new \in Message
      BY <1>1, <2>2 DEF Message, MessageStatus, Scan
    <3> HIDE DEF new
    <3> QED BY <1>2, <3>1, AppendProperties DEF IndInv, TypeOK
  <2> DEFINE moved == [row EXCEPT !.log_seq = @ + 1, !.msg_seq = @ + 1]
             x == [scans[s] EXCEPT !.pc = "run", !.raw = None, !.row = moved]
  <2>7. /\ moved \in EventRow /\ moved.log_seq = row.log_seq + 1 /\ moved.status = row.status
    <3>1. row.log_seq + 1 \in Nat /\ row.msg_seq + 1 \in Nat /\ row \in EventRow
      BY <1>1, <2>2
    <3> HIDE DEF row
    <3> QED BY <3>1 DEF EventRow
  <2>8. scans' = [scans EXCEPT ![s] = x]
    BY <1>1, <1>2
  <2> HIDE DEF moved
  <2>9. x \in Scan /\ x.row = moved /\ x.pc = "run"
    BY <1>1, <2>7 DEF Scan
  <2> HIDE DEF x
  <2>10. scans' \in [Scanners -> Scan]
    BY <1>1, <2>8, <2>9
  <2>11. TypeOK'
    BY <1>1, <2>4, <2>5, <2>6, <2>10 DEF IndInv, TypeOK
  <2>12. ASSUME NEW r \in Requests, requests'[r].pc = "authorized"
         PROVE  /\ requests'[r].row \in EventRow
                /\ event'.status # "none"
                /\ requests'[r].row.log_seq <= event'.log_seq
                /\ requests'[r].row.log_seq = event'.log_seq => requests'[r].row.status = event'.status
    <3>1. requests[r].row \in EventRow /\ requests[r].row.log_seq <= event.log_seq
      BY <1>1, <2>2, <2>12 DEF IndInv, SnapshotsTell, Snapshot
    <3>2. requests[r].row.log_seq \in Nat
      BY <3>1 DEF EventRow
    <3> QED BY <1>1, <2>2, <2>3, <2>4, <3>1, <3>2
  <2>13. ASSUME NEW q \in Scanners, scans'[q].pc # "idle"
         PROVE  /\ scans'[q].pc = "commit" => scans'[q].row \in EventRow
                /\ event'.status \notin {"none", "draft"}
                /\ scans'[q].row \in EventRow =>
                      /\ scans'[q].row.log_seq <= event'.log_seq
                      /\ scans'[q].row.log_seq = event'.log_seq
                            => scans'[q].row.status = event'.status
    <3>1. CASE q = s
      BY <1>1, <2>2, <2>3, <2>4, <2>7, <2>8, <2>9, <3>1
    <3>2. CASE q # s
      <4>1. scans'[q] = scans[q]
        BY <1>1, <2>8, <3>2
      <4>2. /\ scans[q].pc = "commit" => scans[q].row \in EventRow
            /\ scans[q].row \in EventRow => scans[q].row.log_seq <= event.log_seq
        BY <2>2, <2>13, <4>1 DEF IndInv, SnapshotsTell, Snapshot
      <4>3. scans[q].row \in EventRow => scans[q].row.log_seq \in Nat
        BY DEF EventRow
      <4> QED BY <1>1, <2>2, <2>3, <2>4, <4>1, <4>2, <4>3
    <3> QED BY <3>1, <3>2
  <2>14. SnapshotsTell'
    BY <2>12, <2>13 DEF SnapshotsTell, Snapshot
  <2> QED BY <2>5, <2>11, <2>14 DEF IndInv
<1>3. CASE /\ scans' = [scans EXCEPT ![s] = [@ EXCEPT !.pc = "run", !.raw = None, !.row = None]]
           /\ UNCHANGED <<event, log, messages>>
  <2> DEFINE x == [scans[s] EXCEPT !.pc = "run", !.raw = None, !.row = None]
  <2>1. scans' = [scans EXCEPT ![s] = x]
    BY <1>1, <1>3
  <2>2. x \in Scan /\ x.pc = "run" /\ x.row = None
    BY <1>1 DEF Scan
  <2> HIDE DEF x
  <2> QED BY <1>1, <1>3, <2>1, <2>2, RowAssumption, ScanOnly DEF tables
<1>4. CASE /\ scans' = [scans EXCEPT ![s] = IdleScan]
           /\ UNCHANGED <<event, log, messages>>
  BY <1>1, <1>4, IdleScanType, ScanOnly DEF tables
<1> QED BY <1>2, <1>3, <1>4 DEF ScanCommit

\* Creation, arrivals and restarts.
LEMMA OthersKeep ==
    ASSUME IndInv, Create \/ (\E m \in Raws : Arrive(m)) \/ Restart
    PROVE  IndInv'
<1>1. CASE Create
  <2>1. /\ event.status = "none" /\ event' = [event EXCEPT !.status = "draft"]
        /\ UNCHANGED <<log, participants, posts, messages, mailbox, requests, scans, aprs>>
    BY <1>1 DEF Create
  <2>2. /\ event' \in EventRow /\ event'.status = "draft" /\ event'.log_seq = event.log_seq
    BY <2>1 DEF IndInv, TypeOK, EventRow, EventStatus
  <2>3. TypeOK'
    BY <2>1, <2>2 DEF IndInv, TypeOK
  <2>4. LogGapFree'
    BY <2>1, <2>2 DEF IndInv, LogGapFree
  <2>5. SnapshotsTell'
    BY <2>1 DEF IndInv, SnapshotsTell
  <2> QED BY <2>3, <2>4, <2>5 DEF IndInv
<1>2. CASE \E m \in Raws : Arrive(m)
  <2>1. mailbox' \in SUBSET Raws /\ UNCHANGED <<tables, requests, scans, aprs>>
    BY <1>2 DEF Arrive, IndInv, TypeOK
  <2>2. TypeOK'
    BY <2>1 DEF IndInv, TypeOK, tables
  <2>3. LogGapFree'
    BY <2>1 DEF IndInv, LogGapFree, tables
  <2>4. SnapshotsTell'
    BY <2>1 DEF IndInv, SnapshotsTell, Snapshot, tables
  <2> QED BY <2>2, <2>3, <2>4 DEF IndInv
<1>3. CASE Restart
  <2>1. /\ requests' \in [Requests -> Request] /\ \A r \in Requests : requests'[r].pc = "idle"
        /\ scans' \in [Scanners -> Scan] /\ \A s \in Scanners : scans'[s].pc = "idle"
    BY <1>3, IdleScanType DEF Restart, IdleRequest, Request
  <2>2. UNCHANGED <<tables, mailbox>> /\ aprs' \in BOOLEAN
    BY <1>3, FlagAssumption DEF Restart
  <2>3. TypeOK'
    BY <2>1, <2>2 DEF IndInv, TypeOK, tables
  <2>4. LogGapFree'
    BY <2>2 DEF IndInv, LogGapFree, tables
  <2>5. SnapshotsTell'
    BY <2>1 DEF SnapshotsTell
  <2> QED BY <2>3, <2>4, <2>5 DEF IndInv
<1> QED BY <1>1, <1>2, <1>3

\* A request that loads the row has the row as it is.
LEMMA AuthorizeKeeps ==
    ASSUME IndInv, NEW r \in Requests, Authorize(r)
    PROVE  IndInv'
<1> DEFINE x == [pc |-> "authorized", row |-> event, message |-> 0]
<1>1. /\ event.status \in Live /\ requests' = [requests EXCEPT ![r] = x]
      /\ UNCHANGED <<tables, mailbox, scans, aprs>>
  BY DEF Authorize
<1>2. requests \in [Requests -> Request] /\ x \in Request /\ x.row = event /\ event \in EventRow
  BY DEF IndInv, TypeOK, Request
<1> HIDE DEF x
<1>3. TypeOK'
  BY <1>1, <1>2 DEF IndInv, TypeOK, tables
<1>4. LogGapFree'
  BY <1>1 DEF IndInv, LogGapFree, tables
<1>5. ASSUME NEW q \in Requests, requests'[q].pc = "authorized"
      PROVE  /\ requests'[q].row \in EventRow
             /\ event.status # "none"
             /\ event.status # "deleted" => Snapshot(requests'[q].row)
  <2>1. CASE q = r
    <3>1. requests'[q].row = event /\ event.log_seq \in Nat
      BY <1>1, <1>2, <2>1 DEF EventRow
    <3> QED BY <1>1, <1>2, <3>1 DEF Live, Snapshot
  <2>2. CASE q # r
    BY <1>1, <1>2, <1>5, <2>2 DEF IndInv, SnapshotsTell
  <2> QED BY <2>1, <2>2
<1>6. SnapshotsTell'
  BY <1>1, <1>5 DEF IndInv, SnapshotsTell, Snapshot, tables
<1> QED BY <1>3, <1>4, <1>6 DEF IndInv

\* A request that fails.
LEMMA RefuseKeeps ==
    ASSUME IndInv, NEW r \in Requests, Refuse(r)
    PROVE  IndInv'
BY AnswerOnly DEF Refuse, IndInv, TypeOK, tables

\* Every step keeps the invariant.
LEMMA NextKeeps == IndInv /\ [Next]_vars => IndInv'
<1> SUFFICES ASSUME IndInv, [Next]_vars PROVE IndInv'
  OBVIOUS
<1>1. CASE Create \/ (\E m \in Raws : Arrive(m)) \/ Restart
  BY <1>1, OthersKeep
<1>2. ASSUME NEW r \in Requests, Authorize(r) PROVE IndInv'
  BY <1>2, AuthorizeKeeps
<1>3. ASSUME NEW r \in Requests, Handler(r) PROVE IndInv'
  BY <1>3, RefuseKeeps, DispatchKeeps, LifecycleKeeps, UpdateEventKeeps, DeleteKeeps, PostsKeep,
     CheckInKeeps, UpdateParticipantKeeps, NoteKeeps, SetLogPinnedKeeps, SendKeeps, TriageKeeps,
     RescanKeeps DEF Handler
<1>4. ASSUME NEW s \in Scanners, ScanStep(s) PROVE IndInv'
  BY <1>4, StartScanKeeps, ScanPickKeeps, ScanCommitKeeps, ScanEndKeeps DEF ScanStep
<1>5. CASE UNCHANGED vars
  <2>1. TypeOK'
    BY <1>5 DEF IndInv, TypeOK, vars, tables
  <2>2. LogGapFree'
    BY <1>5 DEF IndInv, LogGapFree, vars, tables
  <2>3. SnapshotsTell'
    BY <1>5 DEF IndInv, SnapshotsTell, Snapshot, vars, tables
  <2> QED BY <2>1, <2>2, <2>3 DEF IndInv
<1> QED BY <1>1, <1>2, <1>3, <1>4, <1>5 DEF Next

------------------------------------------------------------------------------
(* What a step does to the log *)

Appends == \E added \in Seq(Entry) : log' = log \o added
Repins == \E i \in 1..Len(log), pin \in BOOLEAN : log' = [log EXCEPT ![i].pinned = pin]

\* A commit adds its entries at the end.
LEMMA CommitAppends ==
    ASSUME IndInv, NEW r \in Requests, requests[r].pc = "authorized",
           NEW new \in Seq(Entry), NEW status, CommitLog(requests[r].row, new, status)
    PROVE  Appends
<1>1. requests[r].row \in EventRow
  BY DEF IndInv, SnapshotsTell
<1> QED BY <1>1, StampedFacts DEF CommitLog, Appends

\* What a handler may do to the log: nothing, delete it, append, or set a pin.
LEMMA HandlerWritesLog ==
    ASSUME IndInv, NEW r \in Requests, Handler(r)
    PROVE  log' = log \/ event'.status = "deleted" \/ Appends \/ Repins
<1> USE DEF Handles
<1>1. CASE Activate(r) \/ Close(r) \/ Reopen(r)
  <2>1. PICK kind \in Kinds, status \in {"active", "closed"} :
          /\ requests[r].pc = "authorized"
          /\ CommitLog(requests[r].row, LifecycleEntry(kind), status)
    BY <1>1 DEF Activate, Close, Reopen, Kinds
  <2>2. LifecycleEntry(kind) \in Seq(Entry)
    BY PlainEntries DEF LifecycleEntry
  <2> QED BY <2>1, <2>2, CommitAppends
<1>2. CASE CheckIn(r)
  <2>1. PICK c \in Callsigns :
          /\ requests[r].pc = "authorized"
          /\ CommitLog(requests[r].row, <<LogEntry("operator", c, "checked_in", Unpinned)>>,
                       event.status)
    BY <1>2 DEF CheckIn
  <2>2. "operator" \in Kinds /\ "checked_in" \in ParticipantStatus
    BY DEF Kinds, ParticipantStatus
  <2>3. <<LogEntry("operator", c, "checked_in", Unpinned)>> \in Seq(Entry)
    BY <2>2, PlainEntries
  <2> QED BY <2>1, <2>3, CommitAppends
<1>3. CASE UpdateParticipant(r)
  <2>1. PICK c \in Callsigns, patch \in Patches :
          /\ requests[r].pc = "authorized"
          /\ IF PatchEntries(c, patch) = <<>> THEN UNCHANGED <<event, log>>
             ELSE CommitLog(requests[r].row, PatchEntries(c, patch), event.status)
    BY <1>3 DEF UpdateParticipant
  <2> QED BY <2>1, PatchEntriesType, CommitAppends
<1>4. CASE AddNote(r)
  <2>1. PICK c \in Callsigns \cup {None}, pin \in Pins :
          /\ requests[r].pc = "authorized"
          /\ CommitLog(requests[r].row, <<LogEntry("operator", c, None, pin)>>, event.status)
    BY <1>4 DEF AddNote
  <2>2. "operator" \in Kinds /\ pin \in BOOLEAN
    BY FlagAssumption DEF Kinds
  <2>3. <<LogEntry("operator", c, None, pin)>> \in Seq(Entry)
    BY <2>2, NewEntries
  <2> QED BY <2>1, <2>3, CommitAppends
<1>5. CASE SetLogPinned(r)
  BY <1>5, FlagAssumption DEF SetLogPinned, Repins
<1>6. CASE Delete(r)
  BY <1>6 DEF Delete, IndInv, TypeOK, EventRow
<1>7. CASE Refuse(r) \/ DispatchMessage(r) \/ UpdateEvent(r) \/ SendMessage(r)
  BY <1>7 DEF Refuse, DispatchMessage, UpdateEvent, SendMessage, tables
<1>8. CASE CreatePost(r) \/ UpdatePost(r) \/ DeletePost(r)
  BY <1>8 DEF CreatePost, UpdatePost, DeletePost
<1>9. CASE SetMessageStatus(r) \/ RetryMessage(r) \/ Rescan(r)
  BY <1>9 DEF SetMessageStatus, RetryMessage, Rescan, tables
<1> QED BY <1>1, <1>2, <1>3, <1>4, <1>5, <1>6, <1>7, <1>8, <1>9 DEF Handler

\* A scan appends or does nothing.
LEMMA ScanWritesLog ==
    ASSUME IndInv, NEW s \in Scanners, ScanStep(s)
    PROVE  log' = log \/ Appends
<1>1. CASE ScanCommit(s)
  <2>1. scans[s].row \in EventRow
    BY <1>1 DEF ScanCommit, IndInv, SnapshotsTell
  <2>2. BreadCrumb \in Seq(Entry)
    BY PlainEntries DEF BreadCrumb, Kinds
  <2>3. log' = log \/ log' = log \o Stamped(scans[s].row, BreadCrumb)
    BY <1>1 DEF ScanCommit
  <2> QED BY <2>1, <2>2, <2>3, StampedFacts DEF Appends
<1>2. CASE StartScan(s) \/ ScanPick(s) \/ ScanEnd(s)
  BY <1>2 DEF StartScan, ScanPick, ScanEnd, tables
<1> QED BY <1>1, <1>2 DEF ScanStep

\* What LogAppendOnly asks of a step.
OnlyAppended ==
    event'.status # "deleted" =>
        /\ Len(log') >= Len(log)
        /\ \A i \in 1..Len(log) : [log'[i] EXCEPT !.pinned = log[i].pinned] = log[i]

\* So every step does what LogAppendOnly asks.
LEMMA StepAppends == IndInv /\ Next => log' = log \/ OnlyAppended
<1> SUFFICES ASSUME IndInv, Next PROVE log' = log \/ OnlyAppended
  OBVIOUS
<1>1. log' = log \/ event'.status = "deleted" \/ Appends \/ Repins
  <2>1. CASE Create \/ (\E m \in Raws : Arrive(m)) \/ Restart \/ \E r \in Requests : Authorize(r)
    BY <2>1 DEF Create, Arrive, Restart, Authorize, tables
  <2> QED BY <2>1, HandlerWritesLog, ScanWritesLog DEF Next
<1>2. log \in Seq(Entry) /\ Len(log) \in Nat /\ \A i \in 1..Len(log) : log[i] \in Entry
  BY ElementOfSeq, LenProperties DEF IndInv, TypeOK
<1>3. \A i \in 1..Len(log) : [log[i] EXCEPT !.pinned = log[i].pinned] = log[i]
  BY <1>2 DEF Entry
<1>4. CASE Appends
  <2>1. PICK added \in Seq(Entry) : log' = log \o added
    BY <1>4 DEF Appends
  <2>2. /\ Len(log') = Len(log) + Len(added) /\ Len(added) \in Nat
        /\ \A i \in 1..Len(log) + Len(added) :
              log'[i] = IF i <= Len(log) THEN log[i] ELSE added[i - Len(log)]
    BY <1>2, <2>1, ConcatProperties, LenProperties
  <2>3. \A i \in 1..Len(log) : log'[i] = log[i]
    BY <1>2, <2>2
  <2> QED BY <1>2, <1>3, <2>2, <2>3 DEF OnlyAppended
<1>5. CASE Repins
  <2>1. PICK k \in 1..Len(log), pin \in BOOLEAN : log' = [log EXCEPT ![k].pinned = pin]
    BY <1>5 DEF Repins
  <2> DEFINE e == [log[k] EXCEPT !.pinned = pin]
  <2>2. log[k] \in Entry /\ e \in Entry /\ [e EXCEPT !.pinned = log[k].pinned] = log[k]
    BY <1>2 DEF Entry
  <2>3. log' = [log EXCEPT ![k] = e]
    BY <2>1
  <2> HIDE DEF e
  <2>4. /\ Len(log') = Len(log)
        /\ \A i \in 1..Len(log) : log'[i] = IF i = k THEN e ELSE log[i]
    BY <1>2, <2>2, <2>3, ExceptSeq
  <2>5. ASSUME NEW i \in 1..Len(log)
        PROVE  [log'[i] EXCEPT !.pinned = log[i].pinned] = log[i]
    BY <1>3, <2>2, <2>4
  <2> QED BY <1>2, <2>4, <2>5 DEF OnlyAppended
<1> QED BY <1>1, <1>4, <1>5 DEF OnlyAppended

------------------------------------------------------------------------------
(* The theorems *)

\* Every row, session and scan has the columns its model gives it.
THEOREM TypeCorrect == Spec => []TypeOK
<1>1. IndInv => TypeOK
  BY DEF IndInv
<1> QED BY <1>1, InitIndInv, NextKeeps, PTL DEF Spec

\* The log's numbers have no gap and no duplicate (add_log_entry), whichever
\* requests and scans write it with whichever copies of the event row.
THEOREM NumbersInOrder == Spec => []LogGapFree
<1>1. IndInv => LogGapFree
  BY DEF IndInv
<1> QED BY <1>1, InitIndInv, NextKeeps, PTL DEF Spec

\* A session's copy of the event row is never ahead of it, and has its status
\* when it has its number (locked_event without populate_existing).
THEOREM SnapshotsHold == Spec => []SnapshotsTell
<1>1. IndInv => SnapshotsTell
  BY DEF IndInv
<1> QED BY <1>1, InitIndInv, NextKeeps, PTL DEF Spec

\* Until the event is deleted, no step removes, reorders or rewrites a log
\* entry, apart from its pin (add_log_entry, set_log_pinned).
THEOREM LogOnlyGrows == Spec => LogAppendOnly
<1>1. IndInv /\ [Next]_vars => [OnlyAppended]_log
  BY StepAppends DEF vars, tables
<1> QED BY <1>1, InitIndInv, NextKeeps, PTL DEF Spec, LogAppendOnly, OnlyAppended
===============================================================================
