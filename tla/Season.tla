-------------------------------- MODULE Season --------------------------------
(***************************************************************************)
(* A net's calendar and what hangs on it: seasons and the sessions they    *)
(* generate, drafts that fall due and the notices about them, templates,   *)
(* the loop that mails net control operators, activities and their chats.  *)
(*                                                                         *)
(* All of it runs on the event loop.  A handler awaits nothing, so it is   *)
(* alone from its first commit to its last, but the process can stop in    *)
(* between; only the mail loop waits, for each mail it sends.              *)
(*                                                                         *)
(* Rows are found by the id of their session.  Deleting a season deletes   *)
(* sessions and nothing else, and an id that was the largest comes back.   *)
(* Text and names are left out, and so is what NetCycle models: how drafts *)
(* are approved and sent.                                                  *)
(***************************************************************************)
EXTENDS Naturals, FiniteSets, Sequences, Functions

CONSTANTS
    Standalone,   \* sessions that may be added: their first day, last day and type
    Operators,    \* callsigns of net control operators
    Admin,        \* an admin, told where a session names no operator
    Addressed,    \* users with an e-mail address
    LeadTime,     \* lead_time_days, by kind of draft
    Chats,        \* chat sessions with the assistant
    UserLimit,    \* chat messages a day for one operator
    GlobalLimit,  \* chat messages a day for all
    LastDay,      \* bound: the clock
    MaxId,        \* bound: ids of sessions
    MaxTemplate,  \* bound: ids of templates
    MaxActivity,  \* bound: ids of activities
    Budgets,      \* bounds: how many requests of each sort a behaviour has, and
                  \* which seasons are asked for
    None, Absent

ASSUME NoneAssumption ==
    None \notin 1..MaxActivity /\ Absent \notin Chats \cup {None} \cup 1..MaxActivity
ASSUME BoundAssumption == LastDay \in Nat /\ MaxId \in Nat /\ UserLimit \in Nat

VARIABLES
    clock,      \* the day and the part of the day, in the net's time zone
    season,     \* the net's net_seasons row, or None
    sessions,   \* net_sessions, by id
    templates,  \* reminder_templates and roster_templates, by id
    drafts,     \* status of reminder_logs and roster_logs, by session id
    mailed,     \* nco_reminder_logs, by session id
    unread,     \* notifications about drafts that are not read
    activities, \* activities, by id: the chat they were approved in, or None
    chats,      \* chat_sessions: the activity each is linked to
    asked,      \* chat messages of the day, by operator
    admin,      \* the first of the admins, or None when no user is one
    busy,       \* the handler between two of its commits
    loop,       \* the mail loop
    sends,      \* mails sent about the session that has an id now, up to 2
    lost,       \* mails that were under way when the process stopped
    told,       \* drafts somebody was told of
    missed,     \* drafts whose notice fell to a stop of the process
    unaddressed, \* drafts nobody was there to tell of
    adopted,    \* drafts a session found under its id when it was inserted
    plans,      \* the seasons asked for
    left        \* requests of each sort still to come

calendarVars == <<season, sessions, plans>>
draftVars == <<drafts, unread, told, missed, unaddressed>>
mailVars == <<mailed, loop, sends, lost>>
chatVars == <<activities, chats, asked>>
vars == <<clock, calendarVars, templates, draftVars, mailVars, chatVars, busy, adopted, admin, left>>

Ids == 1..MaxId
TemplateIds == 1..MaxTemplate
ActivityIds == 1..MaxActivity
Users == Operators \cup {Admin}
Types == {"regular_checkin", "activity", "real_event"}
Statuses == {"scheduled", "completed", "cancelled"}
DraftKinds == {"reminder", "roster"}
SessionKinds == {"regular_checkin", "activity"}
TemplateKinds == SessionKinds \cup {"roster"}
Parts == {"night", "morning", "evening"}
MailKinds == {"morning", "evening"}
Sorts == {"plan", "single", "edit", "template", "draft", "cycle", "notice", "chat", "role", "clock", "restart"}

Plan == [start: Nat, end: Nat, dow: 0..6, weekLong: BOOLEAN, cadence: Nat]
Row == [season: BOOLEAN, start: Nat, end: Nat \cup {None}, type: Types,
        status: Statuses, nco: Operators \cup {None}]
Template == [kind: TemplateKinds, default: BOOLEAN]
Mail == [id: Ids, nco: Operators \cup {None}]
Draft == DraftKinds \X Ids
Busy == [who: {"nobody", "season", "request", "loop", "chat"}, todo: SUBSET Draft,
         untold: Draft \cup {None}, chat: (Chats \X ActivityIds) \cup {None}]
Loop == [pc: {"asleep", "drafting", "mailing"}, tomorrow: Nat, part: Parts,
         todo: SUBSET Mail, mail: Mail \cup {None}]

ASSUME RequestAssumption ==
    /\ \A b \in Budgets : b.left \in [Sorts -> Nat] /\ b.plans \subseteq Plan
    /\ \A s \in Standalone : s.start \in Nat /\ s.end \in Nat \cup {None} /\ s.type \in Types
ASSUME RowAssumption == None \notin Row \cup Draft \cup Users \cup Addressed

TypeOK ==
    /\ clock \in [day: 0..LastDay, part: Parts]
    /\ season \in Plan \cup {None}
    /\ sessions \in [Ids -> Row \cup {None}]
    /\ templates \in [TemplateIds -> Template \cup {None}]
    /\ drafts \in [Draft -> {"none", "draft", "approved", "sent", "skipped"}]
    /\ mailed \in [Ids -> SUBSET MailKinds]
    /\ unread \subseteq Users \X Draft
    /\ activities \in [ActivityIds -> Chats \cup {None, Absent}]
    /\ chats \in [Chats -> ActivityIds \cup {None, Absent}]
    /\ asked \in [Operators -> 0..UserLimit]
    /\ busy \in Busy
    /\ loop \in Loop
    /\ sends \in [Ids -> [MailKinds -> 0..2]]
    /\ lost \subseteq Ids \X MailKinds
    /\ told \subseteq Draft /\ missed \subseteq Draft /\ adopted \subseteq Draft
    /\ unaddressed \subseteq Draft
    /\ admin \in {Admin, None}
    /\ plans \subseteq Plan
    /\ left \in [Sorts -> Nat]

Nobody == [who |-> "nobody", todo |-> {}, untold |-> None, chat |-> None]
Asleep == [pc |-> "asleep", tomorrow |-> 0, part |-> "night", todo |-> {}, mail |-> None]

\* What a new net is given (nets/seeds.py): of each module's templates the
\* first is the default.
Seeds == <<[kind |-> "regular_checkin", default |-> TRUE],
           [kind |-> "activity", default |-> FALSE],
           [kind |-> "roster", default |-> TRUE]>>

Init ==
    /\ clock = [day |-> 0, part |-> "night"]
    /\ season = None
    /\ sessions = [i \in Ids |-> None]
    /\ templates = [t \in TemplateIds |-> IF t \in DOMAIN Seeds THEN Seeds[t] ELSE None]
    /\ drafts = [d \in Draft |-> "none"]
    /\ mailed = [i \in Ids |-> {}]
    /\ unread = {} /\ told = {} /\ missed = {} /\ unaddressed = {} /\ adopted = {} /\ lost = {}
    /\ admin = Admin
    /\ activities = [a \in ActivityIds |-> Absent]
    /\ chats = [c \in Chats |-> Absent]
    /\ asked = [u \in Operators |-> 0]
    /\ busy = Nobody
    /\ loop = Asleep
    /\ sends = [i \in Ids |-> [k \in MailKinds |-> 0]]
    /\ \E b \in Budgets : left = b.left /\ plans = b.plans

LoopFree == busy = Nobody
Spend(sort) == left[sort] > 0 /\ left' = [left EXCEPT ![sort] = @ - 1]
Present(i) == sessions[i] # None

-------------------------------------------------------------------------------
(* Seasons and sessions *)

\* Day 0 is a Monday.
Weekday(day) == day % 7

SlotType(p, index) ==
    IF p.cadence > 0 /\ index % p.cadence = 1 THEN "activity" ELSE "regular_checkin"

Slot(p, first, last, index) ==
    [season |-> TRUE, start |-> first, end |-> last, type |-> SlotType(p, index),
     status |-> "scheduled", nco |-> None]

\* Mutant: stops short of the last day.
SlotsBeforeEnd(p) ==
    LET first == CHOOSE day \in p.start..(p.start + 6) : Weekday(day) = p.dow
        from[index \in Nat] ==
            LET day == first + 7 * index
            IN  IF day >= p.end THEN <<>>
                ELSE <<Slot(p, day, day + 1, index)>> \o from[index + 1]
    IN  from[0]

WeeklySlots(p) ==
    LET first == CHOOSE day \in p.start..(p.start + 6) : Weekday(day) = p.dow
        from[index \in Nat] ==
            LET day == first + 7 * index
            IN  IF day > p.end THEN <<>>
                ELSE <<Slot(p, day, day + 1, index)>> \o from[index + 1]
    IN  from[0]

WeekLongSlots(p) ==
    LET from[index \in Nat] ==
            LET day == p.start + 7 * index
                last == IF day + 6 > p.end THEN p.end ELSE day + 6
            IN  IF day > p.end THEN <<>>
                ELSE <<Slot(p, day, last, index)>> \o from[index + 1]
    IN  from[0]

Slots(p) == IF p.weekLong THEN WeekLongSlots(p) ELSE WeeklySlots(p)

\* SQLite numbers a row after the largest id the table holds.
NextSession(i) ==
    /\ \A j \in Ids : Present(j) => j < i
    /\ i > 1 => Present(i - 1)

\* Rows enter under fresh ids, in order; whatever is stored under those ids is
\* theirs from now on.
Insert(rows, nco) ==
    \E i \in Ids :
        LET fresh == i..(i + Len(rows) - 1)
            inherited == {d \in Draft : d[2] \in fresh /\ drafts[d] # "none"}
        IN  /\ NextSession(i)
            /\ fresh \subseteq Ids
            /\ sessions' = [j \in Ids |-> IF j \in fresh
                                          THEN [rows[j - i + 1] EXCEPT !.nco = nco]
                                          ELSE sessions[j]]
            /\ sends' = [j \in Ids |-> IF j \in fresh THEN [k \in MailKinds |-> 0] ELSE sends[j]]
            /\ lost' = {m \in lost : m[1] \notin fresh}
            /\ told' = {d \in told : d[2] \notin fresh}
            /\ missed' = {d \in missed : d[2] \notin fresh}
            /\ unaddressed' = {d \in unaddressed : d[2] \notin fresh}
            /\ adopted' = {d \in adopted : d[2] \notin fresh} \cup inherited

\* create_season checks the request and commits the season; then
\* generate_sessions commits all its sessions at once.
CreateSeason(p) ==
    /\ LoopFree /\ Spend("plan")
    /\ season = None
    /\ p.start <= p.end
    /\ season' = p
    /\ busy' = [Nobody EXCEPT !.who = "season"]
    /\ UNCHANGED <<clock, sessions, plans, templates, draftVars, mailVars, chatVars, adopted>>

InsertSessions ==
    /\ busy.who = "season"
    /\ \E nco \in Operators \cup {None} : Insert(Slots(season), nco)
    /\ busy' = Nobody
    /\ UNCHANGED <<clock, season, plans, templates, drafts, unread, mailed, loop, chatVars, left>>

\* create_session_route: a real event has no season.
CreateSession(s, inSeason) ==
    /\ LoopFree /\ Spend("single")
    /\ inSeason => s.type # "real_event" /\ season # None
    /\ \E nco \in Operators \cup {None} :
          Insert(<<[season |-> inSeason, start |-> s.start, end |-> s.end, type |-> s.type,
                    status |-> "scheduled", nco |-> None]>>, nco)
    /\ UNCHANGED <<clock, season, plans, templates, drafts, unread, mailed, loop, chatVars, busy>>

\* update_session: each field that is given is set, without a look at the
\* others.  A request that sets several is several of these.
Edits(row) ==
    {[row EXCEPT !.status = status] : status \in Statuses}
    \cup {[row EXCEPT !.type = type] : type \in Types}
    \cup {[row EXCEPT !.nco = nco] : nco \in Operators}
    \cup {[row EXCEPT !.end = row.start + 2]}

UpdateSession(i) ==
    /\ LoopFree /\ Spend("edit")
    /\ Present(i)
    /\ \E row \in Edits(sessions[i]) : sessions' = [sessions EXCEPT ![i] = row]
    /\ UNCHANGED <<clock, season, plans, templates, draftVars, mailVars, chatVars, busy, adopted>>

\* delete_season: completed sessions lose their season, the others go, and no
\* row that names them is touched.
AfterSeason(row) ==
    IF row = None THEN None
    ELSE IF ~row.season THEN row
    ELSE IF row.status = "completed" THEN [row EXCEPT !.season = FALSE]
    ELSE None

DeleteSeason ==
    /\ LoopFree /\ Spend("plan")
    /\ season # None
    /\ season' = None
    /\ sessions' = [i \in Ids |-> AfterSeason(sessions[i])]
    /\ UNCHANGED <<clock, plans, templates, draftVars, mailVars, chatVars, busy, adopted>>

-------------------------------------------------------------------------------
(* Templates *)

\* _clear_default, of one module's templates and, for reminders, of one type.
Cleared(kind) ==
    [t \in TemplateIds |-> IF templates[t] # None /\ templates[t].kind = kind
                           THEN [templates[t] EXCEPT !.default = FALSE]
                           ELSE templates[t]]

TemplateRequest ==
    /\ LoopFree /\ Spend("template")
    /\ UNCHANGED <<clock, calendarVars, draftVars, mailVars, chatVars, busy, adopted>>

AddTemplate(t, new) ==
    /\ TemplateRequest
    /\ templates[t] = None
    /\ templates' = [(IF new.default THEN Cleared(new.kind) ELSE templates) EXCEPT ![t] = new]

CreateReminderTemplate(t, type, default) ==
    AddTemplate(t, [kind |-> type, default |-> default])
CreateRosterTemplate(t, default) ==
    AddTemplate(t, [kind |-> "roster", default |-> default])

\* update_template: default is "keep" when the request leaves is_default out.
\* Only a template that becomes a default takes the place of another.
SetTemplate(t, kind, default) ==
    LET base == IF default = "yes" THEN Cleared(kind) ELSE templates
    IN  /\ TemplateRequest
        /\ templates' = [base EXCEPT ![t] =
              [kind |-> kind,
               default |-> default = "yes" \/ (default = "keep" /\ templates[t].default)]]

\* The type of a reminder's template may change too.
IsTemplate(t, kinds) == templates[t] # None /\ templates[t].kind \in kinds
UpdateReminderTemplate(t, type, default) ==
    IsTemplate(t, SessionKinds) /\ SetTemplate(t, type, default)
UpdateRosterTemplate(t, default) ==
    IsTemplate(t, {"roster"}) /\ SetTemplate(t, "roster", default)

RemoveTemplate(t) ==
    /\ TemplateRequest
    /\ ~templates[t].default
    /\ templates' = [templates EXCEPT ![t] = None]
DeleteReminderTemplate(t) == IsTemplate(t, SessionKinds) /\ RemoveTemplate(t)
DeleteRosterTemplate(t) == IsTemplate(t, {"roster"}) /\ RemoveTemplate(t)

EditTemplates ==
    \E t \in TemplateIds :
        \/ \E type \in SessionKinds, default \in BOOLEAN : CreateReminderTemplate(t, type, default)
        \/ \E default \in BOOLEAN : CreateRosterTemplate(t, default)
        \/ \E type \in SessionKinds, default \in {"keep", "yes", "no"} :
              UpdateReminderTemplate(t, type, default)
        \/ \E default \in {"keep", "yes", "no"} : UpdateRosterTemplate(t, default)
        \/ DeleteReminderTemplate(t) \/ DeleteRosterTemplate(t)

\* _session_type_to_template_type; rosters have templates of one type.
TemplateOf(d) ==
    IF d[1] = "roster" THEN "roster"
    ELSE IF sessions[d[2]].type = "activity" THEN "activity"
    ELSE "regular_checkin"

HasTemplate(d) ==
    \E t \in TemplateIds : /\ templates[t] # None
                           /\ templates[t].default
                           /\ templates[t].kind = TemplateOf(d)

-------------------------------------------------------------------------------
(* Drafts and notices *)

\* resolve_session_recipient: update_user_role lets the last admin go, and then
\* a session without an operator has nobody.
Recipient(nco) == IF nco # None THEN nco ELSE admin

\* generate_due_drafts of both modules: sessions that have no log yet.
DueReminder(i) ==
    /\ sessions[i].status = "scheduled"
    /\ clock.day <= sessions[i].start
    /\ sessions[i].start <= clock.day + LeadTime["reminder"]

DueRoster(i) ==
    /\ sessions[i].status = "completed"
    /\ sessions[i].end # None
    /\ clock.day >= sessions[i].end + LeadTime["roster"]

Due(kind) ==
    {d \in Draft : /\ d[1] = kind
                   /\ Present(d[2])
                   /\ drafts[d] = "none"
                   /\ HasTemplate(d)
                   /\ IF kind = "reminder" THEN DueReminder(d[2]) ELSE DueRoster(d[2])}

\* POST /generate: nothing to do unless something is due.
GenerateDue(kind) ==
    /\ LoopFree /\ Spend("draft")
    /\ Due(kind) # {}
    /\ busy' = [Nobody EXCEPT !.who = "request", !.todo = Due(kind)]
    /\ UNCHANGED <<clock, calendarVars, templates, draftVars, mailVars, chatVars, adopted>>

\* POST /generate/{session_id}: a live log is returned as it is, and its
\* recipient is told all the same.
GenerateOne(d) ==
    /\ LoopFree /\ Spend("draft")
    /\ Present(d[2])
    /\ \/ /\ drafts[d] \in {"none", "skipped"}
          /\ HasTemplate(d)
          /\ busy' = [Nobody EXCEPT !.who = "request", !.todo = {d}]
       \/ /\ drafts[d] \notin {"none", "skipped"}
          /\ busy' = [Nobody EXCEPT !.who = "request", !.untold = d]
    /\ UNCHANGED <<clock, calendarVars, templates, draftVars, mailVars, chatVars, adopted>>

\* generate_draft commits the log ...
WriteDraft(d) ==
    /\ busy.who \in {"request", "loop"} /\ busy.untold = None
    /\ d \in busy.todo
    /\ drafts' = [drafts EXCEPT ![d] = "draft"]
    /\ told' = told \ {d}
    /\ missed' = missed \ {d}
    /\ unaddressed' = unaddressed \ {d}
    /\ busy' = [busy EXCEPT !.todo = @ \ {d}, !.untold = d]
    /\ UNCHANGED <<clock, calendarVars, templates, unread, mailVars, chatVars, adopted, left>>

\* Mutant: any unread notice for the session will do.
NotifyPerSession(to, d) ==
    unread' = unread \cup {n \in {<<to, d>>} : ~\E k \in DraftKinds : <<to, <<k, d[2]>>>> \in unread}

\* ... and create_notification another row, unless the recipient has an unread
\* one of this kind for this session.
Notify(to, d) == unread' = unread \cup {<<to, d>>}

\* Nobody to tell: the callers skip the notice.
Tell ==
    /\ busy.untold # None
    /\ LET to == Recipient(sessions[busy.untold[2]].nco)
       IN  \/ /\ to # None
             /\ Notify(to, busy.untold)
             /\ told' = told \cup {d \in Draft : d = busy.untold /\ \E u \in Users : <<u, d>> \in unread'}
             /\ UNCHANGED unaddressed
          \/ /\ to = None
             /\ unaddressed' = unaddressed \cup {busy.untold}
             /\ UNCHANGED <<unread, told>>
    /\ busy' = IF busy.who = "request" /\ busy.todo = {}
               THEN Nobody
               ELSE [busy EXCEPT !.untold = None]
    /\ UNCHANGED <<clock, calendarVars, templates, drafts, missed, mailVars, chatVars, adopted, left>>

\* Approve, send, skip: see NetCycle.
Successors(status) ==
    CASE status = "draft" -> {"approved", "skipped"}
      [] status = "approved" -> {"sent", "skipped"}
      [] OTHER -> {}

MoveDraft(d) ==
    /\ LoopFree /\ Spend("draft")
    /\ Present(d[2])
    /\ \E status \in Successors(drafts[d]) : drafts' = [drafts EXCEPT ![d] = status]
    /\ UNCHANGED <<clock, calendarVars, templates, unread, told, missed, unaddressed, mailVars, chatVars,
                   busy, adopted>>

DeleteDraft(d) ==
    /\ LoopFree /\ Spend("draft")
    /\ Present(d[2]) /\ drafts[d] # "none"
    /\ drafts' = [drafts EXCEPT ![d] = "none"]
    /\ adopted' = adopted \ {d}
    /\ UNCHANGED <<clock, calendarVars, templates, unread, told, missed, unaddressed, mailVars, chatVars, busy>>

\* mark_read needs the notice's session, mark_all_read its season too.
ReadNotice(n) ==
    /\ LoopFree /\ Spend("notice")
    /\ n \in unread
    /\ Present(n[2][2])
    /\ unread' = unread \ {n}
    /\ UNCHANGED <<clock, calendarVars, templates, drafts, told, missed, unaddressed, mailVars, chatVars,
                   busy, adopted>>

Listed(u) == {n \in unread : n[1] = u /\ Present(n[2][2]) /\ sessions[n[2][2]].season}

ReadAll(u) ==
    /\ LoopFree /\ Spend("notice")
    /\ Listed(u) # {}
    /\ unread' = unread \ Listed(u)
    /\ UNCHANGED <<clock, calendarVars, templates, drafts, told, missed, unaddressed, mailVars, chatVars,
                   busy, adopted>>

-------------------------------------------------------------------------------
(* The mail loop *)

\* The loop wakes and takes the day; generate_due_drafts comes first.
Wake ==
    /\ LoopFree /\ Spend("cycle")
    /\ loop.pc = "asleep"
    /\ loop' = [Asleep EXCEPT !.pc = "drafting", !.tomorrow = clock.day + 1]
    /\ busy' = [Nobody EXCEPT !.who = "loop", !.todo = Due("reminder")]
    /\ UNCHANGED <<clock, calendarVars, templates, draftVars, mailed, sends, lost, chatVars, adopted>>

WeekLong(row) ==
    \/ row.season /\ season # None /\ season.weekLong
    \/ row.end # None /\ row.end > row.start + 1

\* Mutant: the log is not looked up.
WantedAgain(m, part) ==
    /\ part \in MailKinds
    /\ drafts[<<"reminder", m.id>>] \notin {"sent", "skipped"}
    /\ Recipient(m.nco) \in Addressed

\* A mail is called for: the log, the reminder and the admin are looked up at its
\* turn, the session and the time are those the cycle began with.
Wanted(m, part) ==
    /\ part \in MailKinds \ mailed[m.id]
    /\ drafts[<<"reminder", m.id>>] \notin {"sent", "skipped"}
    /\ Recipient(m.nco) \in Addressed

\* The cycle goes over its sessions up to the next mail, or to its end.
GoOn(part, tomorrow, list) ==
    \/ \E m \in list, passed \in SUBSET list :
          /\ Wanted(m, part)
          /\ m \notin passed
          /\ \A x \in passed : ~Wanted(x, part)
          /\ loop' = [pc |-> "mailing", tomorrow |-> tomorrow, part |-> part,
                      todo |-> list \ (passed \cup {m}), mail |-> m]
          /\ sends' = [sends EXCEPT ![m.id][part] = IF @ = 2 THEN 2 ELSE @ + 1]
    \/ /\ \A x \in list : ~Wanted(x, part)
       /\ loop' = Asleep
       /\ UNCHANGED sends

\* The sessions are loaded once, with the time of day.
Upcoming ==
    {[id |-> i, nco |-> sessions[i].nco] :
        i \in {j \in Ids : /\ Present(j)
                           /\ sessions[j].status = "scheduled"
                           /\ sessions[j].start = loop.tomorrow
                           /\ ~WeekLong(sessions[j])}}

LookAhead ==
    /\ busy.who = "loop" /\ busy.todo = {} /\ busy.untold = None
    /\ GoOn(clock.part, loop.tomorrow, Upcoming)
    /\ busy' = Nobody
    /\ UNCHANGED <<clock, calendarVars, templates, draftVars, mailed, lost, chatVars, adopted, left>>

\* send_email has returned, whatever became of the mail: it goes on record, for
\* whichever session has the id now, and the cycle continues.
Mailed ==
    /\ LoopFree
    /\ loop.pc = "mailing"
    /\ mailed' = [mailed EXCEPT ![loop.mail.id] = @ \cup {loop.part}]
    /\ GoOn(loop.part, loop.tomorrow, loop.todo)
    /\ UNCHANGED <<clock, calendarVars, templates, draftVars, lost, chatVars, busy, adopted, left>>

-------------------------------------------------------------------------------
(* Activities and chats *)

Activity(a, chat) ==
    /\ activities[a] = Absent
    /\ \A b \in ActivityIds : activities[b] # Absent => b < a
    /\ a > 1 => activities[a - 1] # Absent
    /\ activities' = [activities EXCEPT ![a] = chat]

CreateActivity(a) ==
    /\ LoopFree /\ Spend("chat")
    /\ Activity(a, None)
    /\ UNCHANGED <<clock, calendarVars, templates, draftVars, mailVars, chats, asked, busy, adopted>>

\* Mutant: the links stay.
StillLinked(a) == chats

\* The ORM clears the link of the chats it deletes an activity under.
Unlinked(a) == [c \in Chats |-> IF chats[c] = a THEN None ELSE chats[c]]

DeleteActivity(a) ==
    /\ LoopFree /\ Spend("chat")
    /\ activities[a] # Absent
    /\ activities' = [activities EXCEPT ![a] = Absent]
    /\ chats' = Unlinked(a)
    /\ UNCHANGED <<clock, calendarVars, templates, draftVars, mailVars, asked, busy, adopted>>

CreateChat(c) ==
    /\ LoopFree /\ Spend("chat")
    /\ chats[c] = Absent
    /\ chats' = [chats EXCEPT ![c] = None]
    /\ UNCHANGED <<clock, calendarVars, templates, draftVars, mailVars, activities, asked, busy, adopted>>

\* Mutant: off by one.
MayAskOneMore(u) == asked[u] <= UserLimit /\ SumFunction(asked) <= GlobalLimit

\* The limits are checked before the assistant is called.
MayAsk(u) == asked[u] < UserLimit /\ SumFunction(asked) < GlobalLimit

\* A message counts once the assistant has answered; a failed call is rolled back.
SendMessage(c, u) ==
    /\ LoopFree /\ Spend("chat")
    /\ chats[c] # Absent
    /\ MayAsk(u)
    /\ asked' = [asked EXCEPT ![u] = @ + 1]
    /\ UNCHANGED <<clock, calendarVars, templates, draftVars, mailVars, activities, chats, busy, adopted>>

\* approve_chat_route commits the activity, then the link to it.
ApproveChat(c, a) ==
    /\ LoopFree /\ Spend("chat")
    /\ chats[c] # Absent
    /\ Activity(a, c)
    /\ busy' = [Nobody EXCEPT !.who = "chat", !.chat = <<c, a>>]
    /\ UNCHANGED <<clock, calendarVars, templates, draftVars, mailVars, chats, asked, adopted>>

LinkChat ==
    /\ busy.who = "chat"
    /\ chats' = [chats EXCEPT ![busy.chat[1]] = busy.chat[2]]
    /\ busy' = Nobody
    /\ UNCHANGED <<clock, calendarVars, templates, draftVars, mailVars, activities, asked, adopted, left>>

-------------------------------------------------------------------------------
(* Users, time, restarts *)

\* update_user_role gives and takes the role; nothing keeps the last admin.
UpdateUserRole ==
    /\ LoopFree /\ Spend("role")
    /\ admin' \in {Admin, None} \ {admin}
    /\ UNCHANGED <<clock, calendarVars, templates, draftVars, mailVars, chatVars, busy, adopted>>

Later(c) ==
    \/ c.day > clock.day
    \/ c.day = clock.day /\ clock.part = "night" /\ c.part # "night"
    \/ c.day = clock.day /\ clock.part = "morning" /\ c.part = "evening"

\* Time passes, also within a handler; the count of chat messages is of a day.
Tick ==
    /\ Spend("clock")
    /\ \E c \in [day: 0..LastDay, part: Parts] :
          /\ Later(c)
          /\ clock' = c
          /\ asked' = IF c.day = clock.day THEN asked ELSE [u \in Operators |-> 0]
    /\ UNCHANGED <<calendarVars, templates, draftVars, mailVars, activities, chats, busy, adopted>>

\* The process stops and boots: what was committed stays.
Restart ==
    /\ Spend("restart")
    /\ busy' = Nobody
    /\ loop' = Asleep
    /\ lost' = IF loop.pc = "mailing" THEN lost \cup {<<loop.mail.id, loop.part>>} ELSE lost
    /\ missed' = IF busy.untold # None THEN missed \cup {busy.untold} ELSE missed
    /\ UNCHANGED <<clock, calendarVars, templates, drafts, unread, told, unaddressed, mailed, sends, chatVars, adopted>>

Step ==
    \/ \E p \in plans : CreateSeason(p)
    \/ InsertSessions
    \/ \E s \in Standalone, inSeason \in BOOLEAN : CreateSession(s, inSeason)
    \/ \E i \in Ids : UpdateSession(i)
    \/ DeleteSeason
    \/ EditTemplates
    \/ \E kind \in DraftKinds : GenerateDue(kind)
    \/ \E d \in Draft : GenerateOne(d) \/ WriteDraft(d) \/ MoveDraft(d) \/ DeleteDraft(d)
    \/ Tell
    \/ \E n \in unread : ReadNotice(n)
    \/ \E u \in Users : ReadAll(u)
    \/ Wake \/ LookAhead \/ Mailed
    \/ \E a \in ActivityIds : CreateActivity(a) \/ DeleteActivity(a)
    \/ \E c \in Chats : CreateChat(c) \/ (\E u \in Operators : SendMessage(c, u))
    \/ \E c \in Chats, a \in ActivityIds : ApproveChat(c, a)
    \/ LinkChat
    \/ Tick
    \/ Restart

Next ==
    \/ Step /\ UNCHANGED admin
    \/ UpdateUserRole

Spec == Init /\ [][Next]_vars

-------------------------------------------------------------------------------
(* Properties *)

Made == {sessions'[i] : i \in {j \in Ids : sessions[j] = None /\ sessions'[j] # None}}

\* A season that meets weekly gets a session for each of its days that is the
\* right day of the week, and for no other.
WeeklyRight(p) ==
    /\ {row.start : row \in Made} = {day \in p.start..p.end : Weekday(day) = p.dow}
    /\ \A row \in Made : row.end = row.start + 1

\* The sessions of a week-long season cover each of its days once, in weeks of
\* which only the last may be short.
WeekLongRight(p) ==
    /\ \A day \in p.start..p.end : \E row \in Made : day \in row.start..row.end
    /\ \A row \in Made : /\ row.start..row.end \subseteq p.start..p.end
                         /\ row.end = row.start + 6 \/ row.end = p.end
    /\ \A r1, r2 \in Made : r1 # r2 => (r1.start..r1.end) \cap (r2.start..r2.end) = {}

\* The second session is the first activity, and from then on every cadence-th;
\* cadence 0 means none.
CadenceRight(p) ==
    \A row \in Made :
        LET before == Cardinality({r \in Made : r.start < row.start})
        IN  row.type = "activity" <=> \E k \in 0..MaxId : p.cadence > 0 /\ before = 1 + k * p.cadence

\* generate_sessions (schedule/service.py:126): whatever the first and last day
\* of a season, its sessions are those the plan calls for, and so are their
\* types, for every cadence but 1.
SlotsRight ==
    [][InsertSessions => /\ IF season.weekLong THEN WeekLongRight(season) ELSE WeeklyRight(season)
                         /\ season.cadence # 1 => CadenceRight(season)]_vars

\* The same of every cadence, as the design of the schedule has it: "the second
\* session in a season is the first activity week, then every Nth after that".
\* Modulo 1 no index is 1 (schedule/service.py:169), so that a season whose
\* every week should be an activity has none.
CadenceKept == [][InsertSessions => CadenceRight(season)]_vars

\* The mail loop (reminders/nco.py:185): an operator gets one mail of a kind
\* about a session, unless the process stopped while the mail was under way,
\* however sessions are edited, deleted and numbered anew during the wait.
MailedOnce ==
    \A i \in Ids, k \in MailKinds : sends[i][k] > 1 => <<i, k>> \in lost

\* generate_due_drafts (reminders/service.py:388, roster/service.py:426): the
\* draft and its notice are two commits, with other requests' edits before and
\* after.  No draft of a session stays without a notice to somebody, unless there
\* was nobody to tell when its turn came (notifications/service.py:137), the
\* process stopped between the two, or the session found the draft under its id.
DraftTold ==
    \A d \in Draft :
        drafts[d] # "none" => d \in told \cup missed \cup adopted \cup unaddressed \cup {busy.untold}

\* Chats (activities/chat_service.py:178): a chat is linked to an activity that
\* was approved in it, though activities are deleted and their ids come back.
ChatLinked ==
    \A c \in Chats : chats[c] \in ActivityIds => activities[chats[c]] = c
===============================================================================
