# Formal models of SkyNetControl

SkyNetControl is a web application for amateur-radio net control: it schedules
nets, imports Winlink check-ins, drafts and delivers rosters and reminders, and
runs live events with a roster, an operational log, Winlink messages and an
APRS map. The backend (`src/backend`) is one FastAPI process with an SQLAlchemy
database; the frontend polls it.

This directory holds TLA+ models of the parts whose correctness depends on the
order in which things happen, TLC configurations that check them on small
instances, and TLAPS proofs for every size.

| file | what it is |
| --- | --- |
| `EventLog.tla` | abstract specification: what an event's log promises its readers |
| `EventRoom.tla` | a live event: row, log, roster, posts, messages, requests, scans, APRS |
| `MCEventRoom.tla`, `EventRoom_*.cfg` | its instances for TLC |
| `EventRoom_proofs.tla` | the log's numbering and what sessions know of it |
| `EventRoomLog_proofs.tla` | the refinement of `EventLog`, and roster, posts and messages against the log |
| `PatSession.tla`, `PatSession_*.cfg` | the PAT session engine, aborts, deliveries; its instances |
| `PatSession_proofs.tla` | its theorems |
| `NetCycle.tla`, `NetCycle_*.cfg` | rosters and reminders of a net from draft to delivery and retry; its instances |
| `NetCycle_proofs.tla` | its theorems |
| `CheckIns.tla`, `CheckIns_import.cfg` | the import of mail into check-ins; its instance |
| `CheckIns_proofs.tla` | its theorems |
| `Recovery.tla` | break-glass recovery tokens |
| `Access.tla` | accounts, sign-in, setup, configuration, tokens, nets and members, composed with `Recovery` |
| `MCAccess.tla`, `Access_guard.cfg`, `Access_proofs.tla` | its instance and theorems |
| `Season.tla` | a net's calendar: seasons, sessions, templates, drafts and notices, the mail loop, activities and chats |
| `MCSeason.tla`, `Season_calendar.cfg`, `Season_proofs.tla` | its instance and theorems |
| `AprsClient.tla` | an event's APRS clients: manager, connection, objects on the air, position store |
| `LiveView.tla` | a page that polls an event's log and map, composed with `AprsClient` |
| `MCLiveView.tla`, `LiveView_page.cfg`, `LiveView_proofs.tla` | its instance and theorems |
| `PROJECT.json` | components, runs, mutants, source map, findings, hazards, theorems |

## 1. Inventory

### How the process runs

One uvicorn worker. Three kinds of control matter:

* **The event loop.** `async` handlers have synchronous bodies: apart from the
  PAT connect/abort handlers and the e-mail calls, none awaits anything, so each
  runs from its first line to its answer without anything else running on the
  loop. It also blocks the loop while it waits for PAT or a callbook.
* **Threads of the pool.** Permission dependencies are synchronous functions, so
  they run in a thread *before* the handler. Handlers declared `def` (scanner
  trigger, delivery retry, nets) run there entirely.
* **Background tasks**: the scanner loop, the NCO reminder loop, one APRS client
  per active event, the PAT session task.

A request has one database session, shared by its dependency and its handler,
with `expire_on_commit=False`. A row loaded by the dependency stays as it was:
`locked_event` queries it again `FOR UPDATE`, but without `populate_existing`
the query returns the object the session already has. This is the most
consequential fact about the code, and `EventRoom` is built around it.

### Components

| component | state | operations | interacts with | hard part | what makes it correct |
| --- | --- | --- | --- | --- | --- |
| live event (`modules/events/service.py`, `routes.py`, `event_auth.py`) | events, event_log, event_participants, event_posts | create, activate, close, reopen, update, delete, posts, check-in, patch, note, pin, report | APRS manager, scanner, delivery | decisions on rows loaded earlier; one transaction per request | the log is gap-free, append-only, and tells status and roster |
| event messaging (`messages.py`, `message_service.py`) | event_messages, raw_messages | compose, send form, set status, retry, rescan, route | scanner, delivery | three kinds of scan at once; commit before dispatch | each mail once per event, and eventually |
| scanner (`integrations/scanner`) | none but its status | loop, trigger, scan after a PAT session | check-ins, messages | loop and thread at once | mail gets in; one net's failure does not stop the others |
| PAT engine (`integrations/winlink/pat_session.py`) | pat_connection_sessions, one task | start, run, abort, shutdown | PAT, delivery rows, scanner | awaits between reads and writes; a thread that cannot be stopped | one session at a time; final verdicts; SENT only of what the listing did not show |
| delivery (`integrations/delivery`) | delivery_logs, one row per content and backend | dispatch, retry, status | backends, PAT engine | several backends, partial failure, lost answers | the row tells the last attempt; retry repeats only what failed |
| APRS (`integrations/aprs`) | client states, bounded position store | ensure_started, stop, nudge, connection loop | events, APRS-IS | old and new client overlap; nudges while it connects or sends; reconnects | its filter and objects are the event's; what it put on the air it takes off |
| check-ins (`modules/checkins`) | check_ins, raw_messages, members | import, manual, edit, delete, re-parse, approve | scanner, roster | dedup by callsign only inside a batch; finalize once | one check-in per callsign; members counted once per session |
| rosters, reminders (`modules/roster`, `modules/reminders`) | logs with DRAFT/APPROVED/SENT/SKIPPED, templates | generate, edit, approve, submit, resend, skip, delete; NCO loop | delivery, check-ins, notifications | crash between dispatch and SENT; await between check and record | sent once per approval; one mail to an operator; no draft without a notice if there is somebody to tell |
| schedule (`modules/schedule`) | seasons, sessions | generate, edit, delete | everything, by session id | dates at the ends of a season; ids that come back | every slot once, none outside the season |
| nets, members (`modules/nets`) | nets, memberships, net_config | create, update, delete, add/remove member | all, through permissions | rights loaded in a thread and used later | a request has the rights of its user's row |
| live view (`frontend/src/hooks/useEvent*.ts`) | cursor, entries in memory | poll, merge | updates routes | late answers | shows a prefix of the log |
| accounts (`auth`) | users, cookies, personal access tokens, recovery tokens | sign-in, sign-up, register, approve, rename, roles, anonymize; mint, claim, revoke | provider, setup, nets | "is it the first?" after a redirect; two processes on one token | one first administrator; a token opens once |
| setup and configuration (`config_mgmt`) | app_config, setup sessions in memory | wizard, settings, providers, SMTP, import | accounts | a sequence of commits; two wizards | marked means whole |
| notifications, activities (`modules/notifications`, `modules/activities`) | notices, activities, chats | create, read; create, delete, chat, approve | drafts, sessions | dedup; link in a second commit | a draft is told; a chat links to its own activity |
| privacy, audit, CLI, look-ups | single rows, files, external services | export, log, copy, calls out | - | no shared state with the rest | - |

`PROJECT.json` lists the same components with their sources and what is
modelled of each, and the hazards line by line.

## 2. Plan

1. **Done: `EventRoom`** (with `EventLog`), the heart of the system.
2. **Done: `PatSession`**, the only part with awaits between reads and writes
   that several actors share.
3. **Done: `NetCycle`**, a session's roster and reminder from draft over approval
   to delivery through several backends, with retries in threads and crashes.
   Its promise, once per approval and backend, is an invariant rather than a
   specification of its own: what it must except is easier to read there.
4. **Done: `CheckIns`**, the import of mail into a session by scans on the loop
   and in threads, with dedup by callsign, deletion, re-parse and the commits of
   the geocoder in the middle of an import. Manual check-ins and edits of text
   could join it with a session's approval (`NetCycle`), if a property calls for
   them; the liveness of imports is left.
5. **Done: `AprsClient` and `LiveView`**, an event's APRS client with its
   successor and the page that polls log and map. The log is taken from
   `EventRoom` as what is proved of it: numbered without gaps, append-only.
6. **Done: `Recovery` and `Access`**, who may act: accounts, setup, tokens, nets.
7. **Done: `Season`**, generation of sessions against a set definition, drafts
   that fall due, notices, the mail loop, activities and chats.
8. **Done: proofs** of every invariant and action property of the passing runs,
   the refinement of `EventLog` among them. Only liveness is left to TLC.
9. Left for models: `useEventMessages` and its cursor, the settings of an event,
   the modules' rows a net takes with it, manual check-ins.

A run costs minutes, so questions that one instance shows share a run, and each
run bounds a behaviour by *budgets*: sets of request counts from which the
initial state picks one, so that every combination that matters is explored deep
and their product is not.

## 3. EventRoom

### State

| variable | code |
| --- | --- |
| `event` | the `events` row: status, `log_seq`, `msg_seq`, and one abstract column `details` for all the editable ones |
| `log` | `event_log` rows in the order of their ids; `kind` stands for the message text: the three lifecycle messages, an inbound breadcrumb, anything an operator causes |
| `participants`, `posts` | `event_participants` (status, post), `event_posts` (name) |
| `messages` | `event_messages`; `raw` is `raw_message_id` (None: outbound), `delivery` the status of its one delivery row |
| `mailbox` | what a scan can read |
| `requests` | per request in flight: idle, authorized with the event row its session holds, or waiting for PAT with the message it sends |
| `scans` | per scanner: the row its session holds (None after a rollback), the messages it has to go through, the one it is about to commit |
| `aprs` | `manager._states[event].running` |

### Actions

`Authorize` is the permission dependency. Each handler is one action guarded by
`Handles(r, statuses)`: the row still exists, the loop is free, and the status
*in the session's copy* allows it. A write that logs goes through `CommitLog`:
the number comes from the copy (`Stamped`), and the unique constraint on
`(event_id, seq)` decides (`SeqsFree`); where it refuses, only `Refuse` is
left, and the transaction has no effect. Only columns the handler assigned are
written back. `SendMessage` commits and leaves the handler waiting for PAT
(`dispatch`), which blocks the loop; `DispatchMessage` records the attempt, or
leaves the message without one: what neither the dispatch nor the backend catches
unwinds after the message's commit.

A scan takes three kinds of step: `StartScan` (or `Rescan`, which starts from the
row its request loaded) queries the active events once; `ScanPick` checks
whether the next message is routed; `ScanCommit` commits it with its breadcrumb,
or rolls back on a duplicate, or ends when the event is gone. The scan called
`"loop"` keeps handlers out; the one called `"thread"` does not.
`Restart` is a crash and a boot.

Several scans in threads, several events, names, addresses and forms are left
out: they meet only in what is modelled.

### Runs

| run | instance | checks |
| --- | --- | --- |
| `EventRoom_room` | 2 requests, a threaded scan, 1 callsign, 1 mail, 2 posts, 2 names, 2 values of the details, pins, crashes, APRS, 5 log entries; its constraint searches two sets of states | types, `LogGapFree`, `SnapshotsTell`, `RosterMatchesLog`, `PostsResolve`, refinement of `EventLog` |
| `EventRoom_mail` | 1 request, both scanners, 2 mails, 1 outbound | `RoutedOnce`, `InboundRouted` |

The constraint of `EventRoom_room` (`RoomBounds`) keeps a behaviour in one of two
sets of states, as their product is too large: `MailAndPins` has mail, scans and
pins with a log of up to four entries, without posts and edits, and
`PostsAndFields` has posts, field statuses and edited details with a log of up to
five, with an empty mailbox. A behaviour may go from one to the other where both
hold. TLC checks invariants in the states of the two sets and the refinement on
the steps between them; the theorems have neither bound.

`RosterMatchesLog` also ties the report to the log: who the report counts as
checked in, and for how long, is computed from the entries by `Report` and must
agree with the roster. `LogAppendOnly` is a theorem and no run's property, as
the refinement of `EventLog` implies it on the instance.

Two requests are enough for every race of the log, since a commit only conflicts
with what was committed since its snapshot, and the proofs remove the bound for
the numbering. Four log entries allow activate, close, reopen and one more write
in between, which is what the longest counterexample of a mutant needs; five
allow a check-in, a check-out, a second check-in and a patch that logs twice.
Bounds stop operators only: scans are bounded by the mail.

**Fairness** (`FairSpec`): the background scan makes progress (`scanner_loop`
runs for ever and each step of it is straight-line code), and the handler that
waits for PAT gets an answer or a timeout (httpx has one). Operators, the
threaded scan, arrivals and crashes have none.
`InboundRouted` is stated without crashes because an unbounded series of crashes
would defeat it, and promises nothing for events that close first.

The same stale row that lets a request write to a closed event (section 11) is
harmless wherever a log entry is written, and that is what `SnapshotsTell`
explains: a copy whose next number is still free has the row's current status.

## 4. PatSession

### State

| variable | code |
| --- | --- |
| `sessions` | `pat_connection_sessions`: status and the PAT its client talks to |
| `task` | `engine._active_task`: where it is between two awaits, its session, the listing it holds |
| `calls` | the pool thread in `client.connect`, which outlives a timeout |
| `aborts` | abort requests that wait for `client.disconnect` before they write |
| `rows` | `delivery_logs` of the winlink backend: status and `pat_mid` |
| `posting` | what a retry in a thread has posted and not committed |
| `box` | PAT's out box: per message id unused, waiting in a PAT, or gone |

### Actions

`Start` refuses while a task is not done. The task's steps are the stretches of
`run_session` between awaits: up to connect (`TaskBegin`); then connect's error
(`ConnectFailed`), something it raises that nobody catches (`ConnectGarbled`), its
timeout and the disconnect that follows (`ConnectTimesOut`, `TimedOut`), or its
success, after which the task does not sleep any more. From there threads and PAT still move, so the listing
(`SyncListed`, `SyncUnavailable`, `SyncGarbled`), the flip (`Flip`) and the end
(`Finish`) are separate steps that hold the loop. `Abort` and `AbortWrite` are
the two halves of `abort` around its await; an abort may name any session.
`Dispatch` is a send or a retry on the loop; `ThreadPost` and `ThreadCommit`
are the halves of a retry in a thread. PAT may fail, hang, lose an answer, give
no id, list garbage, and transmit whenever it likes (`Transmit`): it owes
nothing. `Restart` is shutdown as well as a crash: neither touches the rows.

### Runs

| run | instance | checks |
| --- | --- | --- |
| `PatSession_engine` | 2 PATs, 1 id, 1 delivery, 1 aborter, 2 sessions, threads, restarts, everything that can go wrong | types, `TaskMatchesRow`, `SentAccounted`, `OutBoxAccounted`, `VerdictStays`, `EndsTerminal`, `EngineComesFree` |
| `PatSession_abort` | 1 PAT, 1 session, 1 aborter: violation of `AbortStays` | ABORTED overwritten |
| `PatSession_sent` | 2 PATs: violation of `SentMeansGone` | a row flipped by the wrong PAT's session |

Two sessions let the connect thread, an abort, or a delivery of one meet the
other; two PATs let a session of one meet the delivery of the other. More
deliveries and ids meet only in the box, and the theorems have any number.

What SENT may be taken to say is in two properties. `SentMeansGone` is what the
documents promise and fails. `SentAccounted` is what holds of the same rows,
with several PATs and retries in threads: a row shown as SENT is not in the out
box of the PAT whose session flipped it, unless a thread posted the message
between that session's listing and its flip. `late` remembers those ids, and only
those. So there are two ways for a SENT message to be still waiting, another
PAT's box and that moment, and no third.

Verdicts are in two properties as well. `AbortStays` is the documents' promise and
fails; `VerdictStays` says that the overwriting FAILED of a connect that fails or
times out is the only way to lose a verdict. `EndsTerminal` excepts what connect
or the listing raises uncaught, since then the row stays open.

**Fairness**: the loop runs the task when it can, `wait_for`'s timer fires, and
the disconnect call has a client timeout. PAT and aborts have none, so
`EngineComesFree` holds even if connect never returns.

### What the counterexamples show

`AbortStays`: the session starts, its connect call is waited for, an abort asks
PAT to disconnect and writes ABORTED, and connect, which times out (or fails,
being disconnected), writes FAILED without looking. `SentMeansGone`: a delivery is
posted to one PAT, a session of the other lists its own out box, does not find
the message there and marks it SENT.

## 5. NetCycle

### State

| variable | code |
| --- | --- |
| `templates` | the kinds of which the net has a default template (without one, nothing is drafted) |
| `sessions` | `net_sessions`: status and whether `finalized_at` is stamped |
| `credits` | how often `approve_session_checkins` credited a session's members |
| `files` | sessions whose messages are still in the PAT mailbox |
| `logs` | `roster_logs` and `reminder_logs`, one per session at most: id and status |
| `rows` | `delivery_logs` by kind, *id of the log* and backend |
| `work` | where the handler on the loop stands between two commits |
| `retries` | `retry_delivery` threads: the failed rows they read, the one they send |
| `accepted` | bookkeeping: how often a backend took a content since its approval |
| `disturbed` | bookkeeping: the contents for which `AtMostOnce` and `RowsTell` make an exception |

### Actions

The handlers of rosters, reminders and check-in approval are `async` without an
await, so one at a time is at work (`LoopFree`), but each commits several times
and the process may stop (`Restart`) between two commits. A step is what one
commit makes durable: `ApproveRoster` closes the session, `RosterApproved`
approves the roster; `DispatchSend` flushes the row and calls the backend,
`DispatchCommit` records its answer; `RosterSent` writes SENT after the last
one, `Purge` deletes the mail files after that. While a row is flushed, SQLite's
write lock keeps retries from committing (`RetryCommit` waits, or `RetryLocked`
gives up). A backend may take a content and its answer be lost.

Rows are found by the id of their log and outlive it: `skip`, `delete` and
`generate_draft` leave them, and the id of a deleted log can be used again
(`NextId`). That is why `StartRetry` can meet rows of an earlier life.

A content is *disturbed* by what the code cannot account for: a resend, which is
meant to repeat; a lost answer; a success whose commit is lost with its thread
or process; a retry before the log is SENT, after which the next send repeats
it; a retry beside another of the same content; an approval while a retry of the
earlier life runs. An approval otherwise clears the mark. All other dispatches
and retries are covered.

### Runs

| run | instance | checks |
| --- | --- | --- |
| `NetCycle_send` | 1 session, 2 backends, 2 retries, 1 id per kind, crashes | `CountedOnce`, `ApprovedIsCounted`, `SentWasAccepted`, `AtMostOnce`, `RowsTell`, `FilesKept` |
| `NetCycle_retry` | 1 backend, 1 retry: violation of `DraftsStayHome` | an unapproved draft goes out |

Two backends make partial failure, two retries make them overlap each other and
a dispatch, and one id per kind makes every new log inherit the rows of the one
before. Several sessions meet only in the numbering of ids, which the theorems
cover. Drafting, skipping and deleting repeat without bound; counters saturate
at 2, one more than what is allowed. The net has a roster template or a reminder
template but not both, as the two kinds share nothing but the handler; the
theorems allow both. There is no liveness: an operator who never presses send,
or a backend that never answers with success, leaves a roster approved for ever.

### What the counterexample shows

`DraftsStayHome`: the delivery routes check that the log exists and not its
status, so the failed rows of a reminder that was skipped and drafted again are
retried with the new, unapproved text.

## 6. CheckIns

### State

| variable | code |
| --- | --- |
| `now`, `from` | the clock; what each message's callsign parses to (None: it has none) |
| `mail` | the messages whose file is in the net's mailbox |
| `scheduled` | the sessions `find_active_session` may return |
| `raws` | `raw_messages`: no row, `parsed = False` (kept), `parsed = True` |
| `rows` | `check_ins` rows that come from mail, by id; a row that is gone is remembered as removed (by an operator) or replaced (by a scan) |
| `jobs` | per importer: its list, the stored rows it reuses (`orphan_rows`), the message stored by the geocoder's commit and not filed yet (`half`), `parsed_checkins` (`latest`), what the next commit deletes (`dropped`), what it made |
| `interrupted` | bookkeeping: messages given up after the geocoder's commit |
| `shared` | bookkeeping: stored messages two imports had on their lists at a time |

A message is the time it was received; so times are distinct, and the parse of a
message is a function of it. Ids are not used again here, and a mailbox holds a
message once.

### Actions

A step is what one commit makes durable, together with what is read for it.
`StartScan` makes the list (done and stored messages are queried together);
`ProcessMessage` is one turn of the loop: insert or reuse the row, parse, commit
the check-in, look the callsign up in `parsed_checkins` and mark the earlier
check-in for deletion, which happens at the *next* commit, whichever that is
(`WithoutDropped`). `GeocodeCommit` is that of `geocode_city` and
`reverse_geocode_closest_city`, which commit the caller's session: the message
is stored as parsed without its check-in. `Fail` is any exception, the unique
`message_id` (`Insertable`) and SQLite's lock included: it rolls back to the
last commit. The importer called `"loop"` is the scanner loop or a handler and
keeps handlers out; `"thread"` is `POST /scanner/trigger` and keeps nobody out.
`StartReparse` files stored messages of the window without a check-in, in any
order; the first half of `reparse_session` rewrites text only.

Sessions' windows are fixed (with their grace), there is one net, and manual
check-ins and edits are left out.

### Run

| run | instance | checks |
| --- | --- | --- |
| `CheckIns_import` | the loop and a thread, 2 messages, 1 callsign or none, 1 session, 3 rows, restarts | `NothingLost`, `LatestWins`, `OnePerMessage`, `OneLeftPerCallsign` |

Two messages of one callsign are a dedup; two importers overlap in every order;
three rows let a message be filed, deleted and filed again beside another. What
more messages, sessions and threads could add the theorems cover.

`OnePerMessage` excepts stored messages that two imports had on their lists at
the same time: inserts are protected by the unique `message_id`, reuse is not.
`NothingLost` excepts messages at which an import stopped after the geocoder's
commit: `parsed` is then true and scans skip them, so only a re-parse of the
session brings them back.

Two things the code does that its reader may not expect are part of the model
and of no property. Dedup is per batch: two scans that each find one message of
a callsign leave both check-ins, while the first design says "per session"
(`docs/superpowers/specs/2026-04-16-winlink-net-manager-design.md:195`). And a
check-in that was replaced leaves its message without one, so a re-parse of the
session brings it back next to the later one.

## 7. Recovery and Access

### State

| variable | code |
| --- | --- |
| `tokenRows`, `rowIds` | `admin_recovery_tokens`: each token's row and id |
| `revoking`, `claims` | what a `revoke` command has read; what a claim's UPDATE has won |
| `users` | `users` by callsign: subject, wish (`requested_callsign`), admin, pending, deleted, token version |
| `members`, `nets`, `pats` | `net_memberships`, `nets`, `personal_access_tokens` |
| `cfg`, `open`, `completed` | the keys set in `app_config`, `registration_open`, the setup mark |
| `wizards`, `setups` | `_SETUP_SESSIONS` in memory; callbacks of `try_complete_setup` in flight, with the commit that comes next |
| `signins`, `jar`, `reqs` | sign-ins that wait for the provider; each browser's cookie; what each request's authorization loaded |
| `cookies`, `answered`, `revoked`, `firsts`, `stripped`, `imported` | bookkeeping for the properties |

### Actions

The command line is a process of its own beside the server, so `MintPurge` and
`MintInsert`, `RevokeRead` and `RevokeWrite`, `ClaimUpdate` and `ClaimAnswer`
interleave as the two commits (or the read and the write) of each do. SQLite
gives the highest id plus one, which is how a revoke can mark a row that took
the id of a purged one.

In `Access` a request is authorized in a thread (`Authorize`,
`AuthorizeByToken`) and handled later with the row it loaded: `Seen` is that
row, `Flushed` writes only the columns the handler changed. A sign-up asks
whether it is the first in the stretch after the provider's answer (`IsFirst`,
`SignUp`). `Register`, `UpdateMe`, `UpdateRole`, `ApproveCallsign`,
`RejectCallsign` and `Anonymize` are the account routes; `CreateNet`,
`DeleteNet`, `PutMember`, `RemoveMember`, `RemoveOrphan` those of nets, which
are checked in one thread (`CheckNet`) and carried out in another.

The wizard's callback is one action per commit: `SetupSetting` (provider, SMTP
if given, three keys), `SetupUser`, `SetupMark`, with nothing awaited in
between, so only threads, crashes and the command line interleave. Two
callbacks may wait for the provider at a time.

### Run

| run | instance | checks |
| --- | --- | --- |
| `Access_guard` | 2 people, 2 callsigns, 1 anonymous name, 2 wizards, 2 callbacks, 2 nets, 2 tokens of each kind, 7 budgets | types, `ClaimedOnce`, `SetupWhole`, `FirstAdminOnce` |

Two people are two sign-ups or an administrator and somebody else; the two
subjects agree in the characters a placeholder is cut from, the hardest case
for sign-up. The first three budgets give setup four wizard steps with a crash,
then accounts with and without it; the next three account changes with tokens
and nets; the last recovery with eight commands and claims. `SetupWhole` excepts
an installation that was imported from the environment, which marks setup
without a user, and administrators who were demoted since. The limit of
active tokens is in `CreateToken`; no property is about it, as count and insert
share a stretch of the loop.

## 8. Season

### State

| variable | code |
| --- | --- |
| `clock` | day and part of the day in the net's time zone: night, then the two the mail loop acts in |
| `season`, `sessions` | `net_seasons` (one), `net_sessions` by id |
| `templates` | `reminder_templates` and `roster_templates`: kind, default |
| `drafts` | status of `reminder_logs` and `roster_logs` by session id |
| `mailed` | `nco_reminder_logs` by session id |
| `unread` | `notifications` about drafts that are not read |
| `activities`, `chats`, `asked` | activities with the chat they came from, `chat_sessions` with their link, messages of the day |
| `admin` | the administrator whom `resolve_session_recipient` falls back on, if there is one |
| `busy` | the handler between two commits: drafts still to write, the draft whose notice is due, the chat to link |
| `loop` | the mail loop: what it drafts, the sessions it loaded, the mail under way |
| `sends`, `lost`, `told`, `missed`, `unaddressed`, `adopted` | bookkeeping for the properties |

### Actions

Handlers are on the loop and await nothing; a step is a commit and `Restart`
comes between any two. `CreateSeason` is followed by `InsertSessions`, whose
slots come from `WeeklySlots` or `WeekLongSlots`. These translate the two loops
as recursive functions of the index; `SlotsRight` compares what they insert with
sets defined by days (`WeeklyRight`, `WeekLongRight`, `CadenceRight`).
`DeleteSeason` deletes sessions and nothing else, and `NextSession` may use the
largest id again, so drafts, mails and notices of a deleted session meet a new
one (`adopted`).

`GenerateDue` and `GenerateOne` begin a request that goes on draft by draft:
`WriteDraft` commits the draft, `Tell` the notice, `Notify` being the
deduplicated insert. The notice goes to the session's operator, else to an
administrator (`Recipient`), and is skipped where there is neither: `UpdateUserRole`
lets the last administrator go. The mail loop drafts first (`Wake`), loads the sessions of
tomorrow once (`LookAhead`), and then goes from mail to mail: `GoOn` looks the
log and the reminder up at each one's turn, `Mailed` records it after the
await. Anything may happen to the session during the wait.

### Runs

| run | instance | checks |
| --- | --- | --- |
| `Season_calendar` | 3 session ids, 4 templates, 2 activities, 2 chats, 1 operator and an administrator, 10 budgets | types, `MailedOnce`, `DraftTold`, `ChatLinked`, `SlotsRight` |
| `Season_cadence` | one season of cadence 1: violation of `CadenceKept` | no activities |

One budget asks for each of a set of seasons that begin before, on and after
their weekday and end on, before and after it, weekly and week-long, with
cadences 0 to 3. The others use few seasons and go deep: the mail loop with
edits and a crash, with seasons that come and go, drafts over a session's life,
templates, chats, drafts and mails while the administrator's role is taken and
given back. Three ids let a deleted one come back beside others. Larger
numbers of sessions, operators and chats, and every other season, are covered by
the theorems.

### What the counterexample shows

`CadenceKept`: with a cadence of 1 every session from the second on should be an
activity; the code asks for `index % 1 == 1`, which never holds. `SlotsRight` says of
this cadence only that the days are right.

## 9. AprsClient and LiveView

### State

| variable | code |
| --- | --- |
| `status`, `beacon`, `others`, `posts`, `checkedIn` | the event's columns and rows the client reads |
| `clients`, `current` | client tasks: the one of `manager._states[event]` and those still ending. Per task: the await it is at (`pc`), `running`, the nudge (`dirty`), `status`, what it announced, the filter it sent (`spec`), what it is sending, whether its link works |
| `stores` | `EventPositionStore`: pool, order of eviction, trails by `pos_seq` |
| `air`, `orphans`, `crossed` | what APRS-IS last heard of each object, and bookkeeping |
| `logged`, `pins` | the event's log: its length and pinned entries |
| `page`, `logPolls` | the hook `useEventUpdates`: entries, `since`; its polls in flight |
| `map`, `mapPolls`, `inOrder`, `shownBirth` | the hook `useEventPositions` and its polls; bookkeeping |

### Actions

The steps of a client are the stretches of `run_event_client` between awaits:
`Connect`, `Login`, `Refresh` and `Resume` around the filter, one `SendKill` or
`SendLive` per packet, `EndLoop`, `KillOne`, `KillDone`, `Fail`, `WakeUp`.
`Stop` and `Start` are what close, delete, activate and reopen do to the
manager; `Told` is the nudge with which every handler that touches posts,
participants or settings ends. A stopped client ends in its own time while a
new one runs. `BreakLink` kills a connection unnoticed.

A poll of the log is asked, loads the row in the dependency's thread, reads the
entries, and is merged, in steps of its own (`AskLog`, `LoadRow`, `AnswerLog`,
`MergeLog`); polls overlap and overtake one another, and may fail (`LoseLog`). With
a delete between the row and the entries the answer has no entries and the
counter of before. A poll of the map reads the store in one go; it, too, may be
authorized before a delete and answered after it. `After` is the filter that both
`snapshot` and the hook apply: a trail's points past a given one.

### Run

| run | instance | checks |
| --- | --- | --- |
| `LiveView_page` | 2 posts of one base name, 2 places, 2 stations, trails of 2 points, 1 other station, 2 clients, 2 polls of each kind, 8 budgets | `LogPrefix`, `TrailsComplete`, `NewsTold`, `AirAccounted`, `AirClears` |

Two posts of one base name compete for an object's name; two clients are a
predecessor that ends and its successor; trails of two points and one other
station are the store's limits with the least that exceeds them; two polls
overtake each other, and one budget has two changes of the event's life, so that
an active event is deleted between a poll's row and its entries. All of these but `AirClears` are theorems for all sizes.

**Fairness**: weak fairness on each client's `Step`. The awaits of the login's
answer, of a line and of the back-off are `asyncio.wait_for` with a timeout
(`client.py:108`, `126`, `163`); opening the connection and draining a write end
when TCP gives up. So a task whose step is enabled takes one. Operators, the
server, broken links, polls and crashes have none. `AirClears` then says that a
closed event leaves the air, up to orphans.

## 10. Proofs

The proof modules follow one pattern: an inductive invariant, one lemma per
action (or per group of actions that disturb it in the same way), then the
temporal step. Assumptions are the named ones of the modules: sets of constants
are disjoint from `None` (and no row, draft or trail is `None`), bounds, days and
budgets are natural numbers. Nothing is bounded otherwise.

Some properties rest on what a recursive function or a fold computes for every
input, which needs induction over data, and the library's induction theorems
take an operator as a parameter. These proofs use the least counterexample
instead: a set of numbers that is not empty has a least one (`NatMin`, from the
well-foundedness of strict inclusion on finite sets), and the set is the inputs
of which the claim is false. The lemma is stated in each of the three modules
that need it.

`EventRoom_proofs` proves `TypeCorrect`, `NumbersInOrder` (`LogGapFree`),
`SnapshotsHold` (`SnapshotsTell`) and, as an action property under the same
invariant, `LogOnlyGrows` (`LogAppendOnly`). `LogGapFree` alone is not
inductive: whether a commit's numbers continue the log depends on the session's
copy. The invariant adds `SnapshotsTell`: a copy is never ahead of the row.
Then `SeqsFree` for a copy that is behind is false, because the log is numbered
without gaps up to `log_seq` (`FreeMeansLatest`), so whatever commits has the
latest number, and also the latest status. Deleting the event is the one step
that makes `log_seq` smaller; after it no copy matters, because every handler
finds the row gone.

`EventRoomLog_proofs` proves the rest of what the runs of `EventRoom` check, on
the same invariant.

* `LogKeepsPromise` (`ImplementsEventLog`) is the refinement, step by step: a
  commit appends its entries to the log (`CommitAdds`), so seen from the status
  and the kinds of the entries it is one of `EventLog`'s steps; pins,
  rollbacks and reads are stutters. That a lifecycle entry is written from the
  right status is where `SnapshotsTell` comes in.
* `RosterAlwaysMatches` (`RosterMatchesLog`). The roster is what the last entry
  of each callsign that has a status says; its report has an open stint just when
  it is checked in, and a finished one for each check-out (`RosterTold`). The report is a fold over a log of any length;
  `PassExists` and `PassesAgree` show that the fold is the one pass that starts
  empty and goes on entry by entry (`ReportIsPass`), so that an entry about
  somebody else changes nothing (`ReportQuiet`) and one about the callsign
  opens or closes a stint (`ReportLoud`). Each handler is then quiet or loud for
  a callsign.
* `PostsAlwaysResolve` (`PostsResolve`) is inductive with the types: handlers
  check posts against the table itself, not against a copy.
* `MessagesRoutedOnce` (`RoutedOnce`) is proved as a one-to-one statement
  (`OneEach`: a raw message is in the list once, and inbound messages are as many
  as breadcrumbs) with what a scan holds when it commits (`ScanHolds`).

`PatSession_proofs` proves `TypeCorrect` and `TaskAndRowAgree` together (the row a
task writes to must exist), from them the action properties `VerdictsStay` and
`SessionsEnd`, and, for any stations and with retries in threads, `SentIsAccounted`
and `ListingStaysTrue` (`OutBoxAccounted`). The second is the invariant of the
first: while the engine flips, what is in the out box it listed was in the listing
or was posted by a thread since, because the loop posts nothing then; so an id
the listing lacks is not in that box or is a late one. A message that has left
the box does not come back, as PAT gives each id once.

`NetCycle_proofs` proves all seven properties of `NetCycle_send`, for any number
of sessions, backends, retries and ids. The invariant has nine parts besides
types. `WorkFits` says what the handler may count on from one commit to the next
(it approves a draft of a closed session, dispatches what is approved, purges
what is over); without it no step after the first has a known log. `OwnIds`, that
logs of a kind have ids of their own, is what makes a dispatch write its own
rows only. `SuccessIsReal` and `Ledger` follow a dispatch backend by backend:
what is left was not taken, what is recorded tells. `Alone` does the same for
retries: of a content that is not disturbed at most one is at work, the content
is not approved, and what the retry has left nobody took. `Ledger` needs `Alone`
where a retry sends, and `Alone` needs `Ledger` where a retry starts, because
the rows it reads are right. `FilesAreKept` is an action property under the same
invariant. The steps of the tables are sorted into four kinds first (`Steps`),
so that later lemmas have few cases.

`CheckIns_proofs` proves all five properties of `CheckIns_import`, for any number
of importers, messages, sessions and rows. None is inductive: what a commit
deletes was decided a commit earlier, and whether a message may be filed was
decided when the list was made. The invariant says of each import what it may
rely on (`JobOK`): the latest check-in of a callsign is of a message before all
that remain on the list (`LatestOK`, where the sort matters), what is to be
deleted has a later check-in (`DroppedOK`), and what the scan made is the
latest of its callsign, or about to be deleted, or no longer there (`MadeOK`). `RowsOK`
ties check-ins to parsed messages, so that a fresh insert finds none of its
own, and `ClaimsOK` does the same for stored messages: one that an import may
still file, and that is not shared, has no check-in and no other import to file
it. Jobs that a step does not touch are handled once (`JobStays`), because rows
and messages only grow (`RowsKept`, `RawsKept`).

`Access_proofs` proves all four properties of `Access_guard`. `RecoveryInv` adds
to `ClaimedOnce` that no two claims hold one token and that a claimed token is
spent (`ClaimsSpend`), and that a token which is neither used nor gone was never
answered. `SetupInv` says of each callback which of its commits are in the
configuration by the stage it is at (`Stage`), with an administrator before the
mark. `FirstInv` says that once somebody became administrator as the first,
there is an account, which no request removes: a rename moves it, and
anonymization gives it another name. `AccessInv` is their conjunction with the
types; the lemma `RowsKept` carries most steps, as few touch accounts.

`Season_proofs` proves `OperatorMailedOnce` and `ChatsLinkedToOwn`. `MailInv`
follows a mail from its sending to its record: a mail that was sent is on
record, lost, or under way (`Accounted`), and the one under way is not on
record. `ChatInv` says that an approval between its two commits still has its
activity, because the handler keeps the loop. `DraftsAreTold` (`DraftTold`) rests on
the types and on `Holding`: what the handler of the moment still has to write or
to tell belongs to sessions that are there, so a notice that is due is neither
forgotten nor about somebody else's draft; where `Tell` finds nobody the draft is
among the `unaddressed`. `SeasonsGetTheirSessions` (`SlotsRight`)
needs what the slots are. The recursion has a closed form (`RestOf`): it satisfies
the recursive definition (`RestTurns`), and by the least counterexample nothing
else does (`TurnsAgree`), which gives the slots one by one (`SlotsAre`). From there the weekly,
week-long and cadence parts are arithmetic on days, the order of the inserted
ids, and the number of sessions before a given one (`BeforeIs`). The cadence part
is for cadences other than 1, of which it is false.

`LiveView_proofs` proves `PageShowsLog`, `MapShowsTrails`, `ClientToldNews` and
`ObjectsAccounted`. For the page, each poll's cursor is behind the page's or its
answer not ahead of the log (`PollsBehind`), and while the event is there an
answer's counter is not ahead of its entries. `Follows` says at each await of a
client which of its filter, objects and pending nudge go together with the event
as it is; `Linked` does the same for what it announced and what is on the air.

For the map (`TrailsComplete`), `MapInv` says of each answer under way that it tells
all the points past its cursor that its store had and still has (`Tells`), even
if the store has evicted or numbered more since; of the stores, that points stay
within `pos_seq` and only stations of a pool have any (`StoreFits`); and of the map, that nothing up to its cursor is
missing (`Complete`). An answer that comes in order starts at the map's cursor or
before it, so merging it leaves no gap. What `After` returns is again an
induction over the trail.

Only model-checked, because they are liveness and out of the prover's reach:
`InboundRouted`, `EngineComesFree`, `AirClears`. The types of `NetCycle` and `CheckIns`
are theorems and not listed in a run.

## 11. Known limits of the code

What the code does and its documents or readers may not expect, found while
modelling. Four are checked as violations: `PatSession_abort`, `PatSession_sent`,
`NetCycle_retry` and `Season_cadence`. The properties that hold except the others by
name.

Events.

* `msg_seq` is minted like `log_seq` but no constraint protects it, so the
  number of a message may repeat (`models.py:80` and the messaging design say
  it is assigned under the row lock).
* Writes without a log entry (posts, details) are not stopped by the log's
  constraint: a request authorized before a close still writes after it,
  although `docs/superpowers/specs/2026-07-15-live-events-design.md:235` has
  closed events refuse it.
* An event message is committed before its dispatch (`message_service.py:65`), and a
  stop of the process in between, or an exception that neither the dispatch
  (`delivery/service.py:154`, only `KeyError`) nor the winlink backend
  (`winlink.py:29`, only `PatUnavailable`) catches, leaves it without a delivery
  row. The comment at line 68 counts on a retry, which finds no failed row.

Radio sessions.

* An abort's ABORTED is overwritten by FAILED when connect then fails or times out
  (`pat_session.py:154`, `:164`, against the comment at line 172).
* What connect or the listing raises other than `PatConnectError` and
  `PatUnavailable` (a body that is not the JSON expected, a base URL that httpx
  rejects) ends the task with its row CONNECTED or SYNCING, and so does a stop of
  the process; nothing repairs such a row.
* A delivery is marked SENT by the session of another PAT, or when a thread posts
  it between a session's listing and its flip.

APRS and the page.

* Other stations stay on the map when the layer is turned off while the client
  reconnects.
* Objects of posts removed while the client was disconnected are never taken off
  the air (`announced.clear()`, `client.py:118`), and kills at a close are not
  tried again.
* The kills of a client that ends can remove objects its successor announced,
  until the next beacon ten minutes later.
* Trails freeze after a close and reopen or a restart: `pos_seq` starts over and
  the hook keeps its cursor. Answers that overtake one another lose points.
* A poll of the log that straddles the event's delete is answered with an empty
  snapshot and the old counter: the roster goes blank, the entries stay, and the
  cursor moves past them (`events/routes.py:664`, `useEventUpdates.ts:38`). Later
  polls fail, so it only matters to a page that stays open until SQLite gives the
  event's id to another.
* A draft's or a closed event's page never learns that somebody else opens it,
  as it does not poll.
* Turning `aprs.enabled` off does not stop a client that runs.

Calendar.

* A session of a season can be patched into a real event, which creation refuses
  (`schedule/routes.py:233`, `service.py:106`).
* Notices of sessions without a season are never listed, and "mark all read"
  passes them over (`notifications/service.py:68`, `103`).
* After a season is deleted a new session can take over drafts, rosters,
  check-ins and a SENT reminder of a deleted one by its id; a session's
  `activity_id` may dangle.
* A change of a reminder template's type can leave two defaults of a type or
  none (`reminders/service.py:108-123`); the shipped activity reminder is not a
  default (`seeds.py:88`), so activities are not reminded until one is made so.
* A cadence of 1 never yields an activity (`schedule/service.py:169`), although
  only 0 is said to mean none (`SchedulePage.tsx:360`).
* The last administrator can be demoted (`auth/routes.py:474`); drafts of sessions
  without an operator are then told to nobody, and not later either.

Accounts.

* A rename leaves memberships, tokens and events under the old callsign, and
  whoever takes that callsign later has them.
* The wizard ends with an error when the person's subject is another user's; the
  settings it wrote before stay.

## 12. Not modelled

Text (templates, forms, B2F, parsing of check-ins), geometry and the time of day
beyond its parts; cryptography, the OIDC protocol and rate limits; an event's
settings, operators and public pages, which are single-row writes apart from the
permission `EventRoom` models; the hook for messages and the public page, which
repeat the logic of `LiveView`; net settings and the rows of other modules a
deleted net takes with it; manual check-ins; the privacy export, the audit log,
the database copy and look-ups. The database is taken to be serializable per
commit, with its unique constraints; a failing commit for reasons other than
those constraints is not modelled, except where an action says so.
