----------------------------- MODULE Season_proofs -----------------------------
(***************************************************************************)
(* Proofs about Season: that an operator is mailed once, that a chat is    *)
(* linked to an activity of its own, that drafts come with a notice, and   *)
(* that a season gets the sessions its plan calls for.  The first three    *)
(* need to know where the handler of the moment stands between two of its  *)
(* commits; the last, what the recursive slots are in closed form.         *)
(***************************************************************************)
EXTENDS Season, TLAPS, FiniteSetTheorems, SequenceTheorems, WellFoundedInduction

------------------------------------------------------------------------------
(* Mail *)

\* What a cycle still goes through: one entry for each session, and none for
\* the session the mail under way is about.
Underway ==
    loop.pc = "mailing" =>
        /\ loop.mail.id \in Ids /\ loop.part \in MailKinds
        /\ \A m \in loop.todo : m.id \in Ids /\ m.id # loop.mail.id
        /\ \A m, x \in loop.todo : m.id = x.id => m = x

\* A mail that was sent is on record, lost, or under way.
Accounted ==
    \A i \in Ids, k \in MailKinds :
        sends[i][k] # 0 =>
            \/ k \in mailed[i] \/ <<i, k>> \in lost
            \/ loop.pc = "mailing" /\ loop.mail.id = i /\ loop.part = k

\* The fields of busy.
Shaped == busy = [who |-> busy.who, todo |-> busy.todo, untold |-> busy.untold, chat |-> busy.chat]

MailInv ==
    /\ Shaped
    /\ sends \in [Ids -> [MailKinds -> 0..2]]
    /\ mailed \in [Ids -> SUBSET MailKinds]
    /\ busy.who = "loop" => loop.pc = "drafting"
    /\ Underway
    /\ Accounted
    /\ MailedOnce

\* The cycle goes on over a list, after the mail under way has gone on record.
LEMMA GoOnKeeps ==
    ASSUME MailInv, NEW part, NEW tomorrow, NEW list, GoOn(part, tomorrow, list),
           \A m \in list : m.id \in Ids,
           \A m, x \in list : m.id = x.id => m = x,
           lost' = lost, Shaped', busy'.who # "loop",
           \/ mailed' = mailed /\ loop.pc # "mailing"
           \/ /\ mailed' = [mailed EXCEPT ![loop.mail.id] = @ \cup {loop.part}]
              /\ loop.pc = "mailing" /\ \A m \in list : m.id # loop.mail.id
    PROVE  MailInv'
  <1>1. /\ mailed' \in [Ids -> SUBSET MailKinds]
        /\ \A i \in Ids : mailed[i] \subseteq mailed'[i]
        /\ \A i \in Ids, k \in MailKinds : loop.pc = "mailing" /\ loop.mail.id = i /\ loop.part = k
              => k \in mailed'[i]
    BY DEF MailInv, Underway
  <1>2. CASE loop' = Asleep /\ UNCHANGED sends
    <2>1. loop'.pc = "asleep"
      BY <1>2 DEF Asleep
    <2> QED BY <1>1, <1>2, <2>1 DEF MailInv, Underway, Accounted, MailedOnce
  <1>3. ASSUME NEW m \in list, NEW passed \in SUBSET list, Wanted(m, part),
               loop' = [pc |-> "mailing", tomorrow |-> tomorrow, part |-> part,
                        todo |-> list \ (passed \cup {m}), mail |-> m],
               sends' = [sends EXCEPT ![m.id][part] = IF @ = 2 THEN 2 ELSE @ + 1]
        PROVE  MailInv'
    <2>1. m.id \in Ids /\ part \in MailKinds /\ part \notin mailed[m.id]
      BY <1>3 DEF Wanted
    <2>2. sends[m.id][part] # 0 => <<m.id, part>> \in lost
      BY <2>1, <1>3 DEF MailInv, Accounted
    <2>3. /\ sends' \in [Ids -> [MailKinds -> 0..2]]
          /\ \A i \in Ids, k \in MailKinds : ~(i = m.id /\ k = part) => sends'[i][k] = sends[i][k]
          /\ sends'[m.id][part] > 1 => sends[m.id][part] # 0
      <3>1. sends[m.id] \in [MailKinds -> 0..2] /\ sends[m.id][part] \in 0..2
        BY <2>1 DEF MailInv
      <3> DEFINE n == IF sends[m.id][part] = 2 THEN 2 ELSE sends[m.id][part] + 1
                 row == [sends[m.id] EXCEPT ![part] = n]
      <3>2. n \in 0..2 /\ (n > 1 => sends[m.id][part] # 0)
        BY <3>1
      <3> HIDE DEF n
      <3>3. row \in [MailKinds -> 0..2] /\ row[part] = n
            /\ \A k \in MailKinds : k # part => row[k] = sends[m.id][k]
        BY <2>1, <3>1, <3>2
      <3>4. sends' = [sends EXCEPT ![m.id] = row]
        BY <1>3 DEF MailInv, n
      <3> HIDE DEF row
      <3> QED BY <2>1, <3>2, <3>3, <3>4 DEF MailInv
    <2>4. loop'.pc = "mailing" /\ loop'.mail = m /\ loop'.part = part /\ loop'.todo \subseteq list \ {m}
      BY <1>3
    <2>5. Underway'
      BY <1>3, <2>1, <2>4 DEF Underway
    <2>6. Accounted'
      BY <1>1, <2>3, <2>4 DEF MailInv, Accounted
    <2>7. MailedOnce'
      BY <2>2, <2>3 DEF MailInv, MailedOnce
    <2> QED BY <1>1, <2>3, <2>5, <2>6, <2>7 DEF MailInv
  <1> QED BY <1>2, <1>3 DEF GoOn

\* Rows enter: what was sent about an id before is forgotten.
LEMMA InsertKeeps ==
    ASSUME MailInv, NEW rows, NEW nco, Insert(rows, nco), UNCHANGED <<mailed, loop>>,
           Shaped', busy'.who # "loop" \/ busy' = busy
    PROVE  MailInv'
  <1>1. PICK i \in Ids :
           LET fresh == i..(i + Len(rows) - 1) IN
           /\ sends' = [j \in Ids |-> IF j \in fresh THEN [k \in MailKinds |-> 0] ELSE sends[j]]
           /\ lost' = {m \in lost : m[1] \notin fresh}
    BY DEF Insert
  <1> DEFINE fresh == i..(i + Len(rows) - 1)
  <1>2. /\ sends' = [j \in Ids |-> IF j \in fresh THEN [k \in MailKinds |-> 0] ELSE sends[j]]
        /\ lost' = {m \in lost : m[1] \notin fresh}
    BY <1>1
  <1> HIDE DEF fresh
  <1>3. sends' \in [Ids -> [MailKinds -> 0..2]]
    BY <1>2 DEF MailInv
  <1>4. \A j \in Ids, k \in MailKinds : sends'[j][k] # 0 => j \notin fresh /\ sends'[j] = sends[j]
    BY <1>2
  <1>5. Accounted' /\ MailedOnce'
    <2>1. \A j \in Ids, k \in MailKinds : j \notin fresh /\ <<j, k>> \in lost => <<j, k>> \in lost'
      BY <1>2
    <2>2. Accounted'
      BY <1>4, <2>1 DEF MailInv, Accounted
    <2>3. \A j \in Ids, k \in MailKinds : sends'[j][k] > 1 => sends'[j][k] # 0
      BY <1>3
    <2> QED BY <1>4, <2>1, <2>2, <2>3 DEF MailInv, MailedOnce
  <1> QED BY <1>3, <1>5 DEF MailInv, Underway

\* Requests about templates change nothing else.
LEMMA TemplatesOnly == EditTemplates => UNCHANGED <<mailVars, chatVars, busy>>
  BY DEF EditTemplates, CreateReminderTemplate, CreateRosterTemplate, UpdateReminderTemplate,
         UpdateRosterTemplate, DeleteReminderTemplate, DeleteRosterTemplate, AddTemplate,
         SetTemplate, RemoveTemplate, TemplateRequest

\* Everything else does not touch the mail.
Mute ==
    \/ \E p \in plans : CreateSeason(p)
    \/ \E i \in Ids : UpdateSession(i)
    \/ DeleteSeason
    \/ EditTemplates
    \/ \E kind \in DraftKinds : GenerateDue(kind)
    \/ \E d \in Draft : GenerateOne(d) \/ WriteDraft(d) \/ MoveDraft(d) \/ DeleteDraft(d)
    \/ Tell
    \/ \E n \in unread : ReadNotice(n)
    \/ \E u \in Users : ReadAll(u)
    \/ \E a \in ActivityIds : CreateActivity(a) \/ DeleteActivity(a)
    \/ \E c \in Chats : CreateChat(c) \/ (\E u \in Operators : SendMessage(c, u))
    \/ \E c \in Chats, a \in ActivityIds : ApproveChat(c, a)
    \/ LinkChat
    \/ Tick
    \/ UpdateUserRole
    \/ UNCHANGED vars

LEMMA MuteKeeps ==
    ASSUME Shaped, Mute
    PROVE  /\ UNCHANGED mailVars /\ Shaped'
           /\ busy'.who = busy.who \/ busy'.who # "loop"
  <1>1. UNCHANGED mailVars
    <2>1. ASSUME \/ \E p \in plans : CreateSeason(p)
                 \/ \E i \in Ids : UpdateSession(i)
                 \/ DeleteSeason
                 \/ EditTemplates
          PROVE  UNCHANGED mailVars
      BY <2>1, TemplatesOnly DEF CreateSeason, UpdateSession, DeleteSeason
    <2>2. ASSUME \/ \E kind \in DraftKinds : GenerateDue(kind)
                 \/ \E d \in Draft : GenerateOne(d) \/ WriteDraft(d) \/ MoveDraft(d) \/ DeleteDraft(d)
                 \/ Tell
                 \/ \E n \in unread : ReadNotice(n)
                 \/ \E u \in Users : ReadAll(u)
          PROVE  UNCHANGED mailVars
      BY <2>2 DEF GenerateDue, GenerateOne, WriteDraft, MoveDraft, DeleteDraft, Tell,
                  ReadNotice, ReadAll
    <2>3. ASSUME \/ \E a \in ActivityIds : CreateActivity(a) \/ DeleteActivity(a)
                 \/ \E c \in Chats : CreateChat(c) \/ (\E u \in Operators : SendMessage(c, u))
                 \/ \E c \in Chats, a \in ActivityIds : ApproveChat(c, a)
                 \/ LinkChat \/ Tick \/ UpdateUserRole \/ UNCHANGED vars
          PROVE  UNCHANGED mailVars
      BY <2>3 DEF CreateActivity, DeleteActivity, CreateChat, SendMessage, ApproveChat,
                  LinkChat, Tick, UpdateUserRole, vars
    <2> QED BY <2>1, <2>2, <2>3 DEF Mute
  <1>2. ASSUME UNCHANGED busy
        PROVE  Shaped' /\ busy'.who = busy.who
    BY <1>2 DEF Shaped
  <1>3. ASSUME NEW b \in {"season", "request", "chat"}, NEW todo, NEW untold, NEW chat,
               busy' = [who |-> b, todo |-> todo, untold |-> untold, chat |-> chat]
        PROVE  Shaped' /\ busy'.who # "loop"
    <2>1. busy'.who = b
      BY <1>3
    <2> QED BY <1>3, <2>1 DEF Shaped
  <1>4. ASSUME busy' = Nobody
        PROVE  Shaped' /\ busy'.who # "loop"
    BY <1>4 DEF Shaped, Nobody
  <1>5. ASSUME NEW p \in plans, CreateSeason(p)
        PROVE  Shaped' /\ busy'.who # "loop"
    BY <1>3, <1>5 DEF CreateSeason, Nobody
  <1>6. ASSUME NEW kind \in DraftKinds, GenerateDue(kind)
        PROVE  Shaped' /\ busy'.who # "loop"
    BY <1>3, <1>6 DEF GenerateDue, Nobody
  <1>7. ASSUME NEW d \in Draft, GenerateOne(d)
        PROVE  Shaped' /\ busy'.who # "loop"
    BY <1>3, <1>7 DEF GenerateOne, Nobody
  <1>8. ASSUME NEW d \in Draft, WriteDraft(d)
        PROVE  Shaped' /\ busy'.who = busy.who
    BY <1>8 DEF WriteDraft, Shaped
  <1>9. ASSUME Tell
        PROVE  Shaped' /\ (busy'.who = busy.who \/ busy'.who # "loop")
    <2>1. busy' = Nobody \/ busy' = [busy EXCEPT !.untold = None]
      BY <1>9 DEF Tell
    <2> QED BY <1>4, <2>1 DEF Shaped
  <1>10. ASSUME NEW c \in Chats, NEW a \in ActivityIds, ApproveChat(c, a)
         PROVE  Shaped' /\ busy'.who # "loop"
    BY <1>3, <1>10 DEF ApproveChat, Nobody
  <1>11. ASSUME LinkChat
         PROVE  Shaped' /\ busy'.who # "loop"
    BY <1>4, <1>11 DEF LinkChat, Nobody
  <1>12. \/ UNCHANGED busy \/ Tell \/ LinkChat
         \/ \E p \in plans : CreateSeason(p)
         \/ \E kind \in DraftKinds : GenerateDue(kind)
         \/ \E d \in Draft : GenerateOne(d) \/ WriteDraft(d)
         \/ \E c \in Chats, a \in ActivityIds : ApproveChat(c, a)
    BY TemplatesOnly DEF Mute, UpdateSession, DeleteSeason,
           MoveDraft, DeleteDraft, ReadNotice, ReadAll, CreateActivity, DeleteActivity,
           CreateChat, SendMessage, Tick, UpdateUserRole, vars
  <1> QED BY <1>1, <1>2, <1>5, <1>6, <1>7, <1>8, <1>9, <1>10, <1>11, <1>12

LEMMA MailInit == Init => MailInv
  BY DEF Init, MailInv, Shaped, Nobody, Asleep, Underway, Accounted, MailedOnce

LEMMA MailStep == MailInv /\ [Next]_vars => MailInv'
  <1> SUFFICES ASSUME MailInv, [Next]_vars PROVE MailInv'
    OBVIOUS
  <1>1. CASE Mute
    BY <1>1, MuteKeeps DEF MailInv, mailVars, Underway, Accounted, MailedOnce
  <1>2. CASE InsertSessions
    <2>1. PICK nco \in Operators \cup {None} : Insert(Slots(season), nco)
      BY <1>2 DEF InsertSessions
    <2>2. UNCHANGED <<mailed, loop>> /\ busy' = Nobody
      BY <1>2 DEF InsertSessions
    <2> QED BY <2>1, <2>2, InsertKeeps DEF Nobody, Shaped
  <1>3. ASSUME NEW s \in Standalone, NEW inSeason \in BOOLEAN, CreateSession(s, inSeason)
        PROVE  MailInv'
    <2>1. UNCHANGED <<mailed, loop, busy>> /\ \E rows, nco : Insert(rows, nco)
      BY <1>3 DEF CreateSession
    <2> QED BY <2>1, InsertKeeps DEF MailInv, Shaped
  <1>4. CASE Wake
    BY <1>4 DEF Wake, MailInv, Shaped, Nobody, Asleep, Underway, Accounted, MailedOnce
  <1>5. CASE LookAhead
    <2>1. GoOn(clock.part, loop.tomorrow, Upcoming) /\ busy' = Nobody
          /\ UNCHANGED <<mailed, lost>> /\ loop.pc # "mailing"
      BY <1>5 DEF LookAhead, MailInv
    <2>2. /\ \A m \in Upcoming : m.id \in Ids
          /\ \A m, x \in Upcoming : m.id = x.id => m = x
      BY DEF Upcoming
    <2> QED BY <2>1, <2>2, GoOnKeeps DEF Nobody, Shaped
  <1>6. CASE Mailed
    <2>1. GoOn(loop.part, loop.tomorrow, loop.todo) /\ busy' = busy /\ busy = Nobody
          /\ mailed' = [mailed EXCEPT ![loop.mail.id] = @ \cup {loop.part}]
          /\ UNCHANGED lost /\ loop.pc = "mailing"
      BY <1>6 DEF Mailed, LoopFree
    <2>2. /\ \A m \in loop.todo : m.id \in Ids /\ m.id # loop.mail.id
          /\ \A m, x \in loop.todo : m.id = x.id => m = x
      BY <2>1 DEF MailInv, Underway
    <2> QED BY <2>1, <2>2, GoOnKeeps DEF Nobody, Shaped
  <1>7. CASE Restart
    <2>1. /\ busy' = Nobody /\ loop' = Asleep /\ UNCHANGED <<mailed, sends>>
          /\ lost' = IF loop.pc = "mailing" THEN lost \cup {<<loop.mail.id, loop.part>>} ELSE lost
      BY <1>7 DEF Restart
    <2>2. Accounted'
      BY <2>1 DEF MailInv, Accounted, Asleep
    <2>3. MailedOnce'
      BY <2>1 DEF MailInv, MailedOnce
    <2> QED BY <2>1, <2>2, <2>3 DEF MailInv, Shaped, Nobody, Asleep, Underway
  <1> QED BY <1>1, <1>2, <1>3, <1>4, <1>5, <1>6, <1>7 DEF Next, Step, Mute

(* An operator gets one mail of a kind about a session, unless the process   *)
(* stopped while the mail was under way (reminders/nco.py:146).              *)
THEOREM OperatorMailedOnce == Spec => []MailedOnce
  <1>1. MailInv => MailedOnce
    BY DEF MailInv
  <1> QED BY <1>1, MailInit, MailStep, PTL DEF Spec

------------------------------------------------------------------------------
(* Chats *)

\* An approval between its two commits has its activity.
ChatInv ==
    /\ Shaped
    /\ ChatLinked
    /\ busy.who = "chat" =>
          \E c \in Chats, a \in ActivityIds : busy.chat = <<c, a>> /\ activities[a] = c
    /\ activities \in [ActivityIds -> Chats \cup {None, Absent}]
    /\ DOMAIN chats = Chats

LEMMA ChatInit == Init => ChatInv
  BY NoneAssumption DEF Init, ChatInv, Shaped, ChatLinked, Nobody, ActivityIds

LEMMA ChatStep == ChatInv /\ [Next]_vars => ChatInv'
  <1> SUFFICES ASSUME ChatInv, [Next]_vars PROVE ChatInv'
    OBVIOUS
  <1> USE NoneAssumption
  <1>a. ASSUME UNCHANGED <<activities, chats>>, Shaped', busy'.who # "chat" \/ UNCHANGED busy
        PROVE  ChatInv'
    BY <1>a DEF ChatInv, ChatLinked
  <1>b. ASSUME NEW a \in ActivityIds, NEW chat \in Chats \cup {None}, Activity(a, chat)
        PROVE  /\ activities' \in [ActivityIds -> Chats \cup {None, Absent}]
               /\ activities'[a] = chat
               /\ \A c \in Chats : chats[c] \in ActivityIds => activities'[chats[c]] = c
    <2>1. activities[a] = Absent /\ activities' = [activities EXCEPT ![a] = chat]
      BY <1>b DEF Activity
    <2>2. \A c \in Chats : chats[c] # a
      BY <2>1 DEF ChatInv, ChatLinked
    <2> QED BY <2>1, <2>2 DEF ChatInv, ChatLinked
  <1>1. ASSUME NEW a \in ActivityIds, CreateActivity(a)
        PROVE  ChatInv'
    <2>1. Activity(a, None) /\ UNCHANGED <<chats, busy>> /\ busy = Nobody
      BY <1>1 DEF CreateActivity, LoopFree
    <2> QED BY <2>1, <1>b DEF ChatInv, ChatLinked, Shaped, Nobody
  <1>2. ASSUME NEW a \in ActivityIds, DeleteActivity(a)
        PROVE  ChatInv'
    <2>1. /\ activities' = [activities EXCEPT ![a] = Absent]
          /\ chats' = [c \in Chats |-> IF chats[c] = a THEN None ELSE chats[c]]
          /\ UNCHANGED busy /\ busy = Nobody
      BY <1>2 DEF DeleteActivity, LoopFree, Unlinked
    <2>2. \A c \in Chats : chats'[c] \in ActivityIds => chats'[c] = chats[c] /\ chats[c] # a
      BY <2>1 DEF ActivityIds
    <2> QED BY <2>1, <2>2 DEF ChatInv, ChatLinked, Shaped, Nobody
  <1>3. ASSUME NEW c \in Chats, CreateChat(c)
        PROVE  ChatInv'
    <2>1. chats' = [chats EXCEPT ![c] = None] /\ UNCHANGED <<activities, busy>>
      BY <1>3 DEF CreateChat
    <2> QED BY <2>1 DEF ChatInv, ChatLinked, Shaped, ActivityIds
  <1>4. ASSUME NEW c \in Chats, NEW a \in ActivityIds, ApproveChat(c, a)
        PROVE  ChatInv'
    <2>1. Activity(a, c) /\ UNCHANGED chats
          /\ busy' = [who |-> "chat", todo |-> {}, untold |-> None, chat |-> <<c, a>>]
      BY <1>4 DEF ApproveChat, Nobody
    <2> QED BY <2>1, <1>b DEF ChatInv, ChatLinked, Shaped
  <1>5. CASE LinkChat
    <2>1. PICK c \in Chats, a \in ActivityIds : busy.chat = <<c, a>> /\ activities[a] = c
      BY <1>5 DEF LinkChat, ChatInv
    <2>2. chats' = [chats EXCEPT ![c] = a] /\ busy' = Nobody /\ UNCHANGED activities
      BY <1>5, <2>1 DEF LinkChat
    <2> QED BY <2>1, <2>2 DEF ChatInv, ChatLinked, Shaped, Nobody
  <1>6. ASSUME NEW c \in Chats, NEW u \in Operators, SendMessage(c, u)
        PROVE  ChatInv'
    BY <1>6, <1>a DEF SendMessage, ChatInv, Shaped
  <1>7. CASE InsertSessions \/ LookAhead \/ Wake \/ Restart
    <2>1. UNCHANGED <<activities, chats>>
      BY <1>7 DEF InsertSessions, LookAhead, Wake, Restart, chatVars
    <2>2. busy' = Nobody \/ busy' = [who |-> "loop", todo |-> Due("reminder"),
                                    untold |-> None, chat |-> None]
      BY <1>7 DEF InsertSessions, LookAhead, Wake, Restart, Nobody
    <2>3. busy'.who \in {"nobody", "loop"} /\ Shaped'
      <3>1. CASE busy' = Nobody
        BY <3>1 DEF Nobody, Shaped
      <3>2. CASE busy' = [who |-> "loop", todo |-> Due("reminder"), untold |-> None, chat |-> None]
        <4> DEFINE list == Due("reminder")
        <4> HIDE DEF list
        <4>1. busy' = [who |-> "loop", todo |-> list, untold |-> None, chat |-> None]
          BY <3>2 DEF list
        <4> QED BY <4>1 DEF Shaped
      <3> QED BY <2>2, <3>1, <3>2
    <2> QED BY <2>1, <2>3, <1>a
  <1>8. CASE \/ UNCHANGED vars \/ Mailed \/ Tick \/ UpdateUserRole \/ DeleteSeason
             \/ \E s \in Standalone, inSeason \in BOOLEAN : CreateSession(s, inSeason)
             \/ \E i \in Ids : UpdateSession(i)
             \/ EditTemplates
             \/ \E d \in Draft : MoveDraft(d) \/ DeleteDraft(d)
             \/ \E n \in unread : ReadNotice(n)
             \/ \E u \in Users : ReadAll(u)
    <2>1. UNCHANGED <<activities, chats, busy>>
      BY <1>8, TemplatesOnly DEF vars, chatVars, Mailed, Tick, UpdateUserRole, DeleteSeason, CreateSession,
                                 UpdateSession, MoveDraft, DeleteDraft, ReadNotice, ReadAll
    <2> QED BY <2>1, <1>a DEF ChatInv, Shaped
  <1>9. CASE \/ \E p \in plans : CreateSeason(p)
             \/ \E kind \in DraftKinds : GenerateDue(kind)
             \/ \E d \in Draft : GenerateOne(d)
    <2>1. UNCHANGED <<activities, chats>>
          /\ \E b \in {"season", "request"} : \E todo, untold :
                busy' = [who |-> b, todo |-> todo, untold |-> untold, chat |-> None]
      BY <1>9 DEF CreateSeason, GenerateDue, GenerateOne, chatVars, Nobody
    <2> QED BY <2>1, <1>a DEF Shaped
  <1>10. CASE Tell \/ \E d \in Draft : WriteDraft(d)
    <2>1. UNCHANGED <<activities, chats>> /\ Mute
      BY <1>10 DEF Tell, WriteDraft, chatVars, Mute
    <2>2. busy' = Nobody \/ (busy'.who = busy.who /\ busy'.chat = busy.chat /\ Shaped')
      BY <1>10 DEF Tell, WriteDraft, ChatInv, Shaped
    <2>3. Shaped'
      BY <2>2 DEF Shaped, Nobody
    <2> QED BY <2>1, <2>2, <2>3 DEF ChatInv, ChatLinked, Nobody
  <1> QED BY <1>1, <1>2, <1>3, <1>4, <1>5, <1>6, <1>7, <1>8, <1>9, <1>10 DEF Next, Step

(* A chat that names an activity was approved into that one, although ids    *)
(* come back (activities/chat_service.py:178).                               *)
THEOREM ChatsLinkedToOwn == Spec => []ChatLinked
  <1>1. ChatInv => ChatLinked
    BY DEF ChatInv
  <1> QED BY <1>1, ChatInit, ChatStep, PTL DEF Spec

------------------------------------------------------------------------------
(* The sessions of a season *)

\* The least number of a set: induction with the property as the set of its
\* counterexamples, from the well-founded order on finite sets (as in
\* EventRoomLog_proofs).
LEMMA NatMin ==
    ASSUME NEW T, T \subseteq Nat, T # {}
    PROVE  \E n \in T : \A m \in T : n <= m
  <1> DEFINE Seg == {0..n : n \in T}
  <1>1. \A n \in T : n \in Nat /\ 0..n \in SUBSET Nat /\ IsFiniteSet(0..n)
    BY FS_Interval
  <1>2. Seg \subseteq FiniteSubsetsOf(Nat) /\ Seg # {}
    BY <1>1 DEF FiniteSubsetsOf
  <1>3. IsWellFoundedOn(StrictSubsetOrdering(Nat), FiniteSubsetsOf(Nat))
    BY FS_StrictSubsetOrderingWellFounded
  <1> HIDE DEF Seg
  <1>4. PICK x \in Seg : \A y \in Seg : ~(<<y, x>> \in StrictSubsetOrdering(Nat))
    BY <1>2, <1>3, WFMin
  <1>5. PICK n \in T : x = 0..n
    BY DEF Seg
  <1>6. ASSUME NEW m \in T, m < n PROVE FALSE
    <2>1. m \in Nat /\ n \in Nat /\ 0..m \in Seg
      BY <1>1 DEF Seg
    <2>2. 0..m \subseteq 0..n /\ 0..m # 0..n
      <3>1. n \in 0..n /\ n \notin 0..m /\ 0..m \subseteq 0..n
        BY <1>6, <2>1
      <3> QED BY <3>1
    <2>3. <<0..m, 0..n>> \in StrictSubsetOrdering(Nat)
      BY <1>1, <2>2 DEF StrictSubsetOrdering
    <2> QED BY <1>4, <1>5, <2>1, <2>3
  <1> QED
    <2>1. ASSUME NEW m \in T PROVE n <= m
      <3>1. m \in Nat /\ n \in Nat
        BY <1>1
      <3> QED BY <1>6, <3>1
    <2> QED BY <2>1

\* How many weeks begin between two days.
WeeksFrom(first, end) == IF first > end THEN 0 ELSE (end - first) \div 7 + 1

\* The sessions of the weeks from the i-th on: what the loop of
\* generate_sessions is left to make.
RestOf(piece, first, end) ==
    [i \in Nat |-> [k \in 1..WeeksFrom(first + 7 * i, end) |-> piece[(i + k) - 1]]]

\* One turn of that loop.
TurnOf(piece, first, end, f) ==
    [i \in Nat |-> IF first + 7 * i > end THEN <<>> ELSE <<piece[i]>> \o f[i + 1]]

\* A week less is left after each.
LEMMA WeeksLeft ==
    ASSUME NEW first \in Nat, NEW end \in Nat, NEW i \in Nat
    PROVE  /\ WeeksFrom(first + 7 * i, end) \in Nat
           /\ first + 7 * i > end <=> WeeksFrom(first + 7 * i, end) = 0
           /\ first + 7 * i <= end =>
                 WeeksFrom(first + 7 * i, end) = WeeksFrom(first + 7 * (i + 1), end) + 1
  BY DEF WeeksFrom

\* What is left is a sequence of sessions.
LEMMA RestIsSeq ==
    ASSUME NEW first \in Nat, NEW end \in Nat, NEW piece \in [Nat -> Row], NEW i \in Nat
    PROVE  LET rest == RestOf(piece, first, end)[i] IN
           /\ rest \in Seq(Row)
           /\ Len(rest) = WeeksFrom(first + 7 * i, end)
           /\ \A k \in 1..Len(rest) : rest[k] = piece[(i + k) - 1]
  <1> DEFINE n == WeeksFrom(first + 7 * i, end)
             rest == [k \in 1..n |-> piece[(i + k) - 1]]
  <1>1. RestOf(piece, first, end)[i] = rest
    BY DEF RestOf
  <1>2. n \in Nat
    BY WeeksLeft
  <1> HIDE DEF n
  <1>3. \A k \in 1..n : (i + k) - 1 \in Nat
    BY <1>2
  <1>4. rest \in [1..n -> Row] /\ \A k \in 1..n : rest[k] = piece[(i + k) - 1]
    BY <1>3
  <1> HIDE DEF rest
  <1>5. rest \in Seq(Row) /\ Len(rest) = n
    <2>1. rest \in Seq(Row)
      BY <1>2, <1>4, SeqDef
    <2> QED BY <1>2, <1>4, <2>1, LenProperties
  <1> QED BY <1>1, <1>4, <1>5 DEF n

\* The first session of a week before those of the weeks after it.
LEMMA RestGrows ==
    ASSUME NEW first \in Nat, NEW end \in Nat, NEW piece \in [Nat -> Row], NEW i \in Nat,
           first + 7 * i <= end
    PROVE  RestOf(piece, first, end)[i] = <<piece[i]>> \o RestOf(piece, first, end)[i + 1]
  <1> DEFINE now == RestOf(piece, first, end)[i]
             next == RestOf(piece, first, end)[i + 1]
             one == <<piece[i]>>
  <1>1. /\ now \in Seq(Row) /\ next \in Seq(Row)
        /\ Len(now) = Len(next) + 1 /\ Len(next) \in Nat
        /\ \A k \in 1..Len(now) : now[k] = piece[(i + k) - 1]
        /\ \A k \in 1..Len(next) : next[k] = piece[((i + 1) + k) - 1]
    <2>1. i + 1 \in Nat
      OBVIOUS
    <2>2. WeeksFrom(first + 7 * i, end) = WeeksFrom(first + 7 * (i + 1), end) + 1
      BY WeeksLeft
    <2>3. WeeksFrom(first + 7 * (i + 1), end) \in Nat
      BY <2>1, WeeksLeft
    <2>4. /\ now \in Seq(Row) /\ Len(now) = WeeksFrom(first + 7 * i, end)
          /\ \A k \in 1..Len(now) : now[k] = piece[(i + k) - 1]
      BY RestIsSeq
    <2> DEFINE j == i + 1
    <2>5. /\ next \in Seq(Row) /\ Len(next) = WeeksFrom(first + 7 * j, end)
          /\ \A k \in 1..Len(next) : next[k] = piece[(j + k) - 1]
      <3>1. j \in Nat /\ next = RestOf(piece, first, end)[j]
        BY <2>1
      <3>2. ASSUME NEW m \in Nat PROVE RestOf(piece, first, end)[m] \in Seq(Row)
        BY RestIsSeq
      <3>3. ASSUME NEW m \in Nat
            PROVE  Len(RestOf(piece, first, end)[m]) = WeeksFrom(first + 7 * m, end)
        BY ONLY RestIsSeq, first \in Nat, end \in Nat, piece \in [Nat -> Row]
      <3>4. \A m \in Nat : \A k \in 1..WeeksFrom(first + 7 * m, end) :
              RestOf(piece, first, end)[m][k] = piece[(m + k) - 1]
        BY DEF RestOf
      <3> HIDE DEF j, next
      <3> QED BY <3>1, <3>2, <3>3, <3>4
    <2> HIDE DEF now, next
    <2> QED BY <2>2, <2>3, <2>4, <2>5
  <1>2. one \in Seq(Row) /\ Len(one) = 1 /\ one[1] = piece[i]
    OBVIOUS
  <1> HIDE DEF now, next, one
  <1>a. one \in Seq(Row) /\ next \in Seq(Row)
    BY <1>1, <1>2
  <1>b. /\ one \o next \in Seq(Row) /\ Len(one \o next) = Len(one) + Len(next)
        /\ \A k \in 1..Len(one) + Len(next) :
              (one \o next)[k] = IF k <= Len(one) THEN one[k] ELSE next[k - Len(one)]
    BY <1>a, ConcatProperties
  <1>3. /\ one \o next \in Seq(Row) /\ Len(one \o next) = 1 + Len(next)
        /\ \A k \in 1..1 + Len(next) :
              (one \o next)[k] = IF k <= 1 THEN one[k] ELSE next[k - 1]
    BY <1>2, <1>b
  <1>4. ASSUME NEW k \in 1..Len(now) PROVE now[k] = (one \o next)[k]
    <2>1. CASE k = 1
      <3>1. (i + 1) - 1 = i /\ 1 \in 1..1 + Len(next)
        BY <1>1
      <3> QED BY <1>1, <1>2, <1>3, <2>1, <3>1
    <2>2. CASE k # 1
      <3>1. k - 1 \in 1..Len(next) /\ k \in 1..1 + Len(next) /\ ~(k <= 1)
        BY <1>1, <2>2
      <3>2. ((i + 1) + (k - 1)) - 1 = (i + k) - 1
        BY <3>1
      <3>3. next[k - 1] = piece[(i + k) - 1]
        BY <1>1, <3>1, <3>2
      <3> QED BY <1>1, <1>3, <3>1, <3>3
    <2> QED BY <2>1, <2>2
  <1>5. now = one \o next
    <2> DEFINE both == one \o next
    <2>1. both \in Seq(Row) /\ Len(both) = Len(now) /\ \A k \in 1..Len(now) : now[k] = both[k]
      BY <1>1, <1>3, <1>4
    <2> HIDE DEF both
    <2>2. now = both
      BY <1>1, <2>1, SeqEqual
    <2> QED BY <2>2 DEF both
  <1> QED BY <1>5 DEF now, next, one

\* The loop has a solution, RestOf ...
LEMMA RestTurns ==
    ASSUME NEW first \in Nat, NEW end \in Nat, NEW piece \in [Nat -> Row]
    PROVE  RestOf(piece, first, end) = TurnOf(piece, first, end, RestOf(piece, first, end))
  <1> DEFINE rest == RestOf(piece, first, end)
  <1>1. ASSUME NEW i \in Nat
        PROVE  rest[i] = IF first + 7 * i > end THEN <<>> ELSE <<piece[i]>> \o rest[i + 1]
    <2>1. CASE first + 7 * i > end
      <3>1. WeeksFrom(first + 7 * i, end) = 0
        BY <2>1, WeeksLeft
      <3>2. rest[i] \in Seq(Row) /\ Len(rest[i]) = 0
        BY <3>1, RestIsSeq
      <3> HIDE DEF rest
      <3>3. rest[i] = <<>>
        BY <3>2, EmptySeq
      <3> QED BY <2>1, <3>3
    <2>2. CASE ~(first + 7 * i > end)
      <3>1. first + 7 * i <= end
        BY <2>2
      <3>2. rest[i] = <<piece[i]>> \o rest[i + 1]
        BY <3>1, RestGrows
      <3> HIDE DEF rest
      <3> QED BY <2>2, <3>2
    <2> QED BY <2>1, <2>2
  <1>2. rest = [i \in Nat |-> rest[i]]
    BY DEF RestOf
  <1> HIDE DEF rest
  <1>3. rest = TurnOf(piece, first, end, rest)
    BY <1>1, <1>2 DEF TurnOf
  <1> QED BY <1>3 DEF rest

\* ... and no other: there is no least number of weeks left on which two
\* solutions differ.
LEMMA TurnsAgree ==
    ASSUME NEW first \in Nat, NEW end \in Nat, NEW piece \in [Nat -> Row],
           NEW f, f = TurnOf(piece, first, end, f), NEW i \in Nat
    PROVE  f[i] = RestOf(piece, first, end)[i]
  <1> DEFINE rest == RestOf(piece, first, end)
             weeks(j) == WeeksFrom(first + 7 * j, end)
             Apart == {j \in Nat : f[j] # rest[j]}
             Left == {weeks(j) : j \in Apart}
  <1>1. ASSUME NEW j \in Nat
        PROVE  /\ f[j] = IF first + 7 * j > end THEN <<>> ELSE <<piece[j]>> \o f[j + 1]
               /\ rest[j] = IF first + 7 * j > end THEN <<>> ELSE <<piece[j]>> \o rest[j + 1]
    <2>1. f = TurnOf(piece, first, end, f) /\ rest = TurnOf(piece, first, end, rest)
      BY RestTurns
    <2> HIDE DEF rest
    <2> QED BY <2>1 DEF TurnOf
  <1>2. ASSUME Apart # {} PROVE FALSE
    <2>1. Left \subseteq Nat /\ Left # {}
      BY <1>2, WeeksLeft
    <2> HIDE DEF Left
    <2>2. PICK n \in Left : \A m \in Left : n <= m
      BY <2>1, NatMin
    <2>3. PICK j \in Nat : j \in Apart /\ n = weeks(j)
      BY DEF Left
    <2>4. first + 7 * j <= end
      <3> HIDE DEF rest
      <3>1. ~(first + 7 * j > end)
        BY <1>1, <2>3
      <3> QED BY <3>1
    <2>5. weeks(j) = weeks(j + 1) + 1 /\ weeks(j + 1) \in Nat /\ j + 1 \in Nat
      <3>1. j + 1 \in Nat
        OBVIOUS
      <3>2. WeeksFrom(first + 7 * (j + 1), end) \in Nat
        BY <3>1, WeeksLeft
      <3>3. WeeksFrom(first + 7 * j, end) = WeeksFrom(first + 7 * (j + 1), end) + 1
        BY <2>4, WeeksLeft
      <3> QED BY <3>1, <3>2, <3>3
    <2>6. j + 1 \notin Apart
      <3>1. ASSUME j + 1 \in Apart PROVE FALSE
        <4>1. weeks(j + 1) \in Left
          BY <3>1 DEF Left
        <4> HIDE DEF weeks, Apart
        <4> QED BY <2>2, <2>3, <2>5, <4>1
      <3> QED BY <3>1
    <2>7. f[j + 1] = rest[j + 1]
      BY <2>5, <2>6
    <2> HIDE DEF rest
    <2>8. f[j] = rest[j]
      BY <1>1, <2>7
    <2> QED BY <2>3, <2>8
  <1> HIDE DEF rest
  <1>3. f[i] = rest[i]
    BY <1>2
  <1> QED BY <1>3 DEF rest

\* The first day of the first week, the last day of a week's session, and the
\* session of the week number `index`.
FirstDay(p) ==
    IF p.weekLong THEN p.start
    ELSE CHOOSE day \in p.start..(p.start + 6) : Weekday(day) = p.dow
LastDayFrom(p, day) ==
    IF p.weekLong THEN IF day + 6 > p.end THEN p.end ELSE day + 6 ELSE day + 1
PieceOf(p) ==
    [index \in Nat |-> LET day == FirstDay(p) + 7 * index IN
                       Slot(p, day, LastDayFrom(p, day), index)]

\* Some day of any seven in a row is the one of the week the net meets on.
LEMMA FirstDayRight ==
    ASSUME NEW p \in Plan
    PROVE  /\ FirstDay(p) \in Nat /\ p.start <= FirstDay(p)
           /\ p.weekLong => FirstDay(p) = p.start
           /\ ~p.weekLong => FirstDay(p) <= p.start + 6 /\ FirstDay(p) % 7 = p.dow
  <1>1. p.start \in Nat /\ p.dow \in 0..6 /\ p.weekLong \in BOOLEAN
    BY DEF Plan
  <1>2. CASE p.weekLong
    BY <1>1, <1>2 DEF FirstDay
  <1>3. CASE ~p.weekLong
    <2> DEFINE start == p.start
               dow == p.dow
               Right(day) == Weekday(day) = dow
    <2>1. \E day \in start..(start + 6) : Right(day)
      <3> DEFINE day == start + (((dow + 7) - (start % 7)) % 7)
      <3>1. start \in Nat /\ dow \in 0..6
        BY <1>1
      <3> HIDE DEF start, dow
      <3>2. start % 7 \in 0..6 /\ ((dow + 7) - (start % 7)) % 7 \in 0..6
        BY <3>1
      <3>3. day \in start..(start + 6)
        BY <3>1, <3>2
      <3>4. day % 7 = dow
        BY <3>1
      <3>5. Right(day)
        BY <3>4 DEF Weekday
      <3> HIDE DEF day, Right
      <3> QED BY <3>3, <3>5
    <2>2. FirstDay(p) = CHOOSE day \in start..(start + 6) : Right(day)
      BY <1>3 DEF FirstDay
    <2> HIDE DEF Right
    <2>3. FirstDay(p) \in start..(start + 6) /\ Right(FirstDay(p))
      BY <2>1, <2>2, Zenon
    <2> USE DEF Right
    <2> QED BY <1>1, <1>3, <2>3 DEF Weekday
  <1> QED BY <1>1, <1>2, <1>3

\* Every week's session is a row.
LEMMA PieceIsRow ==
    ASSUME NEW p \in Plan
    PROVE  PieceOf(p) \in [Nat -> Row]
  <1>1. FirstDay(p) \in Nat /\ p.end \in Nat
    BY FirstDayRight DEF Plan
  <1>2. ASSUME NEW index \in Nat
        PROVE  LET day == FirstDay(p) + 7 * index IN
               Slot(p, day, LastDayFrom(p, day), index) \in Row
    <2> DEFINE day == FirstDay(p) + 7 * index
    <2>1. day \in Nat
      BY <1>1
    <2> HIDE DEF day
    <2>2. LastDayFrom(p, day) \in Nat
      BY <1>1, <2>1 DEF LastDayFrom
    <2>3. SlotType(p, index) \in Types
      BY DEF SlotType, Types
    <2>4. Slot(p, day, LastDayFrom(p, day), index) \in Row
      BY <2>1, <2>2, <2>3 DEF Slot, Row, Statuses
    <2> QED BY <2>4 DEF day
  <1> QED BY <1>2 DEF PieceOf

\* generate_sessions makes the sessions of all weeks from the first on.
LEMMA SlotsShape ==
    ASSUME NEW p \in Plan
    PROVE  Slots(p) = RestOf(PieceOf(p), FirstDay(p), p.end)[0]
  <1>1. FirstDay(p) \in Nat /\ p.end \in Nat /\ PieceOf(p) \in [Nat -> Row]
    BY FirstDayRight, PieceIsRow DEF Plan
  <1> DEFINE Turn(g) == TurnOf(PieceOf(p), FirstDay(p), p.end, g)
  <1>2. \E g : g = Turn(g)
    <2>1. RestOf(PieceOf(p), FirstDay(p), p.end) = Turn(RestOf(PieceOf(p), FirstDay(p), p.end))
      BY <1>1, RestTurns
    <2> HIDE DEF Turn
    <2> QED BY <2>1
  <1>3. CASE ~p.weekLong
    <2> DEFINE first == CHOOSE day \in p.start..(p.start + 6) : Weekday(day) = p.dow
               Body(g) == [index \in Nat |->
                             LET day == first + 7 * index
                             IN  IF day > p.end THEN <<>>
                                 ELSE <<Slot(p, day, day + 1, index)>> \o g[index + 1]]
               f == CHOOSE g : g = Body(g)
    <2>1. Slots(p) = f[0]
      BY <1>3, Zenon DEF Slots, WeeklySlots
    <2>2. ASSUME NEW g PROVE Body(g) = Turn(g)
      <3>1. FirstDay(p) = first
        BY <1>3 DEF FirstDay
      <3>2. \A index \in Nat : PieceOf(p)[index] =
               Slot(p, first + 7 * index, (first + 7 * index) + 1, index)
        BY <1>3, <3>1 DEF PieceOf, LastDayFrom
      <3> HIDE DEF first
      <3> QED BY <3>1, <3>2 DEF TurnOf
    <2> HIDE DEF Body, Turn
    <2>3. f = Turn(f)
      <3>1. \E g : g = Body(g)
        BY <1>2, <2>2
      <3>2. f = Body(f)
        BY <3>1, Zenon
      <3> QED BY <2>2, <3>2
    <2> HIDE DEF f
    <2>4. f = TurnOf(PieceOf(p), FirstDay(p), p.end, f)
      BY <2>3 DEF Turn
    <2>5. f[0] = RestOf(PieceOf(p), FirstDay(p), p.end)[0]
      BY <1>1, <2>4, TurnsAgree
    <2> QED BY <2>1, <2>5
  <1>4. CASE p.weekLong
    <2> DEFINE Body(g) == [index \in Nat |->
                             LET day == p.start + 7 * index
                                 last == IF day + 6 > p.end THEN p.end ELSE day + 6
                             IN  IF day > p.end THEN <<>>
                                 ELSE <<Slot(p, day, last, index)>> \o g[index + 1]]
               f == CHOOSE g : g = Body(g)
    <2>1. Slots(p) = f[0]
      BY <1>4, Zenon DEF Slots, WeekLongSlots
    <2>2. ASSUME NEW g PROVE Body(g) = Turn(g)
      <3>1. FirstDay(p) = p.start
        BY <1>4 DEF FirstDay
      <3>2. \A index \in Nat : PieceOf(p)[index] =
               Slot(p, p.start + 7 * index,
                    IF (p.start + 7 * index) + 6 > p.end THEN p.end ELSE (p.start + 7 * index) + 6,
                    index)
        BY <1>4, <3>1 DEF PieceOf, LastDayFrom
      <3> QED BY <3>1, <3>2 DEF TurnOf
    <2> HIDE DEF Body, Turn
    <2>3. f = Turn(f)
      <3>1. \E g : g = Body(g)
        BY <1>2, <2>2
      <3>2. f = Body(f)
        BY <3>1, Zenon
      <3> QED BY <2>2, <3>2
    <2> HIDE DEF f
    <2>4. f = TurnOf(PieceOf(p), FirstDay(p), p.end, f)
      BY <2>3 DEF Turn
    <2>5. f[0] = RestOf(PieceOf(p), FirstDay(p), p.end)[0]
      BY <1>1, <2>4, TurnsAgree
    <2> QED BY <2>1, <2>5
  <1>5. p.weekLong \in BOOLEAN
    BY DEF Plan
  <1> QED BY <1>3, <1>4, <1>5

\* They are a sequence of rows, one for each week.
LEMMA SlotsAre ==
    ASSUME NEW p \in Plan
    PROVE  /\ Slots(p) \in Seq(Row)
           /\ Len(Slots(p)) = WeeksFrom(FirstDay(p), p.end)
           /\ \A k \in 1..Len(Slots(p)) : Slots(p)[k] = PieceOf(p)[k - 1]
  <1> DEFINE rest == RestOf(PieceOf(p), FirstDay(p), p.end)
  <1>1. FirstDay(p) \in Nat /\ p.end \in Nat /\ PieceOf(p) \in [Nat -> Row]
    BY FirstDayRight, PieceIsRow DEF Plan
  <1>2. Slots(p) = rest[0] /\ 0 \in Nat /\ FirstDay(p) + 7 * 0 = FirstDay(p)
    BY <1>1, SlotsShape
  <1>3. rest[0] \in Seq(Row)
    BY <1>1, <1>2, RestIsSeq
  <1>4. Len(rest[0]) = WeeksFrom(FirstDay(p) + 7 * 0, p.end)
    BY <1>1, <1>2, RestIsSeq
  <1>5. \A k \in 1..WeeksFrom(FirstDay(p) + 7 * 0, p.end) : rest[0][k] = PieceOf(p)[(0 + k) - 1]
    BY <1>2 DEF RestOf
  <1>6. \A k \in 1..Len(rest[0]) : (0 + k) - 1 = k - 1
    <2>1. Len(rest[0]) \in Nat
      BY <1>3, LenProperties
    <2> QED BY <2>1
  <1> HIDE DEF rest
  <1> QED BY <1>2, <1>3, <1>4, <1>5, <1>6

------------------------------------------------------------------------------
(* Types, and what a handler holds between two of its commits *)

\* Nothing but the handler itself touches the season and the sessions while
\* it is between two commits: it inserts into a season that is there, and
\* writes and tells of drafts of sessions that are there.
Holding ==
    /\ busy.who = "season" => season \in Plan
    /\ busy.who \notin {"request", "loop"} => busy.untold = None
    /\ \A d \in busy.todo : Present(d[2])
    /\ busy.untold # None => Present(busy.untold[2])

\* A handler that does nothing holds nothing.
LEMMA NobodyTyped ==
    /\ Nobody \in Busy /\ Nobody.who = "nobody" /\ Nobody.todo = {} /\ Nobody.untold = None
  BY DEF Nobody, Busy

\* So the types hold initially, the budget being one of Budgets.
LEMMA TypeInit == Init => TypeOK /\ Holding
  <1> SUFFICES ASSUME Init PROVE TypeOK /\ Holding
    OBVIOUS
  <1> USE BoundAssumption, RequestAssumption DEF Init
  <1>1. clock \in [day: 0..LastDay, part: Parts] /\ season \in Plan \cup {None}
    BY DEF Parts
  <1>2. templates \in [TemplateIds -> Template \cup {None}]
    <2>1. DOMAIN Seeds = 1..3
      BY DEF Seeds
    <2>2. \A t \in 1..3 : Seeds[t] \in Template
      <3>1. /\ Seeds[1] = [kind |-> "regular_checkin", default |-> TRUE]
            /\ Seeds[2] = [kind |-> "activity", default |-> FALSE]
            /\ Seeds[3] = [kind |-> "roster", default |-> TRUE]
        BY DEF Seeds
      <3>2. \A kind \in TemplateKinds, default \in BOOLEAN :
              [kind |-> kind, default |-> default] \in Template
        BY DEF Template
      <3>3. {"regular_checkin", "activity", "roster"} \subseteq TemplateKinds
        BY DEF TemplateKinds, SessionKinds
      <3>4. Seeds[1] \in Template /\ Seeds[2] \in Template /\ Seeds[3] \in Template
        BY <3>1, <3>2, <3>3
      <3>5. \A t \in 1..3 : t = 1 \/ t = 2 \/ t = 3
        OBVIOUS
      <3> QED BY <3>4, <3>5
    <2> HIDE DEF Seeds
    <2> QED BY <2>1, <2>2
  <1>3. /\ sessions \in [Ids -> Row \cup {None}]
        /\ drafts \in [Draft -> {"none", "draft", "approved", "sent", "skipped"}]
        /\ mailed \in [Ids -> SUBSET MailKinds]
        /\ unread \subseteq Users \X Draft
    OBVIOUS
  <1>4. /\ activities \in [ActivityIds -> Chats \cup {None, Absent}]
        /\ chats \in [Chats -> ActivityIds \cup {None, Absent}]
        /\ asked \in [Operators -> 0..UserLimit]
    OBVIOUS
  <1>5. busy \in Busy /\ Holding
    BY NobodyTyped DEF Holding
  <1>6. loop \in Loop
    BY DEF Asleep, Loop, Parts
  <1>7. /\ sends \in [Ids -> [MailKinds -> 0..2]]
        /\ lost \subseteq Ids \X MailKinds
        /\ told \subseteq Draft /\ missed \subseteq Draft /\ adopted \subseteq Draft
        /\ unaddressed \subseteq Draft
    OBVIOUS
  <1>8. plans \subseteq Plan /\ left \in [Sorts -> Nat]
    OBVIOUS
  <1> QED BY <1>1, <1>2, <1>3, <1>4, <1>5, <1>6, <1>7, <1>8 DEF TypeOK

\* A request less of its sort.
LEMMA SpendTyped ==
    ASSUME left \in [Sorts -> Nat], NEW sort \in Sorts, Spend(sort)
    PROVE  left' \in [Sorts -> Nat]
  BY DEF Spend

\* Rows enter under fresh ids.
LEMMA InsertTyped ==
    ASSUME TypeOK, NEW rows \in Seq(Row), NEW nco \in Operators \cup {None}, Insert(rows, nco)
    PROVE  /\ sessions' \in [Ids -> Row \cup {None}]
           /\ sends' \in [Ids -> [MailKinds -> 0..2]]
           /\ lost' \subseteq Ids \X MailKinds
           /\ told' \subseteq Draft /\ missed' \subseteq Draft /\ adopted' \subseteq Draft
           /\ unaddressed' \subseteq Draft
  <1>1. PICK i \in Ids :
           LET fresh == i..(i + Len(rows) - 1)
               inherited == {d \in Draft : d[2] \in fresh /\ drafts[d] # "none"} IN
           /\ sessions' = [j \in Ids |-> IF j \in fresh
                                         THEN [rows[j - i + 1] EXCEPT !.nco = nco]
                                         ELSE sessions[j]]
           /\ sends' = [j \in Ids |-> IF j \in fresh THEN [k \in MailKinds |-> 0] ELSE sends[j]]
           /\ lost' = {m \in lost : m[1] \notin fresh}
           /\ told' = {d \in told : d[2] \notin fresh}
           /\ missed' = {d \in missed : d[2] \notin fresh}
           /\ unaddressed' = {d \in unaddressed : d[2] \notin fresh}
           /\ adopted' = {d \in adopted : d[2] \notin fresh} \cup inherited
    BY DEF Insert
  <1> DEFINE n == Len(rows)
             fresh == i..(i + n - 1)
  <1>2. i \in Nat /\ n \in Nat
    BY BoundAssumption, LenProperties DEF Ids
  <1>3. ASSUME NEW j \in fresh PROVE [rows[j - i + 1] EXCEPT !.nco = nco] \in Row
    <2>1. j - i + 1 \in 1..n
      <3> HIDE DEF n
      <3> QED BY <1>2
    <2> DEFINE row == rows[j - i + 1]
    <2>2. row \in Row
      BY <2>1, ElementOfSeq
    <2> HIDE DEF row
    <2>3. [row EXCEPT !.nco = nco] \in Row
      BY <2>2 DEF Row
    <2> QED BY <2>3 DEF row
  <1>4. sessions' = [j \in Ids |-> IF j \in fresh THEN [rows[j - i + 1] EXCEPT !.nco = nco]
                                   ELSE sessions[j]]
    BY <1>1
  <1>5. sessions' \in [Ids -> Row \cup {None}]
    <2> HIDE DEF fresh
    <2> QED BY <1>3, <1>4 DEF TypeOK
  <1>6. sends' \in [Ids -> [MailKinds -> 0..2]]
    <2>1. sends' = [j \in Ids |-> IF j \in fresh THEN [k \in MailKinds |-> 0] ELSE sends[j]]
      BY <1>1
    <2> HIDE DEF fresh
    <2> QED BY <2>1 DEF TypeOK
  <1>7. /\ lost' \subseteq Ids \X MailKinds
        /\ told' \subseteq Draft /\ missed' \subseteq Draft /\ adopted' \subseteq Draft
        /\ unaddressed' \subseteq Draft
    BY <1>1 DEF TypeOK
  <1> QED BY <1>5, <1>6, <1>7

\* The cycle goes on over mails about sessions.
LEMMA GoOnTyped ==
    ASSUME TypeOK, NEW part \in Parts, NEW tomorrow \in Nat, NEW list \in SUBSET Mail,
           GoOn(part, tomorrow, list)
    PROVE  loop' \in Loop /\ sends' \in [Ids -> [MailKinds -> 0..2]]
  <1>1. CASE loop' = Asleep /\ UNCHANGED sends
    BY <1>1 DEF Asleep, Loop, Parts, TypeOK
  <1>2. ASSUME NEW m \in list, NEW passed \in SUBSET list, Wanted(m, part),
               loop' = [pc |-> "mailing", tomorrow |-> tomorrow, part |-> part,
                        todo |-> list \ (passed \cup {m}), mail |-> m],
               sends' = [sends EXCEPT ![m.id][part] = IF @ = 2 THEN 2 ELSE @ + 1]
        PROVE  loop' \in Loop /\ sends' \in [Ids -> [MailKinds -> 0..2]]
    <2>1. loop' \in Loop
      <3>1. list \ (passed \cup {m}) \in SUBSET Mail /\ m \in Mail
        OBVIOUS
      <3> QED BY <1>2, <3>1 DEF Loop
    <2>2. m.id \in Ids /\ part \in MailKinds
      BY <1>2 DEF Wanted, Mail
    <2> DEFINE n == IF sends[m.id][part] = 2 THEN 2 ELSE sends[m.id][part] + 1
               row == [sends[m.id] EXCEPT ![part] = n]
    <2>3. n \in 0..2
      <3>1. sends[m.id] \in [MailKinds -> 0..2] /\ sends[m.id][part] \in 0..2
        BY <2>2 DEF TypeOK
      <3> QED BY <3>1
    <2> HIDE DEF n
    <2>4. row \in [MailKinds -> 0..2]
      BY <2>2, <2>3 DEF TypeOK
    <2>5. sends' = [sends EXCEPT ![m.id] = row]
      BY <1>2 DEF n
    <2> HIDE DEF row
    <2>6. sends' \in [Ids -> [MailKinds -> 0..2]]
      BY <2>2, <2>4, <2>5 DEF TypeOK
    <2> QED BY <2>1, <2>6
  <1> QED BY <1>1, <1>2 DEF GoOn

\* Requests about templates keep them templates.
LEMMA TemplatesTyped ==
    ASSUME TypeOK, EditTemplates
    PROVE  /\ templates' \in [TemplateIds -> Template \cup {None}]
           /\ left' \in [Sorts -> Nat]
           /\ UNCHANGED <<clock, calendarVars, draftVars, mailVars, chatVars, busy, adopted>>
  <1>1. /\ UNCHANGED <<clock, calendarVars, draftVars, mailVars, chatVars, busy, adopted>>
        /\ Spend("template")
    BY DEF EditTemplates, CreateReminderTemplate, CreateRosterTemplate, UpdateReminderTemplate,
           UpdateRosterTemplate, DeleteReminderTemplate, DeleteRosterTemplate, AddTemplate,
           SetTemplate, RemoveTemplate, TemplateRequest
  <1>2. left' \in [Sorts -> Nat]
    BY <1>1, SpendTyped DEF TypeOK, Sorts
  <1>3. ASSUME NEW kind PROVE Cleared(kind) \in [TemplateIds -> Template \cup {None}]
    <2>1. \A t \in TemplateIds : templates[t] # None => [templates[t] EXCEPT !.default = FALSE] \in Template
      BY DEF TypeOK, Template
    <2> QED BY <2>1 DEF Cleared, TypeOK
  <1>4. ASSUME NEW t \in TemplateIds, NEW new \in Template, AddTemplate(t, new)
        PROVE  templates' \in [TemplateIds -> Template \cup {None}]
    BY <1>3, <1>4 DEF AddTemplate, TypeOK
  <1>5. ASSUME NEW t \in TemplateIds, NEW kind \in TemplateKinds, NEW default,
               templates[t] # None, SetTemplate(t, kind, default)
        PROVE  templates' \in [TemplateIds -> Template \cup {None}]
    <2> DEFINE base == IF default = "yes" THEN Cleared(kind) ELSE templates
               flag == default = "yes" \/ (default = "keep" /\ templates[t].default)
               new == [kind |-> kind, default |-> flag]
    <2>1. base \in [TemplateIds -> Template \cup {None}]
      BY <1>3 DEF TypeOK
    <2>2. templates[t].default \in BOOLEAN
      BY <1>5 DEF TypeOK, Template
    <2>3. flag \in BOOLEAN
      BY <2>2, Zenon
    <2>4. templates' = [base EXCEPT ![t] = new]
      BY <1>5, Zenon DEF SetTemplate
    <2> HIDE DEF base, flag
    <2>5. new \in Template
      BY <2>3 DEF Template
    <2> HIDE DEF new
    <2> QED BY <2>1, <2>4, <2>5
  <1>6. ASSUME NEW t \in TemplateIds, RemoveTemplate(t)
        PROVE  templates' \in [TemplateIds -> Template \cup {None}]
    BY <1>6 DEF RemoveTemplate, TypeOK
  <1>7. templates' \in [TemplateIds -> Template \cup {None}]
    <2> USE DEF TemplateKinds
    <2>1. PICK t \in TemplateIds :
            \/ \E type \in SessionKinds, default \in BOOLEAN : CreateReminderTemplate(t, type, default)
            \/ \E default \in BOOLEAN : CreateRosterTemplate(t, default)
            \/ \E type \in SessionKinds, default \in {"keep", "yes", "no"} :
                  UpdateReminderTemplate(t, type, default)
            \/ \E default \in {"keep", "yes", "no"} : UpdateRosterTemplate(t, default)
            \/ DeleteReminderTemplate(t) \/ DeleteRosterTemplate(t)
      BY DEF EditTemplates
    <2>2. ASSUME NEW kind \in TemplateKinds, NEW default \in BOOLEAN
          PROVE  [kind |-> kind, default |-> default] \in Template
      BY DEF Template
    <2>3. CASE \E type \in SessionKinds, default \in BOOLEAN : CreateReminderTemplate(t, type, default)
      BY <1>4, <2>2, <2>3 DEF CreateReminderTemplate
    <2>4. CASE \E default \in BOOLEAN : CreateRosterTemplate(t, default)
      BY <1>4, <2>2, <2>4 DEF CreateRosterTemplate
    <2>5. CASE \/ \E type \in SessionKinds, default \in {"keep", "yes", "no"} :
                     UpdateReminderTemplate(t, type, default)
               \/ \E default \in {"keep", "yes", "no"} : UpdateRosterTemplate(t, default)
      BY <1>5, <2>5 DEF UpdateReminderTemplate, UpdateRosterTemplate, IsTemplate
    <2>6. CASE DeleteReminderTemplate(t) \/ DeleteRosterTemplate(t)
      BY <1>6, <2>6 DEF DeleteReminderTemplate, DeleteRosterTemplate
    <2> QED BY <2>1, <2>3, <2>4, <2>5, <2>6
  <1> QED BY <1>1, <1>2, <1>7

\* Whoever a session's notices go to is a user, if anybody.
LEMMA RecipientTyped ==
    ASSUME TypeOK, NEW i \in Ids, Present(i)
    PROVE  Recipient(sessions[i].nco) \in Users \cup {None}
  BY DEF TypeOK, Present, Recipient, Row, Users

\* The steps on seasons and sessions.
LEMMA CalendarTyped ==
    ASSUME TypeOK, UNCHANGED admin, Holding,
           \/ \E p \in plans : CreateSeason(p)
           \/ InsertSessions
           \/ \E s \in Standalone, inSeason \in BOOLEAN : CreateSession(s, inSeason)
           \/ \E i \in Ids : UpdateSession(i)
           \/ DeleteSeason
    PROVE  TypeOK' /\ Holding'
  <1> USE DEF calendarVars, draftVars, mailVars, chatVars
  <1>1. ASSUME NEW p \in plans, CreateSeason(p) PROVE TypeOK' /\ Holding'
    <2>1. season' \in Plan /\ left' \in [Sorts -> Nat]
      BY <1>1, SpendTyped DEF CreateSeason, TypeOK, Sorts
    <2>2. busy' = [who |-> "season", todo |-> {}, untold |-> None, chat |-> None]
      BY <1>1 DEF CreateSeason, Nobody
    <2>3. busy' \in Busy /\ Holding'
      BY <2>1, <2>2 DEF Busy, Holding
    <2> QED BY <1>1, <2>1, <2>3 DEF CreateSeason, TypeOK
  <1>2. CASE InsertSessions
    <2>1. PICK nco \in Operators \cup {None} : Insert(Slots(season), nco)
      BY <1>2 DEF InsertSessions
    <2>2. Slots(season) \in Seq(Row)
      BY <1>2, SlotsAre DEF InsertSessions, Holding
    <2>3. /\ busy' = Nobody
          /\ UNCHANGED <<clock, season, plans, templates, drafts, unread, mailed, loop,
                         activities, chats, asked, left>>
      BY <1>2 DEF InsertSessions
    <2>4. Holding'
      BY <2>3, NobodyTyped DEF Holding
    <2>5. TypeOK'
      <3>1. /\ sessions' \in [Ids -> Row \cup {None}]
            /\ sends' \in [Ids -> [MailKinds -> 0..2]]
            /\ lost' \subseteq Ids \X MailKinds
            /\ told' \subseteq Draft /\ missed' \subseteq Draft /\ adopted' \subseteq Draft
            /\ unaddressed' \subseteq Draft
        BY <2>1, <2>2, InsertTyped
      <3> QED BY <2>3, <3>1, NobodyTyped DEF TypeOK
    <2> QED BY <2>4, <2>5
  <1>3. ASSUME NEW s \in Standalone, NEW inSeason \in BOOLEAN, CreateSession(s, inSeason)
        PROVE  TypeOK' /\ Holding'
    <2> DEFINE row == [season |-> inSeason, start |-> s.start, end |-> s.end, type |-> s.type,
                       status |-> "scheduled", nco |-> None]
               rows == <<row>>
    <2>1. PICK nco \in Operators \cup {None} : Insert(rows, nco)
      BY <1>3 DEF CreateSession
    <2>2. row \in Row
      BY RequestAssumption DEF Row, Statuses
    <2> HIDE DEF row
    <2>3. rows \in Seq(Row)
      BY <2>2
    <2> HIDE DEF rows
    <2>4. /\ busy = Nobody /\ Spend("single")
          /\ UNCHANGED <<clock, season, plans, templates, drafts, unread, mailed, loop,
                         activities, chats, asked, busy>>
      BY <1>3 DEF CreateSession, LoopFree
    <2>5. Holding'
      BY <2>4, NobodyTyped DEF Holding
    <2>6. TypeOK'
      <3>1. /\ sessions' \in [Ids -> Row \cup {None}]
            /\ sends' \in [Ids -> [MailKinds -> 0..2]]
            /\ lost' \subseteq Ids \X MailKinds
            /\ told' \subseteq Draft /\ missed' \subseteq Draft /\ adopted' \subseteq Draft
            /\ unaddressed' \subseteq Draft
        BY <2>1, <2>3, InsertTyped
      <3>2. left' \in [Sorts -> Nat]
        BY <2>4, SpendTyped DEF TypeOK, Sorts
      <3> QED BY <2>4, <3>1, <3>2 DEF TypeOK
    <2> QED BY <2>5, <2>6
  <1>4. ASSUME NEW i \in Ids, UpdateSession(i) PROVE TypeOK' /\ Holding'
    <2>1. PICK row \in Edits(sessions[i]) : sessions' = [sessions EXCEPT ![i] = row]
      BY <1>4 DEF UpdateSession
    <2>2. row \in Row
      <3> DEFINE old == sessions[i]
      <3>1. old \in Row
        BY <1>4 DEF UpdateSession, Present, TypeOK
      <3> HIDE DEF old
      <3>2. /\ \A status \in Statuses : [old EXCEPT !.status = status] \in Row
            /\ \A type \in Types : [old EXCEPT !.type = type] \in Row
            /\ \A nco \in Operators : [old EXCEPT !.nco = nco] \in Row
        BY <3>1 DEF Row
      <3>3. [old EXCEPT !.end = old.start + 2] \in Row
        BY <3>1 DEF Row
      <3>4. row \in Edits(old)
        BY <2>1 DEF old
      <3> QED BY <3>2, <3>3, <3>4 DEF Edits
    <2>3. sessions' \in [Ids -> Row \cup {None}]
      BY <2>1, <2>2 DEF TypeOK
    <2>4. left' \in [Sorts -> Nat]
      BY <1>4, SpendTyped DEF UpdateSession, TypeOK, Sorts
    <2>5. busy = Nobody /\ UNCHANGED busy
      BY <1>4 DEF UpdateSession, LoopFree
    <2> QED BY <1>4, <2>3, <2>4, <2>5, NobodyTyped DEF UpdateSession, TypeOK, Holding
  <1>5. CASE DeleteSeason
    <2>1. ASSUME NEW row \in Row \cup {None} PROVE AfterSeason(row) \in Row \cup {None}
      <3>1. row # None => [row EXCEPT !.season = FALSE] \in Row
        BY DEF Row
      <3> QED BY <3>1 DEF AfterSeason
    <2>2. sessions' \in [Ids -> Row \cup {None}]
      BY <1>5, <2>1 DEF DeleteSeason, TypeOK
    <2>3. left' \in [Sorts -> Nat]
      BY <1>5, SpendTyped DEF DeleteSeason, TypeOK, Sorts
    <2>4. busy = Nobody /\ UNCHANGED busy
      BY <1>5 DEF DeleteSeason, LoopFree
    <2> QED BY <1>5, <2>2, <2>3, <2>4, NobodyTyped DEF DeleteSeason, TypeOK, Holding
  <1> QED BY <1>1, <1>2, <1>3, <1>4, <1>5

\* The steps on drafts and notices.
LEMMA DraftsTyped ==
    ASSUME TypeOK, UNCHANGED admin, Holding,
           \/ \E kind \in DraftKinds : GenerateDue(kind)
           \/ \E d \in Draft : GenerateOne(d) \/ WriteDraft(d) \/ MoveDraft(d) \/ DeleteDraft(d)
           \/ Tell
           \/ \E n \in unread : ReadNotice(n)
           \/ \E u \in Users : ReadAll(u)
    PROVE  TypeOK' /\ Holding'
  <1> USE DEF calendarVars, draftVars, mailVars, chatVars
  <1>1. ASSUME NEW todo \in SUBSET Draft, NEW untold \in Draft \cup {None},
               \A d \in todo : Present(d[2]), untold # None => Present(untold[2]),
               busy' = [who |-> "request", todo |-> todo, untold |-> untold, chat |-> None],
               UNCHANGED sessions
        PROVE  busy' \in Busy /\ Holding'
    BY <1>1 DEF Busy, Holding, Present
  <1>2. ASSUME NEW kind \in DraftKinds, GenerateDue(kind) PROVE TypeOK' /\ Holding'
    <2> DEFINE todo == Due(kind)
    <2>1. todo \in SUBSET Draft /\ \A d \in todo : Present(d[2])
      BY DEF Due
    <2>2. /\ busy' = [who |-> "request", todo |-> todo, untold |-> None, chat |-> None]
          /\ UNCHANGED <<clock, calendarVars, templates, draftVars, mailVars, chatVars, adopted>>
          /\ Spend("draft")
      BY <1>2 DEF GenerateDue, Nobody
    <2> HIDE DEF todo
    <2>3. busy' \in Busy /\ Holding'
      BY <1>1, <2>1, <2>2
    <2>4. left' \in [Sorts -> Nat]
      BY <2>2, SpendTyped DEF TypeOK, Sorts
    <2> QED BY <2>2, <2>3, <2>4 DEF TypeOK
  <1>3. ASSUME NEW d \in Draft, GenerateOne(d) PROVE TypeOK' /\ Holding'
    <2>1. /\ Present(d[2]) /\ Spend("draft")
          /\ UNCHANGED <<clock, calendarVars, templates, draftVars, mailVars, chatVars, adopted>>
          /\ \/ busy' = [who |-> "request", todo |-> {d}, untold |-> None, chat |-> None]
             \/ busy' = [who |-> "request", todo |-> {}, untold |-> d, chat |-> None]
      BY <1>3 DEF GenerateOne, Nobody
    <2>2. busy' \in Busy /\ Holding'
      BY <1>1, <2>1
    <2>3. left' \in [Sorts -> Nat]
      BY <2>1, SpendTyped DEF TypeOK, Sorts
    <2> QED BY <2>1, <2>2, <2>3 DEF TypeOK
  <1>4. ASSUME NEW d \in Draft, WriteDraft(d) PROVE TypeOK' /\ Holding'
    <2>1. busy' \in Busy /\ Holding'
      BY <1>4 DEF WriteDraft, TypeOK, Busy, Holding, Present
    <2>2. /\ drafts' \in [Draft -> {"none", "draft", "approved", "sent", "skipped"}]
          /\ told' \subseteq Draft /\ missed' \subseteq Draft /\ unaddressed' \subseteq Draft
      BY <1>4 DEF WriteDraft, TypeOK
    <2> QED BY <1>4, <2>1, <2>2 DEF WriteDraft, TypeOK
  <1>5. CASE Tell
    <2>1. busy.untold \in Draft /\ Present(busy.untold[2]) /\ busy.untold[2] \in Ids
      BY <1>5 DEF Tell, Holding, TypeOK, Busy, Draft
    <2>2. unread' \subseteq Users \X Draft
      BY <1>5, <2>1, RecipientTyped DEF Tell, Notify, TypeOK
    <2>3. told' \subseteq Draft /\ unaddressed' \subseteq Draft
      BY <1>5, <2>1 DEF Tell, TypeOK
    <2>4. busy' \in Busy /\ Holding'
      <3>1. CASE busy' = Nobody
        BY <3>1, NobodyTyped DEF Holding
      <3>2. CASE busy' = [busy EXCEPT !.untold = None]
        BY <1>5, <3>2 DEF Tell, TypeOK, Busy, Holding, Present
      <3> QED BY <1>5, <3>1, <3>2 DEF Tell
    <2> QED BY <1>5, <2>2, <2>3, <2>4 DEF Tell, TypeOK
  <1>6. ASSUME NEW d \in Draft, MoveDraft(d) \/ DeleteDraft(d) PROVE TypeOK' /\ Holding'
    <2>1. /\ busy = Nobody /\ UNCHANGED busy /\ Spend("draft")
          /\ UNCHANGED <<clock, calendarVars, templates, unread, told, missed, unaddressed, mailVars, chatVars>>
      BY <1>6 DEF MoveDraft, DeleteDraft, LoopFree
    <2>2. drafts' \in [Draft -> {"none", "draft", "approved", "sent", "skipped"}]
          /\ adopted' \subseteq Draft
      <3>1. \A status : Successors(status) \subseteq {"approved", "skipped", "sent"}
        BY DEF Successors
      <3> QED BY <1>6, <3>1 DEF MoveDraft, DeleteDraft, TypeOK
    <2>3. left' \in [Sorts -> Nat]
      BY <2>1, SpendTyped DEF TypeOK, Sorts
    <2> QED BY <2>1, <2>2, <2>3, NobodyTyped DEF TypeOK, Holding
  <1>7. CASE (\E n \in unread : ReadNotice(n)) \/ (\E u \in Users : ReadAll(u))
    <2>1. /\ busy = Nobody /\ UNCHANGED busy /\ Spend("notice") /\ unread' \subseteq unread
          /\ UNCHANGED <<clock, calendarVars, templates, drafts, told, missed, unaddressed, mailVars, chatVars,
                         adopted>>
      BY <1>7 DEF ReadNotice, ReadAll, LoopFree
    <2>2. left' \in [Sorts -> Nat]
      BY <2>1, SpendTyped DEF TypeOK, Sorts
    <2> QED BY <2>1, <2>2, NobodyTyped DEF TypeOK, Holding
  <1> QED BY <1>2, <1>3, <1>4, <1>5, <1>6, <1>7

\* The mail loop.
LEMMA LoopTyped ==
    ASSUME TypeOK, UNCHANGED admin, Holding, MailInv, Wake \/ LookAhead \/ Mailed
    PROVE  TypeOK' /\ Holding'
  <1> USE DEF calendarVars, draftVars, chatVars
  <1>1. clock.day \in Nat /\ clock.part \in Parts
    BY BoundAssumption DEF TypeOK
  <1>2. CASE Wake
    <2> DEFINE todo == Due("reminder")
    <2>1. todo \in SUBSET Draft /\ \A d \in todo : Present(d[2])
      BY DEF Due
    <2>2. /\ busy' = [who |-> "loop", todo |-> todo, untold |-> None, chat |-> None]
          /\ UNCHANGED <<clock, calendarVars, templates, draftVars, mailed, sends, lost, chatVars,
                         adopted>>
          /\ Spend("cycle")
      BY <1>2 DEF Wake, Nobody
    <2> HIDE DEF todo
    <2>3. busy' \in Busy /\ Holding'
      BY <2>1, <2>2 DEF Busy, Holding, Present
    <2>4. left' \in [Sorts -> Nat]
      BY <2>2, SpendTyped DEF TypeOK, Sorts
    <2>5. loop' \in Loop
      <3>1. loop' = [pc |-> "drafting", tomorrow |-> clock.day + 1, part |-> "night", todo |-> {},
                     mail |-> None]
        BY <1>2 DEF Wake, Asleep
      <3> QED BY <1>1, <3>1 DEF Loop, Parts
    <2> QED BY <2>2, <2>3, <2>4, <2>5 DEF TypeOK
  <1>3. CASE LookAhead
    <2> DEFINE list == Upcoming
    <2>1. list \in SUBSET Mail
      <3>1. ASSUME NEW i \in Ids, Present(i) PROVE [id |-> i, nco |-> sessions[i].nco] \in Mail
        BY <3>1 DEF Mail, TypeOK, Present, Row
      <3> QED BY <3>1 DEF Upcoming
    <2>2. GoOn(clock.part, loop.tomorrow, list) /\ busy' = Nobody
          /\ UNCHANGED <<clock, calendarVars, templates, draftVars, mailed, lost, chatVars, adopted,
                         left>>
      BY <1>3 DEF LookAhead
    <2> HIDE DEF list
    <2>3. loop.tomorrow \in Nat
      BY DEF TypeOK, Loop
    <2>4. loop' \in Loop /\ sends' \in [Ids -> [MailKinds -> 0..2]]
      BY <1>1, <2>1, <2>2, <2>3, GoOnTyped
    <2> QED BY <2>2, <2>4, NobodyTyped DEF TypeOK, Holding
  <1>4. CASE Mailed
    <2>1. GoOn(loop.part, loop.tomorrow, loop.todo) /\ busy = Nobody /\ UNCHANGED busy
          /\ UNCHANGED <<clock, calendarVars, templates, draftVars, lost, chatVars, adopted, left>>
          /\ mailed' = [mailed EXCEPT ![loop.mail.id] = @ \cup {loop.part}]
          /\ loop.pc = "mailing"
      BY <1>4 DEF Mailed, LoopFree
    <2>2. loop.tomorrow \in Nat /\ loop.part \in Parts /\ loop.todo \in SUBSET Mail
      BY DEF TypeOK, Loop
    <2>3. loop' \in Loop /\ sends' \in [Ids -> [MailKinds -> 0..2]]
      BY <2>1, <2>2, GoOnTyped
    <2>4. loop.mail.id \in Ids /\ loop.part \in MailKinds
      BY <2>1 DEF MailInv, Underway
    <2>5. mailed' \in [Ids -> SUBSET MailKinds]
      BY <2>1, <2>4 DEF TypeOK
    <2> QED BY <2>1, <2>3, <2>5, NobodyTyped DEF TypeOK, Holding
  <1> QED BY <1>2, <1>3, <1>4

\* Activities and chats.
LEMMA ChatsTyped ==
    ASSUME TypeOK, UNCHANGED admin, Holding, ChatInv,
           \/ \E a \in ActivityIds : CreateActivity(a) \/ DeleteActivity(a)
           \/ \E c \in Chats : CreateChat(c) \/ (\E u \in Operators : SendMessage(c, u))
           \/ \E c \in Chats, a \in ActivityIds : ApproveChat(c, a)
           \/ LinkChat
    PROVE  TypeOK' /\ Holding'
  <1> USE DEF calendarVars, draftVars, mailVars
  <1>1. ASSUME NEW a \in ActivityIds, NEW chat \in Chats \cup {None}, Activity(a, chat)
        PROVE  activities' \in [ActivityIds -> Chats \cup {None, Absent}]
    BY <1>1 DEF Activity, TypeOK
  <1>2. ASSUME NEW a \in ActivityIds, CreateActivity(a) \/ DeleteActivity(a)
        PROVE  TypeOK' /\ Holding'
    <2>1. /\ busy = Nobody /\ UNCHANGED busy /\ Spend("chat")
          /\ UNCHANGED <<clock, calendarVars, templates, draftVars, mailVars, asked, adopted>>
      BY <1>2 DEF CreateActivity, DeleteActivity, LoopFree
    <2>2. activities' \in [ActivityIds -> Chats \cup {None, Absent}]
      BY <1>1, <1>2 DEF CreateActivity, DeleteActivity, TypeOK
    <2>3. chats' \in [Chats -> ActivityIds \cup {None, Absent}]
      BY <1>2 DEF CreateActivity, DeleteActivity, Unlinked, TypeOK
    <2>4. left' \in [Sorts -> Nat]
      BY <2>1, SpendTyped DEF TypeOK, Sorts
    <2> QED BY <2>1, <2>2, <2>3, <2>4, NobodyTyped DEF TypeOK, Holding
  <1>3. ASSUME NEW c \in Chats, CreateChat(c) \/ \E u \in Operators : SendMessage(c, u)
        PROVE  TypeOK' /\ Holding'
    <2>1. /\ busy = Nobody /\ UNCHANGED busy /\ Spend("chat")
          /\ UNCHANGED <<clock, calendarVars, templates, draftVars, mailVars, activities, adopted>>
      BY <1>3 DEF CreateChat, SendMessage, LoopFree
    <2>2. chats' \in [Chats -> ActivityIds \cup {None, Absent}]
      BY <1>3 DEF CreateChat, SendMessage, TypeOK
    <2>3. asked' \in [Operators -> 0..UserLimit]
      <3>1. CASE CreateChat(c)
        BY <3>1 DEF CreateChat, TypeOK
      <3>2. ASSUME NEW u \in Operators, SendMessage(c, u) PROVE asked' \in [Operators -> 0..UserLimit]
        <4>1. asked[u] < UserLimit /\ asked' = [asked EXCEPT ![u] = @ + 1]
          BY <3>2 DEF SendMessage, MayAsk
        <4>2. asked[u] + 1 \in 0..UserLimit
          BY <4>1, BoundAssumption DEF TypeOK
        <4> QED BY <4>1, <4>2 DEF TypeOK
      <3> QED BY <1>3, <3>1, <3>2
    <2>4. left' \in [Sorts -> Nat]
      BY <2>1, SpendTyped DEF TypeOK, Sorts
    <2> QED BY <2>1, <2>2, <2>3, <2>4, NobodyTyped DEF TypeOK, Holding
  <1>4. ASSUME NEW c \in Chats, NEW a \in ActivityIds, ApproveChat(c, a)
        PROVE  TypeOK' /\ Holding'
    <2>1. /\ busy' = [who |-> "chat", todo |-> {}, untold |-> None, chat |-> <<c, a>>]
          /\ UNCHANGED <<clock, calendarVars, templates, draftVars, mailVars, chats, asked, adopted>>
          /\ Spend("chat") /\ Activity(a, c)
      BY <1>4 DEF ApproveChat, Nobody
    <2>2. busy' \in Busy /\ Holding'
      BY <2>1 DEF Busy, Holding
    <2>3. left' \in [Sorts -> Nat]
      BY <2>1, SpendTyped DEF TypeOK, Sorts
    <2> QED BY <1>1, <2>1, <2>2, <2>3 DEF TypeOK
  <1>5. CASE LinkChat
    <2>1. PICK c \in Chats, a \in ActivityIds : busy.chat = <<c, a>> /\ activities[a] = c
      BY <1>5 DEF LinkChat, ChatInv
    <2>2. chats' \in [Chats -> ActivityIds \cup {None, Absent}]
      BY <1>5, <2>1 DEF LinkChat, TypeOK
    <2> QED BY <1>5, <2>2, NobodyTyped DEF LinkChat, TypeOK, Holding
  <1> QED BY <1>2, <1>3, <1>4, <1>5

\* Every step keeps the types, given what is known of mails and chats.
LEMMA TypeStep ==
    ASSUME TypeOK, Holding, MailInv, ChatInv, [Next]_vars
    PROVE  TypeOK' /\ Holding'
  <1> USE DEF calendarVars, draftVars, mailVars, chatVars
  <1>1. CASE EditTemplates /\ UNCHANGED admin
    <2>1. /\ templates' \in [TemplateIds -> Template \cup {None}] /\ left' \in [Sorts -> Nat]
          /\ UNCHANGED <<clock, calendarVars, draftVars, mailVars, chatVars, busy, adopted>>
      BY <1>1, TemplatesTyped
    <2> QED BY <1>1, <2>1 DEF TypeOK, Holding, Present
  <1>2. CASE Tick /\ UNCHANGED admin
    <2>1. PICK c \in [day: 0..LastDay, part: Parts] :
            /\ clock' = c
            /\ asked' = IF c.day = clock.day THEN asked ELSE [u \in Operators |-> 0]
      BY <1>2 DEF Tick
    <2>2. asked' \in [Operators -> 0..UserLimit]
      BY <2>1, BoundAssumption DEF TypeOK
    <2>3. left' \in [Sorts -> Nat]
      BY <1>2, SpendTyped DEF Tick, TypeOK, Sorts
    <2>4. UNCHANGED <<calendarVars, templates, draftVars, mailVars, activities, chats, busy, adopted>>
      BY <1>2 DEF Tick
    <2> QED BY <1>2, <2>1, <2>2, <2>3, <2>4 DEF TypeOK, Holding, Present
  <1>3. CASE Restart /\ UNCHANGED admin
    <2>1. /\ busy' = Nobody /\ loop' = Asleep /\ Spend("restart")
          /\ UNCHANGED <<clock, calendarVars, templates, drafts, unread, told, unaddressed,
                         mailed, sends, chatVars, adopted>>
      BY <1>3 DEF Restart
    <2>2. loop' \in Loop
      BY <2>1 DEF Asleep, Loop, Parts
    <2>3. lost' \subseteq Ids \X MailKinds
      <3>1. loop.pc = "mailing" => loop.mail.id \in Ids /\ loop.part \in MailKinds
        BY DEF MailInv, Underway
      <3> QED BY <1>3, <3>1 DEF Restart, TypeOK
    <2>4. missed' \subseteq Draft
      BY <1>3 DEF Restart, TypeOK, Busy
    <2>5. left' \in [Sorts -> Nat]
      BY <2>1, SpendTyped DEF TypeOK, Sorts
    <2> QED BY <1>3, <2>1, <2>2, <2>3, <2>4, <2>5, NobodyTyped DEF TypeOK, Holding
  <1>4. CASE UNCHANGED vars
    BY <1>4 DEF vars, TypeOK, Holding, Present
  <1>5. CASE UpdateUserRole
    <2>1. left' \in [Sorts -> Nat]
      BY <1>5, SpendTyped DEF UpdateUserRole, TypeOK, Sorts
    <2> QED BY <1>5, <2>1 DEF UpdateUserRole, TypeOK, Holding, Present
  <1> QED BY <1>1, <1>2, <1>3, <1>4, <1>5, CalendarTyped, DraftsTyped, LoopTyped, ChatsTyped
          DEF Next, Step

\* All of it together holds in every state.
LEMMA SeasonHolds == Spec => [](TypeOK /\ Holding)
  <1> DEFINE Inv == TypeOK /\ Holding /\ MailInv /\ ChatInv
  <1>1. Init => Inv
    BY TypeInit, MailInit, ChatInit
  <1>2. Inv /\ [Next]_vars => Inv'
    BY TypeStep, MailStep, ChatStep
  <1>3. Inv => TypeOK /\ Holding
    OBVIOUS
  <1> HIDE DEF Inv
  <1> QED BY <1>1, <1>2, <1>3, PTL DEF Spec

(* Type correctness: calendar, drafts, mail, chats and what the handler of   *)
(* the moment holds keep to their domains, the sessions that                 *)
(* generate_sessions makes of any season among them.                         *)
THEOREM TypeCorrect == Spec => []TypeOK
  BY SeasonHolds, PTL

------------------------------------------------------------------------------
(* Drafts and their notices *)

\* Rows that are inserted free their ids of what is told, missed and unaddressed,
\* and note the drafts they find there.
LEMMA InsertKeepsTold ==
    ASSUME TypeOK, DraftTold, busy.untold = None, UNCHANGED drafts,
           NEW rows, NEW nco, Insert(rows, nco)
    PROVE  DraftTold'
  <1>1. PICK i \in Ids :
           LET fresh == i..(i + Len(rows) - 1)
               inherited == {d \in Draft : d[2] \in fresh /\ drafts[d] # "none"} IN
           /\ told' = {d \in told : d[2] \notin fresh}
           /\ missed' = {d \in missed : d[2] \notin fresh}
           /\ unaddressed' = {d \in unaddressed : d[2] \notin fresh}
           /\ adopted' = {d \in adopted : d[2] \notin fresh} \cup inherited
    BY DEF Insert
  <1> DEFINE fresh == i..(i + Len(rows) - 1)
  <1>2. /\ told' = {d \in told : d[2] \notin fresh}
        /\ missed' = {d \in missed : d[2] \notin fresh}
        /\ unaddressed' = {d \in unaddressed : d[2] \notin fresh}
        /\ adopted' = {d \in adopted : d[2] \notin fresh}
                         \cup {d \in Draft : d[2] \in fresh /\ drafts[d] # "none"}
    BY <1>1
  <1> HIDE DEF fresh
  <1>3. ASSUME NEW d \in Draft, drafts[d] # "none"
        PROVE  d \in told' \cup missed' \cup adopted' \cup unaddressed'
    <2>1. d \in told \cup missed \cup adopted \cup unaddressed
      BY <1>3, RowAssumption DEF DraftTold
    <2> QED BY <1>2, <1>3, <2>1
  <1> QED BY <1>3 DEF DraftTold

\* No step leaves a draft without a notice, on its way or given up for lost.
LEMMA ToldStep ==
    ASSUME TypeOK, Holding, DraftTold, [Next]_vars
    PROVE  DraftTold'
  <1> USE DEF calendarVars, draftVars, mailVars, chatVars
  <1> DEFINE quiet == UNCHANGED <<drafts, told, missed, unaddressed, adopted>>
                      /\ (UNCHANGED busy \/ busy.untold = None)
  <1>1. ASSUME quiet PROVE DraftTold'
    BY <1>1, RowAssumption DEF DraftTold
  <1>2. LoopFree => busy.untold = None
    BY DEF LoopFree, Nobody
  <1>3. busy.who \in {"nobody", "season", "chat"} => busy.untold = None
    BY DEF Holding
  <1>4. ASSUME NEW p, CreateSeason(p) PROVE DraftTold'
    BY <1>1, <1>2, <1>4 DEF CreateSeason
  <1>5. CASE InsertSessions
    BY <1>3, <1>5, InsertKeepsTold DEF InsertSessions
  <1>6. ASSUME NEW s, NEW inSeason, CreateSession(s, inSeason) PROVE DraftTold'
    BY <1>2, <1>6, InsertKeepsTold DEF CreateSession
  <1>7. ASSUME NEW i, UpdateSession(i) PROVE DraftTold'
    BY <1>1, <1>7 DEF UpdateSession
  <1>8. CASE DeleteSeason
    BY <1>1, <1>8 DEF DeleteSeason
  <1>9. CASE EditTemplates
    <2>1. quiet
      BY <1>9 DEF EditTemplates, CreateReminderTemplate, CreateRosterTemplate, AddTemplate,
                  UpdateReminderTemplate, UpdateRosterTemplate, SetTemplate,
                  DeleteReminderTemplate, DeleteRosterTemplate, RemoveTemplate, TemplateRequest
    <2> QED BY <1>1, <2>1
  <1>10. ASSUME NEW kind, GenerateDue(kind) PROVE DraftTold'
    BY <1>1, <1>2, <1>10 DEF GenerateDue
  <1>11. ASSUME NEW d \in Draft, GenerateOne(d) PROVE DraftTold'
    BY <1>1, <1>2, <1>11 DEF GenerateOne
  <1>12. ASSUME NEW d \in Draft, WriteDraft(d) PROVE DraftTold'
    <2>1. /\ drafts' = [drafts EXCEPT ![d] = "draft"]
          /\ told' = told \ {d} /\ missed' = missed \ {d} /\ adopted' = adopted
          /\ unaddressed' = unaddressed \ {d}
          /\ busy'.untold = d
      BY <1>12 DEF WriteDraft, TypeOK, Busy
    <2>2. ASSUME NEW e \in Draft, drafts'[e] # "none", e # d
          PROVE  e \in told \cup missed \cup adopted \cup unaddressed
      <3>1. drafts[e] # "none"
        BY <2>1, <2>2 DEF TypeOK
      <3> QED BY <1>12, <3>1, RowAssumption DEF DraftTold, WriteDraft
    <2> QED BY <2>1, <2>2 DEF DraftTold
  <1>13. CASE Tell
    <2> DEFINE d == busy.untold
               to == Recipient(sessions[d[2]].nco)
    <2>1. d \in Draft /\ Present(d[2])
      BY <1>13 DEF Tell, Holding, TypeOK, Busy
    <2>2. to \in Users \cup {None}
      BY <2>1, RecipientTyped DEF Draft
    <2>3. CASE to # None
      <3>1. <<to, d>> \in unread' /\ UNCHANGED unaddressed
        BY <1>13, <2>3 DEF Tell, Notify
      <3>2. d \in told' /\ told \subseteq told'
        BY <1>13, <2>1, <2>2, <2>3, <3>1 DEF Tell
      <3> QED BY <1>13, <3>1, <3>2 DEF Tell, DraftTold
    <2>4. CASE to = None
      <3>1. d \in unaddressed' /\ unaddressed \subseteq unaddressed' /\ UNCHANGED told
        BY <1>13, <2>4 DEF Tell
      <3> QED BY <1>13, <3>1 DEF Tell, DraftTold
    <2> QED BY <2>3, <2>4
  <1>14. ASSUME NEW d \in Draft, MoveDraft(d) PROVE DraftTold'
    <2>1. PICK status \in Successors(drafts[d]) : drafts' = [drafts EXCEPT ![d] = status]
      BY <1>14 DEF MoveDraft
    <2>2. drafts[d] # "none"
      BY <2>1 DEF Successors
    <2>3. \A e \in Draft : drafts'[e] # "none" => drafts[e] # "none"
      BY <2>1, <2>2 DEF TypeOK
    <2> QED BY <1>14, <2>3 DEF MoveDraft, DraftTold
  <1>15. ASSUME NEW d \in Draft, DeleteDraft(d) PROVE DraftTold'
    <2>1. /\ drafts' = [drafts EXCEPT ![d] = "none"] /\ adopted' = adopted \ {d}
          /\ UNCHANGED <<told, missed, unaddressed, busy>>
      BY <1>15 DEF DeleteDraft
    <2>2. \A e \in Draft : drafts'[e] # "none" => drafts[e] # "none" /\ e # d
      BY <2>1 DEF TypeOK
    <2> QED BY <2>1, <2>2 DEF DraftTold
  <1>16. ASSUME NEW n, ReadNotice(n) PROVE DraftTold'
    BY <1>1, <1>16 DEF ReadNotice
  <1>17. ASSUME NEW u, ReadAll(u) PROVE DraftTold'
    BY <1>1, <1>17 DEF ReadAll
  <1>18. CASE Wake
    BY <1>1, <1>2, <1>18 DEF Wake
  <1>19. CASE LookAhead
    BY <1>1, <1>19 DEF LookAhead
  <1>20. CASE Mailed
    BY <1>1, <1>20 DEF Mailed
  <1>21. ASSUME NEW a, CreateActivity(a) \/ DeleteActivity(a) PROVE DraftTold'
    BY <1>1, <1>21 DEF CreateActivity, DeleteActivity
  <1>22. ASSUME NEW c, NEW u, CreateChat(c) \/ SendMessage(c, u) PROVE DraftTold'
    BY <1>1, <1>22 DEF CreateChat, SendMessage
  <1>23. ASSUME NEW c, NEW a, ApproveChat(c, a) PROVE DraftTold'
    BY <1>1, <1>2, <1>23 DEF ApproveChat
  <1>24. CASE LinkChat
    BY <1>1, <1>3, <1>24 DEF LinkChat
  <1>25. CASE Tick
    BY <1>1, <1>25 DEF Tick
  <1>26. CASE Restart
    BY <1>26, RowAssumption DEF Restart, DraftTold
  <1>27. CASE UNCHANGED vars
    BY <1>1, <1>27 DEF vars
  <1>28. CASE UpdateUserRole
    BY <1>1, <1>28 DEF UpdateUserRole
  <1> QED
    BY <1>4, <1>5, <1>6, <1>7, <1>8, <1>9, <1>10, <1>11, <1>12, <1>13, <1>14, <1>15, <1>16, <1>17,
       <1>18, <1>19, <1>20, <1>21, <1>22, <1>23, <1>24, <1>25, <1>26, <1>27, <1>28 DEF Next, Step

(* generate_due_drafts (reminders/service.py:388, roster/service.py:426): no *)
(* draft stays without a notice to somebody, unless nobody was there to      *)
(* tell, the process stopped between the two commits, or the session found   *)
(* the draft under its id.                                                   *)
THEOREM DraftsAreTold == Spec => []DraftTold
  <1>1. Init => DraftTold
    BY DEF Init, DraftTold
  <1>2. TypeOK /\ Holding /\ DraftTold /\ [Next]_vars => DraftTold'
    BY ToldStep
  <1> QED BY <1>1, <1>2, SeasonHolds, PTL DEF Spec

------------------------------------------------------------------------------
(* The sessions a season gets *)

\* The session of week k, with the operator the season's sessions start with.
Meeting(p, nco, k) == [PieceOf(p)[k] EXCEPT !.nco = nco]
Weeks(p) == {k \in Nat : FirstDay(p) + 7 * k <= p.end}

\* What it says.
LEMMA MeetingIs ==
    ASSUME NEW p \in Plan, NEW nco, NEW k \in Nat
    PROVE  /\ Meeting(p, nco, k).start = FirstDay(p) + 7 * k
           /\ Meeting(p, nco, k).end = LastDayFrom(p, FirstDay(p) + 7 * k)
           /\ Meeting(p, nco, k).type = SlotType(p, k)
  <1>1. PieceOf(p)[k] = Slot(p, FirstDay(p) + 7 * k, LastDayFrom(p, FirstDay(p) + 7 * k), k)
    BY DEF PieceOf
  <1> QED BY <1>1 DEF Meeting, Slot

\* The weeks of a season are the first so many.
LEMMA WeeksAre ==
    ASSUME NEW p \in Plan
    PROVE  /\ WeeksFrom(FirstDay(p), p.end) \in Nat
           /\ Weeks(p) = 0..(WeeksFrom(FirstDay(p), p.end) - 1)
  <1> DEFINE f == FirstDay(p)
             e == p.end
  <1>1. f \in Nat /\ e \in Nat
    BY FirstDayRight DEF Plan
  <1> HIDE DEF f, e
  <1>2. WeeksFrom(f, e) \in Nat
    BY <1>1 DEF WeeksFrom
  <1>3. ASSUME NEW k \in Nat PROVE f + 7 * k <= e <=> k <= WeeksFrom(f, e) - 1
    <2>1. CASE f > e
      BY <1>1, <2>1 DEF WeeksFrom
    <2>2. CASE ~(f > e)
      <3>1. WeeksFrom(f, e) - 1 = (e - f) \div 7 /\ e - f \in Nat
        BY <1>1, <2>2 DEF WeeksFrom
      <3>2. k <= (e - f) \div 7 <=> 7 * k <= e - f
        BY <3>1
      <3> QED BY <1>1, <3>1, <3>2
    <2> QED BY <2>1, <2>2
  <1>4. {k \in Nat : f + 7 * k <= e} = 0..(WeeksFrom(f, e) - 1)
    BY <1>2, <1>3
  <1> QED BY <1>2, <1>4 DEF f, e, Weeks

\* The rows that appear are the sessions of the season's weeks; no more of them
\* than there are ids.
LEMMA MadeAre ==
    ASSUME TypeOK, NEW p \in Plan, NEW nco \in Operators \cup {None}, Insert(Slots(p), nco)
    PROVE  /\ Made = {Meeting(p, nco, k) : k \in Weeks(p)}
           /\ \A k \in Weeks(p) : k \in 0..MaxId
  <1> DEFINE rows == Slots(p)
             n == Len(rows)
  <1>1. PICK i \in Ids :
           LET fresh == i..(i + Len(Slots(p)) - 1) IN
           /\ NextSession(i)
           /\ fresh \subseteq Ids
           /\ sessions' = [j \in Ids |-> IF j \in fresh
                                         THEN [Slots(p)[j - i + 1] EXCEPT !.nco = nco]
                                         ELSE sessions[j]]
    BY DEF Insert
  <1>2. /\ n \in Nat /\ n = WeeksFrom(FirstDay(p), p.end)
        /\ \A k \in 1..n : rows[k] = PieceOf(p)[k - 1]
    BY SlotsAre, LenProperties
  <1>3. Weeks(p) = 0..(n - 1)
    BY <1>2, WeeksAre
  <1>4. /\ i..(i + n - 1) \subseteq Ids
        /\ sessions' = [j \in Ids |-> IF j \in i..(i + n - 1)
                                      THEN [rows[j - i + 1] EXCEPT !.nco = nco] ELSE sessions[j]]
    BY <1>1
  <1> HIDE DEF rows, n
  <1>5. i \in Nat /\ MaxId \in Nat
    BY BoundAssumption DEF Ids
  <1>6. ASSUME NEW k \in 0..(n - 1)
        PROVE  /\ i + k \in Ids /\ k \in 0..MaxId
               /\ sessions[i + k] = None
               /\ sessions'[i + k] = Meeting(p, nco, k) /\ sessions'[i + k] # None
    <2>1. i + k \in i..(i + n - 1) /\ i + k \in Ids
      BY <1>2, <1>4, <1>5
    <2>2. k \in 0..MaxId
      BY <1>2, <1>5, <2>1 DEF Ids
    <2>3. sessions[i + k] = None
      <3>1. ASSUME Present(i + k) PROVE FALSE
        <4>1. i + k < i
          BY <1>1, <2>1, <3>1 DEF NextSession
        <4> QED BY <1>2, <1>5, <4>1
      <3> QED BY <3>1 DEF Present
    <2>4. sessions'[i + k] = Meeting(p, nco, k)
      <3>1. (i + k) - i + 1 = k + 1 /\ k + 1 \in 1..n /\ (k + 1) - 1 = k
        BY <1>2, <1>5
      <3>2. rows[k + 1] = PieceOf(p)[k]
        BY <1>2, <3>1
      <3>3. sessions'[i + k] = [rows[(i + k) - i + 1] EXCEPT !.nco = nco]
        BY <1>4, <2>1
      <3> QED BY <3>1, <3>2, <3>3 DEF Meeting
    <2>5. Meeting(p, nco, k) \in Row
      <3> DEFINE row == PieceOf(p)[k]
      <3>1. row \in Row
        BY <1>2, PieceIsRow
      <3> HIDE DEF row
      <3>2. [row EXCEPT !.nco = nco] \in Row
        BY <3>1 DEF Row
      <3> QED BY <3>2 DEF row, Meeting
    <2> QED BY <2>1, <2>2, <2>3, <2>4, <2>5, RowAssumption
  <1>7. ASSUME NEW j \in Ids, sessions[j] = None, sessions'[j] # None
        PROVE  \E k \in 0..(n - 1) : j = i + k
    <2>1. j \in i..(i + n - 1)
      BY <1>4, <1>7
    <2>2. j - i \in 0..(n - 1) /\ j = i + (j - i)
      BY <1>2, <1>5, <2>1 DEF Ids
    <2> QED BY <2>2
  <1>8. Made = {Meeting(p, nco, k) : k \in 0..(n - 1)}
    <2>1. ASSUME NEW row \in Made PROVE row \in {Meeting(p, nco, k) : k \in 0..(n - 1)}
      <3>1. PICK j \in Ids : sessions[j] = None /\ sessions'[j] # None /\ row = sessions'[j]
        BY DEF Made
      <3> QED BY <1>6, <1>7, <3>1
    <2>2. ASSUME NEW k \in 0..(n - 1) PROVE Meeting(p, nco, k) \in Made
      BY <1>6 DEF Made
    <2> QED BY <2>1, <2>2
  <1> QED BY <1>3, <1>6, <1>8

\* A weekly season.
LEMMA WeeklyMade ==
    ASSUME NEW p \in Plan, NEW nco, ~p.weekLong, Made = {Meeting(p, nco, k) : k \in Weeks(p)}
    PROVE  WeeklyRight(p)
  <1> DEFINE f == FirstDay(p)
             Days == {day \in p.start..p.end : Weekday(day) = p.dow}
  <1>1. f \in Nat /\ p.start \in Nat /\ p.end \in Nat /\ p.start <= f /\ f <= p.start + 6
        /\ f % 7 = p.dow
    BY FirstDayRight DEF Plan
  <1>2. ASSUME NEW k \in Weeks(p)
        PROVE  /\ k \in Nat /\ f + 7 * k <= p.end
               /\ Meeting(p, nco, k).start = f + 7 * k
               /\ Meeting(p, nco, k).end = (f + 7 * k) + 1
    BY MeetingIs DEF Weeks, LastDayFrom
  <1> HIDE DEF f
  <1>3. ASSUME NEW k \in Weeks(p) PROVE f + 7 * k \in Days
    <2>1. (f + 7 * k) % 7 = f % 7
      BY <1>1, <1>2
    <2> QED BY <1>1, <1>2, <2>1 DEF Weekday
  <1>4. ASSUME NEW day \in Days PROVE \E k \in Weeks(p) : day = f + 7 * k
    <2>1. day \in Nat /\ day >= p.start /\ day <= p.end /\ f % 7 = day % 7
      BY <1>1 DEF Weekday
    <2>2. f <= day
      BY <1>1, <2>1
    <2>3. day = f + 7 * ((day - f) \div 7) /\ (day - f) \div 7 \in Nat
      BY <1>1, <2>1, <2>2
    <2> DEFINE k == (day - f) \div 7
    <2>4. k \in Nat /\ day = f + 7 * k
      BY <2>3
    <2> HIDE DEF k
    <2>5. k \in Weeks(p)
      BY <2>1, <2>4 DEF Weeks, f
    <2> QED BY <2>4, <2>5
  <1>5. {row.start : row \in Made} = Days
    <2>1. \A row \in Made : row.start \in Days
      BY <1>2, <1>3
    <2>2. \A day \in Days : \E row \in Made : day = row.start
      BY <1>2, <1>4
    <2> HIDE DEF Days
    <2> QED BY <2>1, <2>2
  <1>6. \A row \in Made : row.end = row.start + 1
    BY <1>2
  <1> QED BY <1>5, <1>6 DEF WeeklyRight

\* A week-long one.
LEMMA WeekLongMade ==
    ASSUME NEW p \in Plan, NEW nco, p.weekLong, Made = {Meeting(p, nco, k) : k \in Weeks(p)}
    PROVE  WeekLongRight(p)
  <1> DEFINE f == p.start
             e == p.end
             M(k) == Meeting(p, nco, k)
  <1>1. f \in Nat /\ e \in Nat /\ FirstDay(p) = f
    BY FirstDayRight DEF Plan
  <1>2. ASSUME NEW k \in Weeks(p)
        PROVE  /\ k \in Nat /\ f + 7 * k <= e
               /\ M(k).start = f + 7 * k
               /\ M(k).end = IF (f + 7 * k) + 6 > e THEN e ELSE (f + 7 * k) + 6
    BY <1>1, MeetingIs DEF Weeks, LastDayFrom
  <1>3. \A k \in Nat : f + 7 * k <= e => k \in Weeks(p)
    BY <1>1 DEF Weeks
  <1>4. ASSUME NEW row \in Made PROVE \E k \in Weeks(p) : row = M(k)
    OBVIOUS
  <1>5. \A k \in Weeks(p) : M(k) \in Made
    OBVIOUS
  <1> HIDE DEF f, e, M
  <1>6. ASSUME NEW day \in f..e PROVE \E row \in Made : day \in row.start..row.end
    <2> DEFINE k == (day - f) \div 7
    <2>1. k \in Nat /\ f + 7 * k <= day /\ day <= (f + 7 * k) + 6
      BY <1>1
    <2> HIDE DEF k
    <2>2. k \in Weeks(p)
      BY <1>1, <1>3, <2>1
    <2>3. day \in M(k).start..M(k).end
      BY <1>1, <1>2, <2>1, <2>2
    <2> QED BY <1>5, <2>2, <2>3
  <1>7. ASSUME NEW row \in Made
        PROVE  /\ row.start..row.end \subseteq f..e
               /\ row.end = row.start + 6 \/ row.end = e
    <2>1. PICK k \in Weeks(p) : row = M(k)
      BY <1>4
    <2>2. row.start \in Nat /\ f <= row.start /\ row.end \in Nat /\ row.end <= e
      BY <1>1, <1>2, <2>1
    <2> QED BY <1>1, <1>2, <2>1, <2>2
  <1>8. ASSUME NEW r1 \in Made, NEW r2 \in Made, r1 # r2
        PROVE  (r1.start..r1.end) \cap (r2.start..r2.end) = {}
    <2>1. PICK j \in Weeks(p), k \in Weeks(p) : r1 = M(j) /\ r2 = M(k)
      BY <1>4
    <2>2. j # k /\ j \in Nat /\ k \in Nat
      BY <1>2, <1>8, <2>1
    <2>3. /\ r1.start = f + 7 * j /\ r2.start = f + 7 * k
          /\ r1.end \in Nat /\ r2.end \in Nat
          /\ r1.end <= (f + 7 * j) + 6 /\ r2.end <= (f + 7 * k) + 6
      BY <1>1, <1>2, <2>1
    <2>4. r1.end < r2.start \/ r2.end < r1.start
      BY <1>1, <2>2, <2>3
    <2>5. r1.start \in Nat /\ r2.start \in Nat
      BY <1>1, <2>2, <2>3
    <2> QED BY <2>3, <2>4, <2>5
  <1> QED BY <1>6, <1>7, <1>8 DEF WeekLongRight, f, e

\* A number that leaves 1 is one more than a multiple.
LEMMA OneMore ==
    ASSUME NEW c \in Nat, c > 1, NEW i \in Nat, NEW n \in Nat, i \in 0..n
    PROVE  i % c = 1 <=> \E k \in 0..n : i = 1 + k * c
  <1>1. ASSUME i % c = 1 PROVE \E k \in 0..n : i = 1 + k * c
    <2>1. i = 1 + (i \div c) * c /\ (i \div c) \in 0..i
      BY <1>1
    <2>2. (i \div c) \in 0..n
      BY <2>1
    <2> QED BY <2>1, <2>2
  <1>2. ASSUME NEW k \in 0..n, i = 1 + k * c PROVE i % c = 1
    <2> DEFINE r == i % c
               q == i \div c
    <2>1. i = c * q + r /\ r \in 0..(c - 1) /\ q \in Nat
      OBVIOUS
    <2> HIDE DEF r, q
    <2> DEFINE x == k - q
    <2>2. x \in Int /\ k = q + x /\ k \in Nat
      BY <2>1
    <2>3. k * c = c * q + c * x
      BY <2>1, <2>2
    <2>4. c * x = r - 1 /\ c * x \in Int
      BY <1>2, <2>1, <2>2, <2>3
    <2> HIDE DEF x
    <2>5. x = 0
      <3>1. CASE x >= 1
        <4>1. c * x >= c
          BY <2>2, <3>1
        <4> QED BY <2>1, <2>4, <4>1
      <3>2. CASE x <= -1
        <4>1. c * x <= -c
          BY <2>2, <3>2
        <4> QED BY <2>1, <2>4, <4>1
      <3> QED BY <2>2, <3>1, <3>2
    <2>6. r = 1
      BY <2>1, <2>4, <2>5
    <2> QED BY <2>6 DEF r
  <1> QED BY <1>1, <1>2

\* As many sessions begin before the one of week k as there are weeks before.
LEMMA BeforeIs ==
    ASSUME NEW p \in Plan, NEW nco, Made = {Meeting(p, nco, k) : k \in Weeks(p)},
           NEW k \in Weeks(p)
    PROVE  Cardinality({r \in Made : r.start < Meeting(p, nco, k).start}) = k
  <1> DEFINE Before == {r \in Made : r.start < Meeting(p, nco, k).start}
             f == FirstDay(p)
             M == [j \in 0..(k - 1) |-> Meeting(p, nco, j)]
  <1>1. f \in Nat /\ k \in Nat /\ p.end \in Nat /\ f + 7 * k <= p.end
    BY FirstDayRight DEF Weeks, Plan
  <1>2. \A j \in Nat : Meeting(p, nco, j).start = f + 7 * j
    BY MeetingIs
  <1>3. \A j \in 0..(k - 1) : j \in Weeks(p)
    BY <1>1 DEF Weeks
  <1>4. \A j \in Weeks(p) : j \in Nat
    BY DEF Weeks
  <1> HIDE DEF f
  <1>5. Before = {Meeting(p, nco, j) : j \in 0..(k - 1)}
    <2>1. ASSUME NEW r \in Before PROVE r \in {Meeting(p, nco, j) : j \in 0..(k - 1)}
      <3>1. PICK j \in Weeks(p) : r = Meeting(p, nco, j)
        OBVIOUS
      <3>2. f + 7 * j < f + 7 * k
        BY <1>1, <1>2, <1>4, <3>1
      <3>3. j \in 0..(k - 1)
        BY <1>1, <1>4, <3>1, <3>2
      <3> QED BY <3>1, <3>3
    <2>2. ASSUME NEW j \in 0..(k - 1) PROVE Meeting(p, nco, j) \in Before
      <3>1. f + 7 * j < f + 7 * k /\ j \in Nat
        BY <1>1
      <3>2. Meeting(p, nco, j) \in Made
        BY <1>3
      <3> QED BY <1>1, <1>2, <3>1, <3>2
    <2> QED BY <2>1, <2>2
  <1> HIDE DEF Before
  <1>6. ExistsBijection(0..(k - 1), Before)
    <2>1. \A i, j \in 0..(k - 1) : M[i] = M[j] => i = j
      <3>1. ASSUME NEW i \in 0..(k - 1), NEW j \in 0..(k - 1), M[i] = M[j] PROVE i = j
        <4>1. i \in Nat /\ j \in Nat /\ Meeting(p, nco, i) = Meeting(p, nco, j)
          BY <1>1, <3>1
        <4>2. f + 7 * i = f + 7 * j
          BY <1>2, <4>1
        <4> QED BY <1>1, <4>1, <4>2
      <3> QED BY <3>1
    <2>2. M \in [0..(k - 1) -> Before]
      BY <1>5
    <2>3. \A r \in Before : \E j \in 0..(k - 1) : M[j] = r
      BY <1>5
    <2> HIDE DEF M
    <2> QED BY <2>1, <2>2, <2>3 DEF ExistsBijection, Bijection, Injection, Surjection, IsInjective
  <1>7. IsFiniteSet(0..(k - 1)) /\ Cardinality(0..(k - 1)) = k
    <2>1. k - 1 \in Int /\ 0 \in Int
      BY <1>1
    <2>2. IsFiniteSet(0..(k - 1))
          /\ Cardinality(0..(k - 1)) = IF 0 > k - 1 THEN 0 ELSE ((k - 1) - 0) + 1
      BY <2>1, FS_Interval
    <2> QED BY <1>1, <2>2
  <1>8. Cardinality(Before) = k
    BY <1>6, <1>7, FS_Bijection
  <1> QED BY <1>8 DEF Before

\* The cadence.
LEMMA CadenceMade ==
    ASSUME NEW p \in Plan, NEW nco, Made = {Meeting(p, nco, k) : k \in Weeks(p)},
           \A k \in Weeks(p) : k \in 0..MaxId, p.cadence # 1
    PROVE  CadenceRight(p)
  <1>1. ASSUME NEW row \in Made
        PROVE  LET before == Cardinality({r \in Made : r.start < row.start})
               IN  row.type = "activity" <=>
                      \E k \in 0..MaxId : p.cadence > 0 /\ before = 1 + k * p.cadence
    <2> DEFINE c == p.cadence
    <2>1. PICK i \in Weeks(p) : row = Meeting(p, nco, i)
      OBVIOUS
    <2>2. Cardinality({r \in Made : r.start < row.start}) = i
      BY <2>1, BeforeIs
    <2>3. i \in Nat /\ i \in 0..MaxId /\ c \in Nat \ {1} /\ MaxId \in Nat
      BY BoundAssumption DEF Weeks, Plan
    <2>4. row.type = "activity" <=> c > 0 /\ i % c = 1
      BY <2>1, <2>3, MeetingIs DEF SlotType
    <2> HIDE DEF c
    <2>5. row.type = "activity" <=> \E k \in 0..MaxId : c > 0 /\ i = 1 + k * c
      <3>1. CASE c > 1
        <4>1. i % c = 1 <=> \E k \in 0..MaxId : i = 1 + k * c
          BY <2>3, <3>1, OneMore
        <4>2. c > 0
          BY <2>3, <3>1
        <4>3. row.type = "activity" <=> \E k \in 0..MaxId : i = 1 + k * c
          BY <2>4, <4>1, <4>2, Zenon
        <4> QED BY <4>2, <4>3, Zenon
      <3>2. CASE c = 0
        BY <2>4, <3>2
      <3> QED BY <2>3, <3>1, <3>2
    <2> QED BY <2>2, <2>5 DEF c
  <1> QED BY <1>1 DEF CadenceRight

(* generate_sessions (schedule/service.py:126): whatever the first and last  *)
(* day of a season and the day of the week, its sessions are those the plan  *)
(* calls for, and so are their types, for every cadence but 1, at which no   *)
(* session is an activity (schedule/service.py:169).                         *)
THEOREM SeasonsGetTheirSessions == Spec => SlotsRight
  <1>1. ASSUME TypeOK, Holding, InsertSessions
        PROVE  /\ IF season.weekLong THEN WeekLongRight(season) ELSE WeeklyRight(season)
               /\ season.cadence # 1 => CadenceRight(season)
    <2>1. season \in Plan
      BY <1>1 DEF InsertSessions, Holding
    <2>2. PICK nco \in Operators \cup {None} : Insert(Slots(season), nco)
      BY <1>1 DEF InsertSessions
    <2>3. /\ Made = {Meeting(season, nco, k) : k \in Weeks(season)}
          /\ \A k \in Weeks(season) : k \in 0..MaxId
      BY <1>1, <2>1, <2>2, MadeAre
    <2>4. season.cadence # 1 => CadenceRight(season)
      BY <2>1, <2>3, CadenceMade
    <2>5. season.weekLong => WeekLongRight(season)
      BY <2>1, <2>3, WeekLongMade
    <2>6. ~season.weekLong => WeeklyRight(season)
      BY <2>1, <2>3, WeeklyMade
    <2> QED BY <2>4, <2>5, <2>6
  <1>2. TypeOK /\ Holding =>
          [InsertSessions => /\ IF season.weekLong THEN WeekLongRight(season) ELSE WeeklyRight(season)
                             /\ season.cadence # 1 => CadenceRight(season)]_vars
    BY <1>1
  <1> QED BY <1>2, SeasonHolds, PTL DEF SlotsRight
====
