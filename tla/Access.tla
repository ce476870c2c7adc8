-------------------------------- MODULE Access --------------------------------
(***************************************************************************)
(* Who may act: accounts, sign-in, the setup wizard, personal access       *)
(* tokens, nets and their members, composed with the recovery tokens.      *)
(*                                                                         *)
(* A request is authorized in a thread, which loads its user's row, and    *)
(* handled later: on the event loop (auth, setup, tokens, configuration)   *)
(* or in a thread (nets, privacy, providers).  A handler on the loop runs  *)
(* from one await to the next undisturbed by the others there.             *)
(*                                                                         *)
(* Names, e-mail, slugs, scopes, roles within a net and the audit log are  *)
(* left out.  Foreign keys are not enforced, as on SQLite.                 *)
(***************************************************************************)
EXTENDS Recovery, Sequences

CONSTANTS
    People,      \* identities a provider vouches for: oidc_subject
    Calls,       \* real callsigns
    Anons,       \* ANON-xxxx names
    Placeholder, \* the PENDING- name of each person, cut from the subject
    MaxNet,      \* bound: ids of nets
    MaxPat,      \* bound: ids of personal access tokens
    MaxActive,   \* MAX_ACTIVE_TOKENS
    Wizards,     \* state tokens of setup sessions
    Callbacks,   \* setup callbacks in flight
    Budgets,     \* bounds: how many requests of each kind a behaviour has
    None

ASSUME MaxAssumption == MaxNet \in Nat /\ MaxPat \in Nat /\ MaxActive \in Nat

VARIABLES
    users,     \* users, by callsign
    members,   \* net_memberships
    nets,      \* ids of nets
    pats,      \* personal_access_tokens, by id
    cfg,       \* app_config: the keys that are set
    open,      \* registration_open
    completed, \* the setup_completed sentinel
    wizards,   \* _SETUP_SESSIONS
    setups,    \* try_complete_setup calls in flight
    signins,   \* sign-in callbacks that wait for the provider
    jar,       \* each person's access_token cookie
    reqs,      \* each person's request: what its authorization loaded
    firsts,    \* accounts made admin as the first sign-up
    stripped,  \* an admin was demoted, or anonymized by a request that had
               \* loaded its row before it became one
    imported,  \* the migration found a provider in the environment and marked
               \* setup completed (env_import)
    left       \* requests of each kind still to come

accountVars == <<users, members, nets, pats>>
setupVars == <<cfg, open, completed, wizards, setups>>
sessionVars == <<signins, jar, reqs>>
historyVars == <<firsts, stripped, imported>>
vars == <<accountVars, setupVars, sessionVars, historyVars, left, recoveryVars>>

Placeholders == {Placeholder[p] : p \in People}
Names == Calls \cup Anons \cup Placeholders
NetIds == 1..MaxNet
PatIds == 1..MaxPat
Keys == {"provider", "smtp", "default_net_control", "net_address", "app_base_url"}
Kinds == {"wizard", "signin", "account", "token", "net", "config", "recovery", "restart"}

Row == [subject: People \cup Anons, admin: BOOLEAN, pending: BOOLEAN,
        deleted: BOOLEAN, wants: Calls \cup {None}, tv: Nat]
Pat == [owner: Names, net: NetIds \cup {None},
        state: {"active", "expired", "revoked"}]
Wizard == [call: Calls, at: {"starting", "open", "stale"}]
\* next: 0 while the provider is asked, then the index of the next commit.
Setup == [wizard: Wizards, call: Calls, person: People \cup {None}, next: 0..7]
Cookie == [sub: Names, tv: Nat]
\* bound: the net the token used is bound to; net: the one looked up.
Request == [name: Names, row: Row, cookie: BOOLEAN,
            bound: NetIds \cup {None}, net: NetIds \cup {None}]

ASSUME PlaceholderAssumption == Placeholder \in [People -> Placeholders]
ASSUME NamesApart ==
    /\ Calls \cap (Anons \cup Placeholders) = {} /\ Anons \cap Placeholders = {}
    /\ People \cap Anons = {}
ASSUME NoneApart ==
    None \notin Names \cup People \cup NetIds \cup Row \cup Pat \cup Wizard
                \cup Setup \cup Cookie \cup Request
ASSUME BudgetAssumption == Budgets \subseteq [Kinds -> Nat]

TypeOK ==
    /\ RecoveryTypeOK
    /\ users \in [Names -> Row \cup {None}]
    /\ members \subseteq Names \X NetIds
    /\ nets \subseteq NetIds
    /\ pats \in [PatIds -> Pat \cup {None}]
    /\ cfg \subseteq Keys /\ open \in BOOLEAN /\ completed \in BOOLEAN
    /\ wizards \in [Wizards -> Wizard \cup {None}]
    /\ setups \in [Callbacks -> Setup \cup {None}]
    /\ signins \in [People -> {"idle", "exchange"}]
    /\ jar \in [People -> Cookie \cup {None}]
    /\ reqs \in [People -> Request \cup {None}]
    /\ firsts \in Nat /\ stripped \in BOOLEAN /\ imported \in BOOLEAN
    /\ left \in [Kinds -> Nat]

-------------------------------------------------------------------------------
(* Rows *)

Exists(c) == users[c] # None
Accounts(p) == {c \in Names : Exists(c) /\ users[c].subject = p}
Admins == {c \in Names : Exists(c) /\ users[c].admin}
NewUser(p, isAdmin, isPending) ==
    [subject |-> p, admin |-> isAdmin, pending |-> isPending, deleted |-> FALSE,
     wants |-> None, tv |-> 0]
CookieFor(c, row) == [sub |-> c, tv |-> row.tv]

\* SQLite gives a new row the highest id plus one.
NextId(S) == IF S = {} THEN 1 ELSE 1 + CHOOSE i \in S : \A j \in S : j <= i

ActivePats(c) == {i \in PatIds : pats[i] # None /\ pats[i].owner = c
                                 /\ pats[i].state = "active"}

\* The raw UPDATE of the primary key: what refers to the old name stays.
Renamed(old, new, row) == [users EXCEPT ![old] = None, ![new] = row]

\* The unit of work writes the columns a handler changed in the row it has.
Flushed(c, seen, new) ==
    [users EXCEPT ![c] = [f \in DOMAIN @ |-> IF new[f] # seen[f] THEN new[f] ELSE @[f]]]

Spend(k) == left[k] > 0 /\ left' = [left EXCEPT ![k] = @ - 1]

\* The commits at the end of the setup wizard leave the loop no pause.
LoopFree == \A k \in Callbacks : setups[k] # None => setups[k].next = 0

-------------------------------------------------------------------------------
(* A database without accounts, before setup or migrated with settings from  *)
(* the environment, or one that was set up some time ago.                    *)
Init ==
    /\ RecoveryInit
    /\ pats = [i \in PatIds |-> None]
    /\ nets = NetIds \cap {1}
    /\ members = {}
    /\ open \in BOOLEAN
    /\ wizards = [w \in Wizards |-> None]
    /\ setups = [k \in Callbacks |-> None]
    /\ signins = [p \in People |-> "idle"]
    /\ reqs = [p \in People |-> None]
    /\ jar = [p \in People |-> None]
    /\ firsts = 0 /\ stripped = FALSE
    /\ left \in Budgets
    /\ \/ /\ users = [c \in Names |-> None]
          /\ imported \in BOOLEAN
          /\ completed = imported
          /\ cfg = IF imported THEN {"provider"} ELSE {}
       \/ /\ \E p \in People, c \in Calls :
                users = [d \in Names |-> IF d = c THEN NewUser(p, TRUE, FALSE) ELSE None]
          /\ cfg = Keys /\ completed = TRUE /\ imported = FALSE

-------------------------------------------------------------------------------
(* Authorization of a request, in a thread *)

CookieValid(p) ==
    /\ jar[p] # None
    /\ Exists(jar[p].sub)
    /\ ~users[jar[p].sub].deleted
    /\ users[jar[p].sub].tv = jar[p].tv

Authorize(p) ==
    /\ reqs[p] = None
    /\ CookieValid(p)
    /\ reqs' = [reqs EXCEPT ![p] = [name |-> jar[p].sub, row |-> users[jar[p].sub],
                                    cookie |-> TRUE, bound |-> None, net |-> None]]
    /\ UNCHANGED <<accountVars, setupVars, signins, jar, historyVars, left, recoveryVars>>

AuthorizeByToken(p, i) ==
    /\ reqs[p] = None
    /\ pats[i] # None /\ pats[i].state = "active"
    /\ LET c == pats[i].owner IN
       /\ Exists(c) /\ users[c].subject = p
       /\ ~users[c].pending /\ ~users[c].deleted
       /\ reqs' = [reqs EXCEPT ![p] = [name |-> c, row |-> users[c], cookie |-> FALSE,
                                       bound |-> pats[i].net, net |-> None]]
    /\ UNCHANGED <<accountVars, setupVars, signins, jar, historyVars, left, recoveryVars>>

\* The row a handler has of callsign c: its own user's as authorization
\* loaded it, any other as it is now.
Seen(p, c) == IF reqs[p].name = c THEN reqs[p].row ELSE users[c]

Handled(p) == reqs[p] # None /\ reqs' = [reqs EXCEPT ![p] = None]

\* A request that is answered without a change.
Refused(p) ==
    /\ Handled(p)
    /\ UNCHANGED <<accountVars, setupVars, signins, jar, historyVars, left, recoveryVars>>

-------------------------------------------------------------------------------
(* Sign-in: auth/routes.py, on the loop *)

SignInStart(p) ==
    /\ Spend("signin")
    /\ LoopFree
    /\ "provider" \in cfg
    /\ signins[p] = "idle"
    /\ signins' = [signins EXCEPT ![p] = "exchange"]
    /\ UNCHANGED <<accountVars, setupVars, jar, reqs, historyVars, recoveryVars>>

\* The provider does not answer, or does not vouch.
SignInFail(p) ==
    /\ signins[p] = "exchange"
    /\ signins' = [signins EXCEPT ![p] = "idle"]
    /\ UNCHANGED <<accountVars, setupVars, jar, reqs, historyVars, left, recoveryVars>>

Vouched(p) ==
    /\ signins[p] = "exchange"
    /\ LoopFree
    /\ signins' = [signins EXCEPT ![p] = "idle"]

SignInKnown(p) ==
    /\ Vouched(p)
    /\ \E c \in Accounts(p) : jar' = [jar EXCEPT ![p] = CookieFor(c, users[c])]
    /\ UNCHANGED <<accountVars, setupVars, reqs, historyVars, left, recoveryVars>>

\* Mutant: whoever signs up without an administrator becomes one.
IsFirstAdmin == Admins = {}
IsFirst == \A c \in Names : ~Exists(c)

\* The placeholder and its membership of net 1 must be free.
SignUp(p) ==
    /\ Vouched(p)
    /\ Accounts(p) = {}
    /\ IsFirst \/ open
    /\ LET c == Placeholder[p]
           row == NewUser(p, IsFirst, ~IsFirst)
           joins == IF IsFirst THEN {} ELSE {<<c, n>> : n \in nets \cap {1}} IN
       /\ ~Exists(c)
       /\ joins \cap members = {}
       /\ users' = [users EXCEPT ![c] = row]
       /\ members' = members \cup joins
       /\ jar' = [jar EXCEPT ![p] = CookieFor(c, row)]
    /\ firsts' = firsts + IF IsFirst THEN 1 ELSE 0
    /\ UNCHANGED <<nets, pats, setupVars, reqs, stripped, imported, left, recoveryVars>>

\* No authorization: the cookie need not be valid any more.
Logout(p) ==
    /\ Spend("signin")
    /\ LoopFree
    /\ jar[p] # None
    /\ users' = IF Exists(jar[p].sub) THEN [users EXCEPT ![jar[p].sub].tv = @ + 1]
                ELSE users
    /\ jar' = [jar EXCEPT ![p] = None]
    /\ UNCHANGED <<members, nets, pats, setupVars, signins, reqs, historyVars, recoveryVars>>

-------------------------------------------------------------------------------
(* Accounts: auth/routes.py on the loop, privacy/routes.py in a thread *)

AccountRequest(p) == Spend("account") /\ Handled(p) /\ LoopFree

\* A first callsign, taken without approval.
Register(p, c) ==
    /\ AccountRequest(p)
    /\ LET old == reqs[p].name IN
       /\ old \in Placeholders
       /\ Exists(old) /\ ~Exists(c)
       /\ users' = Renamed(old, c, users[old])
       /\ jar' = [jar EXCEPT ![p] = CookieFor(c, users[old])]
    /\ UNCHANGED <<members, nets, pats, setupVars, signins, historyVars, recoveryVars>>

UpdateMe(p, c) ==
    /\ AccountRequest(p)
    /\ Exists(reqs[p].name) /\ ~Exists(c)
    /\ users' = Flushed(reqs[p].name, reqs[p].row, [reqs[p].row EXCEPT !.wants = c])
    /\ UNCHANGED <<members, nets, pats, setupVars, signins, jar, historyVars, recoveryVars>>

UpdateRole(p, c, admin, pending, deleted) ==
    /\ AccountRequest(p)
    /\ reqs[p].row.admin
    /\ Exists(c)
    /\ ~(admin /\ (pending \/ deleted))
    /\ LET seen == Seen(p, c) IN
       users' = Flushed(c, seen, [seen EXCEPT !.admin = admin, !.pending = pending,
                                              !.deleted = deleted, !.tv = @ + 1])
    /\ stripped' = (stripped \/ (users[c].admin /\ ~users'[c].admin))
    /\ UNCHANGED <<members, nets, pats, setupVars, signins, jar, firsts, imported, recoveryVars>>

ApproveCallsign(p, c) ==
    /\ AccountRequest(p)
    /\ reqs[p].row.admin
    /\ Exists(c)
    /\ LET new == Seen(p, c).wants IN
       /\ new # None
       /\ ~Exists(new)
       /\ users' = Renamed(c, new, [users[c] EXCEPT !.wants = None])
    /\ UNCHANGED <<members, nets, pats, setupVars, signins, jar, historyVars, recoveryVars>>

RejectCallsign(p, c) ==
    /\ AccountRequest(p)
    /\ reqs[p].row.admin
    /\ Exists(c)
    /\ users' = Flushed(c, Seen(p, c), [Seen(p, c) EXCEPT !.wants = None])
    /\ UNCHANGED <<members, nets, pats, setupVars, signins, jar, historyVars, recoveryVars>>

\* Mutant: administrators are not refused.
MayGoAnybody(seen) == TRUE
MayGo(seen) == ~seen.admin

\* The row is deleted by its name and another inserted: a row that took the
\* name meanwhile goes, and one that is gone already is not missed.
Anonymize(p, c) ==
    /\ Spend("account")
    /\ Handled(p)
    /\ c = reqs[p].name \/ (reqs[p].row.admin /\ Exists(c))
    /\ MayGo(Seen(p, c))
    /\ \E anon \in Anons :
          /\ ~Exists(anon)
          /\ anon # c
          /\ users' = [users EXCEPT ![c] = None,
                          ![anon] = [NewUser(anon, FALSE, FALSE) EXCEPT !.deleted = TRUE]]
    /\ pats' = [i \in PatIds |->
          IF pats[i] # None /\ pats[i].owner = c THEN None ELSE pats[i]]
    /\ jar' = IF c = reqs[p].name THEN [jar EXCEPT ![p] = None] ELSE jar
    /\ stripped' = (stripped \/ (Exists(c) /\ users[c].admin /\ ~Seen(p, c).admin))
    /\ UNCHANGED <<members, nets, setupVars, signins, firsts, imported, recoveryVars>>

-------------------------------------------------------------------------------
(* Tokens (auth/pat_routes.py, on the loop) and nets (nets/routes.py, in a  *)
(* thread).  Both look a net up first; a thread may delete it meanwhile.    *)

\* A token bound to one net is refused where membership is asked for; the
\* routes for administrators and for tokens do not ask.
CheckNet(p, n) ==
    /\ reqs[p] # None
    /\ reqs[p].net = None
    /\ n \in nets
    /\ reqs' = [reqs EXCEPT ![p].net = n]
    /\ UNCHANGED <<accountVars, setupVars, signins, jar, historyVars, left, recoveryVars>>

MayHaveMore(n) == n < MaxActive

\* Nothing runs on the loop between the count and the insert.
CreateToken(p) ==
    /\ Spend("token")
    /\ Handled(p)
    /\ LoopFree
    /\ reqs[p].cookie /\ ~reqs[p].row.pending
    /\ MayHaveMore(Cardinality(ActivePats(reqs[p].name)))
    /\ LET i == NextId({j \in PatIds : pats[j] # None}) IN
       /\ i \in PatIds
       /\ pats' = [pats EXCEPT ![i] =
             [owner |-> reqs[p].name, net |-> reqs[p].net, state |-> "active"]]
    /\ UNCHANGED <<users, members, nets, setupVars, signins, jar, historyVars, recoveryVars>>

RevokeToken(p, i) ==
    /\ Spend("token")
    /\ Handled(p)
    /\ LoopFree
    /\ reqs[p].cookie /\ ~reqs[p].row.pending
    /\ pats[i] # None /\ pats[i].state # "revoked"
    /\ reqs[p].row.admin \/ pats[i].owner = reqs[p].name
    /\ pats' = [pats EXCEPT ![i].state = "revoked"]
    /\ UNCHANGED <<users, members, nets, setupVars, signins, jar, historyVars, recoveryVars>>

TokenEnds(i) ==
    /\ Spend("token")
    /\ pats[i] # None /\ pats[i].state = "active"
    /\ pats' = [pats EXCEPT ![i].state = "expired"]
    /\ UNCHANGED <<users, members, nets, setupVars, sessionVars, historyVars, recoveryVars>>

NetRequest(p) == Spend("net") /\ Handled(p) /\ reqs[p].row.admin

\* A membership that outlived a net with this id refuses the creator's own.
CreateNet(p) ==
    /\ NetRequest(p)
    /\ LET n == NextId(nets) IN
       /\ n \in NetIds
       /\ <<reqs[p].name, n>> \notin members
       /\ nets' = nets \cup {n}
       /\ members' = members \cup {<<reqs[p].name, n>>}
    /\ UNCHANGED <<users, pats, setupVars, signins, jar, historyVars, recoveryVars>>

DeleteNet(p) ==
    /\ NetRequest(p)
    /\ LET n == reqs[p].net IN
       /\ n \in nets
       /\ reqs[p].bound \in {None, n}
       /\ nets' = nets \ {n}
       /\ members' = {m \in members : m[2] # n}
       /\ pats' = [i \in PatIds |->
             IF pats[i] # None /\ pats[i].net = n THEN None ELSE pats[i]]
    /\ UNCHANGED <<users, setupVars, signins, jar, historyVars, recoveryVars>>

MemberWrite(p, c) ==
    /\ NetRequest(p)
    /\ reqs[p].net # None
    /\ Exists(c)
    /\ users' = Flushed(c, Seen(p, c), [Seen(p, c) EXCEPT !.tv = @ + 1])
    /\ UNCHANGED <<nets, pats, setupVars, signins, jar, historyVars, recoveryVars>>

PutMember(p, c) ==
    /\ MemberWrite(p, c)
    /\ members' = members \cup {<<c, reqs[p].net>>}

RemoveMember(p, c) ==
    /\ MemberWrite(p, c)
    /\ <<c, reqs[p].net>> \in members
    /\ members' = members \ {<<c, reqs[p].net>>}

\* The member's row is gone: the membership goes alone.
RemoveOrphan(p, c) ==
    /\ NetRequest(p)
    /\ ~Exists(c) /\ <<c, reqs[p].net>> \in members
    /\ members' = members \ {<<c, reqs[p].net>>}
    /\ UNCHANGED <<users, nets, pats, setupVars, signins, jar, historyVars, recoveryVars>>

-------------------------------------------------------------------------------
(* Configuration, by an administrator or a recovery cookie.  Only the       *)
(* provider and SMTP can be removed; other keys, setup_completed among      *)
(* them, are not written by hand.                                           *)

ConfigRequest ==
    /\ Spend("config")
    /\ \/ cookies # {} /\ UNCHANGED reqs
       \/ \E p \in People : Handled(p) /\ reqs[p].row.admin
    /\ UNCHANGED <<accountVars, completed, wizards, setups, signins, jar, historyVars,
                   recoveryVars>>

SetConfig(key) == ConfigRequest /\ LoopFree /\ cfg' = cfg \cup {key} /\ UNCHANGED open

SetRegistration(isOpen) == ConfigRequest /\ LoopFree /\ open' = isOpen /\ UNCHANGED cfg

\* The provider and SMTP are written by handlers in threads.
PutBlock(block) == ConfigRequest /\ cfg' = cfg \cup {block} /\ UNCHANGED open
PutProvider == PutBlock("provider")
PutSmtp == PutBlock("smtp")

DropBlock(block) == ConfigRequest /\ cfg' = cfg \ {block} /\ UNCHANGED open
DropProvider == DropBlock("provider")
DropSmtp == DropBlock("smtp")

-------------------------------------------------------------------------------
(* The setup wizard: setup_routes.py, on the loop.  There are fewer wizards *)
(* than _SETUP_SESSIONS_MAX.                                                *)

UnchangedBySetup == UNCHANGED <<members, nets, pats, open, signins, reqs, historyVars,
                                left, recoveryVars>>

\* Setup must not be completed now; the provider's discovery is awaited next.
WizardAsk(w, c) ==
    /\ Spend("wizard")
    /\ LoopFree
    /\ ~completed
    /\ wizards[w] = None
    /\ wizards' = [v \in Wizards |->
          IF v = w THEN [call |-> c, at |-> "starting"]
          ELSE IF wizards[v] # None /\ wizards[v].at = "stale" THEN None ELSE wizards[v]]
    /\ UNCHANGED <<accountVars, cfg, open, completed, setups, sessionVars, historyVars,
                   recoveryVars>>

WizardStored(w) ==
    /\ LoopFree
    /\ wizards[w] # None /\ wizards[w].at = "starting"
    /\ wizards' = [wizards EXCEPT ![w].at = "open"]
    /\ UNCHANGED <<users, jar, cfg, completed, setups>> /\ UnchangedBySetup

SessionAges(w) ==
    /\ wizards[w] # None /\ wizards[w].at = "open"
    /\ wizards' = [wizards EXCEPT ![w].at = "stale"]
    /\ UNCHANGED <<users, jar, cfg, completed, setups>> /\ UnchangedBySetup

CallbackLate(w) ==
    /\ LoopFree
    /\ ~completed
    /\ wizards[w] # None /\ wizards[w].at = "stale"
    /\ wizards' = [wizards EXCEPT ![w] = None]
    /\ UNCHANGED <<users, jar, cfg, completed, setups>> /\ UnchangedBySetup

CallbackBegin(k, w) ==
    /\ Spend("wizard")
    /\ LoopFree
    /\ ~completed
    /\ setups[k] = None
    /\ wizards[w] # None /\ wizards[w].at = "open"
    /\ setups' = [setups EXCEPT ![k] =
          [wizard |-> w, call |-> wizards[w].call, person |-> None, next |-> 0]]
    /\ UNCHANGED <<accountVars, cfg, open, completed, wizards, sessionVars, historyVars,
                   recoveryVars>>

\* The exchange fails, and the session is dropped if it is still there.
CallbackFail(k) ==
    /\ LoopFree
    /\ setups[k] # None
    /\ setups' = [setups EXCEPT ![k] = None]
    /\ wizards' = [wizards EXCEPT ![setups[k].wizard] = None]
    /\ UNCHANGED <<users, jar, cfg, completed>> /\ UnchangedBySetup

\* The provider vouches for p. Whether setup was completed meanwhile, or the
\* session dropped, is not looked at again.
CallbackDone(k, p) ==
    /\ LoopFree
    /\ setups[k] # None
    /\ setups' = [setups EXCEPT ![k].person = p, ![k].next = 1]
    /\ UNCHANGED <<users, jar, cfg, completed, wizards>> /\ UnchangedBySetup

At(k, step) == setups[k] # None /\ setups[k].next = step

\* The order of the commits; SMTP is optional.
SettingAt == <<"provider", "smtp", "default_net_control", "net_address", "app_base_url">>
UserAt == 6
MarkAt == 7
\* Mutant: a commit is jumped over.
AfterNext(step) == {step + 1, step + 2}
After(step) == IF step = 1 THEN {2, 3} ELSE {step + 1}

SetupSetting(k) ==
    /\ setups[k] # None
    /\ setups[k].next \in DOMAIN SettingAt
    /\ cfg' = cfg \cup {SettingAt[setups[k].next]}
    /\ \E step \in After(setups[k].next) : setups' = [setups EXCEPT ![k].next = step]
    /\ UNCHANGED <<users, jar, completed, wizards>> /\ UnchangedBySetup

\* merge keeps the columns the new object does not set; the subject must not
\* be another row's, or the handler ends here and the session stays.
SetupUser(k) ==
    /\ At(k, UserAt)
    /\ LET c == setups[k].call
           p == setups[k].person
           new == NewUser(p, TRUE, FALSE) IN
       IF Accounts(p) \subseteq {c}
       THEN /\ users' = [users EXCEPT ![c] =
                  IF Exists(c) THEN [new EXCEPT !.wants = users[c].wants, !.tv = users[c].tv]
                  ELSE new]
            /\ \E step \in After(UserAt) : setups' = [setups EXCEPT ![k].next = step]
       ELSE /\ setups' = [setups EXCEPT ![k] = None]
            /\ UNCHANGED users
    /\ UNCHANGED <<jar, cfg, completed, wizards>> /\ UnchangedBySetup

\* Without the row or the session, no cookie.
SetupMark(k) ==
    /\ At(k, MarkAt)
    /\ LET c == setups[k].call
           w == setups[k].wizard IN
       /\ completed' = TRUE
       /\ jar' = IF Exists(c) /\ wizards[w] # None
                 THEN [jar EXCEPT ![setups[k].person] = CookieFor(c, users[c])] ELSE jar
       /\ wizards' = IF Exists(c) THEN [wizards EXCEPT ![w] = None] ELSE wizards
    /\ setups' = [setups EXCEPT ![k] = None]
    /\ UNCHANGED <<users, cfg>> /\ UnchangedBySetup

\* A crash, anywhere between two commits, and the next start.
Restart ==
    /\ Spend("restart")
    /\ wizards' = [w \in Wizards |-> None]
    /\ setups' = [k \in Callbacks |-> None]
    /\ signins' = [p \in People |-> "idle"]
    /\ reqs' = [p \in People |-> None]
    /\ RecoveryRestart
    /\ UNCHANGED <<accountVars, cfg, open, completed, jar, historyVars>>

Recover ==
    /\ Spend("recovery")
    /\ RecoveryNext
    /\ UNCHANGED <<accountVars, setupVars, sessionVars, historyVars>>

-------------------------------------------------------------------------------
Requests(p) ==
    \/ Authorize(p) \/ Refused(p)
    \/ SignInStart(p) \/ SignInFail(p) \/ SignInKnown(p) \/ SignUp(p) \/ Logout(p)
    \/ CreateToken(p) \/ CreateNet(p) \/ DeleteNet(p)
    \/ \E n \in NetIds : CheckNet(p, n)
    \/ \E i \in PatIds : AuthorizeByToken(p, i) \/ RevokeToken(p, i)
    \/ \E c \in Calls : Register(p, c) \/ UpdateMe(p, c)
    \/ \E c \in Names :
          \/ ApproveCallsign(p, c) \/ RejectCallsign(p, c) \/ Anonymize(p, c)
          \/ PutMember(p, c) \/ RemoveMember(p, c) \/ RemoveOrphan(p, c)
          \/ \E admin, pending, deleted \in BOOLEAN :
                UpdateRole(p, c, admin, pending, deleted)

Setting ==
    \/ \E key \in Keys : SetConfig(key)
    \/ \E isOpen \in BOOLEAN : SetRegistration(isOpen)
    \/ PutProvider \/ PutSmtp \/ DropProvider \/ DropSmtp

SetupStep ==
    \/ \E w \in Wizards :
          \/ WizardStored(w) \/ SessionAges(w) \/ CallbackLate(w)
          \/ \E c \in Calls : WizardAsk(w, c)
    \/ \E k \in Callbacks :
          \/ CallbackFail(k) \/ SetupSetting(k) \/ SetupUser(k) \/ SetupMark(k)
          \/ \E w \in Wizards : CallbackBegin(k, w)
          \/ \E p \in People : CallbackDone(k, p)

Next ==
    \/ \E p \in People : Requests(p)
    \/ \E i \in PatIds : TokenEnds(i)
    \/ Setting \/ SetupStep \/ Restart \/ Recover

Spec == Init /\ [][Next]_vars

-------------------------------------------------------------------------------
(* Setup that the wizard marked is complete (setup_routes.py:441): whatever *)
(* crashed before, overlapped or was retried, the settings are there, and so *)
(* is an administrator unless one was demoted since.                         *)
SetupWhole == completed /\ ~imported =>
    /\ {"default_net_control", "net_address", "app_base_url"} \subseteq cfg
    /\ stripped \/ Admins # {}

(* The first sign-up becomes an administrator, no later one does             *)
(* (auth/routes.py:224): however many sign in at once, with accounts renamed *)
(* and anonymized and administrators demoted meanwhile.                      *)
FirstAdminOnce == firsts <= 1
===============================================================================
