----------------------------- MODULE Access_proofs -----------------------------
(***************************************************************************)
(* Proofs about Access and the recovery tokens.  That a token opens        *)
(* recovery once needs nothing of the accounts: RecoveryInv says where a   *)
(* token that can still be claimed stands.  What is said of administrators *)
(* and of setup rests on the types of the rows, because a handler writes   *)
(* columns of a row it loaded earlier.                                     *)
(***************************************************************************)
EXTENDS Access, FiniteSetTheorems, TLAPS

------------------------------------------------------------------------------
(* Recovery tokens *)

\* A token that nobody has claimed, revoked or purged has never been answered.
RecoveryInv ==
    /\ RecoveryTypeOK
    /\ ClaimedOnce
    /\ ClaimsSpend
    /\ \A t \in Tokens : tokenRows[t] \notin {"used", "gone"} => answered[t] = 0 /\ t \notin revoked

LEMMA RecoveryInitial == RecoveryInit => RecoveryInv
  BY NoTokenAssumption DEF RecoveryInit, RecoveryInv, RecoveryTypeOK, TokenStatus, ClaimedOnce, ClaimsSpend

LEMMA RecoveryStep ==
    ASSUME RecoveryInv, RecoveryNext \/ RecoveryRestart
    PROVE  RecoveryInv'
  <1> USE NoTokenAssumption
  <1>1. ASSUME NEW t \in Tokens, MintPurge(t)
        PROVE  RecoveryInv'
    <2>1. /\ tokenRows[t] = "fresh"
          /\ \A u \in Tokens :
                /\ tokenRows'[u] \in {tokenRows[u], "minting", "gone"}
                /\ tokenRows[u] \in {"used", "gone"} => tokenRows'[u] \in {"used", "gone"}
          /\ tokenRows' \in [Tokens -> TokenStatus]
          /\ rowIds' \in [Tokens -> Nat]
      BY <1>1 DEF MintPurge, Rows, RecoveryInv, RecoveryTypeOK, TokenStatus
    <2>2. \A u \in Tokens : tokenRows'[u] \notin {"used", "gone"} => tokenRows[u] \notin {"used", "gone"}
      BY <2>1
    <2>3. UNCHANGED <<revoking, claims, cookies, answered, revoked>>
      BY <1>1 DEF MintPurge
    <2> QED BY <2>1, <2>2, <2>3 DEF RecoveryInv, RecoveryTypeOK, ClaimedOnce, ClaimsSpend
  <1>2. ASSUME NEW t \in Tokens, MintInsert(t)
        PROVE  RecoveryInv'
    <2>1. PICK id \in 1..(Cardinality(Tokens) + 1) : rowIds' = [rowIds EXCEPT ![t] = id]
      BY <1>2 DEF MintInsert
    <2>2. id \in Nat
      BY TokensAssumption, FS_CardinalityType
    <2>3. rowIds' \in [Tokens -> Nat]
      BY <2>1, <2>2 DEF RecoveryInv, RecoveryTypeOK
    <2>4. tokenRows[t] = "minting" /\ tokenRows' = [tokenRows EXCEPT ![t] = "live"]
          /\ UNCHANGED <<revoking, claims, cookies, answered, revoked>>
      BY <1>2 DEF MintInsert
    <2> QED BY <2>3, <2>4 DEF RecoveryInv, RecoveryTypeOK, TokenStatus, ClaimedOnce, ClaimsSpend
  <1>3. ASSUME NEW P \in SUBSET Tokens, RevokeRead(P)
        PROVE  RecoveryInv'
    BY <1>3 DEF RevokeRead, RecoveryInv, RecoveryTypeOK, ClaimedOnce, ClaimsSpend
  <1>4. CASE RevokeWrite
    <2> DEFINE hit == {t \in Rows : rowIds[t] \in revoking}
    <2>1. CASE revoking \subseteq {rowIds[t] : t \in hit}
      <3>1. tokenRows' = [t \in Tokens |-> IF t \in hit THEN "used" ELSE tokenRows[t]]
            /\ revoked' = revoked \cup {t \in hit : tokenRows[t] \in Unused}
            /\ revoking' = {} /\ UNCHANGED <<rowIds, claims, cookies, answered>>
        BY <1>4, <2>1 DEF RevokeWrite
      <3>2. hit \subseteq Tokens
        BY DEF Rows
      <3>3. \A t \in Tokens : tokenRows'[t] \notin {"used", "gone"} =>
               t \notin hit /\ tokenRows'[t] = tokenRows[t]
        BY <3>1
      <3>4. \A t \in revoked' : answered[t] = 0
        BY <3>1, <3>2 DEF RecoveryInv, RecoveryTypeOK, ClaimedOnce, Unused
      <3>5. \A r \in Claimers : claims[r] # NoToken => claims[r] \notin revoked'
        BY <3>1 DEF RecoveryInv, ClaimsSpend, Unused
      <3>6. RecoveryTypeOK'
        BY <3>1, <3>2 DEF RecoveryInv, RecoveryTypeOK, TokenStatus
      <3>7. ClaimsSpend'
        BY <3>1, <3>2, <3>5 DEF RecoveryInv, RecoveryTypeOK, ClaimsSpend
      <3>8. ClaimedOnce'
        BY <3>1, <3>4 DEF RecoveryInv, ClaimedOnce
      <3> HIDE DEF hit
      <3> QED BY <3>1, <3>3, <3>6, <3>7, <3>8 DEF RecoveryInv
    <2>2. CASE ~(revoking \subseteq {rowIds[t] : t \in hit})
      <3>1. revoking' = {} /\ UNCHANGED <<tokenRows, revoked, rowIds, claims, cookies, answered>>
        BY <1>4, <2>2 DEF RevokeWrite
      <3> QED BY <3>1 DEF RecoveryInv, RecoveryTypeOK, ClaimedOnce, ClaimsSpend
    <2> QED BY <2>1, <2>2
  <1>5. ASSUME NEW r \in Claimers, NEW t \in Tokens, ClaimUpdate(r, t)
        PROVE  RecoveryInv'
    <2>1. tokenRows[t] = "live" /\ claims[r] = NoToken
          /\ tokenRows' = [tokenRows EXCEPT ![t] = "used"]
          /\ claims' = [claims EXCEPT ![r] = t]
          /\ UNCHANGED <<rowIds, revoking, cookies, answered, revoked>>
      BY <1>5 DEF ClaimUpdate, Claimable
    <2>2. answered[t] = 0 /\ t \notin revoked /\ \A q \in Claimers : claims[q] # t
      BY <2>1 DEF RecoveryInv, ClaimsSpend
    <2>3. RecoveryTypeOK'
      BY <2>1 DEF RecoveryInv, RecoveryTypeOK, TokenStatus
    <2>4. ClaimsSpend'
      BY <2>1, <2>2 DEF RecoveryInv, RecoveryTypeOK, ClaimsSpend
    <2> QED BY <2>1, <2>3, <2>4 DEF RecoveryInv, RecoveryTypeOK, ClaimedOnce
  <1>6. ASSUME NEW r \in Claimers, ClaimAnswer(r)
        PROVE  RecoveryInv'
    <2> DEFINE t == claims[r]
    <2>1. t \in Tokens /\ answered[t] = 0 /\ t \notin revoked /\ tokenRows[t] \in {"used", "gone"}
          /\ \A q \in Claimers : claims[q] = t => q = r
      BY <1>6 DEF ClaimAnswer, RecoveryInv, RecoveryTypeOK, ClaimsSpend
    <2>2. /\ claims' = [claims EXCEPT ![r] = NoToken]
          /\ UNCHANGED <<tokenRows, rowIds, revoking, revoked>>
          /\ \/ UNCHANGED <<cookies, answered>>
             \/ cookies' = cookies \cup {t} /\ answered' = [answered EXCEPT ![t] = @ + 1]
      BY <1>6 DEF ClaimAnswer
    <2>3. answered' \in [Tokens -> Nat] /\ answered'[t] <= 1
          /\ \A u \in Tokens : u # t => answered'[u] = answered[u]
      BY <2>1, <2>2 DEF RecoveryInv, RecoveryTypeOK
    <2>4. RecoveryTypeOK'
      BY <2>1, <2>2, <2>3 DEF RecoveryInv, RecoveryTypeOK
    <2>5. \A q \in Claimers : claims'[q] # NoToken => q # r /\ claims'[q] = claims[q] /\ claims[q] # t
      BY <2>1, <2>2 DEF RecoveryInv, RecoveryTypeOK
    <2>6. \A q \in Claimers : claims'[q] # NoToken => claims[q] \in Tokens
      BY <2>5 DEF RecoveryInv, RecoveryTypeOK
    <2>7. UNCHANGED <<tokenRows, revoked>>
      BY <2>2
    <2> HIDE DEF t
    <2>8. ClaimsSpend'
      BY <2>3, <2>5, <2>6, <2>7 DEF RecoveryInv, ClaimsSpend
    <2>9. ClaimedOnce'
      BY <2>1, <2>3, <2>7 DEF RecoveryInv, ClaimedOnce
    <2> QED BY <2>1, <2>3, <2>4, <2>7, <2>8, <2>9 DEF RecoveryInv
  <1>7. ASSUME NEW t \in Tokens, TokenExpires(t)
        PROVE  RecoveryInv'
    BY <1>7 DEF TokenExpires, RecoveryInv, RecoveryTypeOK, TokenStatus, ClaimedOnce, ClaimsSpend
  <1>8. ASSUME NEW t \in Tokens, CookieEnds(t)
        PROVE  RecoveryInv'
    BY <1>8 DEF CookieEnds, RecoveryInv, RecoveryTypeOK, ClaimedOnce, ClaimsSpend
  <1>9. CASE RecoveryRestart
    BY <1>9 DEF RecoveryRestart, RecoveryInv, RecoveryTypeOK, ClaimedOnce, ClaimsSpend
  <1> QED
    BY <1>1, <1>2, <1>3, <1>4, <1>5, <1>6, <1>7, <1>8, <1>9 DEF RecoveryNext

\* Everything but the command line, the claims and the restart leaves the
\* tokens alone.
LEMMA OthersLeaveTokens ==
    ASSUME [Next]_vars, ~Recover, ~Restart
    PROVE  UNCHANGED recoveryVars
  <1>1. ASSUME NEW p \in People, Requests(p)
        PROVE  UNCHANGED recoveryVars
    <2>1. ASSUME Authorize(p) \/ Refused(p) \/ SignInStart(p) \/ SignInFail(p) \/ SignInKnown(p)
                 \/ SignUp(p) \/ Logout(p) \/ CreateToken(p) \/ CreateNet(p) \/ DeleteNet(p)
          PROVE  UNCHANGED recoveryVars
      BY <2>1 DEF Authorize, Refused, SignInStart, SignInFail, SignInKnown, SignUp, Logout,
                  CreateToken, CreateNet, DeleteNet
    <2>2. ASSUME NEW n \in NetIds, CheckNet(p, n)
          PROVE  UNCHANGED recoveryVars
      BY <2>2 DEF CheckNet
    <2>3. ASSUME NEW i \in PatIds, AuthorizeByToken(p, i) \/ RevokeToken(p, i)
          PROVE  UNCHANGED recoveryVars
      BY <2>3 DEF AuthorizeByToken, RevokeToken
    <2>4. ASSUME NEW c \in Calls, Register(p, c) \/ UpdateMe(p, c)
          PROVE  UNCHANGED recoveryVars
      BY <2>4 DEF Register, UpdateMe
    <2>5. ASSUME NEW c \in Names,
                 \/ ApproveCallsign(p, c) \/ RejectCallsign(p, c) \/ Anonymize(p, c)
                 \/ PutMember(p, c) \/ RemoveMember(p, c) \/ RemoveOrphan(p, c)
          PROVE  UNCHANGED recoveryVars
      BY <2>5 DEF ApproveCallsign, RejectCallsign, Anonymize, PutMember, RemoveMember,
                  MemberWrite, RemoveOrphan
    <2>6. ASSUME NEW c \in Names, NEW admin, NEW pending, NEW deleted,
                 UpdateRole(p, c, admin, pending, deleted)
          PROVE  UNCHANGED recoveryVars
      BY <2>6 DEF UpdateRole
    <2> QED BY <1>1, <2>1, <2>2, <2>3, <2>4, <2>5, <2>6 DEF Requests
  <1>2. ASSUME NEW i \in PatIds, TokenEnds(i)
        PROVE  UNCHANGED recoveryVars
    BY <1>2 DEF TokenEnds
  <1>3. CASE Setting
    BY <1>3 DEF Setting, SetConfig, SetRegistration, PutBlock, DropBlock, PutProvider, PutSmtp, DropProvider, DropSmtp, ConfigRequest
  <1>4. CASE SetupStep
    BY <1>4 DEF SetupStep, WizardStored, SessionAges, CallbackLate, WizardAsk, CallbackFail,
                SetupSetting, SetupUser, SetupMark, CallbackBegin, CallbackDone, UnchangedBySetup
  <1> QED BY <1>1, <1>2, <1>3, <1>4 DEF Next, vars

LEMMA RecoveryKept ==
    ASSUME RecoveryInv, [Next]_vars
    PROVE  RecoveryInv'
  <1>1. CASE Recover \/ Restart
    BY <1>1, RecoveryStep DEF Recover, Restart
  <1>2. CASE UNCHANGED recoveryVars
    BY <1>2 DEF recoveryVars, RecoveryInv, RecoveryTypeOK, ClaimedOnce, ClaimsSpend
  <1> QED BY <1>1, <1>2, OthersLeaveTokens

(* A recovery token opens recovery at most once, and not after it has been   *)
(* revoked (auth/recovery.py:113).                                           *)
THEOREM TokenClaimedOnce == Spec => []ClaimedOnce
  <1>1. Init => RecoveryInv
    BY RecoveryInitial DEF Init
  <1>2. RecoveryInv => ClaimedOnce
    BY DEF RecoveryInv
  <1> QED BY <1>1, <1>2, RecoveryKept, PTL DEF Spec

------------------------------------------------------------------------------
(* Rows and the types of the rest *)

UsersTyped == users \in [Names -> Row \cup {None}]

LEMMA NewUserTyped ==
    ASSUME NEW p \in People \cup Anons, NEW admin \in BOOLEAN, NEW pending \in BOOLEAN
    PROVE  /\ NewUser(p, admin, pending) \in Row
           /\ [NewUser(p, admin, pending) EXCEPT !.deleted = TRUE] \in Row
           /\ NewUser(p, admin, pending).admin = admin
  BY DEF NewUser, Row

LEMMA CookieTyped ==
    ASSUME NEW c \in Names, NEW row \in Row
    PROVE  CookieFor(c, row) \in Cookie
  BY DEF CookieFor, Cookie, Row

\* A flush takes each column from one of two rows.
LEMMA FlushedTyped ==
    ASSUME UsersTyped, NEW c \in Names, Exists(c), NEW seen \in Row, NEW new \in Row
    PROVE  \E row \in Row :
              /\ Flushed(c, seen, new) = [users EXCEPT ![c] = row]
              /\ new.admin = seen.admin => row.admin = users[c].admin
  <1> DEFINE old == users[c]
             row == [f \in DOMAIN old |-> IF new[f] # seen[f] THEN new[f] ELSE old[f]]
  <1>1. old \in Row
    BY DEF UsersTyped, Exists
  <1>2. row = [subject |-> row.subject, admin |-> row.admin, pending |-> row.pending,
               deleted |-> row.deleted, wants |-> row.wants, tv |-> row.tv]
    BY <1>1 DEF Row
  <1>3. row.subject \in People \cup Anons /\ row.admin \in BOOLEAN /\ row.pending \in BOOLEAN
        /\ row.deleted \in BOOLEAN /\ row.wants \in Calls \cup {None} /\ row.tv \in Nat
    BY <1>1 DEF Row
  <1>4. row \in Row
    BY <1>2, <1>3 DEF Row
  <1>5. new.admin = seen.admin => row.admin = old.admin
    BY <1>1 DEF Row
  <1>6. Flushed(c, seen, new) = [users EXCEPT ![c] = row]
    BY DEF Flushed, UsersTyped
  <1> QED BY <1>4, <1>5, <1>6

\* What no step does to the administrators: they are not gone without a trace
\* in stripped, and once there is an account there always is one.
AdminsKept == (Admins # {} => stripped' \/ Admins' # {}) /\ (stripped => stripped')
AccountsKept == (\E c \in Names : Exists(c)) => (\E c \in Names : Exists(c)')
RowsKept == UsersTyped' /\ AdminsKept /\ AccountsKept

LEMMA RowsSame ==
    ASSUME UsersTyped, UNCHANGED users, stripped => stripped'
    PROVE  RowsKept
  BY DEF RowsKept, UsersTyped, AdminsKept, AccountsKept, Admins, Exists

LEMMA RowWritten ==
    ASSUME UsersTyped, NEW c \in Names, NEW row \in Row, users' = [users EXCEPT ![c] = row],
           stripped => stripped',
           Exists(c) => row.admin = users[c].admin \/ row.admin = TRUE \/ stripped'
    PROVE  RowsKept
  <1>1. users'[c] = row /\ row # None /\ \A d \in Names \ {c} : users'[d] = users[d]
    BY NoneApart DEF UsersTyped
  <1>2. UsersTyped' /\ AccountsKept
    BY <1>1 DEF UsersTyped, AccountsKept, Exists
  <1>3. ASSUME NEW d \in Admins, ~stripped'
        PROVE  d \in Admins'
    BY <1>1, <1>3 DEF Admins, Exists
  <1> QED BY <1>2, <1>3 DEF RowsKept, AdminsKept

LEMMA RowRenamed ==
    ASSUME UsersTyped, NEW old \in Names, NEW new \in Names, Exists(old), ~Exists(new),
           NEW row \in Row, row.admin = users[old].admin, users' = Renamed(old, new, row),
           stripped => stripped'
    PROVE  RowsKept
  <1>1. /\ old # new /\ users'[new] = row /\ row # None /\ users'[old] = None
        /\ \A d \in Names \ {old, new} : users'[d] = users[d]
        /\ users' \in [Names -> Row \cup {None}]
    BY NoneApart DEF UsersTyped, Renamed, Exists
  <1>2. UsersTyped' /\ AccountsKept
    BY <1>1 DEF UsersTyped, AccountsKept, Exists
  <1>3. ASSUME NEW d \in Admins
        PROVE  \E e \in Names : e \in Admins'
    <2>1. CASE d = old
      BY <1>1, <1>3, <2>1 DEF Admins, Exists
    <2>2. CASE d # old
      BY <1>1, <1>3, <2>2 DEF Admins, Exists
    <2> QED BY <2>1, <2>2
  <1> QED BY <1>2, <1>3 DEF RowsKept, AdminsKept

\* A flush of columns that leaves the admin column alone, or says so.
LEMMA RowFlushed ==
    ASSUME UsersTyped, NEW c \in Names, Exists(c), NEW seen \in Row, NEW new \in Row,
           users' = Flushed(c, seen, new), stripped => stripped',
           new.admin = seen.admin \/ (users[c].admin /\ ~users'[c].admin => stripped')
    PROVE  RowsKept
  <1>1. \E row \in Row :
           /\ Flushed(c, seen, new) = [users EXCEPT ![c] = row]
           /\ new.admin = seen.admin => row.admin = users[c].admin
    BY FlushedTyped
  <1>2. PICK row \in Row :
           /\ users' = [users EXCEPT ![c] = row]
           /\ new.admin = seen.admin => row.admin = users[c].admin
    BY <1>1
  <1>3. users'[c] = row /\ users[c] \in Row
    BY <1>2 DEF UsersTyped, Exists
  <1>4. row.admin \in BOOLEAN /\ users[c].admin \in BOOLEAN
    BY <1>3 DEF Row
  <1>5. row.admin = users[c].admin \/ row.admin = TRUE \/ stripped'
    BY <1>2, <1>3, <1>4
  <1> QED BY <1>2, <1>5, RowWritten

\* The types of what is neither an account's row nor a recovery token.
OtherTypes ==
    /\ members \subseteq Names \X NetIds
    /\ nets \subseteq NetIds
    /\ pats \in [PatIds -> Pat \cup {None}]
    /\ cfg \subseteq Keys /\ open \in BOOLEAN /\ completed \in BOOLEAN
    /\ wizards \in [Wizards -> Wizard \cup {None}]
    /\ setups \in [Callbacks -> Setup \cup {None}]
    /\ signins \in [People -> {"idle", "exchange"}]
    /\ jar \in [People -> Cookie \cup {None}]
    /\ reqs \in [People -> Request \cup {None}]
    /\ firsts \in Nat /\ stripped \in BOOLEAN /\ imported \in BOOLEAN
    /\ left \in [Kinds -> Nat]

LEMMA TypesSplit == TypeOK <=> RecoveryTypeOK /\ UsersTyped /\ OtherTypes
  BY DEF TypeOK, UsersTyped, OtherTypes

LEMMA SpendTyped ==
    ASSUME OtherTypes, NEW k \in Kinds, Spend(k)
    PROVE  left' \in [Kinds -> Nat]
  BY DEF OtherTypes, Spend

LEMMA RequestTyped ==
    ASSUME OtherTypes, NEW p \in People, Handled(p)
    PROVE  /\ reqs[p] \in Request /\ reqs[p].name \in Names /\ reqs[p].row \in Row
           /\ reqs[p].net \in NetIds \cup {None}
           /\ reqs' \in [People -> Request \cup {None}]
  BY DEF OtherTypes, Handled, Request

LEMMA SeenTyped ==
    ASSUME UsersTyped, OtherTypes, NEW p \in People, Handled(p), NEW c \in Names,
           Exists(c) \/ c = reqs[p].name
    PROVE  Seen(p, c) \in Row
  BY RequestTyped DEF Seen, UsersTyped, Exists

\* A request that only loads, or ends without a change.
LEMMA AuthorizeTyped ==
    ASSUME UsersTyped, OtherTypes, NEW p \in People,
           \/ Authorize(p) \/ Refused(p)
           \/ \E i \in PatIds : AuthorizeByToken(p, i)
           \/ \E n \in NetIds : CheckNet(p, n)
    PROVE  RowsKept /\ OtherTypes' /\ UNCHANGED firsts
  <1>1. UNCHANGED <<accountVars, setupVars, signins, jar, historyVars, left>>
    BY DEF Authorize, Refused, AuthorizeByToken, CheckNet
  <1>2. reqs' \in [People -> Request \cup {None}]
    <2>1. CASE Authorize(p)
      <3>1. jar[p] \in Cookie /\ users[jar[p].sub] \in Row /\ jar[p].sub \in Names
        BY <2>1 DEF Authorize, CookieValid, Exists, OtherTypes, UsersTyped, Cookie
      <3>2. [name |-> jar[p].sub, row |-> users[jar[p].sub], cookie |-> TRUE,
             bound |-> None, net |-> None] \in Request
        BY <3>1 DEF Request
      <3> QED BY <2>1, <3>2 DEF Authorize, OtherTypes
    <2>2. CASE Refused(p)
      BY <2>2, RequestTyped DEF Refused
    <2>3. ASSUME NEW i \in PatIds, AuthorizeByToken(p, i)
          PROVE  reqs' \in [People -> Request \cup {None}]
      <3> DEFINE c == pats[i].owner
      <3>1. pats[i] \in Pat /\ c \in Names /\ users[c] \in Row /\ pats[i].net \in NetIds \cup {None}
        BY <2>3 DEF AuthorizeByToken, Exists, OtherTypes, UsersTyped, Pat
      <3>2. [name |-> c, row |-> users[c], cookie |-> FALSE, bound |-> pats[i].net,
             net |-> None] \in Request
        BY <3>1 DEF Request
      <3> QED BY <2>3, <3>2 DEF AuthorizeByToken, OtherTypes
    <2>4. ASSUME NEW n \in NetIds, CheckNet(p, n)
          PROVE  reqs' \in [People -> Request \cup {None}]
      <3>1. reqs[p] \in Request
        BY <2>4 DEF CheckNet, OtherTypes
      <3>2. [reqs[p] EXCEPT !.net = n] \in Request
        BY <3>1 DEF Request
      <3>3. reqs' = [reqs EXCEPT ![p] = [reqs[p] EXCEPT !.net = n]]
        BY <2>4 DEF CheckNet, OtherTypes
      <3> QED BY <3>2, <3>3 DEF OtherTypes
    <2> QED BY <2>1, <2>2, <2>3, <2>4
  <1>3. RowsKept
    BY <1>1, RowsSame DEF accountVars, historyVars
  <1> QED BY <1>1, <1>2, <1>3 DEF OtherTypes, accountVars, setupVars, historyVars

LEMMA SignInTyped ==
    ASSUME UsersTyped, OtherTypes, NEW p \in People,
           SignInStart(p) \/ SignInFail(p) \/ SignInKnown(p) \/ Logout(p)
    PROVE  RowsKept /\ OtherTypes' /\ UNCHANGED firsts
  <1>1. CASE SignInStart(p)
    <2>1. left' \in [Kinds -> Nat]
      BY <1>1, SpendTyped DEF SignInStart, Kinds
    <2> QED BY <1>1, <2>1, RowsSame DEF SignInStart, OtherTypes, accountVars, setupVars, historyVars
  <1>2. CASE SignInFail(p)
    BY <1>2, RowsSame DEF SignInFail, OtherTypes, accountVars, setupVars, historyVars
  <1>3. CASE SignInKnown(p)
    <2>1. PICK c \in Accounts(p) : jar' = [jar EXCEPT ![p] = CookieFor(c, users[c])]
      BY <1>3 DEF SignInKnown
    <2>2. CookieFor(c, users[c]) \in Cookie
      BY CookieTyped DEF Accounts, Exists, UsersTyped
    <2>3. jar' \in [People -> Cookie \cup {None}]
      BY <2>1, <2>2 DEF OtherTypes
    <2> QED BY <1>3, <2>3, RowsSame DEF SignInKnown, Vouched, OtherTypes, accountVars, setupVars, historyVars
  <1>4. CASE Logout(p)
    <2>1. left' \in [Kinds -> Nat]
      BY <1>4, SpendTyped DEF Logout, Kinds
    <2>2. RowsKept
      <3> DEFINE c == jar[p].sub
                 row == [users[c] EXCEPT !.tv = @ + 1]
      <3>1. UNCHANGED stripped
        BY <1>4 DEF Logout, historyVars
      <3>2. CASE ~Exists(c)
        BY <1>4, <3>1, <3>2, RowsSame DEF Logout
      <3>3. CASE Exists(c)
        <4>1. c \in Names
          BY <1>4 DEF Logout, OtherTypes, Cookie
        <4>2. users[c] \in Row
          BY <3>3, <4>1 DEF Exists, UsersTyped
        <4>3. row \in Row /\ row.admin = users[c].admin
          BY <4>2 DEF Row
        <4>4. users' = [users EXCEPT ![c] = row]
          BY <1>4, <3>3 DEF Logout, UsersTyped
        <4> HIDE DEF row, c
        <4> QED BY <3>1, <4>1, <4>3, <4>4, RowWritten
      <3> QED BY <3>2, <3>3
    <2> QED BY <1>4, <2>1, <2>2 DEF Logout, OtherTypes, setupVars, historyVars
  <1> QED BY <1>1, <1>2, <1>3, <1>4

LEMMA SignUpTyped ==
    ASSUME UsersTyped, OtherTypes, NEW p \in People, SignUp(p)
    PROVE  /\ RowsKept /\ OtherTypes'
           /\ firsts' = firsts + (IF IsFirst THEN 1 ELSE 0)
           /\ \E c \in Names : Exists(c)'
  <1> DEFINE c == Placeholder[p]
             row == NewUser(p, IsFirst, ~IsFirst)
  <1>1. c \in Names
    BY PlaceholderAssumption DEF Names, Placeholders
  <1>2. row \in Row
    BY NewUserTyped, IsFirst \in BOOLEAN DEF IsFirst
  <1>3. /\ users' = [users EXCEPT ![c] = row] /\ ~Exists(c)
        /\ members' = members \cup (IF IsFirst THEN {} ELSE {<<c, n>> : n \in nets \cap {1}})
        /\ jar' = [jar EXCEPT ![p] = CookieFor(c, row)]
        /\ firsts' = firsts + (IF IsFirst THEN 1 ELSE 0)
        /\ signins' = [signins EXCEPT ![p] = "idle"]
        /\ UNCHANGED <<nets, pats, setupVars, reqs, stripped, imported, left>>
    BY DEF SignUp, Vouched
  <1>4. jar' \in [People -> Cookie \cup {None}]
    BY <1>1, <1>2, <1>3, CookieTyped DEF OtherTypes
  <1>5. members' \subseteq Names \X NetIds
    BY <1>1, <1>3 DEF OtherTypes
  <1> HIDE DEF row, c
  <1>6. RowsKept
    BY <1>1, <1>2, <1>3, RowWritten
  <1>7. Exists(c)'
    BY <1>1, <1>2, <1>3, NoneApart DEF Exists, UsersTyped
  <1>8. OtherTypes'
    BY <1>3, <1>4, <1>5 DEF OtherTypes, setupVars
  <1> QED BY <1>1, <1>3, <1>6, <1>7, <1>8

LEMMA AccountTyped ==
    ASSUME UsersTyped, OtherTypes, NEW p \in People,
           \/ \E c \in Calls : Register(p, c) \/ UpdateMe(p, c)
           \/ \E c \in Names :
                 \/ ApproveCallsign(p, c) \/ RejectCallsign(p, c)
                 \/ \E admin, pending, deleted \in BOOLEAN :
                       UpdateRole(p, c, admin, pending, deleted)
    PROVE  RowsKept /\ OtherTypes' /\ UNCHANGED firsts
  <1>1. /\ Handled(p) /\ Spend("account") /\ reqs' \in [People -> Request \cup {None}]
        /\ left' \in [Kinds -> Nat]
    BY RequestTyped, SpendTyped DEF Register, UpdateMe, ApproveCallsign, RejectCallsign,
       UpdateRole, AccountRequest, Kinds
  <1>2. UNCHANGED <<members, nets, pats, setupVars, signins, firsts, imported>>
    BY DEF Register, UpdateMe, ApproveCallsign, RejectCallsign, UpdateRole, historyVars
  <1>n. Calls \subseteq Names
    BY DEF Names
  <1>3. ASSUME NEW c \in Calls, Register(p, c)
        PROVE  RowsKept /\ jar' \in [People -> Cookie \cup {None}] /\ stripped' \in BOOLEAN
    <2> DEFINE old == reqs[p].name
    <2>1. /\ Exists(old) /\ ~Exists(c) /\ users' = Renamed(old, c, users[old])
          /\ jar' = [jar EXCEPT ![p] = CookieFor(c, users[old])] /\ stripped' = stripped
      BY <1>3 DEF Register, historyVars
    <2>2. old \in Names /\ c \in Names
      BY <1>1, <1>n, RequestTyped
    <2>3. users[old] \in Row
      BY <2>1, <2>2 DEF UsersTyped, Exists
    <2>4. CookieFor(c, users[old]) \in Cookie
      BY <2>2, <2>3, CookieTyped
    <2> HIDE DEF old
    <2>5. RowsKept
      BY <2>1, <2>2, <2>3, RowRenamed
    <2> QED BY <2>1, <2>4, <2>5 DEF OtherTypes
  <1>4. ASSUME NEW c \in Calls, UpdateMe(p, c)
        PROVE  RowsKept /\ UNCHANGED <<jar, stripped>>
    <2> DEFINE own == reqs[p].name
               seen == reqs[p].row
               new == [seen EXCEPT !.wants = c]
    <2>1. own \in Names /\ seen \in Row
      BY <1>1, RequestTyped
    <2>2. new \in Row /\ new.admin = seen.admin
      BY <2>1 DEF Row
    <2>3. Exists(own) /\ users' = Flushed(own, seen, new) /\ UNCHANGED <<jar, stripped>>
      BY <1>4 DEF UpdateMe, historyVars
    <2> HIDE DEF own, seen, new
    <2> QED BY <2>1, <2>2, <2>3, RowFlushed
  <1>5. ASSUME NEW c \in Names, ApproveCallsign(p, c)
        PROVE  RowsKept /\ UNCHANGED <<jar, stripped>>
    <2> DEFINE new == Seen(p, c).wants
               row == [users[c] EXCEPT !.wants = None]
    <2>1. /\ Exists(c) /\ new # None /\ ~Exists(new) /\ users' = Renamed(c, new, row)
          /\ UNCHANGED <<jar, stripped>>
      BY <1>5 DEF ApproveCallsign, historyVars
    <2>2. new \in Calls
      BY <1>1, <2>1, SeenTyped DEF Row
    <2>3. users[c] \in Row
      BY <2>1 DEF UsersTyped, Exists
    <2>4. row \in Row /\ row.admin = users[c].admin
      BY <2>3 DEF Row
    <2> HIDE DEF new, row
    <2> QED BY <1>n, <2>1, <2>2, <2>4, RowRenamed
  <1>6. ASSUME NEW c \in Names, RejectCallsign(p, c)
        PROVE  RowsKept /\ UNCHANGED <<jar, stripped>>
    <2> DEFINE seen == Seen(p, c)
               new == [seen EXCEPT !.wants = None]
    <2>1. Exists(c) /\ users' = Flushed(c, seen, new) /\ UNCHANGED <<jar, stripped>>
      BY <1>6 DEF RejectCallsign, historyVars
    <2>2. seen \in Row
      BY <1>1, <2>1, SeenTyped
    <2>3. new \in Row /\ new.admin = seen.admin
      BY <2>2 DEF Row
    <2> HIDE DEF seen, new
    <2> QED BY <2>1, <2>2, <2>3, RowFlushed
  <1>7. ASSUME NEW c \in Names, NEW admin \in BOOLEAN, NEW pending \in BOOLEAN,
               NEW deleted \in BOOLEAN, UpdateRole(p, c, admin, pending, deleted)
        PROVE  RowsKept /\ UNCHANGED jar /\ stripped' \in BOOLEAN
    <2> DEFINE seen == Seen(p, c)
               new == [seen EXCEPT !.admin = admin, !.pending = pending,
                                   !.deleted = deleted, !.tv = @ + 1]
    <2>1. /\ Exists(c) /\ users' = Flushed(c, seen, new) /\ UNCHANGED jar
          /\ stripped' = (stripped \/ (users[c].admin /\ ~users'[c].admin))
      BY <1>7 DEF UpdateRole
    <2>2. seen \in Row
      BY <1>1, <2>1, SeenTyped
    <2> HIDE DEF seen
    <2>a. ASSUME NEW r \in Row
          PROVE  [r EXCEPT !.admin = admin, !.pending = pending, !.deleted = deleted,
                           !.tv = @ + 1] \in Row
      <3>1. r.tv + 1 \in Nat
        BY DEF Row
      <3>2. [r EXCEPT !.admin = admin, !.pending = pending] \in Row
        BY DEF Row
      <3>3. [r EXCEPT !.deleted = deleted, !.tv = r.tv + 1] \in Row
        BY <3>1 DEF Row
      <3> QED BY <3>1, <3>2, <3>3 DEF Row
    <2>3. new \in Row
      BY <2>2, <2>a
    <2> HIDE DEF new
    <2>4. stripped => stripped'
      BY <2>1
    <2>5. users[c].admin /\ ~users'[c].admin => stripped'
      BY <2>1
    <2>6. RowsKept
      BY <2>1, <2>2, <2>3, <2>4, <2>5, RowFlushed
    <2> QED BY <2>1, <2>6
  <1>8. RowsKept /\ jar' \in [People -> Cookie \cup {None}] /\ stripped' \in BOOLEAN
    BY <1>3, <1>4, <1>5, <1>6, <1>7 DEF OtherTypes
  <1> QED BY <1>1, <1>2, <1>8 DEF OtherTypes, setupVars

LEMMA AnonymizeTyped ==
    ASSUME UsersTyped, OtherTypes, NEW p \in People, NEW c \in Names, Anonymize(p, c)
    PROVE  RowsKept /\ OtherTypes' /\ UNCHANGED firsts
  <1>1. PICK anon \in Anons :
           /\ ~Exists(anon) /\ anon # c
           /\ users' = [users EXCEPT ![c] = None,
                           ![anon] = [NewUser(anon, FALSE, FALSE) EXCEPT !.deleted = TRUE]]
    BY DEF Anonymize
  <1> DEFINE row == [NewUser(anon, FALSE, FALSE) EXCEPT !.deleted = TRUE]
  <1>2. /\ Handled(p) /\ Spend("account") /\ reqs' \in [People -> Request \cup {None}]
        /\ left' \in [Kinds -> Nat]
    BY RequestTyped, SpendTyped DEF Anonymize, Kinds
  <1>3. /\ ~Seen(p, c).admin
        /\ stripped' = (stripped \/ (Exists(c) /\ users[c].admin /\ ~Seen(p, c).admin))
        /\ UNCHANGED <<members, nets, setupVars, signins, firsts, imported>>
        /\ pats' = [i \in PatIds |->
              IF pats[i] # None /\ pats[i].owner = c THEN None ELSE pats[i]]
        /\ jar' = IF c = reqs[p].name THEN [jar EXCEPT ![p] = None] ELSE jar
    BY DEF Anonymize, MayGo
  <1>4. row \in Row /\ row # None /\ anon \in Names
    BY NewUserTyped, NoneApart DEF Names
  <1>5. /\ users'[anon] = row /\ users'[c] = None
        /\ \A d \in Names \ {anon, c} : users'[d] = users[d]
        /\ users' \in [Names -> Row \cup {None}]
    BY <1>1, <1>4 DEF UsersTyped
  <1>6. UsersTyped' /\ AccountsKept
    BY <1>4, <1>5 DEF UsersTyped, AccountsKept, Exists
  <1>7. AdminsKept
    <2>1. ASSUME NEW d \in Admins, ~stripped'
          PROVE  d \in Admins'
      <3>1. d # c
        BY <1>3, <2>1 DEF Admins, Exists
      <3>2. d # anon
        BY <1>1, <2>1 DEF Admins
      <3> QED BY <1>5, <2>1, <3>1, <3>2 DEF Admins, Exists
    <2> QED BY <1>3, <2>1 DEF AdminsKept
  <1>8. stripped' \in BOOLEAN
    BY <1>3
  <1>9. pats' \in [PatIds -> Pat \cup {None}] /\ jar' \in [People -> Cookie \cup {None}]
    BY <1>3 DEF OtherTypes
  <1> QED BY <1>2, <1>3, <1>6, <1>7, <1>8, <1>9 DEF OtherTypes, setupVars, RowsKept

LEMMA TokenTyped ==
    ASSUME UsersTyped, OtherTypes,
           \/ \E p \in People : CreateToken(p) \/ \E i \in PatIds : RevokeToken(p, i)
           \/ \E i \in PatIds : TokenEnds(i)
    PROVE  RowsKept /\ OtherTypes' /\ UNCHANGED firsts
  <1>1. left' \in [Kinds -> Nat]
    BY SpendTyped DEF CreateToken, RevokeToken, TokenEnds, Kinds
  <1>2. UNCHANGED <<users, members, nets, setupVars, signins, jar, historyVars>>
    BY DEF CreateToken, RevokeToken, TokenEnds, sessionVars
  <1>3. RowsKept
    BY <1>2, RowsSame DEF historyVars
  <1>4. reqs' \in [People -> Request \cup {None}]
    BY RequestTyped DEF CreateToken, RevokeToken, TokenEnds, sessionVars, OtherTypes
  <1>5. ASSUME NEW i \in PatIds, pats[i] # None, NEW state \in {"revoked", "expired"}
        PROVE  [pats EXCEPT ![i].state = state] \in [PatIds -> Pat \cup {None}]
    <2>1. pats[i] \in Pat
      BY <1>5 DEF OtherTypes
    <2>2. [pats[i] EXCEPT !.state = state] \in Pat
      BY <2>1 DEF Pat
    <2>3. [pats EXCEPT ![i].state = state] = [pats EXCEPT ![i] = [pats[i] EXCEPT !.state = state]]
      BY DEF OtherTypes
    <2> QED BY <2>2, <2>3 DEF OtherTypes
  <1>6. pats' \in [PatIds -> Pat \cup {None}]
    <2>1. ASSUME NEW p \in People, CreateToken(p)
          PROVE  pats' \in [PatIds -> Pat \cup {None}]
      <3>1. PICK i \in PatIds : pats' = [pats EXCEPT ![i] =
               [owner |-> reqs[p].name, net |-> reqs[p].net, state |-> "active"]]
        BY <2>1 DEF CreateToken
      <3>2. reqs[p].name \in Names /\ reqs[p].net \in NetIds \cup {None}
        BY <2>1, RequestTyped DEF CreateToken
      <3>3. [owner |-> reqs[p].name, net |-> reqs[p].net, state |-> "active"] \in Pat
        BY <3>2 DEF Pat
      <3> QED BY <3>1, <3>3 DEF OtherTypes
    <2>2. ASSUME NEW p \in People, NEW i \in PatIds, RevokeToken(p, i)
          PROVE  pats' \in [PatIds -> Pat \cup {None}]
      BY <1>5, <2>2 DEF RevokeToken
    <2>3. ASSUME NEW i \in PatIds, TokenEnds(i)
          PROVE  pats' \in [PatIds -> Pat \cup {None}]
      BY <1>5, <2>3 DEF TokenEnds
    <2> QED BY <2>1, <2>2, <2>3
  <1> QED BY <1>1, <1>2, <1>3, <1>4, <1>6 DEF OtherTypes, setupVars, historyVars

LEMMA NetTyped ==
    ASSUME UsersTyped, OtherTypes, NEW p \in People,
           \/ CreateNet(p) \/ DeleteNet(p)
           \/ \E c \in Names : PutMember(p, c) \/ RemoveMember(p, c) \/ RemoveOrphan(p, c)
    PROVE  RowsKept /\ OtherTypes' /\ UNCHANGED firsts
  <1>1. /\ Handled(p) /\ Spend("net") /\ reqs' \in [People -> Request \cup {None}]
        /\ left' \in [Kinds -> Nat]
    BY RequestTyped, SpendTyped DEF CreateNet, DeleteNet, PutMember, RemoveMember,
       RemoveOrphan, MemberWrite, NetRequest, Kinds
  <1>2. UNCHANGED <<setupVars, signins, jar, historyVars>>
    BY DEF CreateNet, DeleteNet, PutMember, RemoveMember, RemoveOrphan, MemberWrite
  <1>3. RowsKept
    <2>1. CASE UNCHANGED users
      BY <1>2, <2>1, RowsSame DEF historyVars
    <2>2. ASSUME NEW c \in Names, MemberWrite(p, c)
          PROVE  RowsKept
      <3> DEFINE seen == Seen(p, c)
                 new == [seen EXCEPT !.tv = @ + 1]
      <3>1. Exists(c) /\ users' = Flushed(c, seen, new)
        BY <2>2 DEF MemberWrite
      <3>2. seen \in Row
        BY <1>1, <3>1, SeenTyped
      <3>3. new \in Row /\ new.admin = seen.admin
        BY <3>2 DEF Row
      <3> HIDE DEF seen, new
      <3>4. stripped => stripped'
        BY <1>2 DEF historyVars
      <3> QED BY <3>1, <3>2, <3>3, <3>4, RowFlushed
    <2> QED BY <2>1, <2>2 DEF CreateNet, DeleteNet, PutMember, RemoveMember, RemoveOrphan
  <1>4. members' \subseteq Names \X NetIds /\ nets' \subseteq NetIds
    <2>1. reqs[p].name \in Names /\ reqs[p].net \in NetIds \cup {None}
      BY <1>1, RequestTyped
    <2>2. CASE CreateNet(p)
      BY <2>1, <2>2 DEF CreateNet, OtherTypes
    <2>3. CASE DeleteNet(p)
      BY <2>3 DEF DeleteNet, OtherTypes
    <2>4. ASSUME NEW c \in Names, PutMember(p, c) \/ RemoveMember(p, c) \/ RemoveOrphan(p, c)
          PROVE  members' \subseteq Names \X NetIds /\ nets' \subseteq NetIds
      BY <2>1, <2>4 DEF PutMember, RemoveMember, RemoveOrphan, MemberWrite, OtherTypes
    <2> QED BY <2>2, <2>3, <2>4
  <1>5. pats' \in [PatIds -> Pat \cup {None}]
    BY DEF CreateNet, DeleteNet, PutMember, RemoveMember, RemoveOrphan, MemberWrite, OtherTypes
  <1> QED BY <1>1, <1>2, <1>3, <1>4, <1>5 DEF OtherTypes, setupVars, historyVars

LEMMA SettingTyped ==
    ASSUME UsersTyped, OtherTypes, Setting
    PROVE  RowsKept /\ OtherTypes' /\ UNCHANGED firsts
  <1>1. ConfigRequest
    BY DEF Setting, SetConfig, SetRegistration, PutBlock, DropBlock, PutProvider, PutSmtp, DropProvider, DropSmtp
  <1>2. /\ left' \in [Kinds -> Nat]
        /\ UNCHANGED <<accountVars, completed, wizards, setups, signins, jar, historyVars>>
        /\ reqs' \in [People -> Request \cup {None}]
    BY <1>1, SpendTyped, RequestTyped DEF ConfigRequest, Kinds, OtherTypes
  <1>3. cfg' \subseteq Keys /\ open' \in BOOLEAN
    BY DEF Setting, SetConfig, SetRegistration, PutBlock, DropBlock, PutProvider, PutSmtp, DropProvider, DropSmtp, OtherTypes, Keys
  <1>4. RowsKept
    BY <1>2, RowsSame DEF accountVars, historyVars
  <1> QED BY <1>2, <1>3, <1>4 DEF OtherTypes, accountVars, historyVars

------------------------------------------------------------------------------
(* The setup wizard *)

Needed == {"default_net_control", "net_address", "app_base_url"}

\* A callback's commits so far are in the configuration, and before the last one
\* there is an administrator.
Stage(k) == setups[k] # None =>
    /\ setups[k].next > 3 => "default_net_control" \in cfg
    /\ setups[k].next > 4 => "net_address" \in cfg
    /\ setups[k].next > 5 => "app_base_url" \in cfg
    /\ setups[k].next = MarkAt => stripped \/ Admins # {}
    /\ setups[k].next > 0 => setups[k].person # None

\* A callback that is not at a commit, or as it was.
BeforeCommits(k) ==
    \/ setups'[k] = setups[k] \/ setups'[k] = None
    \/ setups'[k].next = 0
    \/ setups'[k].next = 1 /\ setups'[k].person # None

SetupInv == SetupWhole /\ \A k \in Callbacks : Stage(k)

\* A step that writes no stage of its own.
LEMMA SetupKept ==
    ASSUME SetupInv, RowsKept, Needed \cap cfg \subseteq cfg', UNCHANGED <<completed, imported>>,
           \A k \in Callbacks : BeforeCommits(k)
    PROVE  SetupInv'
  <1>1. stripped \/ Admins # {} => stripped' \/ Admins' # {}
    BY DEF RowsKept, AdminsKept
  <1>2. SetupWhole'
    BY <1>1 DEF SetupInv, SetupWhole, Needed
  <1>3. ASSUME NEW k \in Callbacks
        PROVE  Stage(k)'
    BY <1>1, <1>3 DEF SetupInv, Stage, Needed, MarkAt, BeforeCommits
  <1> QED BY <1>2, <1>3 DEF SetupInv

\* The steps before the commits.
LEMMA WizardTyped ==
    ASSUME UsersTyped, OtherTypes, SetupInv,
           \/ \E w \in Wizards :
                 \/ WizardStored(w) \/ SessionAges(w) \/ CallbackLate(w)
                 \/ \E c \in Calls : WizardAsk(w, c)
           \/ \E k \in Callbacks :
                 \/ CallbackFail(k) \/ \E w \in Wizards : CallbackBegin(k, w)
                 \/ \E p \in People : CallbackDone(k, p)
    PROVE  RowsKept /\ OtherTypes' /\ UNCHANGED firsts /\ SetupInv'
  <1>1. UNCHANGED <<accountVars, cfg, open, completed, sessionVars, historyVars>>
    BY DEF WizardStored, SessionAges, CallbackLate, WizardAsk, CallbackFail, CallbackBegin,
           CallbackDone, UnchangedBySetup, accountVars, sessionVars
  <1>2. left' \in [Kinds -> Nat]
    BY SpendTyped DEF WizardStored, SessionAges, CallbackLate, WizardAsk, CallbackFail,
       CallbackBegin, CallbackDone, UnchangedBySetup, Kinds, OtherTypes
  <1>3. ASSUME NEW w \in Wizards, wizards[w] # None, NEW at \in {"open", "stale"}
        PROVE  [wizards EXCEPT ![w].at = at] \in [Wizards -> Wizard \cup {None}]
    <2>1. wizards[w] \in Wizard
      BY <1>3 DEF OtherTypes
    <2>2. [wizards[w] EXCEPT !.at = at] \in Wizard
      BY <2>1 DEF Wizard
    <2>3. [wizards EXCEPT ![w].at = at] = [wizards EXCEPT ![w] = [wizards[w] EXCEPT !.at = at]]
      BY DEF OtherTypes
    <2> QED BY <2>2, <2>3 DEF OtherTypes
  <1>4. wizards' \in [Wizards -> Wizard \cup {None}]
    <2>1. ASSUME NEW w \in Wizards, WizardStored(w) \/ SessionAges(w)
          PROVE  wizards' \in [Wizards -> Wizard \cup {None}]
      BY <1>3, <2>1 DEF WizardStored, SessionAges
    <2>2. ASSUME NEW w \in Wizards, NEW c \in Calls, WizardAsk(w, c)
          PROVE  wizards' \in [Wizards -> Wizard \cup {None}]
      <3>1. [call |-> c, at |-> "starting"] \in Wizard
        BY DEF Wizard
      <3> QED BY <2>2, <3>1 DEF WizardAsk, OtherTypes
    <2>3. ASSUME NEW w \in Wizards, CallbackLate(w)
          PROVE  wizards' \in [Wizards -> Wizard \cup {None}]
      BY <2>3 DEF CallbackLate, OtherTypes
    <2>4. ASSUME NEW k \in Callbacks, CallbackFail(k)
          PROVE  wizards' \in [Wizards -> Wizard \cup {None}]
      BY <2>4 DEF CallbackFail, OtherTypes
    <2> QED BY <2>1, <2>2, <2>3, <2>4 DEF CallbackBegin, CallbackDone, OtherTypes
  <1>5. /\ setups' \in [Callbacks -> Setup \cup {None}]
        /\ \A k \in Callbacks : BeforeCommits(k)
    <2> DEFINE Good == setups' \in [Callbacks -> Setup \cup {None}]
                       /\ \A k \in Callbacks : BeforeCommits(k)
    <2>1. CASE UNCHANGED setups
      BY <2>1 DEF OtherTypes, BeforeCommits
    <2>2. ASSUME NEW k \in Callbacks, CallbackFail(k)
          PROVE  Good
      BY <2>2 DEF CallbackFail, OtherTypes, BeforeCommits
    <2>3. ASSUME NEW k \in Callbacks, NEW w \in Wizards, CallbackBegin(k, w)
          PROVE  Good
      <3> DEFINE new == [wizard |-> w, call |-> wizards[w].call, person |-> None, next |-> 0]
      <3>1. wizards[w] \in Wizard
        BY <2>3 DEF CallbackBegin, OtherTypes
      <3>2. new \in Setup /\ new.next = 0
        BY <3>1 DEF Setup, Wizard
      <3>3. setups' = [setups EXCEPT ![k] = new]
        BY <2>3 DEF CallbackBegin
      <3> HIDE DEF new
      <3> QED BY <3>2, <3>3 DEF OtherTypes, BeforeCommits
    <2>4. ASSUME NEW k \in Callbacks, NEW p \in People, CallbackDone(k, p)
          PROVE  Good
      <3> DEFINE new == [setups[k] EXCEPT !.person = p, !.next = 1]
      <3>1. setups[k] \in Setup
        BY <2>4 DEF CallbackDone, OtherTypes
      <3>2. new \in Setup /\ new.next = 1 /\ new.person # None
        <4> DEFINE asked == [setups[k] EXCEPT !.person = p]
        <4>1. asked \in Setup /\ asked.person = p
          BY <3>1 DEF Setup
        <4>2. new = [asked EXCEPT !.next = 1]
          OBVIOUS
        <4> HIDE DEF asked, new
        <4>3. [asked EXCEPT !.next = 1] \in Setup /\ [asked EXCEPT !.next = 1].next = 1
              /\ [asked EXCEPT !.next = 1].person = asked.person
          BY <4>1 DEF Setup
        <4> QED BY <4>1, <4>2, <4>3, NoneApart
      <3>3. setups' = [setups EXCEPT ![k] = new]
        BY <2>4 DEF CallbackDone, OtherTypes
      <3> HIDE DEF new
      <3> QED BY <3>2, <3>3 DEF OtherTypes, BeforeCommits
    <2> QED BY <2>1, <2>2, <2>3, <2>4 DEF WizardStored, SessionAges, CallbackLate, WizardAsk
  <1>6. RowsKept
    BY <1>1, RowsSame DEF accountVars, historyVars
  <1>7. SetupInv'
    BY <1>1, <1>5, <1>6, SetupKept DEF historyVars
  <1> QED
    BY <1>1, <1>2, <1>4, <1>5, <1>6, <1>7 DEF OtherTypes, accountVars, sessionVars, historyVars

\* What a commit writes about its callback.
LEMMA StageAfter ==
    ASSUME OtherTypes, NEW k \in Callbacks, setups[k] # None, NEW step \in 0..7,
           setups' = [setups EXCEPT ![k].next = step]
    PROVE  /\ setups' \in [Callbacks -> Setup \cup {None}]
           /\ setups'[k].next = step /\ setups'[k].person = setups[k].person
           /\ \A j \in Callbacks \ {k} : setups'[j] = setups[j]
  <1> DEFINE new == [setups[k] EXCEPT !.next = step]
  <1>1. setups[k] \in Setup
    BY DEF OtherTypes
  <1>2. new \in Setup /\ new.next = step /\ new.person = setups[k].person
    BY <1>1 DEF Setup
  <1>3. setups' = [setups EXCEPT ![k] = new]
    BY DEF OtherTypes
  <1> HIDE DEF new
  <1> QED BY <1>2, <1>3 DEF OtherTypes

LEMMA CommitTyped ==
    ASSUME UsersTyped, OtherTypes, SetupInv, NEW k \in Callbacks,
           SetupSetting(k) \/ SetupUser(k) \/ SetupMark(k)
    PROVE  RowsKept /\ OtherTypes' /\ UNCHANGED firsts /\ SetupInv'
  <1>1. UNCHANGED <<members, nets, pats, open, signins, reqs, historyVars, left>>
    BY DEF SetupSetting, SetupUser, SetupMark, UnchangedBySetup
  <1>2. setups[k] \in Setup /\ setups[k].next \in 0..7
    BY DEF SetupSetting, SetupUser, SetupMark, At, OtherTypes, Setup
  <1>3. CASE SetupSetting(k)
    <2>1. UNCHANGED <<users, jar, completed, wizards>>
      BY <1>3 DEF SetupSetting
    <2>2. DOMAIN SettingAt = 1..5
      BY DEF SettingAt
    <2>3. PICK step \in After(setups[k].next) : setups' = [setups EXCEPT ![k].next = step]
      BY <1>3 DEF SetupSetting
    <2>4. step \in 0..7 /\ setups[k].next \in 1..5
          /\ (step = setups[k].next + 1 \/ (setups[k].next = 1 /\ step = 3))
      BY <1>3, <2>2, <2>3 DEF SetupSetting, After
    <2>5. cfg' = cfg \cup {SettingAt[setups[k].next]}
      BY <1>3 DEF SetupSetting
    <2>6. /\ setups[k].next = 3 => "default_net_control" \in cfg'
          /\ setups[k].next = 4 => "net_address" \in cfg'
          /\ setups[k].next = 5 => "app_base_url" \in cfg'
          /\ cfg' \subseteq Keys /\ cfg \subseteq cfg'
      <3>1. /\ SettingAt[1] = "provider" /\ SettingAt[2] = "smtp"
            /\ SettingAt[3] = "default_net_control" /\ SettingAt[4] = "net_address"
            /\ SettingAt[5] = "app_base_url"
        BY DEF SettingAt
      <3>2. SettingAt[setups[k].next] \in Keys
        BY <2>4, <3>1 DEF Keys
      <3> QED BY <2>5, <3>1, <3>2 DEF OtherTypes
    <2>7. RowsKept
      BY <1>1, <2>1, RowsSame DEF historyVars
    <2>8. /\ setups' \in [Callbacks -> Setup \cup {None}]
          /\ setups'[k].next = step /\ setups'[k].person = setups[k].person
          /\ \A j \in Callbacks \ {k} : setups'[j] = setups[j]
      BY <1>3, <2>3, <2>4, StageAfter DEF SetupSetting
    <2>9. OtherTypes'
      BY <1>1, <2>1, <2>6, <2>8 DEF OtherTypes, historyVars
    <2>10. Stage(k)'
      <3>1. setups[k] # None /\ Stage(k)
        BY <1>3 DEF SetupSetting, SetupInv
      <3> QED BY <2>4, <2>6, <2>8, <3>1 DEF Stage, MarkAt
    <2>11. stripped' = stripped /\ Admins' = Admins
      BY <1>1, <2>1 DEF historyVars, Admins, Exists
    <2>12. \A j \in Callbacks \ {k} : Stage(j)'
      BY <2>6, <2>8, <2>11 DEF SetupInv, Stage
    <2>13. SetupWhole'
      BY <1>1, <2>1, <2>6, <2>11 DEF SetupInv, SetupWhole, historyVars
    <2> QED BY <1>1, <2>7, <2>9, <2>10, <2>12, <2>13 DEF SetupInv, historyVars
  <1>4. CASE SetupUser(k)
    <2>1. UNCHANGED <<jar, cfg, completed, wizards>> /\ setups[k].next = UserAt
          /\ setups[k] # None
      BY <1>4 DEF SetupUser, At
    <2> DEFINE c == setups[k].call
               p == setups[k].person
               new == NewUser(p, TRUE, FALSE)
               row == IF Exists(c) THEN [new EXCEPT !.wants = users[c].wants, !.tv = users[c].tv]
                      ELSE new
    <2>p. p \in People
      BY <1>2, <2>1 DEF SetupInv, Stage, Setup, UserAt
    <2>2. CASE Accounts(p) \subseteq {c}
      <3>1. users' = [users EXCEPT ![c] = row]
        BY <1>4, <2>2 DEF SetupUser
      <3>2. c \in Names /\ new \in Row /\ new.admin = TRUE
        BY <1>2, <2>p, NewUserTyped DEF Setup, Names
      <3>3. row \in Row /\ row.admin = TRUE
        <4>1. CASE ~Exists(c)
          BY <3>2, <4>1
        <4>2. CASE Exists(c)
          <5>1. users[c] \in Row
            BY <3>2, <4>2 DEF Exists, UsersTyped
          <5> HIDE DEF new
          <5>2. [new EXCEPT !.wants = users[c].wants] \in Row
            BY <3>2, <5>1 DEF Row
          <5>3. [new EXCEPT !.wants = users[c].wants, !.tv = users[c].tv] \in Row
            BY <3>2, <5>1, <5>2 DEF Row
          <5>4. [new EXCEPT !.wants = users[c].wants, !.tv = users[c].tv].admin = TRUE
            BY <3>2 DEF Row
          <5> QED BY <4>2, <5>3, <5>4
        <4> QED BY <4>1, <4>2
      <3> HIDE DEF row
      <3>4. RowsKept
        BY <1>1, <3>1, <3>2, <3>3, RowWritten DEF historyVars
      <3>5. c \in Admins'
        BY <3>1, <3>2, <3>3, NoneApart DEF Admins, Exists, UsersTyped
      <3>6. setups' = [setups EXCEPT ![k].next = 7]
        BY <1>4, <2>2 DEF SetupUser, After, UserAt
      <3>7. /\ setups' \in [Callbacks -> Setup \cup {None}]
            /\ setups'[k].next = 7 /\ setups'[k].person = setups[k].person
            /\ \A j \in Callbacks \ {k} : setups'[j] = setups[j]
        BY <2>1, <3>6, 7 \in 0..7, StageAfter
      <3>8. OtherTypes'
        BY <1>1, <2>1, <3>7 DEF OtherTypes, historyVars
      <3>9. Stage(k)'
        BY <2>1, <3>5, <3>7 DEF SetupInv, Stage, UserAt
      <3>10. \A j \in Callbacks \ {k} : Stage(j)'
        BY <2>1, <3>5, <3>7 DEF SetupInv, Stage
      <3>11. SetupWhole'
        BY <1>1, <2>1, <3>5 DEF SetupInv, SetupWhole, historyVars
      <3> QED BY <1>1, <3>4, <3>8, <3>9, <3>10, <3>11 DEF SetupInv, historyVars
    <2>3. CASE ~(Accounts(p) \subseteq {c})
      <3>1. setups' = [setups EXCEPT ![k] = None] /\ UNCHANGED users
        BY <1>4, <2>3 DEF SetupUser
      <3>2. RowsKept
        BY <1>1, <3>1, RowsSame DEF historyVars
      <3>3. setups' \in [Callbacks -> Setup \cup {None}]
        BY <3>1 DEF OtherTypes
      <3>4. SetupInv'
        <4>1. \A j \in Callbacks : BeforeCommits(j)
          BY <3>1 DEF BeforeCommits, OtherTypes
        <4>2. Needed \cap cfg \subseteq cfg' /\ UNCHANGED <<completed, imported>>
          BY <1>1, <2>1 DEF historyVars
        <4> QED BY <3>2, <4>1, <4>2, SetupKept
      <3> QED BY <1>1, <2>1, <3>2, <3>3, <3>4 DEF OtherTypes, historyVars
    <2> QED BY <2>1, <2>2, <2>3
  <1>5. CASE SetupMark(k)
    <2> DEFINE c == setups[k].call
               w == setups[k].wizard
    <2>1. /\ setups[k] # None /\ setups[k].next = MarkAt
          /\ completed' = TRUE /\ setups' = [setups EXCEPT ![k] = None]
          /\ UNCHANGED <<users, cfg>>
          /\ jar' = IF Exists(c) /\ wizards[w] # None
                    THEN [jar EXCEPT ![setups[k].person] = CookieFor(c, users[c])] ELSE jar
          /\ wizards' = IF Exists(c) THEN [wizards EXCEPT ![w] = None] ELSE wizards
      BY <1>5 DEF SetupMark, At
    <2>2. wizards' \in [Wizards -> Wizard \cup {None}]
      BY <2>1 DEF OtherTypes
    <2>3. jar' \in [People -> Cookie \cup {None}]
      <3>1. CASE Exists(c)
        <4>1. c \in Names
          BY <1>2 DEF Setup, Names
        <4>2. users[c] \in Row
          BY <3>1, <4>1 DEF Exists, UsersTyped
        <4>3. CookieFor(c, users[c]) \in Cookie
          BY <4>1, <4>2, CookieTyped
        <4> QED BY <2>1, <4>3 DEF OtherTypes
      <3>2. CASE ~Exists(c)
        BY <2>1, <3>2 DEF OtherTypes
      <3> QED BY <3>1, <3>2
    <2>4. RowsKept
      BY <1>1, <2>1, RowsSame DEF historyVars
    <2>5. OtherTypes'
      BY <1>1, <2>1, <2>2, <2>3 DEF OtherTypes, historyVars
    <2>6. stripped' = stripped /\ Admins' = Admins /\ cfg' = cfg
      BY <1>1, <2>1 DEF historyVars, Admins, Exists
    <2>7. Stage(k)
      BY DEF SetupInv
    <2>8. SetupWhole'
      BY <1>2, <2>1, <2>6, <2>7 DEF Stage, SetupWhole, MarkAt
    <2>9. \A j \in Callbacks : Stage(j)'
      BY <2>1, <2>6 DEF SetupInv, Stage, OtherTypes
    <2> QED BY <1>1, <2>4, <2>5, <2>8, <2>9 DEF SetupInv, historyVars
  <1> QED BY <1>3, <1>4, <1>5

------------------------------------------------------------------------------
(* The theorems about accounts and setup *)

FirstInv == firsts <= 1 /\ (firsts = 1 => \E c \in Names : Exists(c))

AccessInv == TypeOK /\ RecoveryInv /\ FirstInv /\ SetupInv

LEMMA AccessInitial == Init => AccessInv
  <1> SUFFICES ASSUME Init PROVE AccessInv
    OBVIOUS
  <1>1. RecoveryInv
    BY RecoveryInitial DEF Init
  <1>2. /\ users \in [Names -> Row \cup {None}]
        /\ cfg \subseteq Keys
        /\ SetupWhole
    <2>1. CASE users = [c \in Names |-> None]
               /\ imported \in BOOLEAN /\ completed = imported
               /\ cfg = (IF imported THEN {"provider"} ELSE {})
      BY <2>1 DEF Keys, SetupWhole
    <2>2. ASSUME NEW p \in People, NEW c \in Calls,
                 users = [d \in Names |-> IF d = c THEN NewUser(p, TRUE, FALSE) ELSE None],
                 cfg = Keys
          PROVE  users \in [Names -> Row \cup {None}] /\ cfg \subseteq Keys /\ SetupWhole
      <3>1. NewUser(p, TRUE, FALSE) \in Row /\ NewUser(p, TRUE, FALSE).admin = TRUE
        BY NewUserTyped
      <3>2. c \in Names
        BY DEF Names
      <3>3. c \in Admins
        BY <2>2, <3>1, <3>2, NoneApart DEF Admins, Exists
      <3> QED BY <2>2, <3>1, <3>3 DEF Keys, SetupWhole
    <2> QED BY <2>1, <2>2 DEF Init
  <1>3. completed \in BOOLEAN /\ imported \in BOOLEAN
    BY DEF Init
  <1>4. TypeOK
    BY <1>1, <1>2, <1>3, BudgetAssumption DEF Init, TypeOK, RecoveryInv
  <1>5. FirstInv /\ \A k \in Callbacks : Stage(k)
    BY DEF Init, FirstInv, Stage
  <1> QED BY <1>1, <1>2, <1>4, <1>5 DEF AccessInv, SetupInv

\* Requests of one person, but for a first sign-up.
LEMMA PersonStep ==
    ASSUME UsersTyped, OtherTypes, SetupInv, NEW p \in People, Requests(p)
    PROVE  /\ RowsKept /\ OtherTypes' /\ SetupInv'
           /\ \/ UNCHANGED firsts
              \/ SignUp(p) /\ firsts' = firsts + (IF IsFirst THEN 1 ELSE 0)
                 /\ \E c \in Names : Exists(c)'
  <1>1. RowsKept /\ OtherTypes' /\ (UNCHANGED firsts \/ SignUp(p))
    BY AuthorizeTyped, SignInTyped, SignUpTyped, AccountTyped, AnonymizeTyped, TokenTyped, NetTyped
       DEF Requests
  <1>2. UNCHANGED <<cfg, completed, imported, setups>>
    BY DEF Requests, Authorize, Refused, SignInStart, SignInFail, SignInKnown, SignUp, Logout,
           CreateToken, CreateNet, DeleteNet, CheckNet, AuthorizeByToken, RevokeToken, Register,
           UpdateMe, ApproveCallsign, RejectCallsign, Anonymize, PutMember, RemoveMember,
           MemberWrite, RemoveOrphan, UpdateRole, setupVars, historyVars
  <1>3. SetupInv'
    BY <1>1, <1>2, SetupKept DEF BeforeCommits
  <1> QED BY <1>1, <1>3, SignUpTyped

LEMMA AccessStep == AccessInv /\ [Next]_vars => AccessInv'
  <1> SUFFICES ASSUME AccessInv, [Next]_vars PROVE AccessInv'
    OBVIOUS
  <1>1. UsersTyped /\ OtherTypes /\ SetupInv /\ FirstInv /\ RecoveryInv
    BY TypesSplit DEF AccessInv
  <1>2. RecoveryInv'
    BY <1>1, RecoveryKept
  <1>3. ASSUME RowsKept, OtherTypes', SetupInv', UNCHANGED firsts
        PROVE  AccessInv'
    <2>1. TypeOK'
      BY <1>2, <1>3 DEF RowsKept, UsersTyped, OtherTypes, TypeOK, RecoveryInv
    <2>2. FirstInv'
      BY <1>1, <1>3 DEF RowsKept, AccountsKept, FirstInv
    <2> QED BY <1>2, <1>3, <2>1, <2>2 DEF AccessInv
  <1>4. ASSUME NEW p \in People, Requests(p)
        PROVE  AccessInv'
    <2>1. RowsKept /\ OtherTypes' /\ SetupInv'
          /\ (UNCHANGED firsts \/ (/\ firsts' = firsts + (IF IsFirst THEN 1 ELSE 0)
                                   /\ \E c \in Names : Exists(c)'))
      BY <1>1, <1>4, PersonStep
    <2>2. FirstInv'
      BY <1>1, <2>1 DEF RowsKept, AccountsKept, FirstInv, IsFirst, OtherTypes
    <2>3. TypeOK'
      BY <1>2, <2>1 DEF RowsKept, UsersTyped, OtherTypes, TypeOK, RecoveryInv
    <2> QED BY <1>2, <2>1, <2>2, <2>3 DEF AccessInv
  <1>5. ASSUME NEW i \in PatIds, TokenEnds(i)
        PROVE  AccessInv'
    <2>1. RowsKept /\ OtherTypes' /\ UNCHANGED firsts
      BY <1>1, <1>5, TokenTyped
    <2>2. SetupInv'
      BY <1>1, <1>5, <2>1, SetupKept DEF TokenEnds, setupVars, historyVars, BeforeCommits
    <2> QED BY <1>3, <2>1, <2>2
  <1>6. CASE Setting
    <2>1. RowsKept /\ OtherTypes' /\ UNCHANGED firsts
      BY <1>1, <1>6, SettingTyped
    <2>2. Needed \cap cfg \subseteq cfg' /\ UNCHANGED <<completed, setups, historyVars>>
      BY <1>6 DEF Setting, SetConfig, SetRegistration, PutBlock, DropBlock, PutProvider, PutSmtp, DropProvider, DropSmtp, ConfigRequest, Needed
    <2>3. SetupInv'
      BY <1>1, <2>1, <2>2, SetupKept DEF historyVars, BeforeCommits
    <2> QED BY <1>3, <2>1, <2>3
  <1>7. CASE SetupStep
    <2>1. RowsKept /\ OtherTypes' /\ UNCHANGED firsts /\ SetupInv'
      BY <1>1, <1>7, WizardTyped, CommitTyped DEF SetupStep
    <2> QED BY <1>3, <2>1
  <1>8. CASE Restart
    <2>1. left' \in [Kinds -> Nat]
      BY <1>1, <1>8, SpendTyped DEF Restart, Kinds
    <2>2. RowsKept
      BY <1>1, <1>8, RowsSame DEF Restart, accountVars, historyVars
    <2>3. OtherTypes' /\ UNCHANGED firsts
      BY <1>1, <1>8, <2>1 DEF Restart, OtherTypes, accountVars, historyVars
    <2>4. SetupInv'
      BY <1>1, <1>8, <2>2, SetupKept DEF Restart, BeforeCommits, historyVars
    <2> QED BY <1>3, <2>2, <2>3, <2>4
  <1>9. CASE Recover
    <2>1. left' \in [Kinds -> Nat]
      BY <1>1, <1>9, SpendTyped DEF Recover, Kinds
    <2>2. RowsKept
      BY <1>1, <1>9, RowsSame DEF Recover, accountVars, historyVars
    <2>3. OtherTypes' /\ UNCHANGED firsts
      BY <1>1, <1>9, <2>1 DEF Recover, OtherTypes, accountVars, setupVars, sessionVars, historyVars
    <2>4. SetupInv'
      BY <1>1, <1>9, <2>2, SetupKept DEF Recover, BeforeCommits, setupVars, historyVars
    <2> QED BY <1>3, <2>2, <2>3, <2>4
  <1>10. CASE UNCHANGED vars
    <2>1. UNCHANGED <<accountVars, setupVars, sessionVars, historyVars, left>>
      BY <1>10 DEF vars
    <2>2. RowsKept
      BY <1>1, <2>1, RowsSame DEF accountVars, historyVars
    <2>3. OtherTypes' /\ UNCHANGED firsts
      BY <1>1, <2>1 DEF OtherTypes, accountVars, setupVars, sessionVars, historyVars
    <2>4. SetupInv'
      BY <1>1, <2>1, <2>2, SetupKept DEF BeforeCommits, setupVars, historyVars
    <2> QED BY <1>3, <2>2, <2>3, <2>4
  <1> QED BY <1>4, <1>5, <1>6, <1>7, <1>8, <1>9, <1>10 DEF Next

LEMMA AccessAlways == Spec => []AccessInv
  BY AccessInitial, AccessStep, PTL DEF Spec

(* Every variable keeps its type, whatever rows handlers write back that     *)
(* they loaded long ago.                                                     *)
THEOREM AccessTyped == Spec => []TypeOK
  <1>1. AccessInv => TypeOK
    BY DEF AccessInv
  <1> QED BY <1>1, AccessAlways, PTL

(* At most one account is made administrator as the first one                *)
(* (auth/routes.py:224).                                                     *)
THEOREM OneFirstAdmin == Spec => []FirstAdminOnce
  <1>1. AccessInv => FirstAdminOnce
    BY DEF AccessInv, FirstInv, FirstAdminOnce
  <1> QED BY <1>1, AccessAlways, PTL

(* Setup that the wizard marked is complete, whatever crashed or overlapped  *)
(* before (setup_routes.py:441).                                             *)
THEOREM MarkedSetupWhole == Spec => []SetupWhole
  <1>1. AccessInv => SetupWhole
    BY DEF AccessInv, SetupInv
  <1> QED BY <1>1, AccessAlways, PTL
==============================================================================
