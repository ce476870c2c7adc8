------------------------------- MODULE Recovery -------------------------------
(***************************************************************************)
(* Break-glass recovery tokens.  The command line mints and revokes them   *)
(* in processes of its own; the server claims them, each claim in a thread,*)
(* and answers a claim with a cookie that lets its holder repair the       *)
(* configuration.  The hash of a token stands for the token.               *)
(***************************************************************************)
EXTENDS Naturals, FiniteSets

CONSTANTS
    Tokens,   \* plaintexts that may be minted; 256 random bits never repeat
    Claimers, \* claim requests in flight, each in a thread
    NoToken

ASSUME NoTokenAssumption == NoToken \notin Tokens
ASSUME TokensAssumption == IsFiniteSet(Tokens)

VARIABLES
    tokenRows, \* admin_recovery_tokens: the row of each token
    rowIds,    \* and its id, 0 without a row
    revoking,  \* ids of the rows a revoke command has read and not yet written
    claims,    \* the token a claimer's UPDATE has won, until it is answered
    cookies,   \* tokens whose recovery cookie some browser holds
    answered,  \* times a claim of each token was answered with a cookie
    revoked    \* tokens that were revoked before anybody claimed them

recoveryVars == <<tokenRows, rowIds, revoking, claims, cookies, answered, revoked>>

\* "fresh": not minted yet; "minting": purged, not inserted; "gone": purged.
\* A row with used_at is "used" whether or not it has expired.
TokenStatus == {"fresh", "minting", "live", "expired", "used", "gone"}
Unused == {"live", "expired"}

RecoveryTypeOK ==
    /\ tokenRows \in [Tokens -> TokenStatus]
    /\ rowIds \in [Tokens -> Nat]
    /\ revoking \subseteq Nat
    /\ claims \in [Claimers -> Tokens \cup {NoToken}]
    /\ cookies \subseteq Tokens
    /\ answered \in [Tokens -> Nat]
    /\ revoked \subseteq Tokens

RecoveryInit ==
    /\ tokenRows = [t \in Tokens |-> "fresh"]
    /\ rowIds = [t \in Tokens |-> 0]
    /\ revoking = {}
    /\ claims = [r \in Claimers |-> NoToken]
    /\ cookies = {}
    /\ answered = [t \in Tokens |-> 0]
    /\ revoked = {}

-------------------------------------------------------------------------------
(* The command line *)

Rows == {t \in Tokens : tokenRows[t] \in {"live", "expired", "used"}}

\* mint_token commits twice: it deletes used and expired rows, then inserts.
MintPurge(t) ==
    /\ tokenRows[t] = "fresh"
    /\ LET purged == {u \in Rows : tokenRows[u] # "live"} IN
       /\ tokenRows' = [u \in Tokens |-> IF u = t THEN "minting"
                                         ELSE IF u \in purged THEN "gone" ELSE tokenRows[u]]
       /\ rowIds' = [u \in Tokens |-> IF u \in purged THEN 0 ELSE rowIds[u]]
    /\ UNCHANGED <<revoking, claims, cookies, answered, revoked>>

\* SQLite gives the row the highest id there is plus one, one that a purged
\* row may have had.
MintInsert(t) ==
    /\ tokenRows[t] = "minting"
    /\ tokenRows' = [tokenRows EXCEPT ![t] = "live"]
    /\ \E id \in 1..(Cardinality(Tokens) + 1) :
          /\ \A u \in Rows : rowIds[u] < id
          /\ id = 1 \/ \E u \in Rows : rowIds[u] = id - 1
          /\ rowIds' = [rowIds EXCEPT ![t] = id]
    /\ UNCHANGED <<revoking, claims, cookies, answered, revoked>>

\* revoke_by_prefix reads the unused rows under a prefix, then writes used_at
\* to each by its id.
RevokeRead(P) ==
    /\ revoking = {}
    /\ P # {}
    /\ \A t \in P : tokenRows[t] \in Unused
    /\ revoking' = {rowIds[t] : t \in P}
    /\ UNCHANGED <<tokenRows, rowIds, claims, cookies, answered, revoked>>

\* A row that is gone meanwhile fails the whole write; one that took its id
\* is marked in its place.
RevokeWrite ==
    /\ revoking # {}
    /\ revoking' = {}
    /\ LET hit == {t \in Rows : rowIds[t] \in revoking} IN
       IF revoking \subseteq {rowIds[t] : t \in hit}
       THEN /\ tokenRows' = [t \in Tokens |-> IF t \in hit THEN "used" ELSE tokenRows[t]]
            /\ revoked' = revoked \cup {t \in hit : tokenRows[t] \in Unused}
       ELSE UNCHANGED <<tokenRows, revoked>>
    /\ UNCHANGED <<rowIds, claims, cookies, answered>>

-------------------------------------------------------------------------------
(* The server *)

\* The conditions of claim_token's UPDATE. Mutant: a used token can be claimed.
ClaimableTwice(t) == tokenRows[t] \in {"live", "used"}
Claimable(t) == tokenRows[t] = "live"

\* claim_token marks the row and commits; a claim that finds none is refused
\* and leaves nothing behind.
ClaimUpdate(r, t) ==
    /\ claims[r] = NoToken
    /\ Claimable(t)
    /\ tokenRows' = [tokenRows EXCEPT ![t] = "used"]
    /\ claims' = [claims EXCEPT ![r] = t]
    /\ UNCHANGED <<rowIds, revoking, cookies, answered, revoked>>

\* It then reads the row back; when a mint has purged it by now the read
\* raises, and the token is spent without a cookie.
ClaimAnswer(r) ==
    /\ claims[r] # NoToken
    /\ claims' = [claims EXCEPT ![r] = NoToken]
    /\ IF tokenRows[claims[r]] = "gone"
       THEN UNCHANGED <<cookies, answered>>
       ELSE /\ cookies' = cookies \cup {claims[r]}
            /\ answered' = [answered EXCEPT ![claims[r]] = @ + 1]
    /\ UNCHANGED <<tokenRows, rowIds, revoking, revoked>>

\* Ten minutes pass without a claim.
TokenExpires(t) ==
    /\ tokenRows[t] = "live"
    /\ tokenRows' = [tokenRows EXCEPT ![t] = "expired"]
    /\ UNCHANGED <<rowIds, revoking, claims, cookies, answered, revoked>>

\* Half an hour passes, or the browser logs out of recovery.
CookieEnds(t) ==
    /\ t \in cookies
    /\ cookies' = cookies \ {t}
    /\ UNCHANGED <<tokenRows, rowIds, revoking, claims, answered, revoked>>

\* A restart of the server loses the claims in flight, not the cookies.
RecoveryRestart ==
    /\ claims' = [r \in Claimers |-> NoToken]
    /\ UNCHANGED <<tokenRows, rowIds, revoking, cookies, answered, revoked>>

RecoveryNext ==
    \/ RevokeWrite
    \/ \E t \in Tokens :
          MintPurge(t) \/ MintInsert(t) \/ TokenExpires(t) \/ CookieEnds(t)
    \/ \E P \in SUBSET Tokens : RevokeRead(P)
    \/ \E r \in Claimers : ClaimAnswer(r) \/ \E t \in Tokens : ClaimUpdate(r, t)

-------------------------------------------------------------------------------
(* A token opens recovery once (auth/recovery.py:113, claim_token): however *)
(* many threads claim it while the command line revokes and purges, at most *)
(* one is answered with a cookie, and none is once it has been revoked.     *)
ClaimedOnce ==
    \A t \in Tokens :
        /\ answered[t] <= 1
        /\ t \in revoked => answered[t] = 0

(* Two claims never hold the same token, and one that is held or answered   *)
(* is no longer there to be claimed: what ClaimedOnce rests on.             *)
ClaimsSpend ==
    \A r \in Claimers : claims[r] # NoToken =>
        /\ tokenRows[claims[r]] \in {"used", "gone"}
        /\ answered[claims[r]] = 0
        /\ claims[r] \notin revoked
        /\ \A q \in Claimers : claims[q] = claims[r] => q = r
===============================================================================
