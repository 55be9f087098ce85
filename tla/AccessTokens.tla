---------------------------- MODULE AccessTokens ----------------------------
(***************************************************************************)
(* GoogleOAuthAccessTokenSource over the secret vault: the cache of access *)
(* tokens, the one refresh of an account its callers share, invalidation   *)
(* by a disconnect or a renewal, and the vault's re-protection of what it  *)
(* reads.                                                                  *)
(*                                                                         *)
(* A refresh token is the number of its authorization, an access token the *)
(* number of the refresh token it was exchanged for; 0 is none.            *)
(***************************************************************************)
EXTENDS Naturals, FiniteSets

CONSTANTS
    Accounts,
    MaxRefreshes,   \* bound: refreshes at a time
    MaxRenewals,    \* bound: renewals of an account
    NoAccount

ASSUME TokenAssumption ==
    /\ IsFiniteSet(Accounts) /\ NoAccount \notin Accounts
    /\ MaxRefreshes \in Nat \ {0} /\ MaxRenewals \in Nat

VARIABLES
    credential,   \* the refresh token in the vault
    cache,        \* the access token in memory
    refreshes,    \* the refreshes that have not settled
    shared,       \* the refresh in the pending map, 0 when there is none
    destroyed,
    overwritten   \* accounts whose credential has changed and nobody told the tokens:
                  \* by a late re-protection, or by the deletion of local data

tokenVars == <<credential, cache, refreshes, shared, destroyed, overwritten>>

None == 0
Token == 0..(MaxRenewals + 1)
Refreshes == 1..MaxRefreshes

Settled == [account |-> NoAccount, step |-> "settled", token |-> None, aborted |-> FALSE]

Running(r) == refreshes[r].step # "settled"

TokensInit ==
    /\ credential = [a \in Accounts |-> 1]
    /\ cache = [a \in Accounts |-> None]
    /\ refreshes = [r \in Refreshes |-> Settled]
    /\ shared = [a \in Accounts |-> None]
    /\ destroyed = FALSE
    /\ overwritten = {}

-----------------------------------------------------------------------------
(* getAccessToken *)

\* A cached token that is not about to expire.
CacheHit(a) == cache[a] # None /\ ~destroyed /\ UNCHANGED tokenVars

\* A refresh that is already in the map is joined, aborted or not.
JoinRefresh(a, r) ==
    /\ ~destroyed
    /\ r = shared[a] /\ r # None
    /\ cache' = [cache EXCEPT ![a] = None]
    /\ UNCHANGED <<credential, refreshes, shared, destroyed, overwritten>>

\* Otherwise one is begun: the vault's row is read at once.
BeginRefresh(a, r) ==
    /\ ~destroyed
    /\ shared[a] = None
    /\ ~Running(r) /\ \A s \in 1..(r - 1) : Running(s)   \* the first number that is free
    /\ cache' = [cache EXCEPT ![a] = None]
    /\ refreshes' = [refreshes EXCEPT ![r] = [account |-> a, step |-> "reading",
                                              token |-> credential[a], aborted |-> FALSE]]
    /\ shared' = [shared EXCEPT ![a] = r]
    /\ UNCHANGED <<credential, destroyed, overwritten>>

Aborted(rs) == [r \in Refreshes |-> IF r \in rs THEN [refreshes[r] EXCEPT !.aborted = TRUE]
                                                ELSE refreshes[r]]

\* The last waiter of a refresh leaves: it is aborted and stays in the map.
AbortRefreshes(rs) ==
    /\ refreshes' = Aborted(rs)
    /\ UNCHANGED <<credential, cache, shared, destroyed, overwritten>>

\* Mutant: whatever is in the map is removed.
ForgetAny(r) == [shared EXCEPT ![refreshes[r].account] = None]

\* A refresh that settles removes itself from the map.
Forget(r) == [a \in Accounts |-> IF shared[a] = r THEN None ELSE shared[a]]

-----------------------------------------------------------------------------
(* SqliteSecretVault.get and the rest of refresh *)

\* The token is unprotected, and under a new protection at once when the
\* operating system asks for it; an aborted refresh goes no further.
Unprotected(r) ==
    /\ refreshes[r].step = "reading" /\ refreshes[r].token # None
    /\ \/ refreshes' = [refreshes EXCEPT ![r].step = "reprotecting"]
       \/ ~refreshes[r].aborted /\ refreshes' = [refreshes EXCEPT ![r].step = "requesting"]
    /\ UNCHANGED <<credential, cache, shared, destroyed, overwritten>>

\* set(): the value that was read is written again, whatever the row holds now.
Reprotected(r) ==
    LET a == refreshes[r].account
    IN /\ refreshes[r].step = "reprotecting"
       /\ credential' = [credential EXCEPT ![a] = refreshes[r].token]
       /\ overwritten' = IF credential[a] = refreshes[r].token THEN overwritten
                                                              ELSE overwritten \cup {a}
       /\ refreshes' = [refreshes EXCEPT ![r].step = "requesting"]
       /\ UNCHANGED <<cache, shared, destroyed>>

\* What a refresh may end with: no credential, an error, or a token.
Outcomes(r) ==
    {"error"}
      \cup (IF refreshes[r].step = "reading" /\ refreshes[r].token = None
               /\ ~refreshes[r].aborted THEN {"none"} ELSE {})
      \cup (IF refreshes[r].step = "requesting" THEN {"token"} ELSE {})

\* Mutant: the token is cached though the refresh was aborted.
CachesAborted(r, outcome) == outcome = "token" /\ ~destroyed

Caches(r, outcome) == outcome = "token" /\ ~destroyed /\ ~refreshes[r].aborted

SettleRefresh(r, outcome) ==
    LET a == refreshes[r].account
    IN /\ Running(r)
       /\ outcome \in Outcomes(r)
       /\ cache' = IF Caches(r, outcome) THEN [cache EXCEPT ![a] = refreshes[r].token] ELSE cache
       /\ refreshes' = [refreshes EXCEPT ![r] = Settled]
       /\ shared' = Forget(r)
       /\ UNCHANGED <<credential, destroyed, overwritten>>

-----------------------------------------------------------------------------
(* invalidate, destroy, and the two writers of the vault *)

Invalidate(a) ==
    /\ cache' = [cache EXCEPT ![a] = None]
    /\ refreshes' = Aborted({shared[a]})
    /\ shared' = [shared EXCEPT ![a] = None]

DestroyTokens ==
    /\ destroyed' = TRUE
    /\ cache' = [a \in Accounts |-> None]
    /\ refreshes' = Aborted({shared[a] : a \in Accounts})
    /\ shared' = [a \in Accounts |-> None]
    /\ UNCHANGED <<credential, overwritten>>

\* The composition's disconnect invalidates before it begins.
InvalidateForDisconnect(a) == Invalidate(a) /\ UNCHANGED <<credential, destroyed, overwritten>>

EraseCredential(a) ==
    /\ credential' = [credential EXCEPT ![a] = None]
    /\ overwritten' = overwritten \ {a}
    /\ UNCHANGED <<cache, refreshes, shared, destroyed>>

\* The deletion of local data removes every credential, and leaves the tokens.
EraseCredentials ==
    /\ credential' = [a \in Accounts |-> None]
    /\ overwritten' = Accounts
    /\ UNCHANGED <<cache, refreshes, shared, destroyed>>

\* Reauthorization: the new token is stored, then the old ones are invalid.
Renew(a) ==
    /\ credential[a] \in 1..MaxRenewals
    /\ credential' = [credential EXCEPT ![a] = @ + 1]
    /\ overwritten' = overwritten \ {a}
    /\ Invalidate(a)
    /\ UNCHANGED destroyed

-----------------------------------------------------------------------------
(* Properties *)

TokensTypeOK ==
    /\ credential \in [Accounts -> Token] /\ cache \in [Accounts -> Token]
    /\ refreshes \in [Refreshes -> [account : Accounts \cup {NoAccount},
                                    step : {"settled", "reading", "reprotecting", "requesting"},
                                    token : Token, aborted : BOOLEAN]]
    /\ shared \in [Accounts -> {None} \cup Refreshes]
    /\ destroyed \in BOOLEAN /\ overwritten \subseteq Accounts

\* A cached access token comes from the credential that is stored: none outlives
\* a disconnect or a renewal, however late the answer to a refresh comes.
TokenMatchesCredential ==
    \A a \in Accounts : cache[a] # None /\ a \notin overwritten => cache[a] = credential[a]

\* Refreshes are single-flight: of the refreshes of an account, one that has not
\* been aborted is the one its next caller joins.
RefreshesAreShared ==
    \A r \in Refreshes :
        Running(r) /\ ~refreshes[r].aborted => shared[refreshes[r].account] = r
=============================================================================
