----------------------------- MODULE MobileSession -----------------------------
(***************************************************************************)
(* The session of the mobile client (apps/mobile/app/context/              *)
(* AuthContext.tsx, services/secureTokens.ts, services/api/index.ts).      *)
(*                                                                         *)
(* The profile is written at once (MMKV), the tokens into the Keychain     *)
(* later, both keys at once: the writes end in any order, and each may     *)
(* fail on a locked device.  Profile and Keychain outlive the process; the *)
(* mirror of the tokens and the access token of AuthContext do not.  A     *)
(* request that is answered 401 starts a refresh, unless one is under way; *)
(* nothing tells it of a sign-out or a sign-in in the meantime.            *)
(*                                                                         *)
(* Abstractions: a token is the user it was issued to; the Authorization   *)
(* header is access; tokens of builds before the Keychain are left out.    *)
(***************************************************************************)
EXTENDS Naturals

CONSTANTS
    Users,
    Nobody,
    MaxWrites   \* bound: Keychain writes of one key and one value under way at once

ASSUME NobodyIsNoUser == Nobody \notin Users
ASSUME WritesAreBounded == MaxWrites \in Nat

VARIABLES
    profile,    \* auth.user
    keychain,   \* [Keys -> Users \cup {Nobody}]
    mirror,     \* currentTokens().refresh
    access,     \* accessToken
    hydrated,
    writes,     \* [KeychainWrites -> Nat]: Keychain writes under way
    signing,    \* the user who signs in
    refreshing, \* the user whose refresh token /auth/refresh has been sent
    crossed,    \* history: a refresh was under way when the session changed
    torn        \* history: the process ended with tokens that hydration cannot place

diskVars == <<profile, keychain, torn>>
memoryVars == <<mirror, access, hydrated, writes, signing, refreshing, crossed>>
sessionVars == <<diskVars, memoryVars>>

Keys == {"access", "refresh"}
Holders == Users \cup {Nobody}
KeychainWrites == [key : Keys, of : Holders]
NoWrites == [w \in KeychainWrites |-> 0]

SessionInit ==
    /\ profile = Nobody
    /\ keychain = [k \in Keys |-> Nobody]
    /\ mirror = Nobody
    /\ access = Nobody
    /\ hydrated = FALSE
    /\ writes = NoWrites
    /\ signing = Nobody
    /\ refreshing = Nobody
    /\ crossed = FALSE
    /\ torn = FALSE

\* The mirror at once, the two keys of the Keychain when their writes end.
SetTokens(holder) ==
    /\ \A w \in KeychainWrites : w.of = holder => writes[w] < MaxWrites
    /\ mirror' = holder
    /\ writes' = [w \in KeychainWrites |-> IF w.of = holder THEN writes[w] + 1 ELSE writes[w]]

StartSession(user) ==
    /\ SetTokens(user)
    /\ access' = user
    /\ profile' = user

\* Drops the profile first, then the tokens.
ClearSession ==
    /\ SetTokens(Nobody)
    /\ access' = Nobody
    /\ profile' = Nobody

\* Mutant: hydration takes the tokens without a look at the profile.
Hydrate_TakesTokens ==
    /\ ~hydrated
    /\ hydrated' = TRUE
    /\ mirror' = keychain["refresh"]
    /\ access' = keychain["access"]
    /\ UNCHANGED <<diskVars, writes, signing, refreshing, crossed>>

\* The Keychain is read, or cannot be; a sign-out that was cut short is finished.
Hydrate ==
    /\ ~hydrated
    /\ hydrated' = TRUE
    /\ \/ /\ keychain["access"] # Nobody /\ profile = Nobody
          /\ SetTokens(Nobody)
          /\ UNCHANGED access
       \/ /\ keychain["access"] = Nobody \/ profile # Nobody
          /\ mirror' = keychain["refresh"]
          /\ access' = keychain["access"]
          /\ UNCHANGED writes
       \/ UNCHANGED <<mirror, access, writes>>
    /\ UNCHANGED <<diskVars, signing, refreshing, crossed>>

(***************************************************************************)
(* Signing in and out.                                                     *)
(***************************************************************************)

\* login, register or loginWithProvider; their buttons are off while one runs.
SignIn(user) ==
    /\ hydrated /\ access = Nobody /\ signing = Nobody
    /\ signing' = user
    /\ UNCHANGED <<diskVars, mirror, access, hydrated, writes, refreshing, crossed>>

\* Refused, cancelled, or not answered.
SignInFails ==
    /\ signing # Nobody
    /\ signing' = Nobody
    /\ UNCHANGED <<diskVars, mirror, access, hydrated, writes, refreshing, crossed>>

SignInSucceeds ==
    /\ signing # Nobody
    /\ StartSession(signing)
    /\ signing' = Nobody
    /\ crossed' = (refreshing # Nobody)
    /\ UNCHANGED <<keychain, torn, hydrated, refreshing>>

SignOut ==
    /\ access # Nobody
    /\ ClearSession
    /\ crossed' = (refreshing # Nobody)
    /\ UNCHANGED <<keychain, torn, hydrated, signing, refreshing>>

(***************************************************************************)
(* A request is answered 401.  There are requests without a session too:   *)
(* OfflineSync replays the queue whoever is signed in.                     *)
(***************************************************************************)
Unauthorized ==
    /\ hydrated /\ refreshing = Nobody
    /\ \/ mirror = Nobody /\ ClearSession /\ UNCHANGED refreshing
       \/ mirror # Nobody /\ refreshing' = mirror /\ UNCHANGED <<profile, mirror, access, writes>>
    /\ UNCHANGED <<keychain, torn, hydrated, signing, crossed>>

\* onRefreshed: the tokens change, the profile does not.
RefreshAnswered ==
    /\ refreshing # Nobody
    /\ SetTokens(refreshing)
    /\ access' = refreshing
    /\ refreshing' = Nobody
    /\ UNCHANGED <<diskVars, hydrated, signing, crossed>>

\* Any failure, of the network too, ends the session.
RefreshFails ==
    /\ refreshing # Nobody
    /\ ClearSession
    /\ refreshing' = Nobody
    /\ crossed' = FALSE
    /\ UNCHANGED <<keychain, torn, hydrated, signing>>

(***************************************************************************)
(* The device.                                                             *)
(***************************************************************************)

\* A write under way is done, or fails without a word.
KeychainWrite ==
    /\ \E w \in KeychainWrites :
        /\ writes[w] > 0
        /\ writes' = [writes EXCEPT ![w] = @ - 1]
        /\ keychain' \in {keychain, [keychain EXCEPT ![w.key] = w.of]}
    /\ UNCHANGED <<profile, torn, mirror, access, hydrated, signing, refreshing, crossed>>

\* A refresh token without an access token, or tokens of another user.
Misplaced ==
    IF profile = Nobody
    THEN keychain["access"] = Nobody /\ keychain["refresh"] # Nobody
    ELSE \E k \in Keys : keychain[k] \notin {Nobody, profile}

\* The process ends and starts again.
Kill ==
    /\ mirror' = Nobody /\ access' = Nobody /\ signing' = Nobody /\ refreshing' = Nobody
    /\ hydrated' = FALSE /\ crossed' = FALSE
    /\ writes' = NoWrites
    /\ torn' = (torn \/ Misplaced)
    /\ UNCHANGED <<profile, keychain>>

SessionNext ==
    \/ Hydrate
    \/ \E user \in Users : SignIn(user)
    \/ SignInFails \/ SignInSucceeds \/ SignOut
    \/ Unauthorized \/ RefreshAnswered \/ RefreshFails
    \/ KeychainWrite \/ Kill

SessionSpec == SessionInit /\ [][SessionNext]_sessionVars

\* Every variable has its type.
SessionTypeOK ==
    /\ {profile, mirror, access, signing, refreshing} \subseteq Holders
    /\ keychain \in [Keys -> Holders]
    /\ writes \in [KeychainWrites -> Nat]
    /\ {hydrated, crossed, torn} \subseteq BOOLEAN

\* "tokens without a profile mean a sign-out that was killed mid-write -- finish
\* it rather than resurrecting the session": over refreshes, failed Keychain writes
\* and relaunches, who is signed in is who the profile says.  Two cases are known
\* in which it is not so and are excepted: a refresh that overtakes a sign-out or a
\* sign-in, and a relaunch that finds a refresh token without an access token or
\* tokens of another user than the profile's.
SessionIsWhole == hydrated /\ access # Nobody /\ ~crossed /\ ~torn => profile = access
=============================================================================
