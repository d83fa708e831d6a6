----------------------------- MODULE OAuthRefresh -----------------------------
(* An OAuth credential in the vault, the model calls that spend it, and the grant that
   renews it: oauth/refresher.rs, secret_store.rs, and the 401 arm of
   model_gateway/providers.rs. `openspine login` writes the same slots from a process of
   its own, which the in-flight set does not reach.

   A provider issues credentials 1, 2, ...; it may replace the refresh token whenever it
   is presented, which makes the one before it worthless. One provider, one vault. *)
EXTENDS Naturals, FiniteSets

CONSTANTS
    Callers,     \* model calls
    MaxIssue,    \* bound: credentials the provider issues
    OaMaxFaults  \* bound: restarts, dropped calls and failed writes

Issue == 1..MaxIssue
ASSUME OAuthAssumption == MaxIssue \in Nat \ {0} /\ OaMaxFaults \in Nat

VARIABLES
    oaVault,   \* the slots provider.<id>.{refresh_token, access_token, disabled}
    oaCalls,   \* what each model call is doing
    oaFlight,  \* SHARED_IN_FLIGHT: a refresh runs
    oaLogin,   \* what `openspine login` is doing
    oaIssued,  \* how many credentials the provider issued
    oaHonours, \* the refresh tokens and the access tokens the provider honours
    oaLate,    \* refresh tokens of requests given up, which may still reach the provider
    oaFaults,  \* what its bound counts
    oaExcused  \* history: what befell the credential since the last login, see Befalls
oaVars == <<oaVault, oaCalls, oaFlight, oaLogin, oaIssued, oaHonours, oaLate, oaFaults, oaExcused>>

NoCall == [pc |-> "idle"]
(* A drop leaked the key; the vault's refresh token was lost: the owner withdrew his consent,
   the answer that rotated it was never stored, or a login wrote beside a renewal; or the
   credential was barred: the refresher took an answer about a working token for a
   definitive failure, or a login wrote the tokens and not the flag. *)
Befalls == {"leaked", "lost", "barred"}
Renewers == {c \in Callers : oaCalls[c].pc \in
                {"ask", "put_refresh", "put_access", "put_enabled", "disable", "land"}}

OaTypeOK ==
    /\ oaVault \in [refresh : Issue, access : Issue, disabled : BOOLEAN]
    /\ oaIssued \in Issue /\ oaFlight \in BOOLEAN
    /\ oaHonours.refresh \cup oaHonours.access \subseteq 1..oaIssued /\ oaLate \subseteq Issue
    /\ oaExcused \subseteq Befalls

OaInit ==
    /\ oaVault = [refresh |-> 1, access |-> 1, disabled |-> FALSE]
    /\ oaCalls = [c \in Callers |-> NoCall] /\ oaFlight = FALSE /\ oaLogin = NoCall
    /\ oaIssued = 1 /\ oaHonours = [refresh |-> {1}, access |-> {1}] /\ oaLate = {}
    /\ oaFaults = 0 /\ oaExcused = {}

Step(c, call) == oaCalls' = [oaCalls EXCEPT ![c] = call]
Pc(c, pc) == oaCalls[c].pc = pc
Faulty == oaFaults < OaMaxFaults /\ oaFaults' = oaFaults + 1
Provider == <<oaIssued, oaHonours, oaLate>>

-----------------------------------------------------------------------------
(* The provider. *)

AccessExpires ==
    /\ oaHonours.access # {} /\ oaHonours' = [oaHonours EXCEPT !.access = {}]
    /\ UNCHANGED <<oaVault, oaCalls, oaFlight, oaLogin, oaIssued, oaLate, oaFaults, oaExcused>>

(* The owner withdraws the consent at the provider. *)
Revoke ==
    /\ oaHonours.refresh # {} /\ oaHonours' = [refresh |-> {}, access |-> {}]
    /\ oaExcused' = oaExcused \cup {"lost"}
    /\ UNCHANGED <<oaVault, oaCalls, oaFlight, oaLogin, oaIssued, oaLate, oaFaults>>

(* A grant: a new access token, with a new refresh token for the one presented or without. *)
Grant(token, rotated) ==
    /\ token \in oaHonours.refresh /\ oaIssued < MaxIssue /\ oaIssued' = oaIssued + 1
    /\ oaHonours' = [refresh |-> IF rotated THEN (oaHonours.refresh \ {token}) \cup {oaIssued'}
                                 ELSE oaHonours.refresh,
                     access |-> oaHonours.access \cup {oaIssued'}]

(* A rotation nobody hears of: its request had timed out, its answer could not be parsed,
   or the caller was gone. *)
GrantUnheard(token) ==
    /\ token \in oaLate /\ oaLate' = oaLate \ {token} /\ Grant(token, TRUE)
    /\ oaExcused' = IF token = oaVault.refresh
                       \/ \E c \in Callers : oaCalls[c].pc = "put_refresh" /\ oaCalls[c].token = token
                    THEN oaExcused \cup {"lost"} ELSE oaExcused
    /\ UNCHANGED <<oaVault, oaCalls, oaFlight, oaLogin, oaFaults>>

-----------------------------------------------------------------------------
(* generate_with_secret_store *)

(* The token is read once; a disabled one leaves the configured key, which fails alike. *)
Generate(c) ==
    /\ Pc(c, "idle") /\ ~oaVault.disabled /\ Step(c, [pc |-> "send", key |-> oaVault.access])
    /\ UNCHANGED <<oaVault, oaFlight, oaLogin, Provider, oaFaults, oaExcused>>

Served(c) ==
    /\ Pc(c, "send") /\ oaCalls[c].key \in oaHonours.access /\ Step(c, NoCall)
    /\ UNCHANGED <<oaVault, oaFlight, oaLogin, Provider, oaFaults, oaExcused>>

(* After a 401, a token that is newer than the one sent is spent before any renewal. *)
Unauthorized(c) ==
    /\ Pc(c, "send") /\ oaCalls[c].key \notin oaHonours.access
    /\ IF ~oaVault.disabled /\ oaVault.access # oaCalls[c].key
       THEN Step(c, NoCall) ELSE Step(c, [pc |-> "renew"])
    /\ UNCHANGED <<oaVault, oaFlight, oaLogin, Provider, oaFaults, oaExcused>>

(* A slip: the in-flight set is not asked. *)
FlyAnyway(c) ==
    /\ Pc(c, "renew") /\ oaFlight' = TRUE /\ Step(c, [pc |-> "ready"])
    /\ UNCHANGED <<oaVault, oaLogin, Provider, oaFaults, oaExcused>>
(* refresh_provider_now: one renewal at a time, the others wait for it at most 30 s and
   take what the vault then holds. *)
Fly(c) ==
    /\ Pc(c, "renew") /\ ~oaFlight /\ oaFlight' = TRUE /\ Step(c, [pc |-> "ready"])
    /\ UNCHANGED <<oaVault, oaLogin, Provider, oaFaults, oaExcused>>
Wait(c) ==
    /\ Pc(c, "renew") /\ oaFlight /\ Step(c, [pc |-> "wait"])
    /\ UNCHANGED <<oaVault, oaFlight, oaLogin, Provider, oaFaults, oaExcused>>
WaitEnds(c) ==
    /\ Pc(c, "wait") /\ Step(c, NoCall)
    /\ UNCHANGED <<oaVault, oaFlight, oaLogin, Provider, oaFaults, oaExcused>>

(* do_refresh reads the credential and presents it. *)
Present(c) ==
    /\ Pc(c, "ready")
    /\ Step(c, IF oaVault.disabled THEN [pc |-> "land"] ELSE [pc |-> "ask", token |-> oaVault.refresh])
    /\ UNCHANGED <<oaVault, oaFlight, oaLogin, Provider, oaFaults, oaExcused>>

(* The answer carries tokens a request can spend. *)
Renewed(c, rotated) ==
    /\ Pc(c, "ask") /\ Grant(oaCalls[c].token, rotated)
    /\ Step(c, [pc |-> "put_refresh", access |-> oaIssued',
                token |-> IF rotated THEN oaIssued' ELSE oaCalls[c].token])
    /\ UNCHANGED <<oaVault, oaFlight, oaLogin, oaLate, oaFaults, oaExcused>>

(* with_account_identity: a granted access token that names no account ends as a
   definitive failure, and the tokens of the answer are thrown away. *)
Unspendable(c, rotated) ==
    /\ Pc(c, "ask") /\ Grant(oaCalls[c].token, rotated) /\ Step(c, [pc |-> "disable"])
    /\ oaExcused' = oaExcused \cup IF rotated THEN {"barred", "lost"} ELSE {"barred"}
    /\ UNCHANGED <<oaVault, oaFlight, oaLogin, oaLate, oaFaults>>

(* What these calls presented, where the provider honours it. *)
Live(calls) == {oaCalls[c].token : c \in {d \in calls : Pc(d, "ask")}} \cap oaHonours.refresh

(* An error whose text has invalid_grant, revoked_token, 400 or 401 somewhere is a
   definitive failure, whatever became of the token. *)
Refused(c) ==
    /\ Pc(c, "ask") /\ Step(c, [pc |-> "disable"]) /\ oaLate' = oaLate \cup Live({c})
    /\ oaExcused' = IF Live({c}) # {} THEN oaExcused \cup {"barred"} ELSE oaExcused
    /\ UNCHANGED <<oaVault, oaFlight, oaLogin, oaIssued, oaHonours, oaFaults>>

(* Any other error leaves the credential alone. The provider may never have been asked, or
   be about to answer. *)
Unreachable(c) ==
    /\ Pc(c, "ask") /\ Step(c, [pc |-> "land"]) /\ oaLate' = oaLate \cup Live({c})
    /\ UNCHANGED <<oaVault, oaFlight, oaLogin, oaIssued, oaHonours, oaFaults, oaExcused>>

(* store_oauth_tokens writes a slot at a time. *)
PutSlot(slot, value) ==
    /\ oaVault' = [oaVault EXCEPT ![slot] = value]
    /\ UNCHANGED <<oaFlight, Provider, oaFaults>>
PutRefreshed(c) ==
    LET call == oaCalls[c]
    IN  /\ \/ /\ call.pc = "put_refresh" /\ PutSlot("refresh", call.token)
              /\ Step(c, [call EXCEPT !.pc = "put_access"])
           \/ /\ call.pc = "put_access" /\ PutSlot("access", call.access)
              /\ Step(c, [pc |-> "put_enabled"])
           \/ /\ call.pc = "put_enabled" /\ PutSlot("disabled", FALSE) /\ Step(c, [pc |-> "land"])
        /\ UNCHANGED <<oaLogin, oaExcused>>

(* A rotated token that was not written is gone with the call that held it. *)
Unwritten(c) == Pc(c, "put_refresh") /\ oaCalls[c].token # oaVault.refresh
Lose(calls) == IF \E c \in calls : Unwritten(c) THEN {"lost"} ELSE {}

(* A slot that cannot be written ends the renewal where it stands. *)
PutFails(c) ==
    /\ oaCalls[c].pc \in {"put_refresh", "put_access", "put_enabled", "disable"} /\ Faulty
    /\ Step(c, [pc |-> "land"]) /\ oaExcused' = oaExcused \cup Lose({c})
    /\ UNCHANGED <<oaVault, oaFlight, oaLogin, Provider>>

(* disable_oauth_credential names the provider, not the credential it was about. *)
Disable(c) ==
    /\ Pc(c, "disable") /\ Step(c, [pc |-> "land"])
    /\ oaVault' = [oaVault EXCEPT !.disabled = TRUE]
    /\ UNCHANGED <<oaFlight, oaLogin, Provider, oaFaults, oaExcused>>

EndFlight(c) ==
    /\ Pc(c, "land") /\ oaFlight' = FALSE /\ Step(c, NoCall)
    /\ UNCHANGED <<oaVault, oaLogin, Provider, oaFaults, oaExcused>>

(* The caller of a model call goes away and the call is dropped where it awaits; the last
   such place is the lock of the in-flight set, after the renewal. *)
Drop(c) ==
    /\ oaCalls[c].pc \in {"send", "renew", "wait", "ask", "land"} /\ Faulty /\ Step(c, NoCall)
    /\ oaExcused' = IF c \in Renewers THEN oaExcused \cup {"leaked"} ELSE oaExcused
    /\ oaLate' = oaLate \cup Live({c})
    /\ UNCHANGED <<oaVault, oaFlight, oaLogin, oaIssued, oaHonours>>

-----------------------------------------------------------------------------
(* `openspine login`, and a restart of the kernel. *)

(* store_tokens: a login that is given no refresh token keeps the one it finds. *)
Login(reissued) ==
    /\ oaLogin = NoCall /\ oaIssued < MaxIssue /\ oaIssued' = oaIssued + 1
    /\ oaHonours' = [refresh |-> oaHonours.refresh \cup IF reissued THEN {oaIssued'} ELSE {},
                     access |-> oaHonours.access \cup {oaIssued'}]
    /\ oaLogin' = [pc |-> "put_refresh", access |-> oaIssued',
                   token |-> IF reissued THEN oaIssued' ELSE oaVault.refresh]
    /\ UNCHANGED <<oaVault, oaCalls, oaFlight, oaLate, oaFaults, oaExcused>>

(* A renewal that has presented a token and is still to store or disable what came of it. *)
Unsettled == {c \in Callers : oaCalls[c].pc \in {"ask", "put_refresh", "disable"}}

(* A token the provider honours, written while no renewal is unsettled, mends whatever
   befell the credential before. *)
LoginWrites ==
    \/ /\ oaLogin.pc = "put_refresh" /\ PutSlot("refresh", oaLogin.token)
       /\ oaLogin' = [oaLogin EXCEPT !.pc = "put_access"]
       /\ oaExcused' = IF oaLogin.token \in oaHonours.refresh /\ Unsettled = {}
                       THEN oaExcused \cap {"leaked"} ELSE oaExcused \cup {"lost"}
       /\ UNCHANGED oaCalls
    \/ /\ oaLogin.pc = "put_access" /\ PutSlot("access", oaLogin.access)
       /\ oaLogin' = [oaLogin EXCEPT !.pc = "put_enabled"] /\ UNCHANGED <<oaCalls, oaExcused>>
    \/ /\ oaLogin.pc = "put_enabled" /\ PutSlot("disabled", FALSE)
       /\ oaLogin' = NoCall /\ UNCHANGED <<oaCalls, oaExcused>>

(* A slot that cannot be written, or the command is interrupted. *)
LoginFails ==
    /\ oaLogin # NoCall /\ Faulty /\ oaLogin' = NoCall
    /\ oaExcused' = IF oaLogin.pc = "put_refresh" THEN oaExcused ELSE oaExcused \cup {"barred"}
    /\ UNCHANGED <<oaVault, oaCalls, oaFlight, Provider>>

OaRestart ==
    /\ Faulty /\ oaFlight' = FALSE /\ oaCalls' = [c \in Callers |-> NoCall]
    /\ oaExcused' = (oaExcused \ {"leaked"}) \cup Lose(Callers)
    /\ oaLate' = oaLate \cup Live(Callers)
    /\ UNCHANGED <<oaVault, oaLogin, oaIssued, oaHonours>>

OaNext ==
    \/ AccessExpires \/ Revoke \/ \E token \in Issue : GrantUnheard(token)
    \/ (\E reissued \in BOOLEAN : Login(reissued)) \/ LoginWrites \/ LoginFails \/ OaRestart
    \/ \E c \in Callers :
        \/ Generate(c) \/ Served(c) \/ Unauthorized(c) \/ Fly(c) \/ Wait(c) \/ WaitEnds(c)
        \/ Present(c) \/ \E rotated \in BOOLEAN : Renewed(c, rotated) \/ Unspendable(c, rotated)
        \/ Refused(c) \/ Unreachable(c) \/ PutRefreshed(c) \/ PutFails(c) \/ Disable(c) \/ EndFlight(c) \/ Drop(c)
OaSpec == OaInit /\ [][OaNext]_oaVars

-----------------------------------------------------------------------------
(* Two renewals never run at once: with a provider that rotates, the second would present
   a token the first has just used up. *)
OneRenewal == Cardinality({c \in Callers : oaCalls[c].pc = "ready"} \cup Renewers) <= 1
(* The key of the flight is held by a call that will put it back, unless one was dropped. *)
FlightIsFlown ==
    "leaked" \notin oaExcused =>
        (oaFlight <=> \E c \in Callers : oaCalls[c].pc = "ready" \/ c \in Renewers)
(* The vault's refresh token is one the provider honours, but between a rotation and its
   write, unless one was lost since a login last wrote one in peace. *)
RefreshTokenIsKept ==
    \/ oaVault.refresh \in oaHonours.refresh \/ "lost" \in oaExcused
    \/ \E c \in Callers : Pc(c, "put_refresh")
(* The credential is disabled only after a token was lost or the credential barred: a
   definitive failure is never drawn by a token the kernel itself had already renewed. *)
CredentialSurvives ==
    oaVault.disabled /\ oaLogin.pc \notin {"put_access", "put_enabled"}
        => oaExcused \cap {"lost", "barred"} # {}
(* The renewals: one at a time, none forgotten, and none that costs the credential by the
   kernel's own doing. *)
RenewalIsSound ==
    OaTypeOK /\ OneRenewal /\ FlightIsFlown /\ RefreshTokenIsKept /\ CredentialSurvives
===============================================================================
