------------------------------ MODULE Tokens ------------------------------
(***************************************************************************)
(* Access and refresh tokens: login, refresh, logout and every request     *)
(* that carries a token (presentation/rest/v1/auth.py, dependencies.py and *)
(* application/auth), over the JWT service and the Redis blacklist.        *)
(*                                                                         *)
(* A token has a payload, the user, the type and the second in which it    *)
(* was issued, and a spelling: the blacklist compares the strings of the   *)
(* requests, while decoding compares bytes, which base64url can spell in   *)
(* more than one way.  There is no token id, so two tokens of one user and *)
(* type issued in the same second are the same string.  Nothing is stored  *)
(* about a token but its blacklist entry, which Redis drops after its TTL. *)
(***************************************************************************)
EXTENDS Naturals, FiniteSets

CONSTANTS
    Users, Procs,
    Spellings,                  \* the strings that decode to one payload and signature
    AccessLife, RefreshLife,    \* jwt_access_token_expire_minutes, ..._refresh_..._days
    AccessTTL, RefreshTTL,      \* _ACCESS_EXPIRY_SECONDS, _REFRESH_EXPIRY_SECONDS
    MaxTime,                    \* bound: seconds in a behaviour
    MaxEntries                  \* bound: a logout begins below this number of entries

(* logout.py: its constants match the lifetimes of the settings.           *)
ASSUME LivesAssumption ==
    /\ AccessLife \in Nat /\ RefreshLife \in Nat /\ AccessTTL \in Nat /\ RefreshTTL \in Nat
    /\ AccessLife <= AccessTTL /\ RefreshLife <= RefreshTTL /\ AccessLife <= RefreshTTL
ASSUME MaxTimeAssumption == MaxTime \in Nat
ASSUME SpellingsAssumption == "issued" \in Spellings

VARIABLES
    now,        \* the clock
    issued,     \* the tokens clients hold, until they expire
    black,      \* blacklist entries: a string and the second its TTL ends
    revoked,    \* history: the strings whose logout was answered 204
    place, op,     \* the handlers: where they are, and which route they serve
    tok,        \* tok[p]: the token presented (Bearer, or the refresh token)
    made,       \* made[p]: in a login or a refresh, the access token created so far
    late        \* history: the requests whose string was revoked before they came

requests == <<op, tok, made, late>>
tokensVars == <<now, issued, black, revoked, place, requests>>

Token == [user : Users, type : {"access", "refresh"}, iat : Nat, spelling : Spellings]
NoToken == [user |-> "none", type |-> "none", iat |-> 0, spelling |-> "none"]

TokensTypeOK ==
    /\ now \in 0..MaxTime
    /\ issued \subseteq Token
    /\ black \subseteq Token \X Nat
    /\ revoked \subseteq Token
    /\ place \in [Procs -> {"idle", "check", "decode", "serve", "black_access", "black_refresh",
                         "find_user", "issue_access", "issue_refresh"}]
    /\ op \in [Procs -> {"none", "login", "request", "logout", "refresh"}]
    /\ tok \in [Procs -> Token \cup {NoToken}]
    /\ made \in [Procs -> Token \cup {NoToken}]
    /\ late \subseteq Procs

TokensInit ==
    /\ now = 0
    /\ issued = {} /\ black = {} /\ revoked = {}
    /\ place = [p \in Procs |-> "idle"]
    /\ op = [p \in Procs |-> "none"]
    /\ tok = [p \in Procs |-> NoToken]
    /\ made = [p \in Procs |-> NoToken]
    /\ late = {}

(* jwt.decode raises ExpiredSignatureError from the second exp on.         *)
Life(t) == IF t.type = "access" THEN AccessLife ELSE RefreshLife
ExpiredAt(t, time) == t.iat + Life(t) <= time
Expired(t) == ExpiredAt(t, now)

(* RedisTokenBlacklist.is_blacklisted: the key is the string, EXISTS finds *)
(* no entry of another spelling.                                           *)
Blacklisted(t) == \E e \in black : e[1] = t /\ now < e[2]

(* RedisTokenBlacklist.blacklist: SETEX replaces an entry and its TTL.     *)
Blacklist(t, ttl) == black' = {e \in black : e[1] # t} \cup {<<t, now + ttl>>}

Move(p, l) == place' = [place EXCEPT ![p] = l]

(* The response is sent; the handler is free for another request.          *)
Finish(p) ==
    /\ Move(p, "idle")
    /\ op' = [op EXCEPT ![p] = "none"]
    /\ tok' = [tok EXCEPT ![p] = NoToken]
    /\ made' = [made EXCEPT ![p] = NoToken]
    /\ late' = late \ {p}

Refuse(p) == Finish(p) /\ UNCHANGED <<now, issued, black, revoked>>

(* create_access_token and create_refresh_token read the clock, each one.  *)
NewTokenOf(u, type) == [user |-> u, type |-> type, iat |-> now, spelling |-> "issued"]
NewToken(p, type) == NewTokenOf(tok[p].user, type)

-----------------------------------------------------------------------------
(* LoginUseCase.execute with the right password: from here the tokens are  *)
(* made.  tok[p] names the user; a wrong password changes nothing.         *)
Login(p) ==
    /\ place[p] = "idle"
    /\ \E u \in Users : tok' = [tok EXCEPT ![p] = NewTokenOf(u, "access")]
    /\ op' = [op EXCEPT ![p] = "login"]
    /\ Move(p, "issue_access")
    /\ UNCHANGED <<now, issued, black, revoked, made, late>>

(* A request, a refresh or a logout comes in with a token the client       *)
(* holds, in any spelling.                                                 *)
Spelt == {[t EXCEPT !.spelling = s] : t \in issued, s \in Spellings}

Present(p) ==
    /\ place[p] = "idle"
    /\ \E t \in Spelt :
         /\ tok' = [tok EXCEPT ![p] = t]
         /\ late' = IF t \in revoked THEN late \cup {p} ELSE late
    /\ \E o \in {"request", "refresh", "logout"} :
         /\ o = "logout" => Cardinality(black) < MaxEntries
         /\ op' = [op EXCEPT ![p] = o]
    /\ Move(p, "check")
    /\ UNCHANGED <<now, issued, black, revoked, made>>

(* Mutant of CheckBlacklist: a refresh does not look at the blacklist.     *)
CheckBlacklistNotOnRefresh(p) ==
    /\ place[p] = "check"
    /\ \/ op[p] # "refresh" /\ Blacklisted(tok[p]) /\ Refuse(p)
       \/ /\ op[p] = "refresh" \/ ~Blacklisted(tok[p])
          /\ Move(p, "decode")
          /\ UNCHANGED <<now, issued, black, revoked, requests>>

(* get_current_user_id and RefreshTokenUseCase: first the blacklist ...    *)
CheckBlacklist(p) ==
    /\ place[p] = "check"
    /\ \/ Blacklisted(tok[p]) /\ Refuse(p)
       \/ /\ ~Blacklisted(tok[p])
          /\ Move(p, "decode")
          /\ UNCHANGED <<now, issued, black, revoked, requests>>

AfterDecode(p) ==
    CASE op[p] = "request" -> "serve"
      [] op[p] = "logout" -> "black_access"
      [] OTHER -> "find_user"

Expected(p) == IF op[p] = "refresh" THEN "refresh" ELSE "access"

(* ... then the signature, the expiry and the type.                        *)
Decode(p) ==
    /\ place[p] = "decode"
    /\ \/ (Expired(tok[p]) \/ tok[p].type # Expected(p)) /\ Refuse(p)
       \/ /\ ~Expired(tok[p]) /\ tok[p].type = Expected(p)
          /\ Move(p, AfterDecode(p))
          /\ UNCHANGED <<now, issued, black, revoked, requests>>

(* The route behind the dependency runs. *)
Serve(p) == place[p] = "serve" /\ Refuse(p)

(* LogoutUseCase.execute *)
BlackAccess(p) ==
    /\ place[p] = "black_access"
    /\ Blacklist(tok[p], AccessTTL)
    /\ Move(p, "black_refresh")
    /\ UNCHANGED <<now, issued, revoked, requests>>

(* Mutant of BlackRefresh: both entries get the TTL of the access token.   *)
BlackRefreshShort(p) ==
    /\ place[p] = "black_refresh"
    /\ \E r \in Spelt : /\ Blacklist(r, AccessTTL)
                        /\ revoked' = revoked \cup {tok[p], r}
    /\ Finish(p)
    /\ UNCHANGED <<now, issued>>

(* The refresh_token in the body of a logout: nothing has looked at what   *)
(* it is, so it may be any string of the client's tokens.                  *)
BlackRefresh(p) ==
    /\ place[p] = "black_refresh"
    /\ \E r \in Spelt : /\ Blacklist(r, RefreshTTL)
                        /\ revoked' = revoked \cup {tok[p], r}
    /\ Finish(p)
    /\ UNCHANGED <<now, issued>>

(* RefreshTokenUseCase.execute: the user is looked up, and is active.      *)
FindUser(p) ==
    /\ place[p] = "find_user"
    /\ Move(p, "issue_access")
    /\ UNCHANGED <<now, issued, black, revoked, requests>>

IssueAccess(p) ==
    /\ place[p] = "issue_access"
    /\ made' = [made EXCEPT ![p] = NewToken(p, "access")]
    /\ Move(p, "issue_refresh")
    /\ UNCHANGED <<now, issued, black, revoked, op, tok, late>>

IssueRefresh(p) ==
    /\ place[p] = "issue_refresh"
    /\ issued' = issued \cup {made[p], NewToken(p, "refresh")}
    /\ Finish(p)
    /\ UNCHANGED <<now, black, revoked>>

(* Redis or the database fails, or the request is cancelled: a 500.        *)
Fail(p) == place[p] \in {"check", "black_access", "black_refresh", "find_user"} /\ Refuse(p)

(* Time passes.  Redis drops the entries whose TTL is over, and clients    *)
(* the tokens that have expired: Decode would refuse them on every route.  *)
Tick ==
    /\ now < MaxTime
    /\ now' = now + 1
    /\ black' = {e \in black : now + 1 < e[2]}
    /\ issued' = {t \in issued : ~ExpiredAt(t, now + 1)}
    /\ revoked' = {t \in revoked : ~ExpiredAt(t, now + 1)}
    /\ UNCHANGED <<place, requests>>

Handle(p) ==
    \/ Login(p) \/ Present(p) \/ CheckBlacklist(p) \/ Decode(p) \/ Serve(p) \/ BlackAccess(p)
    \/ BlackRefresh(p) \/ FindUser(p) \/ IssueAccess(p) \/ IssueRefresh(p) \/ Fail(p)

TokensNext == (\E p \in Procs : Handle(p)) \/ Tick

TokensSpec == TokensInit /\ [][TokensNext]_tokensVars

-----------------------------------------------------------------------------
(* Properties. *)
Accepted == {"serve", "black_access", "black_refresh", "find_user"}

(* After a logout was answered the two strings it named open nothing any   *)
(* more, on any route and at any time: not in the second in which the      *)
(* blacklist entry ends, and not when expiry falls between the blacklist   *)
(* check and the decoding.  Of another spelling of them nothing is said:   *)
(* its entry is another one.                                               *)
RevokedStaysOut == \A p \in late : place[p] \notin Accepted

(* A revocation is never lifted while the token lives, neither by its TTL  *)
(* nor by a second logout, with this spelling or another, that sets a      *)
(* shorter one.                                                            *)
NeverLifted == [][\A t \in {e[1] : e \in black} :
    Blacklisted(t) => Blacklisted(t)' \/ Expired(t)']_tokensVars
=============================================================================
