---------------------------- MODULE Credentials ----------------------------
(***************************************************************************)
(* What a caller presents and how it ends: API keys that are minted,       *)
(* rotated and revoked (internal/auth/apikeys.go), refresh tokens that are *)
(* traded for the next pair and sessions in Redis (oauth.go, session.go),  *)
(* and the users row that signing in and editing a profile both write      *)
(* (login_handler.go, user_handler.go).                                    *)
(*                                                                         *)
(* Keys and users are rows of PostgreSQL, the block list and the sessions  *)
(* entries of Redis, whose errors the handlers of refresh tokens ignore.   *)
(* A request is a sequence of statements with those of others in between,  *)
(* and may be cut off after any.                                           *)
(***************************************************************************)
EXTENDS Integers, Sequences, FiniteSets

CONSTANTS Clients, None,
          Callers,       \* roles of signed-in callers
          ScopeSets,     \* scope sets of the keys to mint
          MaxKeys, MaxTokens, MaxOps   \* bounds: keys, refresh tokens, requests

VARIABLES keys,      \* api_keys in order of creation: [live, scopes, from, doubled, cut]
          tokens,    \* refresh tokens in order of issue: [from, doubled]
          blocked,   \* Redis: token ids on the block list
          session,   \* Redis: the session's state
          user,      \* the users row: [name, login]
          cl,        \* requests under way
          ops,
          spent      \* history: what was answered as spent: keys, tokens, sessions

vars == <<keys, tokens, blocked, session, user, cl, ops, spent>>

Idle == [pc |-> "idle"]
Become(c, state) == cl' = [cl EXCEPT ![c] = state]
Begin(c, state) ==
  /\ cl[c].pc = "idle" /\ ops < MaxOps
  /\ ops' = ops + 1
  /\ Become(c, state)

Init ==
  /\ keys = <<[live |-> TRUE, scopes |-> {"admin"}, from |-> None,
              doubled |-> FALSE, cut |-> FALSE]>>
  /\ tokens = <<[from |-> None, doubled |-> FALSE]>>
  /\ blocked = {} /\ session = "live" /\ user = [name |-> "old", login |-> "never"]
  /\ cl = [c \in Clients |-> Idle] /\ ops = 0
  /\ spent = {}

-----------------------------------------------------------------------------
(* Who may do what                                                          *)

\* The part of the role matrix that the key routes ask for, and its columns
\* for flags: what each role may do with them.
HasPermission(role, perm) ==
  CASE perm = "apikey:manage" -> role \in {"owner", "admin", "org:owner", "org:admin", "project:admin"}
    [] perm = "flag:archive" -> role \in {"owner", "admin", "org:owner", "org:admin", "project:admin"}
    [] perm = "flag:update" -> role \in {"owner", "admin", "developer", "org:owner", "org:admin",
                                         "project:admin", "project:editor"}
    [] perm = "flag:read" -> role \notin {"environment:deployer", None}

permissionSatisfyingScopes(perm) ==
  CASE perm = "apikey:manage" -> {"apikey:manage"}
    [] perm = "flag:read" -> {"flags:read", "flags:write"}
    [] perm \in {"flag:update", "flag:archive"} -> {"flags:write"}

scopeSatisfies(scopes, perm) ==
  "admin" \in scopes \/ scopes \cap permissionSatisfyingScopes(perm) # {}

\* The role a key is given where only roles are looked at.
apiKeyScopesToRole(scopes) ==
  IF "admin" \in scopes THEN "owner"
  ELSE IF "flags:write" \in scopes THEN "developer"
  ELSE IF "flags:read" \in scopes THEN "viewer"
  ELSE None

ValidKey(k) == keys[k].live

\* RequireAuth: a signed-in caller with the role its organization gives it, or
\* a key that is found, not revoked and not expired.
Callings ==
  {[by |-> "jwt", role |-> r] : r \in Callers}
  \cup {[by |-> "api_key", key |-> k] : k \in {k \in DOMAIN keys : ValidKey(k)}}

RequirePermission(caller, perm) ==
  IF caller.by = "api_key" THEN scopeSatisfies(keys[caller.key].scopes, perm)
  ELSE HasPermission(caller.role, perm)

\* The caller's rights are taken when the request begins.
resolveAPIKeyManageActor == \E caller \in Callings : RequirePermission(caller, "apikey:manage")

-----------------------------------------------------------------------------
(* API keys                                                                 *)

\* Someone else is rotating this key.
Rotating(c, k) ==
  \E d \in Clients \ {c} : cl[d].pc \in {"generate", "retire"} /\ cl[d].from = k

createAPIKey(c) ==
  /\ resolveAPIKeyManageActor
  /\ \E s \in ScopeSets : Begin(c, [pc |-> "generate", scopes |-> s, from |-> None, doubled |-> FALSE])
  /\ UNCHANGED <<keys, tokens, blocked, session, user, spent>>

GenerateKey(c) ==
  /\ cl[c].pc = "generate" /\ Len(keys) < MaxKeys
  /\ keys' = Append(keys, [live |-> TRUE, scopes |-> cl[c].scopes, from |-> cl[c].from,
                           doubled |-> cl[c].doubled \/ Rotating(c, cl[c].from),
                           cut |-> FALSE])
  /\ Become(c, IF cl[c].from = None THEN Idle ELSE [pc |-> "retire", from |-> cl[c].from])
  /\ UNCHANGED <<tokens, blocked, session, user, ops, spent>>

\* RevokeKey reads the row and refuses a key that is revoked already.
revokeAPIKey(c) ==
  /\ \E k \in DOMAIN keys :
       Begin(c, IF ValidKey(k) THEN [pc |-> "revoke", from |-> k] ELSE Idle)
  /\ UNCHANGED <<keys, tokens, blocked, session, user, spent>>

\* UpdateAPIKey writes the row that was read, with revoked_at.
RevokeKey(c) ==
  /\ cl[c].pc = "revoke"
  /\ keys' = [keys EXCEPT ![cl[c].from].live = FALSE]
  /\ spent' = spent \cup {<<"key", cl[c].from>>}
  /\ Become(c, Idle)
  /\ UNCHANGED <<tokens, blocked, session, user, ops>>

\* A rotation reads the old key, mints one of the same scopes, then revokes
\* the old one.
rotateAPIKey(c) ==
  /\ resolveAPIKeyManageActor
  /\ \E k \in DOMAIN keys :
       Begin(c, IF ValidKey(k) THEN [pc |-> "generate", scopes |-> keys[k].scopes, from |-> k,
                                     doubled |-> Rotating(c, k)]
                ELSE Idle)
  /\ UNCHANGED <<keys, tokens, blocked, session, user, spent>>

\* Mutant of RotateKey: the old key is left as it was.
X_RotateKey(c) ==
  /\ cl[c].pc = "retire"
  /\ spent' = spent \cup {<<"key", cl[c].from>>}
  /\ Become(c, Idle)
  /\ UNCHANGED <<keys, tokens, blocked, session, user, ops>>

RotateKey(c) ==
  /\ cl[c].pc = "retire"
  /\ keys' = [keys EXCEPT ![cl[c].from].live = FALSE]
  /\ spent' = spent \cup {<<"key", cl[c].from>>}
  /\ Become(c, Idle)
  /\ UNCHANGED <<tokens, blocked, session, user, ops>>

-----------------------------------------------------------------------------
(* Refresh tokens                                                           *)

\* IsTokenBlacklisted: an error of Redis counts as "not on the list".
refreshTokenHandler(c) ==
  /\ \E t \in DOMAIN tokens, redisFails \in BOOLEAN :
       Begin(c, IF t \in blocked /\ ~redisFails THEN Idle
                ELSE [pc |-> "pair", token |-> t, failed |-> redisFails])
  /\ UNCHANGED <<keys, tokens, blocked, session, user, spent>>

\* The new pair is signed and the old token blocked for the rest of its life.
\* An error of Redis leaves the old token good.
BlacklistToken(c) ==
  /\ cl[c].pc = "pair" /\ Len(tokens) < MaxTokens
  /\ \E redisFails \in BOOLEAN :
       LET t == cl[c].token IN
       /\ blocked' = IF redisFails THEN blocked ELSE blocked \cup {t}
       /\ tokens' = Append(tokens,
            [from |-> t, doubled |-> \/ redisFails \/ cl[c].failed
                                     \/ \E d \in Clients \ {c} :
                                          cl[d].pc = "pair" /\ cl[d].token = t])
       /\ spent' = IF redisFails THEN spent ELSE spent \cup {<<"token", t>>}
  /\ Become(c, Idle)
  /\ UNCHANGED <<keys, session, user, ops>>

\* Logging out blocks the token and deletes the session, both if Redis allows.
logoutHandler(c) ==
  /\ \E t \in DOMAIN tokens, redisFails \in BOOLEAN :
       /\ Begin(c, [pc |-> "forget"])
       /\ blocked' = IF redisFails THEN blocked ELSE blocked \cup {t}
       /\ spent' = IF redisFails THEN spent ELSE spent \cup {<<"token", t>>}
  /\ UNCHANGED <<keys, tokens, session, user>>

DeleteSession(c) ==
  /\ cl[c].pc = "forget"
  /\ \/ session' = "gone"
     \/ UNCHANGED session    \* the error of Redis is ignored
  /\ Become(c, Idle)
  /\ UNCHANGED <<keys, tokens, blocked, user, ops, spent>>

\* RefreshSession reads the session and writes it back with a new end.
GetSession(c) ==
  /\ Begin(c, IF session = "gone" THEN Idle ELSE [pc |-> "extend"])
  /\ UNCHANGED <<keys, tokens, blocked, session, user, spent>>

RefreshSession(c) ==
  /\ cl[c].pc = "extend"
  /\ session' = IF session = "gone" THEN "revived" ELSE session
  /\ Become(c, Idle)
  /\ UNCHANGED <<keys, tokens, blocked, user, ops, spent>>

-----------------------------------------------------------------------------
(* The users row                                                            *)

\* Both handlers read the row, change their part and write all of it.
login(c) ==
  /\ Begin(c, [pc |-> "login", row |-> user])
  /\ UNCHANGED <<keys, tokens, blocked, session, user, spent>>

updateProfile(c) ==
  /\ Begin(c, [pc |-> "profile", row |-> user])
  /\ UNCHANGED <<keys, tokens, blocked, session, user, spent>>

UpdateUser(c) ==
  /\ cl[c].pc \in {"login", "profile"}
  /\ user' = IF cl[c].pc = "login" THEN [cl[c].row EXCEPT !.login = "now"]
             ELSE [cl[c].row EXCEPT !.name = "new"]
  /\ Become(c, Idle)
  /\ UNCHANGED <<keys, tokens, blocked, session, ops, spent>>

CutOff(c) ==
  /\ cl[c].pc # "idle" /\ Become(c, Idle)
  /\ keys' = IF cl[c].pc = "retire" THEN [keys EXCEPT ![cl[c].from].cut = TRUE] ELSE keys
  /\ UNCHANGED <<tokens, blocked, session, user, ops, spent>>

Next ==
  \E c \in Clients :
    \/ createAPIKey(c) \/ GenerateKey(c) \/ revokeAPIKey(c) \/ RevokeKey(c)
    \/ rotateAPIKey(c) \/ RotateKey(c)
    \/ refreshTokenHandler(c) \/ BlacklistToken(c)
    \/ logoutHandler(c) \/ DeleteSession(c) \/ GetSession(c) \/ RefreshSession(c)
    \/ login(c) \/ updateProfile(c) \/ UpdateUser(c)
    \/ CutOff(c)

-----------------------------------------------------------------------------
(* Properties                                                               *)

TypeOK ==
  /\ \A k \in DOMAIN keys : keys[k].from \in ((DOMAIN keys) \ {k}) \cup {None}
  /\ blocked \subseteq DOMAIN tokens /\ session \in {"live", "gone", "revived"}
  /\ user.name \in {"old", "new"} /\ user.login \in {"never", "now"}

Siblings(rows) ==
  {p \in (DOMAIN rows) \X (DOMAIN rows) :
     p[1] < p[2] /\ rows[p[1]].from # None /\ rows[p[1]].from = rows[p[2]].from}

\* A key that was answered as revoked or rotated stays dead (RevokeKey,
\* RotateKey); it is outlived by its successor only, and two successors come from
\* two rotations at once or one that was cut short.
SpentKeysStayDead ==
  /\ \A k \in DOMAIN keys : <<"key", k>> \in spent => ~keys[k].live
  /\ \A k \in DOMAIN keys :
       LET old == keys[k].from IN
       old # None /\ keys[old].live =>
         keys[old].cut \/ \E c \in Clients : cl[c].pc = "retire" /\ cl[c].from = old
  /\ \A p \in Siblings(keys) :
       keys[p[1]].doubled \/ keys[p[2]].doubled \/ keys[keys[p[1]].from].cut

\* Routes that look at a key's role only (apiKeyScopesToRole) never allow what
\* its scopes do not.
RolesFollowScopes ==
  \A k \in DOMAIN keys, perm \in {"apikey:manage", "flag:read", "flag:update", "flag:archive"} :
    HasPermission(apiKeyScopesToRole(keys[k].scopes), perm) => scopeSatisfies(keys[k].scopes, perm)

\* A refresh token is traded for two pairs only by simultaneous requests or past
\* an error of Redis (refreshTokenHandler).
TokensAreTradedOnce ==
  \A p \in Siblings(tokens) : tokens[p[1]].doubled \/ tokens[p[2]].doubled

CredentialsHold == SpentKeysStayDead /\ RolesFollowScopes /\ TokensAreTradedOnce

\* A profile edit is lost only to a sign-in that read the row before (login), and
\* a session is back only where a refresh had found it (RefreshSession).
OverwriteStep ==
  /\ user.name = "new" /\ user'.name = "old" =>
       \E c \in Clients : cl[c].pc = "login" /\ cl[c].row.name = "old"
  /\ session = "gone" /\ session' # "gone" => \E c \in Clients : cl[c].pc = "extend"
=============================================================================
