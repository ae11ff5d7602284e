------------------------------ MODULE InitAuth ------------------------------
(***************************************************************************)
(* The authorisation of writes to category init: a page asks the server    *)
(* for a token, `mem012 --auth` exchanges the token for a grant and keeps  *)
(* the grant in the auth file, `create_memory` has the server consume it.  *)
(*                                                                         *)
(* The server keeps at most one token and one grant, each behind a mutex   *)
(* of its own.  A handler that moves from one store to the other holds the *)
(* transition lock meanwhile; auth_status touches the tokens without it.   *)
(* Each section of a handler under one store's mutex is an action here.    *)
(* The auth file is shared by the commands without any lock.               *)
(***************************************************************************)
EXTENDS Naturals, Sequences

CONSTANTS
  Pages,        (* /auth pages with a session, each with one request at a time *)
  Commands,     (* CLI processes                                               *)
  Nobody,       (* the transition lock is free                                 *)
  NoToken, NoGrant,
  NoFile, EmptyFile,
  TTL,          (* INIT_AUTH_TOKEN_TTL and INIT_GRANT_TTL, which are equal     *)
  MaxTokens,    (* bound: tokens issued                                        *)
  MaxTime,      (* bound: the last tick of the clock                           *)
  MaxRestarts   (* bound: restarts of the server                               *)

Tokens == [id : Nat, expires_at : Nat]
Grants == [grant_id : Nat, expires_at : Nat]

\* What the CLI gets: the signature tells which process of the server made it.
Tickets == [grant_id : Nat, key : Nat]

\* A stage in Locked is a handler that holds the transition lock.
PageStages == {"idle", "refreshing", "rotated"}
CommandStages ==
  {"idle", "authing", "exchanging", "exchanged", "granted", "writing",
   "posting", "consuming", "consumed", "expired", "refused", "authorized"}
Locked ==
  {"refreshing", "rotated", "exchanging", "exchanged", "consuming", "consumed", "expired"}

ASSUME InitAuthAssumption ==
  /\ Nobody \notin Pages \cup Commands
  /\ Pages \cap Commands = {}
  /\ NoToken \notin Tokens
  /\ NoGrant \notin Grants \cup Tickets
  /\ {NoFile, EmptyFile} \cap Tickets = {}
  /\ NoFile # EmptyFile
  /\ {TTL, MaxTokens, MaxTime, MaxRestarts} \subseteq Nat

VARIABLES
  token,       (* InitAuthStore                                                *)
  grant,       (* InitGrantStore; a stored grant is never marked consumed, it
                  is taken out instead                                         *)
  transition,  (* holder of init_authorization_transition_lock                 *)
  now,         (* what now_epoch told the holder                               *)
  key,         (* init_grant_signing_key, made anew by each process            *)
  stage,       (* where each page and command is                               *)
  presented,   (* the token a command was started with                         *)
  held,        (* the ticket a command has received or read                    *)
  file,        (* ~/.auth/auth_file.mem                                        *)
  clock,
  issued,      (* history: how many tokens there have been; tokens are random
                  and never repeat, the number stands for the token            *)
  origin,      (* history: the token each grant was signed for                 *)
  spent        (* history: the grants that have authorised a creation          *)

server == <<token, grant, transition, now, key>>
client == <<stage, presented, held, file>>
history == <<issued, origin, spent>>
vars == <<server, client, clock, history>>

Init ==
  /\ token = NoToken /\ grant = NoGrant
  /\ transition = Nobody /\ now = 0 /\ key = 0
  /\ stage = [c \in Pages \cup Commands |-> "idle"]
  /\ presented = [c \in Commands |-> 0]
  /\ held = [c \in Commands |-> NoGrant]
  /\ file = NoFile
  /\ clock = 0
  /\ issued = 0 /\ origin = <<>> /\ spent = {}

At(c, s) == stage[c] = s
Go(c, s) == stage' = [stage EXCEPT ![c] = s]

\* The command is over, and what it knew is gone.
End(c) ==
  /\ Go(c, "idle")
  /\ presented' = [presented EXCEPT ![c] = 0]
  /\ held' = [held EXCEPT ![c] = NoGrant]

Lock(c) == transition = Nobody /\ transition' = c
Unlock == transition' = Nobody

-----------------------------------------------------------------------------
(* POST /api/auth/refresh                                                  *)

BeginRefresh(p) ==
  /\ At(p, "idle") /\ issued < MaxTokens
  /\ Lock(p) /\ Go(p, "refreshing")
  /\ UNCHANGED <<token, grant, now, key, presented, held, file, clock, history>>

RefreshToken(p) ==
  /\ At(p, "refreshing")
  /\ issued' = issued + 1
  /\ token' = [id |-> issued', expires_at |-> clock + TTL]
  /\ Go(p, "rotated")
  /\ UNCHANGED <<grant, transition, now, key, presented, held, file, clock, origin, spent>>

\* Mutant: the refresh leaves the grant of the earlier token in place.
ClearGrantNever(p) ==
  /\ At(p, "rotated")
  /\ Unlock /\ Go(p, "idle")
  /\ UNCHANGED <<token, grant, now, key, presented, held, file, clock, history>>

ClearGrant(p) ==
  /\ At(p, "rotated")
  /\ grant' = NoGrant
  /\ Unlock /\ Go(p, "idle")
  /\ UNCHANGED <<token, now, key, presented, held, file, clock, history>>

(* GET /api/auth/status: drops a token that has expired, changes nothing else *)
AuthStatus ==
  /\ token # NoToken /\ token.expires_at <= clock
  /\ token' = NoToken
  /\ UNCHANGED <<grant, transition, now, key, client, clock, history>>

-----------------------------------------------------------------------------
(* mem012 --auth, and POST /api/auth/grant                                 *)

\* The user may paste a token that has long been replaced.
BeginAuth(c, t) ==
  /\ At(c, "idle")
  /\ file' = NoFile
  /\ Go(c, "authing")
  /\ presented' = [presented EXCEPT ![c] = t]
  /\ UNCHANGED <<server, held, clock, history>>

BeginExchange(c) ==
  /\ At(c, "authing")
  /\ Lock(c) /\ now' = clock
  /\ Go(c, "exchanging")
  /\ UNCHANGED <<token, grant, key, presented, held, file, clock, history>>

\* Mutant: the token is compared and kept.
ConsumeTokenKept(c) ==
  /\ At(c, "exchanging")
  /\ token # NoToken /\ token.expires_at > now /\ token.id = presented[c]
  /\ Go(c, "exchanged")
  /\ UNCHANGED <<token, grant, transition, now, key, presented, held, file, clock, history>>

ConsumeToken(c) ==
  /\ At(c, "exchanging")
  /\ token # NoToken /\ token.expires_at > now /\ token.id = presented[c]
  /\ token' = NoToken
  /\ Go(c, "exchanged")
  /\ UNCHANGED <<grant, transition, now, key, presented, held, file, clock, history>>

RefuseToken(c) ==
  /\ At(c, "exchanging")
  /\ \/ token = NoToken /\ UNCHANGED token
     \/ token # NoToken /\ token.expires_at <= now /\ token' = NoToken
     \/ token # NoToken /\ token.expires_at > now /\ token.id # presented[c] /\ UNCHANGED token
  /\ Unlock /\ End(c)
  /\ UNCHANGED <<grant, now, key, file, clock, history>>

ReplaceGrant(c) ==
  /\ At(c, "exchanged")
  /\ origin' = Append(origin, presented[c])
  /\ grant' = [grant_id |-> Len(origin'), expires_at |-> now + TTL]
  /\ held' = [held EXCEPT ![c] = [grant_id |-> Len(origin'), key |-> key]]
  /\ Unlock /\ Go(c, "granted")
  /\ UNCHANGED <<token, now, key, presented, file, clock, issued, spent>>

\* Opening the file truncates it.
OpenFile(c) ==
  /\ At(c, "granted")
  /\ file' = EmptyFile
  /\ Go(c, "writing")
  /\ UNCHANGED <<server, presented, held, clock, history>>

\* A file that has been removed since stays removed; a write that fails, or goes
\* to a file that is no longer the one in the directory, changes nothing.
WriteFile(c) ==
  /\ At(c, "writing")
  /\ file' \in {file} \cup (IF file = NoFile THEN {} ELSE {held[c]})
  /\ End(c)
  /\ UNCHANGED <<server, clock, history>>

-----------------------------------------------------------------------------
(* create_memory of category init, and POST /api/auth/grant/consume        *)

ReadFile(c) ==
  /\ At(c, "idle") /\ file \in Tickets
  /\ held' = [held EXCEPT ![c] = file]
  /\ Go(c, "posting")
  /\ UNCHANGED <<server, presented, file, clock, history>>

\* Empty, or not JSON: the command removes the file and fails.
DiscardFile(c) ==
  /\ At(c, "idle") /\ file = EmptyFile
  /\ file' = NoFile
  /\ UNCHANGED <<server, stage, presented, held, clock, history>>

\* verify_init_grant, before the lock: the signature of another process fails.
RejectSignature(c) ==
  /\ At(c, "posting") /\ held[c].key # key
  /\ Go(c, "refused")
  /\ UNCHANGED <<server, presented, held, file, clock, history>>

\* Mutant: without the transition lock.
BeginConsumeUnlocked(c) ==
  /\ At(c, "posting") /\ held[c].key = key
  /\ now' = clock
  /\ Go(c, "consuming")
  /\ UNCHANGED <<token, grant, transition, key, presented, held, file, clock, history>>

BeginConsume(c) ==
  /\ At(c, "posting") /\ held[c].key = key
  /\ Lock(c) /\ now' = clock
  /\ Go(c, "consuming")
  /\ UNCHANGED <<token, grant, key, presented, held, file, clock, history>>

\* Mutant: any grant will do.
MatchesAnyGrant(c) == grant # NoGrant

MatchesGrant(c) == grant # NoGrant /\ grant.grant_id = held[c].grant_id

ConsumeGrant(c) ==
  /\ At(c, "consuming") /\ MatchesGrant(c)
  /\ grant' = NoGrant
  /\ Go(c, IF grant.expires_at > now THEN "consumed" ELSE "expired")
  /\ UNCHANGED <<token, transition, now, key, presented, held, file, clock, history>>

RefuseGrant(c) ==
  /\ At(c, "consuming") /\ ~MatchesGrant(c)
  /\ Unlock /\ Go(c, "refused")
  /\ UNCHANGED <<token, grant, now, key, presented, held, file, clock, history>>

RefuseExpired(c) ==
  /\ At(c, "expired")
  /\ token' = NoToken
  /\ Unlock /\ Go(c, "refused")
  /\ UNCHANGED <<grant, now, key, presented, held, file, clock, history>>

ClearAuthorization(c) ==
  /\ At(c, "consumed")
  /\ token' = NoToken /\ grant' = NoGrant
  /\ spent' = spent \cup {held[c].grant_id}
  /\ Unlock /\ Go(c, "authorized")
  /\ UNCHANGED <<now, key, presented, held, file, clock, issued, origin>>

\* The command goes on to write the memory, or fails; the file goes either way,
\* whatever it holds by now.
RemoveFile(c) ==
  /\ stage[c] \in {"refused", "authorized"}
  /\ file' = NoFile
  /\ End(c)
  /\ UNCHANGED <<server, clock, history>>

-----------------------------------------------------------------------------
(* Failures and time                                                       *)

\* A command that is killed, loses its connection or cannot remove the file.
\* A handler that has the lock runs to its end: it awaits nothing.
Die(c) ==
  /\ stage[c] \notin Locked \cup {"idle"}
  /\ End(c)
  /\ UNCHANGED <<server, file, clock, history>>

\* The process of the server ends and another takes its place.
Restart ==
  /\ key < MaxRestarts
  /\ key' = key + 1
  /\ token' = NoToken /\ grant' = NoGrant
  /\ transition' = Nobody /\ now' = 0
  /\ stage' = [c \in Pages \cup Commands |->
                 IF stage[c] \notin Locked THEN stage[c]
                 ELSE IF stage[c] \in {"consuming", "consumed", "expired"} THEN "refused"
                 ELSE "idle"]
  /\ presented' = [c \in Commands |-> IF stage'[c] = "idle" THEN 0 ELSE presented[c]]
  /\ held' = [c \in Commands |-> IF stage'[c] = "idle" THEN NoGrant ELSE held[c]]
  /\ UNCHANGED <<file, clock, history>>

Tick ==
  /\ clock < MaxTime
  /\ clock' = clock + 1
  /\ UNCHANGED <<server, client, history>>

PageStep(p) == BeginRefresh(p) \/ RefreshToken(p) \/ ClearGrant(p)

AuthStep(c) ==
  \/ \E t \in 1..issued : BeginAuth(c, t)
  \/ BeginExchange(c) \/ ConsumeToken(c) \/ RefuseToken(c) \/ ReplaceGrant(c)
  \/ OpenFile(c) \/ WriteFile(c)

CreateStep(c) ==
  \/ ReadFile(c) \/ DiscardFile(c) \/ RejectSignature(c) \/ BeginConsume(c)
  \/ ConsumeGrant(c) \/ RefuseGrant(c) \/ RefuseExpired(c) \/ ClearAuthorization(c)
  \/ RemoveFile(c)

Next ==
  \/ \E p \in Pages : PageStep(p)
  \/ \E c \in Commands : AuthStep(c) \/ CreateStep(c) \/ Die(c)
  \/ AuthStatus \/ Restart \/ Tick

Spec == Init /\ [][Next]_vars

-----------------------------------------------------------------------------
(* Properties                                                              *)

ServerTyped ==
  /\ token \in Tokens \cup {NoToken}
  /\ grant \in Grants \cup {NoGrant}
  /\ now \in Nat /\ key \in Nat /\ clock \in Nat

StagesTyped ==
  /\ stage \in [Pages \cup Commands -> PageStages \cup CommandStages]
  /\ \A p \in Pages : stage[p] \in PageStages
  /\ \A c \in Commands : stage[c] \in CommandStages
  /\ transition \in Pages \cup Commands \cup {Nobody}
  /\ \A c \in Pages \cup Commands : stage[c] \in Locked <=> transition = c

ClientsTyped ==
  /\ presented \in [Commands -> Nat]
  /\ held \in [Commands -> Tickets \cup {NoGrant}]
  /\ file \in Tickets \cup {NoFile, EmptyFile}

HistoryTyped ==
  /\ issued \in Nat
  /\ origin \in Seq(Nat)
  /\ \A i \in 1..Len(origin) : origin[i] \in 1..issued
  /\ spent \subseteq 1..Len(origin)

\* Types, and the transition lock: exactly the client whose handler is between
\* two sections holds it.
InitAuthTypeOK == ServerTyped /\ StagesTyped /\ ClientsTyped /\ HistoryTyped

\* Outside the handlers the server holds a token or a grant, never both: a
\* refresh takes the grant away (auth_refresh) and an exchange the token
\* (auth_grant), although the two stores have no mutex in common.
OneAuthorization ==
  transition = Nobody => token = NoToken \/ grant = NoGrant

\* A token is exchanged for a grant at most once, however many commands
\* present it (InitAuthStore::consume_token before replace_grant).
OneGrantPerToken ==
  \A i, j \in 1..Len(origin) : origin[i] = origin[j] => i = j

\* A creation is authorised only by a grant of the latest token and only once:
\* a refresh revokes whatever was granted before, even when the file with the
\* old grant is already on its way, and an earlier answer is never repeated
\* (auth_refresh, auth_grant_consume).
OnlyLatestAuthorizes ==
  [][\A c \in Commands :
       stage'[c] = "authorized" /\ stage[c] # "authorized" =>
         /\ held[c].grant_id \notin spent
         /\ origin[held[c].grant_id] = issued]_vars
=============================================================================
