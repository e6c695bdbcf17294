----------------------------- MODULE OAuthStore ----------------------------
(***************************************************************************)
(* The OAuth server of server/src/oauth: registered clients, one-shot      *)
(* authorization codes and rotating refresh tokens, in one SQLite file     *)
(* that every request task shares.  A secret is a number, drawn once; a    *)
(* request task may be dropped after any of its awaits.                    *)
(***************************************************************************)
EXTENDS Integers, FiniteSets

CONSTANTS
  Clients, Users,
  Tasks,          \* request tasks of the token endpoint
  CodeTtl, AccessTtl, RefreshTtl,
  MaxSecrets,     \* bound: secrets ever drawn
  MaxTime        \* bound: the clock

VARIABLES
  clients,    \* table clients
  codes,      \* table codes
  tokens,     \* table tokens
  tasks,      \* the claims each request task holds between its awaits
  clock, drawn,
  consents,   \* history: what each code was issued for
  exchanged   \* history: per code, exchanges that passed every check

oauthVars == <<clients, codes, tokens, tasks, clock, drawn, consents, exchanged>>

NoTask == [pc |-> "none"]

ASSUME TimeAssumption == {CodeTtl, AccessTtl, RefreshTtl, MaxSecrets, MaxTime} \subseteq Nat

OAuthInit ==
  /\ clients = {} /\ codes = {} /\ tokens = {} /\ consents = {}
  /\ tasks = [t \in Tasks |-> NoTask]
  /\ clock = 0 /\ drawn = 0
  /\ exchanged = [c \in 1 .. MaxSecrets |-> 0]

(* register: open to anybody whose redirect URIs are https or loopback. *)
Register(c) ==
  /\ c \notin clients
  /\ clients' = clients \cup {c}
  /\ UNCHANGED <<codes, tokens, tasks, clock, drawn, consents, exchanged>>

(* authorize, after checked_request and the user's server token: issue_code.
   granted_scope keeps nothing of the requested scope but offline_access. *)
Authorize(c, u, offline) ==
  LET claims == [client |-> c, user |-> u, offline |-> offline] IN
  /\ c \in clients /\ drawn < MaxSecrets
  /\ drawn' = drawn + 1
  /\ codes' = codes \cup {[code |-> drawn', claims |-> claims, expires |-> clock + CodeTtl]}
  /\ consents' = consents \cup {[code |-> drawn', claims |-> claims]}
  /\ UNCHANGED <<clients, tokens, tasks, clock, exchanged>>

----------------------------------------------------------------------------
(* Mutant of TakeCode: the row goes when the tokens are out, not when it is read. *)
TakeCode_Later(row) == codes

(* DELETE ... RETURNING, and the sweep of expired rows. *)
TakeCode(row) == {c \in codes : c # row /\ c.expires > clock}

(* exchange_code up to redeem_code: the code is consumed whether or not the
   checks that follow (client, redirect URI, verifier) pass. *)
Redeem(t, row, fits) ==
  /\ tasks[t] = NoTask /\ row \in codes /\ row.expires > clock
  /\ codes' = TakeCode(row)
  /\ exchanged' = IF fits THEN [exchanged EXCEPT ![row.code] = @ + 1] ELSE exchanged
  /\ tasks' = IF fits THEN [tasks EXCEPT ![t] = [pc |-> "access", claims |-> row.claims,
                                                  code |-> row.code]]
                      ELSE tasks
  /\ UNCHANGED <<clients, tokens, clock, drawn, consents>>

(* refresh up to the lookup of a live refresh token, for its own client. *)
LookUp(t, row) ==
  /\ tasks[t] = NoTask /\ row \in tokens /\ row.kind = "refresh" /\ row.expires > clock
  /\ tasks' = [tasks EXCEPT ![t] = [pc |-> "revoke", claims |-> row.claims, code |-> row.code,
                                    presented |-> row.token]]
  /\ UNCHANGED <<clients, codes, tokens, clock, drawn, consents, exchanged>>

(* revoke_token, and the sweep of expired rows. *)
Revoke(t) ==
  /\ tasks[t].pc = "revoke"
  /\ tokens' = {r \in tokens : r.token # tasks[t].presented /\ r.expires > clock}
  /\ tasks' = [tasks EXCEPT ![t] = [pc |-> "access", claims |-> @.claims, code |-> @.code]]
  /\ UNCHANGED <<clients, codes, clock, drawn, consents, exchanged>>

Token(t, kind, ttl) ==
  [token |-> drawn + 1, kind |-> kind, claims |-> tasks[t].claims, code |-> tasks[t].code,
   expires |-> clock + ttl]

(* issue, first await: the access token. *)
IssueAccess(t) ==
  /\ tasks[t].pc = "access" /\ drawn < MaxSecrets
  /\ drawn' = drawn + 1
  /\ tokens' = tokens \cup {Token(t, "access", AccessTtl)}
  /\ tasks' = [tasks EXCEPT ![t].pc = "refresh"]
  /\ UNCHANGED <<clients, codes, clock, consents, exchanged>>

(* Mutant of WantsRefresh: every grant can be refreshed. *)
WantsRefresh_Always(claims) == TRUE

(* scope.split_whitespace().any(offline_access) *)
WantsRefresh(claims) == claims.offline

(* issue, second await: the refresh token, and the response. *)
IssueRefresh(t) ==
  /\ tasks[t].pc = "refresh"
  /\ IF WantsRefresh(tasks[t].claims)
       THEN /\ drawn < MaxSecrets
            /\ drawn' = drawn + 1
            /\ tokens' = tokens \cup {Token(t, "refresh", RefreshTtl)}
       ELSE UNCHANGED <<drawn, tokens>>
  /\ tasks' = [tasks EXCEPT ![t] = NoTask]
  /\ UNCHANGED <<clients, codes, clock, consents, exchanged>>

(* The client hangs up, or the server stops. *)
DropTask(t) ==
  /\ tasks[t] # NoTask
  /\ tasks' = [tasks EXCEPT ![t] = NoTask]
  /\ UNCHANGED <<clients, codes, tokens, clock, drawn, consents, exchanged>>

ClockTick ==
  /\ clock < MaxTime
  /\ clock' = clock + 1
  /\ UNCHANGED <<clients, codes, tokens, tasks, drawn, consents, exchanged>>

OAuthNext ==
  \/ \E c \in Clients : Register(c)
  \/ \E c \in Clients, u \in Users, offline \in BOOLEAN : Authorize(c, u, offline)
  \/ \E t \in Tasks : \/ \E row \in codes, fits \in BOOLEAN : Redeem(t, row, fits)
                      \/ \E row \in tokens : LookUp(t, row)
                      \/ Revoke(t) \/ IssueAccess(t) \/ IssueRefresh(t) \/ DropTask(t)
  \/ ClockTick

OAuthSpec == OAuthInit /\ [][OAuthNext]_oauthVars
----------------------------------------------------------------------------
(* "Redeems a code, which can happen at most once" (store.rs redeem_code),
   however exchanges of one code interleave, fail a check or are dropped. *)
CodeOnce == \A c \in DOMAIN exchanged : exchanged[c] <= 1

(* authenticate_oauth *)
Honoured(row) == row.kind = "access" /\ row.expires > clock

(* Through any chain of exchanges and refreshes a token speaks for the client,
   the user and the scope one consent named, and outlives the access token it
   came with only if that consent included offline_access. *)
ConsentBounds ==
  \A row \in tokens :
    /\ [code |-> row.code, claims |-> row.claims] \in consents
    /\ row.kind = "refresh" => row.claims.offline
    /\ ~ row.claims.offline =>
         Cardinality({r \in tokens : r.code = row.code /\ Honoured(r)}) <= 1

(* A consent yields one exchange and nothing beyond what it named. *)
ConsentKept == CodeOnce /\ ConsentBounds
============================================================================
