------------------------------ MODULE AuthGate ------------------------------
(***************************************************************************)
(* Authentication in the service worker: the gate handleRequest puts before *)
(* every package route (swsws/src/fetch-handler.ts), the OAuth2 flow, the   *)
(* session cookie and the htpasswd check (swsws/src/auth/), and the         *)
(* deploy-config message (sw.ts).                                           *)
(*                                                                          *)
(* A request suspends while its cookie, password or PKCE challenge is being *)
(* computed and while the identity provider answers; messages, other        *)
(* requests, installs, a stop of the worker and time go on meanwhile.       *)
(***************************************************************************)
EXTENDS Integers, Sequences, FiniteSets

CONSTANTS
  Packages,
  Secured,    \* packages with an authentication.json
  Forms,      \* Forms[p]: what it enables, a subset of {"basic", "oauth2"}
  Users,
  Htpasswd,   \* Htpasswd[p]: users whose password verifies
  Unreadable, \* Unreadable[p]: users whose entry has a hash type the reactor lacks
              \* (all of them where the passwdFile is missing)
  Roles,      \* Roles[u]: what the provider's userinfo lists
  Needed,     \* the roles the dataset route's accessControl lists; it also has
              \* authenticationRequired
  Secrets,
  NoSecret,
  Unmade,     \* no Authenticator made yet
  NoCookie, NoPending, Nobody,
  PendingTtl, SessionTtl,
  Tasks,      \* requests handled at once
  MaxClock, MaxModels, MaxStates,   \* bounds
  Faults      \* which of "stop", "provider" may happen

States == 1 .. MaxStates
Models == 1 .. MaxModels

ASSUME AuthAssumption ==
  /\ Secured \subseteq Packages
  /\ Forms \in [Packages -> SUBSET {"basic", "oauth2"}]
  /\ \A p \in Packages : Forms[p] # {} => p \in Secured
  /\ Htpasswd \in [Packages -> SUBSET Users]
  /\ Unreadable \in [Packages -> SUBSET Users]
  /\ NoSecret \notin Secrets /\ Unmade \notin Secrets \cup {NoSecret}
  /\ Nobody \notin Users
  /\ NoPending \notin [model : Models, expiresAt : 0 .. MaxClock + PendingTtl]
  /\ PendingTtl \in Nat /\ SessionTtl \in Nat
  /\ MaxClock \in Nat /\ MaxModels \in Nat /\ MaxStates \in Nat

VARIABLES
  clock,         \* Date.now()
  deployConfig,  \* the session secret last posted
  models,        \* the package of each model parsed so far; the last is installed
  authenticator, \* per model: the secret its Authenticator was made with
  pending,       \* per state value: its PendingAuthorization
  issued,        \* how many state values have been drawn
  owner,         \* per state value: the user whose browser was redirected
  sessions,      \* every session cookie set
  pc,            \* per task: the await it stands at
  req,           \* per task: the request (and, read by no step, the secret that
                 \* was configured when it arrived)
  answer         \* what the last step answered, if anything

vars == <<clock, deployConfig, models, authenticator, pending, issued, owner, sessions,
          pc, req, answer>>
worker == <<deployConfig, models, authenticator>>
logins == <<pending, issued, owner, sessions>>

Anonymous == [via |-> "none", user |-> Nobody, roles |-> {}]
NoRequest == [user |-> Nobody, kind |-> "page", cookie |-> NoCookie, basic |-> FALSE,
              state |-> 0, model |-> 0, roles |-> {}, expiresAt |-> 0,
              configured |-> NoSecret]
NoAnswer  == [status |-> 0, model |-> 0, kind |-> "page", principal |-> Anonymous]

Current == Len(models)
AllRoles == UNION {Roles[u] : u \in Users}

Cookie == [user : Users, roles : SUBSET AllRoles, expiresAt : 0 .. MaxClock + SessionTtl,
           secret : Secrets, state : States]
Pending == [model : Models, expiresAt : 0 .. MaxClock + PendingTtl]

TypeOK ==
  /\ clock \in 0 .. MaxClock
  /\ deployConfig \in Secrets \cup {NoSecret}
  /\ models \in Seq(Packages) /\ Len(models) <= MaxModels
  /\ authenticator \in [Models -> Secrets \cup {NoSecret, Unmade}]
  /\ issued \in 0 .. MaxStates
  /\ pending \in [States -> Pending \cup {NoPending}]
  /\ owner \in [States -> Users \cup {Nobody}]
  /\ sessions \subseteq Cookie
  /\ pc \in [Tasks -> {"idle", "gate", "passwd", "pkce", "token", "userinfo", "encode"}]
  /\ \A t \in Tasks : pc[t] # "idle" => req[t].model \in 1 .. Current /\ req[t].user \in Users

Init ==
  /\ clock = 0
  /\ deployConfig = NoSecret
  /\ models = <<>>
  /\ authenticator = [m \in Models |-> Unmade]
  /\ pending = [s \in States |-> NoPending]
  /\ issued = 0
  /\ owner = [s \in States |-> Nobody]
  /\ sessions = {}
  /\ pc = [t \in Tasks |-> "idle"]
  /\ req = [t \in Tasks |-> NoRequest]
  /\ answer = NoAnswer

At(t, label) == pc[t] = label
Goto(t, label) == pc' = [pc EXCEPT ![t] = label]
Silent == answer' = NoAnswer

\* Variant: the package served is the one installed by now.
ReplyInstalled(t, status, principal) ==
  /\ Goto(t, "idle")
  /\ req' = [req EXCEPT ![t] = NoRequest]
  /\ answer' = [status |-> status, model |-> Current, kind |-> req[t].kind,
                principal |-> principal]

\* A task answers from the model it captured, and is over.
Reply(t, status, principal) ==
  /\ Goto(t, "idle")
  /\ req' = [req EXCEPT ![t] = NoRequest]
  /\ answer' = [status |-> status, model |-> req[t].model, kind |-> req[t].kind,
                principal |-> principal]
Refuse(t, status) == Reply(t, status, Anonymous)
\* The handler rejects: the browser shows a network error.
Unanswered(t) == Refuse(t, 0)

PackageOf(t) == models[req[t].model]
SecretOf(t)  == authenticator[req[t].model]

\* Variant: a codec is made of whatever was configured.
NoCodecEver(secret) == FALSE
\* sessionCodec() is undefined.
NoCodec(secret) == secret = NoSecret

(***************************************************************************)
(* Routes, after the gate: from the package captured before it              *)
(***************************************************************************)
\* Variant: a principal without roles is not asked for any.
DeniedRolesOnly(principal) ==
  CASE principal = Anonymous -> 401
    [] principal.roles # {} /\ principal.roles \cap Needed = {} -> 403
    [] OTHER -> 200

Denied(principal) ==
  CASE principal = Anonymous -> 401
    [] principal # Anonymous /\ Needed # {} /\ principal.roles \cap Needed = {} -> 403
    [] OTHER -> 200

Serve(t, principal) ==
  Reply(t, IF req[t].kind = "dataset" THEN Denied(principal) ELSE 200, principal)

(***************************************************************************)
(* handleRequest up to its first await                                      *)
(***************************************************************************)
\* authenticatorFor: made on a model's first request and kept.
MakeAuthenticator(m) ==
  authenticator' = [authenticator EXCEPT ![m] = IF @ = Unmade THEN deployConfig ELSE @]

Asked(r) == [r EXCEPT !.model = Current, !.configured = deployConfig]

\* A package without authentication.json: no gate, and no await either.
ArriveOpen(t, r) ==
  /\ At(t, "idle")
  /\ Current > 0
  /\ models[Current] \notin Secured
  /\ answer' = [status |-> IF r.kind = "dataset" THEN Denied(Anonymous) ELSE 200,
                model |-> Current, kind |-> r.kind, principal |-> Anonymous]
  /\ UNCHANGED <<clock, worker, logins, pc, req>>

IsCallback(r) == r.kind = "callback" /\ "oauth2" \in Forms[models[Current]]

Arrive(t, r) ==
  /\ At(t, "idle")
  /\ Current > 0
  /\ models[Current] \in Secured
  /\ ~IsCallback(r)
  /\ MakeAuthenticator(Current)
  /\ req' = [req EXCEPT ![t] = Asked(r)]
  /\ Goto(t, "gate")
  /\ UNCHANGED <<clock, deployConfig, models, logins>>
  /\ Silent

Live(p) == p # NoPending /\ p.model = Current /\ p.expiresAt >= clock

\* Variant: the state is deleted when the session is opened.
CallbackKeeping(t, r) ==
  /\ At(t, "idle")
  /\ Current > 0
  /\ IsCallback(r)
  /\ MakeAuthenticator(Current)
  /\ ~NoCodec(authenticator'[Current]) /\ Live(pending[r.state])
  /\ req' = [req EXCEPT ![t] = Asked(r)]
  /\ Goto(t, "token")
  /\ UNCHANGED <<clock, deployConfig, models, logins>>
  /\ Silent

\* OAuth2Flow.handleCallback: the state is deleted before anything is awaited.
Callback(t, r) ==
  /\ At(t, "idle")
  /\ Current > 0
  /\ IsCallback(r)
  /\ MakeAuthenticator(Current)
  /\ IF NoCodec(authenticator'[Current])
       THEN UNCHANGED pending
       ELSE pending' = [pending EXCEPT ![r.state] =
              IF @ # NoPending /\ @.model = Current THEN NoPending ELSE @]
  /\ IF ~NoCodec(authenticator'[Current]) /\ Live(pending[r.state])
       THEN /\ req' = [req EXCEPT ![t] = Asked(r)]
            /\ Goto(t, "token")
            /\ Silent
       ELSE /\ answer' = [status |-> IF NoCodec(authenticator'[Current]) THEN 501 ELSE 400,
                          model |-> Current, kind |-> r.kind, principal |-> Anonymous]
            /\ UNCHANGED <<pc, req>>
  /\ UNCHANGED <<clock, deployConfig, models, issued, owner, sessions>>

(***************************************************************************)
(* gate                                                                     *)
(***************************************************************************)
\* Variant: the expiry is not read.
ValidSignature(t) ==
  /\ ~NoCodec(SecretOf(t))
  /\ req[t].cookie # NoCookie
  /\ req[t].cookie.secret = SecretOf(t)

\* SessionCodec.decode: the signature is awaited, the expiry read afterwards.
Valid(t) ==
  LET c == req[t].cookie IN
  /\ ~NoCodec(SecretOf(t))
  /\ c # NoCookie
  /\ c.secret = SecretOf(t)
  /\ c.expiresAt >= clock

GateSession(t) ==
  /\ At(t, "gate")
  /\ Valid(t)
  /\ Serve(t, [via |-> "session", user |-> req[t].cookie.user, roles |-> req[t].cookie.roles])
  /\ UNCHANGED <<clock, worker, logins>>

\* Basic credentials are verified before OAuth2 is tried.
GateBasic(t) ==
  /\ At(t, "gate")
  /\ ~Valid(t)
  /\ req[t].basic
  /\ Goto(t, "passwd")
  /\ UNCHANGED <<clock, worker, logins, req>>
  /\ Silent

\* No credentials: begin a login, challenge, or let through.
GateNone(t) ==
  /\ At(t, "gate")
  /\ ~Valid(t)
  /\ ~req[t].basic
  /\ \/ /\ "oauth2" \in Forms[PackageOf(t)]
        /\ IF NoCodec(SecretOf(t))
             THEN Refuse(t, 501)
             ELSE Goto(t, "pkce") /\ UNCHANGED req /\ Silent
     \/ /\ Forms[PackageOf(t)] = {"basic"}
        /\ Refuse(t, 401)
     \/ /\ Forms[PackageOf(t)] = {}
        /\ Serve(t, Anonymous)
  /\ UNCHANGED <<clock, worker, logins>>

\* verifyHtpasswd; a basic principal has no roles.
Passwd(t) ==
  /\ At(t, "passwd")
  /\ IF "basic" \in Forms[PackageOf(t)] /\ req[t].user \in Htpasswd[PackageOf(t)]
       THEN Serve(t, [via |-> "basic", user |-> req[t].user, roles |-> {}])
       ELSE Refuse(t, IF /\ "basic" \in Forms[PackageOf(t)]
                         /\ req[t].user \in Unreadable[PackageOf(t)] THEN 501 ELSE 401)
  /\ UNCHANGED <<clock, worker, logins>>

\* OAuth2Flow.begin: the challenge is hashed, the login recorded, 302 answered.
Begin(t) ==
  /\ At(t, "pkce")
  /\ issued < MaxStates
  /\ issued' = issued + 1
  /\ pending' = [pending EXCEPT ![issued'] =
       [model |-> req[t].model, expiresAt |-> clock + PendingTtl]]
  /\ owner' = [owner EXCEPT ![issued'] = req[t].user]
  /\ Refuse(t, 302)
  /\ UNCHANGED <<clock, worker, sessions>>

(***************************************************************************)
(* The rest of the callback                                                 *)
(***************************************************************************)
\* The token endpoint answers; an error ends the login, and so does a rejected fetch.
Token(t) ==
  /\ At(t, "token")
  /\ \/ /\ Goto(t, "userinfo")
        /\ UNCHANGED req
        /\ Silent
     \/ /\ "provider" \in Faults
        /\ Refuse(t, 502) \/ Unanswered(t)
  /\ UNCHANGED <<clock, worker, logins>>

\* The user's roles, or none where userinfo is missing or answers an error; a rejected
\* fetch or an answer that is no JSON ends the login.
Userinfo(t) ==
  /\ At(t, "userinfo")
  /\ \/ /\ \E roles \in {Roles[req[t].user]} \cup (IF "provider" \in Faults THEN {{}} ELSE {}) :
             req' = [req EXCEPT ![t].roles = roles,
                                ![t].expiresAt = clock + SessionTtl]
        /\ Goto(t, "encode")
        /\ Silent
     \/ /\ "provider" \in Faults
        /\ Unanswered(t)
  /\ UNCHANGED <<clock, worker, logins>>

\* The cookie is signed and set.
Encode(t) ==
  /\ At(t, "encode")
  /\ sessions' = sessions \cup
       {[user |-> req[t].user, roles |-> req[t].roles, state |-> req[t].state,
         expiresAt |-> req[t].expiresAt, secret |-> SecretOf(t)]}
  /\ Refuse(t, 302)
  /\ UNCHANGED <<clock, worker, pending, issued, owner>>

TaskStep(t) ==
  \/ GateSession(t) \/ GateBasic(t) \/ GateNone(t) \/ Passwd(t) \/ Begin(t)
  \/ Token(t) \/ Userinfo(t) \/ Encode(t)

(***************************************************************************)
(* The page, the browser and time                                           *)
(***************************************************************************)
DeployConfig(secret) ==
  /\ deployConfig' = secret
  /\ UNCHANGED <<clock, models, authenticator, logins, pc, req>>
  /\ Silent

\* An install-package message gets as far as this.installed = installed.
Install(p) ==
  /\ Current < MaxModels
  /\ models' = Append(models, p)
  /\ UNCHANGED <<clock, deployConfig, authenticator, logins, pc, req>>
  /\ Silent

\* The worker is stopped; the next one restores the package as a new model and has
\* no secret yet.
Stop ==
  /\ "stop" \in Faults
  /\ Current \in 1 .. MaxModels - 1
  /\ models' = Append(models, models[Current])
  /\ deployConfig' = NoSecret
  /\ pending' = [s \in States |-> NoPending]
  /\ pc' = [t \in Tasks |-> "idle"]
  /\ req' = [t \in Tasks |-> NoRequest]
  /\ UNCHANGED <<clock, authenticator, issued, owner, sessions>>
  /\ Silent

Tick ==
  /\ clock < MaxClock
  /\ clock' = clock + 1
  /\ UNCHANGED <<worker, logins, pc, req>>
  /\ Silent

\* What browsers send: a page or the dataset, with any cookie once set for the user,
\* with or without Basic credentials; or a callback, early, late or again.
Visits(u) ==
  [user : {u}, kind : {"page", "dataset"}, basic : BOOLEAN,
   cookie : {NoCookie} \cup {s \in sessions : s.user = u},
   state : {0}, model : {0}, roles : {{}}, expiresAt : {0}, configured : {NoSecret}]
Returns == {[NoRequest EXCEPT !.user = owner[s], !.kind = "callback", !.state = s] :
              s \in 1 .. issued}

Next ==
  \/ \E t \in Tasks : TaskStep(t)
  \/ \E t \in Tasks, u \in Users : \E r \in Visits(u) : ArriveOpen(t, r) \/ Arrive(t, r)
  \/ \E t \in Tasks, r \in Returns : ArriveOpen(t, r) \/ Arrive(t, r) \/ Callback(t, r)
  \/ \E secret \in Secrets \cup {NoSecret} : DeployConfig(secret)
  \/ \E p \in Packages : Install(p)
  \/ Stop
  \/ Tick

Spec == Init /\ [][Next]_vars

(***************************************************************************)
(* Properties                                                               *)
(***************************************************************************)
\* A package's content goes only to a request its own gate admitted, even if
\* another package is installed while the gate is awaited
\* (fetch-handler.ts:342-359): a basic user of its own htpasswd, the bearer of a
\* session that was opened, or anyone where it enables no authentication.
ServedIsGated ==
  answer.status = 200 =>
    LET p == models[answer.model]
        who == answer.principal
    IN CASE who.via = "none"    -> Forms[p] = {}
         [] who.via = "basic"   -> "basic" \in Forms[p] /\ who.user \in Htpasswd[p]
         [] who.via = "session" -> \E c \in sessions : c.user = who.user /\ c.roles = who.roles

\* A protected dataset reaches only users who authenticated and, where it is restricted
\* to roles, only users the provider gave one of them, however they authenticated
\* (fetch-handler.ts:366-378, htpasswd users have none).
DatasetRoleHeld ==
  answer.status = 200 /\ answer.kind = "dataset" =>
    /\ answer.principal.user \in Users
    /\ Needed # {} => Roles[answer.principal.user] \cap Needed # {}

\* A session admits nobody at a time past its expiry, although the clock goes on
\* while its signature is checked (session.ts:69-76).
NoExpiredSession ==
  answer.principal.via = "session" =>
    \E c \in sessions : c.user = answer.principal.user /\ c.expiresAt >= clock

\* Where each state value is: still pending, carried by a callback, in a session.
InFlight(s) == {t \in Tasks : pc[t] \in {"token", "userinfo", "encode"} /\ req[t].state = s}
Opened(s) == {c \in sessions : c.state = s}
TicketOf(s) ==
  LET places == Cardinality(InFlight(s)) + Cardinality(Opened(s))
                  + (IF pending[s] = NoPending THEN 0 ELSE 1)
  IN CASE places > 1 -> "several"
       [] s > issued -> "unissued"
       [] pending[s] # NoPending -> "open"
       [] InFlight(s) # {} -> "presented"
       [] Opened(s) # {} -> "session"
       [] OTHER -> "void"

Login == INSTANCE LoginTickets WITH Tickets <- States, ticket <- [s \in States |-> TicketOf(s)]

\* A login opens at most one session, whatever callbacks are repeated, concurrent,
\* late or cut off by a stop of the worker (oauth2.ts:114-118).
ImplementsTickets == Login!TicketsSpec

\* A request that reaches an OAuth2 package when the page has posted the session
\* secret is not sent away for want of one: 501 is the answer "without the deploy
\* secret" (swsws/README.md:107-110).
ConfigTakesEffect ==
  [][\A t \in Tasks :
       At(t, "gate") /\ "oauth2" \in Forms[PackageOf(t)] /\ answer'.status = 501
         => req[t].configured = NoSecret]_vars
===============================================================================
