---------------------------- MODULE AuthGateProofs ----------------------------
(***************************************************************************)
(* The gate and the login flow, for any packages, users, roles, times and   *)
(* number of requests in flight: content is served behind its own package's *)
(* gate, and a login opens at most one session.                             *)
(***************************************************************************)
EXTENDS AuthGate, FiniteSetTheorems, TLAPS

\* What a task holds of its request while it is awaited.
Request == [user : Users \cup {Nobody}, kind : {"page", "dataset", "callback"},
            cookie : Cookie \cup {NoCookie}, basic : BOOLEAN, state : 0 .. MaxStates,
            model : 0 .. MaxModels, roles : SUBSET AllRoles,
            expiresAt : 0 .. MaxClock + SessionTtl,
            configured : Secrets \cup {NoSecret}]

Stages == {"idle", "gate", "passwd", "pkce", "token", "userinfo", "encode"}
InLogin(t) == pc[t] \in {"token", "userinfo", "encode"}
Granted(user, roles) == roles = Roles[user] \/ roles = {}

\* A request captured a model of this worker, whose authenticator was made when it
\* arrived; one in a login has a codec to sign with, and the roles userinfo answered.
Running(t) ==
  pc[t] # "idle" =>
    /\ req[t].model \in 1 .. Current
    /\ req[t].user \in Users
    /\ authenticator[req[t].model] # Unmade
    /\ req[t].cookie # NoCookie => req[t].cookie \in sessions
    /\ InLogin(t) => authenticator[req[t].model] # NoSecret /\ req[t].state \in 1 .. issued
    /\ pc[t] = "encode" => Granted(req[t].user, req[t].roles)

Inv ==
  /\ TypeOK
  /\ req \in [Tasks -> Request]
  /\ \A s \in 1 .. issued : owner[s] \in Users
  /\ \A c \in sessions : Granted(c.user, c.roles)
  /\ \A t \in Tasks : Running(t)

USE AuthAssumption

LEMMA RequestFacts ==
  /\ NoRequest \in Request
  /\ NoRequest.model = 0
  /\ \A u \in Users : Roles[u] \in SUBSET AllRoles
  BY DEF NoRequest, Request, AllRoles, States, Models

LEMMA InitInv == Init => Inv
  <1> SUFFICES ASSUME Init PROVE Inv
    OBVIOUS
  <1>1. TypeOK
    BY DEF Init, TypeOK, States, Models
  <1>2. req \in [Tasks -> Request]
    BY RequestFacts DEF Init
  <1> QED BY <1>1, <1>2 DEF Init, Inv, Running

(***************************************************************************)
(* Steps of one task                                                        *)
(***************************************************************************)
\* A task is answered, or goes on with what it holds: nothing but its place changes.
LEMMA TaskMoves ==
  ASSUME Inv, NEW t \in Tasks, NEW label \in Stages, NEW r \in Request,
         Goto(t, label), req' = [req EXCEPT ![t] = r],
         UNCHANGED <<clock, worker, logins>>,
         Running(t)'
  PROVE  Inv'
  <1> USE DEF Inv
  <1>1. pc' \in [Tasks -> Stages] /\ req' \in [Tasks -> Request]
    BY DEF TypeOK, Goto, Stages
  <1>2. ASSUME NEW u \in Tasks PROVE Running(u)'
    <2>1. CASE u = t
      BY <2>1
    <2>2. CASE u # t
      <3>1. pc'[u] = pc[u] /\ req'[u] = req[u]
        BY <2>2 DEF TypeOK, Goto
      <3> QED BY <3>1 DEF Running, InLogin, worker, logins, Current
    <2> QED BY <2>1, <2>2
  <1>3. TypeOK'
    BY <1>1, <1>2 DEF TypeOK, Running, worker, logins, Current, Stages, States, Models, Cookie, Pending
  <1> QED BY <1>1, <1>2, <1>3 DEF worker, logins

\* An answer ends the task.
LEMMA Answered ==
  ASSUME Inv, NEW t \in Tasks, NEW status, NEW principal, Reply(t, status, principal),
         UNCHANGED <<clock, worker, logins>>
  PROVE  Inv'
  <1>1. pc'[t] = "idle"
    BY DEF Inv, TypeOK, Reply, Goto
  <1>2. Running(t)'
    BY <1>1 DEF Running
  <1>3. Goto(t, "idle") /\ req' = [req EXCEPT ![t] = NoRequest] /\ "idle" \in Stages
    BY DEF Reply, Stages
  <1> QED BY <1>2, <1>3, TaskMoves, RequestFacts

\* A task that goes on with the request it holds.
LEMMA Continues ==
  ASSUME Inv, NEW t \in Tasks, pc[t] # "idle", NEW label \in Stages,
         label # "encode", label \in {"token", "userinfo"} => InLogin(t),
         Goto(t, label), UNCHANGED <<clock, worker, logins, req>>
  PROVE  Inv'
  <1>1. req' = [req EXCEPT ![t] = req[t]] /\ req[t] \in Request
    BY DEF Inv
  <1>2. pc'[t] = label
    BY DEF Inv, TypeOK, Goto
  <1>3. Running(t)'
    BY <1>2 DEF Inv, Running, InLogin, worker, logins, Current
  <1> QED BY <1>1, <1>3, TaskMoves

LEMMA GateSessionInv == ASSUME Inv, NEW t \in Tasks, GateSession(t) PROVE Inv'
  BY Answered DEF GateSession, Serve

LEMMA GateBasicInv == ASSUME Inv, NEW t \in Tasks, GateBasic(t) PROVE Inv'
  <1>1. pc[t] # "idle" /\ "passwd" \in Stages
    BY DEF GateBasic, At, Stages
  <1> QED BY <1>1, Continues DEF GateBasic

LEMMA GateNoneInv == ASSUME Inv, NEW t \in Tasks, GateNone(t) PROVE Inv'
  <1>1. pc[t] # "idle" /\ "pkce" \in Stages
    BY DEF GateNone, At, Stages
  <1>2. CASE Goto(t, "pkce") /\ UNCHANGED req
    BY <1>1, <1>2, Continues DEF GateNone
  <1>3. CASE Refuse(t, 501) \/ Refuse(t, 401) \/ Serve(t, Anonymous)
    BY <1>3, Answered DEF GateNone, Refuse, Serve
  <1> QED BY <1>2, <1>3 DEF GateNone

LEMMA PasswdInv == ASSUME Inv, NEW t \in Tasks, Passwd(t) PROVE Inv'
  BY Answered DEF Passwd, Serve, Refuse

LEMMA TokenInv == ASSUME Inv, NEW t \in Tasks, Token(t) PROVE Inv'
  <1>1. pc[t] # "idle" /\ InLogin(t) /\ "userinfo" \in Stages
    BY DEF Token, At, Stages, InLogin
  <1>2. CASE Goto(t, "userinfo") /\ UNCHANGED req
    BY <1>1, <1>2, Continues DEF Token
  <1>3. CASE Refuse(t, 502) \/ Unanswered(t)
    BY <1>3, Answered DEF Token, Refuse, Unanswered
  <1> QED BY <1>2, <1>3 DEF Token

\* The roles put in the cookie are what the provider lists for the user, or none.
LEMMA UserinfoInv == ASSUME Inv, NEW t \in Tasks, Userinfo(t) PROVE Inv'
  <1>0. CASE Unanswered(t)
    BY <1>0, Answered DEF Userinfo, Unanswered, Refuse
  <1> SUFFICES ASSUME ~Unanswered(t) PROVE Inv'
    BY <1>0
  <1>1. PICK roles \in {Roles[req[t].user]} \cup {{}} :
          req' = [req EXCEPT ![t].roles = roles, ![t].expiresAt = clock + SessionTtl]
    BY DEF Userinfo
  <1> DEFINE r == [req[t] EXCEPT !.roles = roles, !.expiresAt = clock + SessionTtl]
  <1>2. pc[t] = "userinfo" /\ Goto(t, "encode") /\ UNCHANGED <<clock, worker, logins>>
    BY DEF Userinfo, At
  <1>3. Running(t) /\ req[t] \in Request /\ req[t].user \in Users
    BY <1>2 DEF Inv, Running
  <1>4. roles \in SUBSET AllRoles
    BY <1>3, RequestFacts
  <1>5. r \in Request
    <2>1. clock + SessionTtl \in 0 .. MaxClock + SessionTtl
      BY DEF Inv, TypeOK
    <2> QED BY <1>3, <1>4, <2>1 DEF Request
  <1>6. req' = [req EXCEPT ![t] = r]
    BY <1>1, <1>3 DEF Inv, Request
  <1>7. pc'[t] = "encode" /\ req'[t] = r
    BY <1>2, <1>6 DEF Inv, TypeOK, Goto
  <1>8. /\ r.model = req[t].model /\ r.user = req[t].user /\ r.cookie = req[t].cookie
        /\ r.state = req[t].state /\ r.roles = roles
    BY <1>3 DEF Request
  <1>9. Running(t)'
    BY <1>2, <1>3, <1>7, <1>8 DEF Running, InLogin, Granted, worker, logins, Current
  <1>10. "encode" \in Stages
    BY DEF Stages
  <1> QED BY <1>2, <1>5, <1>6, <1>9, <1>10, TaskMoves

\* The cookie names the user who began the login and the roles userinfo answered.
LEMMA EncodeInv == ASSUME Inv, NEW t \in Tasks, Encode(t) PROVE Inv'
  <1> DEFINE c == [user |-> req[t].user, roles |-> req[t].roles, state |-> req[t].state,
                   expiresAt |-> req[t].expiresAt, secret |-> SecretOf(t)]
  <1>1. /\ pc[t] = "encode" /\ sessions' = sessions \cup {c}
        /\ UNCHANGED <<clock, worker, pending, issued, owner>>
        /\ Goto(t, "idle") /\ req' = [req EXCEPT ![t] = NoRequest]
    BY DEF Encode, At, Refuse, Reply
  <1>2. Running(t) /\ req[t] \in Request
    BY DEF Inv
  <1>3. SecretOf(t) \in Secrets
    BY <1>1, <1>2 DEF SecretOf, Running, InLogin, Inv, TypeOK, Models, Current
  <1>4. c \in Cookie
    <2>1. req[t].state \in States
      BY <1>1, <1>2 DEF Running, InLogin, Inv, TypeOK, States
    <2> QED BY <1>1, <1>2, <1>3, <2>1 DEF Cookie, Request, Running
  <1>5. Granted(c.user, c.roles)
    BY <1>1, <1>2 DEF Running
  <1>6. pc' \in [Tasks -> Stages] /\ req' \in [Tasks -> Request]
    BY <1>1, RequestFacts DEF Inv, TypeOK, Goto, Stages
  <1>7. ASSUME NEW u \in Tasks PROVE Running(u)'
    <2>1. CASE u = t
      <3>1. pc'[u] = "idle"
        BY <1>1, <2>1 DEF Inv, TypeOK, Goto
      <3> QED BY <3>1 DEF Running
    <2>2. CASE u # t
      <3>1. pc'[u] = pc[u] /\ req'[u] = req[u] /\ Running(u)
        BY <1>1, <2>2 DEF Inv, TypeOK, Goto
      <3> QED BY <1>1, <3>1 DEF Running, InLogin, worker, Current
    <2> QED BY <2>1, <2>2
  <1>8. TypeOK'
    BY <1>1, <1>4, <1>6, <1>7
       DEF Inv, TypeOK, Running, worker, Current, Stages, States, Models, Pending
  <1>9. \A d \in sessions' : Granted(d.user, d.roles)
    BY <1>1, <1>5 DEF Inv
  <1> QED BY <1>1, <1>6, <1>7, <1>8, <1>9 DEF Inv

\* A login is recorded under a state value never drawn before.
LEMMA BeginInv == ASSUME Inv, NEW t \in Tasks, Begin(t) PROVE Inv'
  <1> DEFINE p == [model |-> req[t].model, expiresAt |-> clock + PendingTtl]
  <1>1. /\ pc[t] = "pkce" /\ issued < MaxStates /\ issued' = issued + 1
        /\ pending' = [pending EXCEPT ![issued + 1] = p]
        /\ owner' = [owner EXCEPT ![issued + 1] = req[t].user]
        /\ UNCHANGED <<clock, worker, sessions>>
        /\ Goto(t, "idle") /\ req' = [req EXCEPT ![t] = NoRequest]
    BY DEF Begin, At, Refuse, Reply
  <1>2. Running(t) /\ req[t] \in Request
    BY DEF Inv
  <1>3. p \in Pending
    BY <1>1, <1>2 DEF Running, Inv, TypeOK, Pending, Models, Current
  <1>4. pc' \in [Tasks -> Stages] /\ req' \in [Tasks -> Request]
    BY <1>1, RequestFacts DEF Inv, TypeOK, Goto, Stages
  <1>5. ASSUME NEW u \in Tasks PROVE Running(u)'
    <2>1. CASE u = t
      <3>1. pc'[u] = "idle"
        BY <1>1, <2>1 DEF Inv, TypeOK, Goto
      <3> QED BY <3>1 DEF Running
    <2>2. CASE u # t
      <3>1. pc'[u] = pc[u] /\ req'[u] = req[u] /\ Running(u)
        BY <1>1, <2>2 DEF Inv, TypeOK, Goto
      <3> QED BY <1>1, <3>1 DEF Running, InLogin, worker, Current, Inv, TypeOK
    <2> QED BY <2>1, <2>2
  <1>6. issued + 1 \in States /\ issued' \in 0 .. MaxStates
    BY <1>1 DEF Inv, TypeOK, States
  <1>7. pending' \in [States -> Pending \cup {NoPending}] /\ owner' \in [States -> Users \cup {Nobody}]
    BY <1>1, <1>2, <1>3, <1>6 DEF Inv, TypeOK, Running
  <1>8. TypeOK'
    BY <1>1, <1>4, <1>5, <1>6, <1>7
       DEF Inv, TypeOK, Running, worker, Current, Stages, States, Models, Pending, Cookie
  <1>9. \A s \in 1 .. issued' : owner'[s] \in Users
    BY <1>1, <1>2, <1>6 DEF Inv, TypeOK, Running, States
  <1> QED BY <1>1, <1>4, <1>5, <1>8, <1>9 DEF Inv

(***************************************************************************)
(* Arrivals                                                                 *)
(***************************************************************************)
\* What a browser can ask with.
Asking(r) ==
  /\ r \in Request
  /\ r.user \in Users
  /\ r.cookie # NoCookie => r.cookie \in sessions
  /\ r.kind = "callback" => r.state \in 1 .. issued

LEMMA Visiting == ASSUME Inv, NEW u \in Users, NEW r \in Visits(u) PROVE Asking(r)
  <1>1. r.cookie \in Cookie \cup {NoCookie} /\ (r.cookie # NoCookie => r.cookie \in sessions)
    BY DEF Visits, Inv, TypeOK
  <1> QED BY <1>1 DEF Visits, Asking, Request

LEMMA Returning == ASSUME Inv, NEW r \in Returns PROVE Asking(r) /\ r.cookie = NoCookie
  <1>1. PICK s \in 1 .. issued :
          r = [NoRequest EXCEPT !.user = owner[s], !.kind = "callback", !.state = s]
    BY DEF Returns
  <1>2. r = [user |-> owner[s], kind |-> "callback", cookie |-> NoCookie, basic |-> FALSE,
             state |-> s, model |-> 0, roles |-> {}, expiresAt |-> 0,
             configured |-> NoSecret]
    BY <1>1 DEF NoRequest
  <1>3. owner[s] \in Users /\ s \in 0 .. MaxStates
    BY <1>1 DEF Inv, TypeOK
  <1> QED BY <1>2, <1>3 DEF Asking, Request

\* The authenticator of the installed package is made, and every other kept.
LEMMA Made ==
  ASSUME Inv, Current > 0, MakeAuthenticator(Current)
  PROVE  /\ Current \in Models
         /\ authenticator' \in [Models -> Secrets \cup {NoSecret, Unmade}]
         /\ authenticator'[Current] # Unmade
         /\ \A m \in Models : authenticator[m] # Unmade => authenticator'[m] = authenticator[m]
  <1>1. Current \in Models
    BY DEF Inv, TypeOK, Models, Current
  <1> QED BY <1>1 DEF Inv, TypeOK, MakeAuthenticator

\* What the tasks hold stays true when an authenticator is made.
LEMMA RunningKept ==
  ASSUME Inv, Current > 0, MakeAuthenticator(Current), UNCHANGED <<models, sessions, issued>>,
         NEW u \in Tasks, pc'[u] = pc[u], req'[u] = req[u]
  PROVE  Running(u)'
  <1>1. Running(u)
    BY DEF Inv
  <1>2. pc[u] # "idle" => req[u].model \in Models
    BY <1>1 DEF Running, Inv, TypeOK, Models, Current
  <1> QED BY <1>1, <1>2, Made DEF Running, InLogin, Current

\* A request is admitted to the gate or to its callback with the model it captured.
LEMMA Enters ==
  ASSUME Inv, Current > 0, MakeAuthenticator(Current),
         NEW t \in Tasks, NEW r, Asking(r), NEW label \in {"gate", "token"},
         label = "token" => r.kind = "callback" /\ ~NoCodec(authenticator'[Current]),
         Goto(t, label), req' = [req EXCEPT ![t] = Asked(r)],
         UNCHANGED <<clock, deployConfig, models, issued, owner, sessions>>,
         pending' \in [States -> Pending \cup {NoPending}]
  PROVE  Inv'
  <1>1. /\ Asked(r) \in Request
        /\ Asked(r).user \in Users /\ Asked(r).model = Current /\ Asked(r).state = r.state
        /\ Asked(r).cookie # NoCookie => Asked(r).cookie \in sessions
    <2>1. Current \in 0 .. MaxModels
      BY DEF Inv, TypeOK, Current
    <2>2. deployConfig \in Secrets \cup {NoSecret}
      BY DEF Inv, TypeOK
    <2> QED BY <2>1, <2>2 DEF Asked, Asking, Request
  <1>2. pc' \in [Tasks -> Stages] /\ req' \in [Tasks -> Request]
    BY <1>1 DEF Inv, TypeOK, Goto, Stages
  <1>3. ASSUME NEW u \in Tasks PROVE Running(u)'
    <2>1. CASE u = t
      <3>1. pc'[u] = label /\ req'[u] = Asked(r)
        BY <2>1 DEF Inv, TypeOK, Goto
      <3>2. Current \in 1 .. Current
        BY DEF Inv, TypeOK, Current
      <3> QED BY <1>1, <3>1, <3>2, Made DEF Running, InLogin, Asking, NoCodec, Current
    <2>2. CASE u # t
      <3>1. pc'[u] = pc[u] /\ req'[u] = req[u]
        BY <2>2 DEF Inv, TypeOK, Goto
      <3> QED BY <3>1, RunningKept
    <2> QED BY <2>1, <2>2
  <1>4. TypeOK'
    BY <1>2, <1>3, Made
       DEF Inv, TypeOK, Running, Current, Stages, States, Models, Pending, Cookie
  <1> QED BY <1>2, <1>3, <1>4 DEF Inv

LEMMA ArriveInv == ASSUME Inv, NEW t \in Tasks, NEW r, Asking(r), Arrive(t, r) PROVE Inv'
  <1>1. pending' \in [States -> Pending \cup {NoPending}]
    BY DEF Arrive, logins, Inv, TypeOK
  <1> QED BY <1>1, Enters DEF Arrive, logins

LEMMA ArriveOpenInv == ASSUME Inv, NEW t \in Tasks, NEW r, ArriveOpen(t, r) PROVE Inv'
  BY DEF ArriveOpen, worker, logins, Inv, TypeOK, Running, InLogin, Current, Cookie, Pending,
         States, Models, Request, AllRoles

LEMMA CallbackInv == ASSUME Inv, NEW t \in Tasks, NEW r, Asking(r), Callback(t, r) PROVE Inv'
  <1>1. Current > 0 /\ MakeAuthenticator(Current) /\ r.kind = "callback"
    BY DEF Callback, IsCallback
  <1>2. pending' \in [States -> Pending \cup {NoPending}]
    BY DEF Callback, Inv, TypeOK
  <1>3. CASE ~NoCodec(authenticator'[Current]) /\ Live(pending[r.state])
    BY <1>1, <1>2, <1>3, Enters DEF Callback
  <1>4. CASE UNCHANGED <<pc, req>>
    <2>1. \A u \in Tasks : Running(u)'
      BY <1>1, <1>4, RunningKept DEF Callback
    <2>2. TypeOK'
      BY <1>1, <1>2, <1>4, <2>1, Made
         DEF Callback, Inv, TypeOK, Running, Current, States, Models, Pending, Cookie
    <2> QED BY <1>4, <2>1, <2>2 DEF Callback, Inv
  <1> QED BY <1>3, <1>4 DEF Callback

(***************************************************************************)
(* The page, the browser and time                                           *)
(***************************************************************************)
LEMMA InstallInv == ASSUME Inv, NEW p \in Packages, Install(p) PROVE Inv'
  <1>1. models' \in Seq(Packages) /\ Len(models') = Len(models) + 1 /\ Len(models') <= MaxModels
    BY DEF Inv, TypeOK, Install, Current
  <1>2. ASSUME NEW t \in Tasks PROVE Running(t)'
    BY <1>1 DEF Install, Inv, TypeOK, Running, InLogin, logins, Current
  <1>3. TypeOK'
    BY <1>1, <1>2 DEF Install, Inv, TypeOK, Running, logins, Current, States, Models, Pending, Cookie
  <1> QED BY <1>2, <1>3 DEF Inv, Install, logins

LEMMA StopInv == ASSUME Inv, Stop PROVE Inv'
  <1>1. /\ models' \in Seq(Packages) /\ Len(models') <= MaxModels
        /\ pc' = [t \in Tasks |-> "idle"] /\ req' = [t \in Tasks |-> NoRequest]
        /\ pending' = [s \in States |-> NoPending] /\ deployConfig' = NoSecret
        /\ UNCHANGED <<clock, authenticator, issued, owner, sessions>>
    BY DEF Inv, TypeOK, Stop, Current
  <1>2. ASSUME NEW t \in Tasks PROVE pc'[t] = "idle"
    BY <1>1
  <1>3. TypeOK'
    BY <1>1, <1>2 DEF Inv, TypeOK, States, Models, Cookie
  <1>4. req' \in [Tasks -> Request]
    BY <1>1, RequestFacts
  <1> QED BY <1>1, <1>2, <1>3, <1>4 DEF Inv, Running

LEMMA DeployConfigInv ==
  ASSUME Inv, NEW secret \in Secrets \cup {NoSecret}, DeployConfig(secret) PROVE Inv'
  BY DEF DeployConfig, logins, Inv, TypeOK, Running, InLogin, Current, Cookie, Pending,
         States, Models, Request, AllRoles

LEMMA TickInv == ASSUME Inv, Tick PROVE Inv'
  BY DEF Tick, worker, logins, Inv, TypeOK, Running, InLogin, Current, Cookie, Pending,
         States, Models, Request, AllRoles

LEMMA NextInv == Inv /\ [Next]_vars => Inv'
  <1> SUFFICES ASSUME Inv, [Next]_vars PROVE Inv'
    OBVIOUS
  <1>1. CASE UNCHANGED vars
    BY <1>1 DEF vars, Inv, TypeOK, Running, InLogin, Current, Cookie, Pending,
                States, Models, Request, AllRoles
  <1>2. ASSUME NEW t \in Tasks, TaskStep(t) PROVE Inv'
    BY <1>2, GateSessionInv, GateBasicInv, GateNoneInv, PasswdInv, BeginInv, TokenInv,
       UserinfoInv, EncodeInv DEF TaskStep
  <1>3. ASSUME NEW t \in Tasks, NEW u \in Users, NEW r \in Visits(u), ArriveOpen(t, r) \/ Arrive(t, r)
        PROVE  Inv'
    BY <1>3, Visiting, ArriveOpenInv, ArriveInv
  <1>4. ASSUME NEW t \in Tasks, NEW r \in Returns, ArriveOpen(t, r) \/ Arrive(t, r) \/ Callback(t, r)
        PROVE  Inv'
    BY <1>4, Returning, ArriveOpenInv, ArriveInv, CallbackInv
  <1> QED BY <1>1, <1>2, <1>3, <1>4, InstallInv, StopInv, DeployConfigInv, TickInv DEF Next

\* For any packages, users, state values and times: the state stays of its type, every
\* request in flight holds a model of this worker whose authenticator is made, and every
\* cookie names roles its user was given (authenticator.ts, oauth2.ts, session.ts).
THEOREM Grounded == Spec => []Inv
  <1> QED BY InitInv, NextInv, PTL DEF Spec

\* Every variable keeps its type (Cookie, Pending, the stages of a request).
THEOREM TypeCorrect == Spec => []TypeOK
  <1>1. Inv => TypeOK
    BY DEF Inv
  <1> QED BY <1>1, Grounded, PTL


(***************************************************************************)
(* What is answered                                                         *)
(***************************************************************************)
\* A principal the gate of package p vouches for: anyone where nothing is enabled, a
\* user of its htpasswd, or the bearer of an unexpired session with a codec's cookie.
Vouched(cookies, now, p, who) ==
  \/ who = Anonymous /\ Forms[p] = {}
  \/ /\ who.via = "basic" /\ who.roles = {}
     /\ "basic" \in Forms[p] /\ who.user \in Htpasswd[p]
  \/ /\ who.via = "session"
     /\ \E c \in cookies : c.user = who.user /\ c.roles = who.roles /\ c.expiresAt >= now

\* An answer with content: a package of this worker, for a principal it vouches for
\* and, for the dataset, one that is not denied (fetch-handler.ts:354-386).
Admitted(installed, cookies, now, a) ==
  /\ a.model \in 1 .. Len(installed)
  /\ Vouched(cookies, now, installed[a.model], a.principal)
  /\ a.kind = "dataset" => a.status = Denied(a.principal)

\* Everything else is answered to nobody.
Answers(installed, cookies, now, a) ==
  \/ a.principal = Anonymous /\ a.status # 200
  \/ Admitted(installed, cookies, now, a)
WellAnswered == Answers(models, sessions, clock, answer)

LEMMA Silence == ASSUME Silent PROVE WellAnswered'
  BY DEF Silent, WellAnswered, Answers, NoAnswer

LEMMA Refusal ==
  ASSUME NEW t \in Tasks, NEW status \in Nat \ {200}, Refuse(t, status)
  PROVE  WellAnswered'
  BY DEF Refuse, Reply, WellAnswered, Answers

LEMMA Service ==
  ASSUME Inv, NEW t \in Tasks, pc[t] # "idle", NEW who,
         Vouched(sessions, clock, PackageOf(t), who), Serve(t, who),
         UNCHANGED <<clock, worker, logins>>
  PROVE  WellAnswered'
  <1>1. /\ answer'.model = req[t].model /\ answer'.kind = req[t].kind /\ answer'.principal = who
        /\ req[t].kind = "dataset" => answer'.status = Denied(who)
    BY DEF Serve, Reply
  <1>2. req[t].model \in 1 .. Current
    BY DEF Inv, Running
  <1>3. models' = models /\ sessions' = sessions /\ clock' = clock
    BY DEF worker, logins
  <1> QED BY <1>1, <1>2, <1>3 DEF WellAnswered, Answers, Admitted, PackageOf, Current

LEMMA TaskAnswers == ASSUME Inv, NEW t \in Tasks, TaskStep(t) PROVE WellAnswered'
  <1>1. CASE GateSession(t)
    <2> DEFINE who == [via |-> "session", user |-> req[t].cookie.user, roles |-> req[t].cookie.roles]
    <2>1. pc[t] # "idle" /\ Serve(t, who) /\ UNCHANGED <<clock, worker, logins>>
      BY <1>1 DEF GateSession, At
    <2>2. req[t].cookie \in sessions /\ req[t].cookie.expiresAt >= clock
      BY <1>1, <2>1 DEF GateSession, Valid, Inv, Running
    <2>3. Vouched(sessions, clock, PackageOf(t), who)
      BY <2>2 DEF Vouched
    <2> QED BY <2>1, <2>3, Service
  <1>2. CASE GateNone(t)
    <2>1. CASE Refuse(t, 501) \/ Refuse(t, 401)
      BY <2>1, Refusal
    <2>2. CASE Silent
      BY <2>2, Silence
    <2>3. CASE Forms[PackageOf(t)] = {} /\ Serve(t, Anonymous)
      <3>1. Vouched(sessions, clock, PackageOf(t), Anonymous)
        BY <2>3 DEF Vouched
      <3> QED BY <1>2, <2>3, <3>1, Service DEF GateNone, At
    <2> QED BY <1>2, <2>1, <2>2, <2>3 DEF GateNone
  <1>3. CASE Passwd(t)
    <2> DEFINE who == [via |-> "basic", user |-> req[t].user, roles |-> {}]
    <2>1. CASE Refuse(t, 501) \/ Refuse(t, 401)
      BY <2>1, Refusal
    <2>2. CASE /\ "basic" \in Forms[PackageOf(t)] /\ req[t].user \in Htpasswd[PackageOf(t)]
               /\ Serve(t, who)
      <3>1. Vouched(sessions, clock, PackageOf(t), who)
        BY <2>2 DEF Vouched
      <3> QED BY <1>3, <2>2, <3>1, Service DEF Passwd, At
    <2> QED BY <1>3, <2>1, <2>2 DEF Passwd
  <1>4. CASE Begin(t) \/ Encode(t)
    BY <1>4, Refusal DEF Begin, Encode
  <1>5. CASE Token(t)
    BY <1>5, Refusal, Silence DEF Token, Unanswered
  <1>6. CASE GateBasic(t) \/ Userinfo(t)
    BY <1>6, Silence, Refusal DEF GateBasic, Userinfo, Unanswered
  <1> QED BY <1>1, <1>2, <1>3, <1>4, <1>5, <1>6 DEF TaskStep

LEMMA ArrivalAnswers ==
  ASSUME Inv, NEW t \in Tasks, NEW r, ArriveOpen(t, r) \/ Arrive(t, r) \/ Callback(t, r)
  PROVE  WellAnswered'
  <1>1. CASE Silent
    BY <1>1, Silence
  <1>2. CASE ArriveOpen(t, r)
    <2>1. Current \in 1 .. Current /\ models[Current] \in Packages
      BY <1>2 DEF ArriveOpen, Inv, TypeOK, Current
    <2>2. Vouched(sessions, clock, models[Current], Anonymous)
      BY <1>2, <2>1 DEF ArriveOpen, Vouched
    <2>3. /\ answer'.model = Current /\ answer'.kind = r.kind /\ answer'.principal = Anonymous
          /\ r.kind = "dataset" => answer'.status = Denied(Anonymous)
      BY <1>2 DEF ArriveOpen
    <2> QED BY <1>2, <2>1, <2>2, <2>3
            DEF ArriveOpen, WellAnswered, Answers, Admitted, worker, logins, Current
  <1>3. CASE Callback(t, r)
    BY <1>1, <1>3 DEF Callback, WellAnswered, Answers
  <1> QED BY <1>1, <1>2, <1>3 DEF Arrive

LEMMA EveryAnswer == Spec => []WellAnswered
  <1>1. Init => WellAnswered
    BY DEF Init, WellAnswered, Answers, NoAnswer
  <1>2. Inv /\ WellAnswered /\ [Next]_vars => WellAnswered'
    <2> SUFFICES ASSUME Inv, WellAnswered, [Next]_vars PROVE WellAnswered'
      OBVIOUS
    <2>1. CASE UNCHANGED vars
      BY <2>1 DEF vars, WellAnswered
    <2>2. CASE Silent
      BY <2>2, Silence
    <2> QED BY <2>1, <2>2, TaskAnswers, ArrivalAnswers DEF Next, DeployConfig, Install, Stop, Tick
  <1> QED BY <1>1, <1>2, Grounded, PTL DEF Spec

\* For any packages, forms of authentication, installs and stops: content goes only to a
\* request that the gate of the package it came from admitted (fetch-handler.ts:342-359).
THEOREM GateHolds == Spec => []ServedIsGated
  <1>1. ASSUME WellAnswered PROVE ServedIsGated
    <2> DEFINE who == answer.principal
               p == models[answer.model]
    <2>1. answer.status = 200 => Vouched(sessions, clock, p, who)
      BY <1>1 DEF WellAnswered, Answers, Admitted
    <2>2. CASE who = Anonymous /\ Forms[p] = {}
      <3>1. who.via = "none"
        BY <2>2 DEF Anonymous
      <3> QED BY <2>2, <3>1 DEF ServedIsGated
    <2>3. CASE who.via = "basic" /\ "basic" \in Forms[p] /\ who.user \in Htpasswd[p]
      BY <2>3 DEF ServedIsGated
    <2>4. CASE who.via = "session" /\ \E c \in sessions : c.user = who.user /\ c.roles = who.roles
      BY <2>4 DEF ServedIsGated
    <2> QED BY <2>1, <2>2, <2>3, <2>4 DEF Vouched, ServedIsGated
  <1> QED BY <1>1, EveryAnswer, PTL

\* ... a session past its expiry admits nobody, however long its signature took
\* (session.ts:69-76),
THEOREM ExpiryHolds == Spec => []NoExpiredSession
  <1>1. WellAnswered => NoExpiredSession
    BY DEF WellAnswered, Answers, Admitted, Vouched, NoExpiredSession, Anonymous
  <1> QED BY <1>1, EveryAnswer, PTL

\* ... and a protected dataset reaches only users who hold a role it lists
\* (fetch-handler.ts:366-378).
THEOREM RolesHold == Spec => []DatasetRoleHeld
  <1>1. ASSUME Inv, WellAnswered PROVE DatasetRoleHeld
    <2> SUFFICES ASSUME answer.status = 200, answer.kind = "dataset"
                 PROVE  /\ answer.principal.user \in Users
                        /\ Needed # {} => Roles[answer.principal.user] \cap Needed # {}
      BY DEF DatasetRoleHeld
    <2> DEFINE who == answer.principal
    <2>1. /\ Vouched(sessions, clock, models[answer.model], who)
          /\ models[answer.model] \in Packages
          /\ Denied(who) = 200
      BY <1>1 DEF WellAnswered, Answers, Admitted, Inv, TypeOK, Current
    <2>2. who # Anonymous /\ (Needed # {} => who.roles \cap Needed # {})
      BY <2>1 DEF Denied
    <2>3. CASE who.via = "basic" /\ who.roles = {} /\ who.user \in Htpasswd[models[answer.model]]
      BY <2>1, <2>2, <2>3
    <2>4. CASE \E c \in sessions : c.user = who.user /\ c.roles = who.roles
      <3>1. PICK c \in sessions : c.user = who.user /\ c.roles = who.roles
        BY <2>4
      <3>2. Granted(c.user, c.roles) /\ c.user \in Users
        BY <1>1, <3>1 DEF Inv, TypeOK, Cookie
      <3> QED BY <2>2, <3>1, <3>2 DEF Granted
    <2> QED BY <2>1, <2>2, <2>3, <2>4 DEF Vouched
  <1> QED BY <1>1, EveryAnswer, Grounded, PTL


(***************************************************************************)
(* A state value is in one place                                            *)
(***************************************************************************)
\* A state value is pending, carried by one callback or in one cookie, and nowhere
\* before it was drawn.
OnePlace ==
  /\ \A s \in States : pending[s] # NoPending => s <= issued
  /\ \A t \in Tasks : InLogin(t) => pending[req[t].state] = NoPending
  /\ \A c \in sessions : c.state <= issued /\ pending[c.state] = NoPending
  /\ \A t, u \in Tasks : InLogin(t) /\ InLogin(u) /\ req[t].state = req[u].state => t = u
  /\ \A t \in Tasks, c \in sessions : InLogin(t) => req[t].state # c.state
  /\ \A c, d \in sessions : c.state = d.state => c = d

\* Where it is then, without counting.
Place(s) ==
  CASE s > issued -> "unissued"
    [] s <= issued /\ pending[s] # NoPending -> "open"
    [] s <= issued /\ pending[s] = NoPending /\ InFlight(s) # {} -> "presented"
    [] s <= issued /\ pending[s] = NoPending /\ InFlight(s) = {} /\ Opened(s) # {} -> "session"
    [] OTHER -> "void"

Ticket == [s \in States |-> TicketOf(s)]
Places == [s \in States |-> Place(s)]

\* A set without two members has at most one.
LEMMA NoTwo ==
  ASSUME NEW S, \A x, y \in S : x = y
  PROVE  Cardinality(S) = IF S = {} THEN 0 ELSE 1
  <1>1. CASE S = {}
    BY <1>1, FS_EmptySet
  <1>2. CASE S # {}
    <2>1. PICK x \in S : TRUE
      BY <1>2
    <2>2. S = {x}
      BY <2>1
    <2> QED BY <2>2, FS_Singleton
  <1> QED BY <1>1, <1>2

LEMMA Placed ==
  ASSUME Inv, OnePlace, NEW s \in States
  PROVE  TicketOf(s) = Place(s)
  <1>1. Cardinality(InFlight(s)) = IF InFlight(s) = {} THEN 0 ELSE 1
    <2>1. \A t, u \in InFlight(s) : t = u
      BY DEF InFlight, OnePlace, InLogin
    <2> QED BY <2>1, NoTwo
  <1>2. Cardinality(Opened(s)) = IF Opened(s) = {} THEN 0 ELSE 1
    <2>1. \A c, d \in Opened(s) : c = d
      BY DEF Opened, OnePlace
    <2> QED BY <2>1, NoTwo
  <1>3. pending[s] # NoPending => InFlight(s) = {} /\ Opened(s) = {}
    BY DEF InFlight, Opened, OnePlace, InLogin
  <1>4. InFlight(s) # {} => Opened(s) = {}
    BY DEF InFlight, Opened, OnePlace, InLogin
  <1>5. s > issued => pending[s] = NoPending /\ InFlight(s) = {} /\ Opened(s) = {}
    BY DEF InFlight, Opened, OnePlace, InLogin, Inv, Running, TypeOK, States
  <1>6. s \in Int /\ issued \in Int
    BY DEF Inv, TypeOK, States
  <1> QED BY <1>1, <1>2, <1>3, <1>4, <1>5, <1>6 DEF TicketOf, Place


LEMMA PlacedAll == Inv /\ OnePlace => Ticket = Places
  BY Placed DEF Ticket, Places

LEMMA PlacedNext == (Inv /\ OnePlace)' => (Ticket = Places)'
  BY PlacedAll, PTL

(***************************************************************************)
(* The steps of the tickets                                                 *)
(***************************************************************************)
LEMMA Stutters == ASSUME Ticket' = Ticket PROVE [Login!TicketsNext]_Ticket
  OBVIOUS

LEMMA Moves ==
  ASSUME NEW s \in States, NEW from, NEW to,
         <<from, to>> \in {<<"unissued", "open">>, <<"open", "presented">>, <<"presented", "session">>},
         Ticket[s] = from, Ticket'[s] = to,
         \A x \in States \ {s} : Ticket'[x] = Ticket[x]
  PROVE  [Login!TicketsNext]_Ticket
  <1>1. Ticket' = [Ticket EXCEPT ![s] = to] /\ Ticket[s] = from
    BY DEF Ticket
  <1>2. Login!Move(s, from, to)
    BY <1>1 DEF Login!Move, Ticket
  <1> QED BY <1>2 DEF Login!TicketsNext, Login!Issue, Login!Present, Login!Redeem

LEMMA Voids ==
  ASSUME NEW S \in SUBSET States,
         \A s \in S : Ticket[s] \in {"open", "presented"} /\ Ticket'[s] = "void",
         \A s \in States \ S : Ticket'[s] = Ticket[s]
  PROVE  [Login!TicketsNext]_Ticket
  <1>1. Ticket' = [s \in States |-> IF s \in S THEN "void" ELSE Ticket[s]]
    BY DEF Ticket
  <1>2. Login!Void(S)
    BY <1>1 DEF Login!Void, Ticket
  <1> QED BY <1>2 DEF Login!TicketsNext

LEMMA VoidsOne ==
  ASSUME NEW s \in States, Ticket[s] \in {"open", "presented"}, Ticket'[s] = "void",
         \A x \in States \ {s} : Ticket'[x] = Ticket[x]
  PROVE  [Login!TicketsNext]_Ticket
  <1>1. {s} \in SUBSET States
    OBVIOUS
  <1> QED BY <1>1, Voids

\* What one task's step does to the logins in flight.
LEMMA Flights ==
  ASSUME Inv, NEW t \in Tasks, NEW label \in Stages, NEW r, Goto(t, label),
         req' = [req EXCEPT ![t] = r]
  PROVE  /\ \A u \in Tasks \ {t} : (InLogin(u)' <=> InLogin(u)) /\ req'[u] = req[u]
         /\ InLogin(t)' <=> label \in {"token", "userinfo", "encode"}
         /\ req'[t] = r
  BY DEF Inv, TypeOK, Goto, InLogin

Keeps == OnePlace' /\ [Login!TicketsNext]_Ticket

\* A step that neither begins, spends nor ends a login.
LEMMA Unmoved ==
  ASSUME OnePlace, UNCHANGED <<pending, issued, sessions>>,
         \A t \in Tasks : InLogin(t)' <=> InLogin(t),
         \A t \in Tasks : InLogin(t) => req'[t].state = req[t].state
  PROVE  Keeps
  <1>1. OnePlace'
    BY DEF OnePlace
  <1>2. \A s \in States : InFlight(s)' = InFlight(s) /\ Opened(s)' = Opened(s)
    BY DEF InFlight, Opened, InLogin
  <1>3. \A s \in States : TicketOf(s)' = TicketOf(s)
    BY <1>2 DEF TicketOf
  <1>4. Ticket' = Ticket
    BY <1>3 DEF Ticket
  <1> QED BY <1>1, <1>4, Stutters DEF Keeps

LEMMA TaskUnmoved ==
  ASSUME Inv, OnePlace, NEW t \in Tasks, NEW label \in Stages, NEW r, Goto(t, label),
         req' = [req EXCEPT ![t] = r], UNCHANGED <<pending, issued, sessions>>,
         InLogin(t) <=> label \in {"token", "userinfo", "encode"},
         InLogin(t) => r.state = req[t].state
  PROVE  Keeps
  BY Flights, Unmoved

\* A task that ends outside a login.
LEMMA AnsweredUnmoved ==
  ASSUME Inv, OnePlace, NEW t \in Tasks, ~InLogin(t), NEW status, NEW who, Reply(t, status, who),
         UNCHANGED <<pending, issued, sessions>>
  PROVE  Keeps
  BY TaskUnmoved DEF Reply, Stages

LEMMA BeginKeeps == ASSUME Inv, Inv', OnePlace, NEW t \in Tasks, Begin(t) PROVE Keeps
  <1> DEFINE s == issued + 1
  <1>1. /\ pc[t] = "pkce" /\ issued < MaxStates /\ issued' = s
        /\ pending' = [pending EXCEPT ![s] = [model |-> req[t].model, expiresAt |-> clock + PendingTtl]]
        /\ UNCHANGED sessions
        /\ Goto(t, "idle") /\ req' = [req EXCEPT ![t] = NoRequest]
    BY DEF Begin, At, Refuse, Reply
  <1>2. s \in States /\ issued \in Nat
    BY <1>1 DEF Inv, TypeOK, States
  <1>3. pending'[s] # NoPending /\ \A x \in States \ {s} : pending'[x] = pending[x]
    <2>1. [model |-> req[t].model, expiresAt |-> clock + PendingTtl] # NoPending
      <3>1. req[t].model \in 1 .. Current /\ clock + PendingTtl \in 0 .. MaxClock + PendingTtl
        BY <1>1 DEF Inv, Running, TypeOK
      <3> QED BY <3>1 DEF Inv, TypeOK, Models, Current
    <2> QED BY <1>1, <1>2, <2>1 DEF Inv, TypeOK
  <1>4. \A u \in Tasks : (InLogin(u)' <=> InLogin(u)) /\ (InLogin(u) => u # t /\ req'[u] = req[u])
    <2>1. ~InLogin(t) /\ "idle" \in Stages
      BY <1>1 DEF InLogin, Stages
    <2> QED BY <1>1, <2>1, Flights
  <1>5. \A u \in Tasks : InLogin(u) => req[u].state \in 1 .. issued
    BY DEF Inv, Running, InLogin
  <1>6. \A c \in sessions : c.state \in States
    BY DEF Inv, TypeOK, Cookie
  <1>7. OnePlace'
    <2>1. \A x \in States : pending'[x] # NoPending => x <= issued'
      BY <1>1, <1>2, <1>3 DEF OnePlace, States
    <2>2. \A u \in Tasks : InLogin(u)' => pending'[req'[u].state] = NoPending
      BY <1>2, <1>3, <1>4, <1>5 DEF OnePlace, States, Inv, TypeOK
    <2>3. \A c \in sessions' : c.state <= issued' /\ pending'[c.state] = NoPending
      BY <1>1, <1>2, <1>3, <1>6 DEF OnePlace, States
    <2> QED BY <1>1, <1>4, <2>1, <2>2, <2>3 DEF OnePlace
  <1>8. \A x \in States : InFlight(x)' = InFlight(x) /\ Opened(x)' = Opened(x)
    BY <1>1, <1>4 DEF InFlight, Opened, InLogin
  <1>9. Ticket[s] = "unissued" /\ Ticket'[s] = "open"
    BY <1>1, <1>2, <1>3, <1>7, PlacedAll, PlacedNext DEF Places, Place
  <1>10. \A x \in States \ {s} : Ticket'[x] = Ticket[x]
    <2>1. \A x \in States \ {s} : x > issued' <=> x > issued
      BY <1>1, <1>2 DEF States
    <2>2. \A x \in States \ {s} : x <= issued' <=> x <= issued
      BY <1>1, <1>2 DEF States
    <2>3. \A x \in States \ {s} : Places'[x] = Places[x]
      BY <1>3, <1>8, <2>1, <2>2 DEF Places, Place
    <2> QED BY <1>7, <2>3, PlacedAll, PlacedNext
  <1> QED BY <1>2, <1>7, <1>9, <1>10, Moves DEF Keeps


\* The facts about places the steps below rest on.
LEMMA PlaceFacts ==
  ASSUME Inv, OnePlace
  PROVE  /\ issued \in Nat
         /\ \A u \in Tasks : InLogin(u) => req[u].state \in States /\ req[u].state <= issued
         /\ \A c \in sessions : c.state \in States /\ c.state <= issued
         /\ \A s \in States : (s > issued <=> ~(s <= issued))
  BY DEF Inv, TypeOK, Running, InLogin, States, Cookie, OnePlace

\* The callback spends its state: whether a session is opened with it or it had lapsed.
LEMMA CallbackKeeps ==
  ASSUME Inv, Inv', OnePlace, NEW t \in Tasks, NEW r, Asking(r), Callback(t, r) PROVE Keeps
  <1> DEFINE s == r.state
  <1>1. /\ s \in States /\ s <= issued /\ ~InLogin(t) /\ UNCHANGED <<issued, owner, sessions>>
        /\ pc[t] = "idle"
    BY DEF Callback, IsCallback, Asking, Inv, TypeOK, States, At, InLogin
  <1>2. CASE UNCHANGED <<pending, pc, req>>
    <2>1. \A u \in Tasks : (InLogin(u)' <=> InLogin(u)) /\ req'[u] = req[u]
      BY <1>2 DEF InLogin
    <2> QED BY <1>1, <1>2, <2>1, Unmoved
  <1>3. ASSUME pending[s] # NoPending, pending' = [pending EXCEPT ![s] = NoPending]
        PROVE  Keeps
    <2>1. pending'[s] = NoPending /\ \A x \in States \ {s} : pending'[x] = pending[x]
      BY <1>1, <1>3 DEF Inv, TypeOK
    <2>2. /\ \A u \in Tasks : InLogin(u) => req[u].state # s
          /\ \A c \in sessions : c.state # s
      BY <1>3 DEF OnePlace
    <2>3. Ticket[s] = "open"
      BY <1>1, <1>3, PlacedAll DEF Places, Place
    <2>4. CASE UNCHANGED <<pc, req>>
      <3>1. \A u \in Tasks : (InLogin(u)' <=> InLogin(u)) /\ req'[u] = req[u]
        BY <2>4 DEF InLogin
      <3>2. OnePlace'
        BY <1>1, <2>1, <2>2, <3>1, PlaceFacts DEF OnePlace
      <3>3. \A x \in States : InFlight(x)' = InFlight(x) /\ Opened(x)' = Opened(x)
        BY <1>1, <3>1 DEF InFlight, Opened, InLogin
      <3>4. InFlight(s)' = {} /\ Opened(s)' = {}
        BY <1>1, <2>2, <3>1 DEF InFlight, Opened, InLogin
      <3>5. Ticket'[s] = "void"
        BY <1>1, <2>1, <3>2, <3>4, PlaceFacts, PlacedNext DEF Places, Place
      <3>6. \A x \in States \ {s} : Places'[x] = Places[x]
        BY <1>1, <2>1, <3>3 DEF Places, Place
      <3>7. \A x \in States \ {s} : Ticket'[x] = Ticket[x]
        BY <3>2, <3>6, PlacedAll, PlacedNext
      <3> QED BY <1>1, <2>3, <3>2, <3>5, <3>7, VoidsOne DEF Keeps
    <2>5. CASE req' = [req EXCEPT ![t] = Asked(r)] /\ Goto(t, "token")
      <3>1. Asked(r).state = s
        BY DEF Asked, Asking, Request
      <3>2. /\ \A u \in Tasks \ {t} : (InLogin(u)' <=> InLogin(u)) /\ req'[u] = req[u]
            /\ InLogin(t)' /\ req'[t].state = s
        <4>1. "token" \in Stages
          BY DEF Stages
        <4> QED BY <2>5, <3>1, <4>1, Flights
      <3>3. OnePlace'
        <4>1. \A x \in States : pending'[x] # NoPending => x <= issued'
          BY <1>1, <2>1 DEF OnePlace
        <4>2. \A u \in Tasks : InLogin(u)' => pending'[req'[u].state] = NoPending
          BY <2>1, <2>2, <3>2, PlaceFacts DEF OnePlace
        <4>3. \A c \in sessions' : c.state <= issued' /\ pending'[c.state] = NoPending
          BY <1>1, <2>1, <2>2, PlaceFacts DEF OnePlace
        <4>4. \A u, v \in Tasks : InLogin(u)' /\ InLogin(v)' /\ req'[u].state = req'[v].state => u = v
          BY <2>2, <3>2 DEF OnePlace
        <4>5. \A u \in Tasks, c \in sessions' : InLogin(u)' => req'[u].state # c.state
          BY <1>1, <2>2, <3>2 DEF OnePlace
        <4> QED BY <1>1, <4>1, <4>2, <4>3, <4>4, <4>5 DEF OnePlace
      <3>4. /\ \A x \in States \ {s} : InFlight(x)' = InFlight(x) /\ Opened(x)' = Opened(x)
            /\ InFlight(s)' # {}
        <4>1. t \in InFlight(s)'
          BY <3>2 DEF InFlight, InLogin
        <4>2. ASSUME NEW x \in States \ {s} PROVE InFlight(x)' = InFlight(x)
          BY <1>1, <3>2 DEF InFlight, InLogin
        <4>3. ASSUME NEW x \in States PROVE Opened(x)' = Opened(x)
          BY <1>1 DEF Opened
        <4> QED BY <4>1, <4>2, <4>3
      <3>5. Ticket'[s] = "presented"
        BY <1>1, <2>1, <3>3, <3>4, PlaceFacts, PlacedNext DEF Places, Place
      <3>6. \A x \in States \ {s} : Places'[x] = Places[x]
        BY <1>1, <2>1, <3>4 DEF Places, Place
      <3>7. \A x \in States \ {s} : Ticket'[x] = Ticket[x]
        BY <3>3, <3>6, PlacedAll, PlacedNext
      <3> QED BY <1>1, <2>3, <3>3, <3>5, <3>7, Moves DEF Keeps
    <2> QED BY <2>4, <2>5 DEF Callback
  <1>4. CASE pending[s] = NoPending
    <2>1. UNCHANGED <<pending, pc, req>>
      BY <1>1, <1>4 DEF Callback, Live, Inv, TypeOK
    <2> QED BY <1>2, <2>1
  <1>5. CASE pending[s] # NoPending
    <2>1. CASE pending' = pending
      <3>1. ~Live(pending[s]) \/ NoCodec(authenticator'[Current])
        BY <1>1, <1>5, <2>1 DEF Callback, Live, Inv, TypeOK
      <3> QED BY <1>2, <2>1, <3>1 DEF Callback
    <2>2. CASE pending' = [pending EXCEPT ![s] = NoPending]
      BY <1>3, <1>5, <2>2
    <2> QED BY <2>1, <2>2 DEF Callback, Inv, TypeOK
  <1> QED BY <1>4, <1>5


\* A login ends: its task leaves the stages of a login, and nobody else moves.
LEMMA Ends ==
  ASSUME Inv, OnePlace, NEW t \in Tasks, InLogin(t), NEW s \in States, s = req[t].state,
         Goto(t, "idle"), req' = [req EXCEPT ![t] = NoRequest]
  PROVE  /\ \A u \in Tasks : InLogin(u)' <=> u # t /\ InLogin(u)
         /\ \A u \in Tasks \ {t} : req'[u] = req[u]
         /\ InFlight(s)' = {}
         /\ \A x \in States \ {s} : InFlight(x)' = InFlight(x)
  <1>1. \A u \in Tasks : (InLogin(u)' <=> u # t /\ InLogin(u)) /\ (u # t => req'[u] = req[u])
    <2>1. "idle" \in Stages
      BY DEF Stages
    <2> QED BY <2>1, Flights
  <1>2. \A u \in Tasks \ {t} : InLogin(u) => req[u].state # s
    BY DEF OnePlace
  <1>3. InFlight(s)' = {}
    BY <1>1, <1>2 DEF InFlight, InLogin
  <1>4. ASSUME NEW x \in States \ {s} PROVE InFlight(x)' = InFlight(x)
    BY <1>1 DEF InFlight, InLogin
  <1> QED BY <1>1, <1>3, <1>4

\* A login that ends without a session voids its ticket.
LEMMA EndsVoid ==
  ASSUME Inv, Inv', OnePlace, NEW t \in Tasks, InLogin(t), Goto(t, "idle"),
         req' = [req EXCEPT ![t] = NoRequest], UNCHANGED <<pending, issued, sessions>>
  PROVE  Keeps
  <1>1. PICK s \in States : s = req[t].state
    BY PlaceFacts
  <1>2. s <= issued /\ pending[s] = NoPending /\ t \in InFlight(s)
    BY <1>1, PlaceFacts DEF InFlight, OnePlace, InLogin
  <1>3. (\A v \in Tasks : InLogin(v)' <=> v # t /\ InLogin(v)) /\ (\A v \in Tasks \ {t} : req'[v] = req[v])
    BY <1>1, Ends
  <1>4. OnePlace'
    BY <1>3 DEF OnePlace
  <1>5. \A x \in States : Opened(x)' = Opened(x)
    BY DEF Opened
  <1>6. Opened(s) = {}
    BY <1>1 DEF Opened, OnePlace
  <1>7. Ticket[s] = "presented"
    BY <1>2, PlacedAll DEF Places, Place
  <1>8. InFlight(s)' = {} /\ Opened(s)' = {}
    BY <1>1, <1>5, <1>6, Ends
  <1>9. Ticket'[s] = "void"
    BY <1>2, <1>4, <1>8, PlaceFacts, PlacedNext DEF Places, Place
  <1>10. \A x \in States \ {s} : Ticket'[x] = Ticket[x]
    <2>1. \A x \in States \ {s} : Places'[x] = Places[x]
      BY <1>1, <1>5, Ends DEF Places, Place
    <2> QED BY <1>4, <2>1, PlacedAll, PlacedNext
  <1> QED BY <1>2, <1>4, <1>7, <1>9, <1>10, VoidsOne DEF Keeps

LEMMA TokenKeeps == ASSUME Inv, Inv', OnePlace, NEW t \in Tasks, Token(t) PROVE Keeps
  <1>1. pc[t] = "token" /\ InLogin(t) /\ UNCHANGED <<pending, issued, sessions>>
    BY DEF Token, At, InLogin, logins
  <1>2. CASE Goto(t, "userinfo") /\ UNCHANGED req
    <2>1. \A u \in Tasks : (InLogin(u)' <=> InLogin(u)) /\ req'[u] = req[u]
      BY <1>1, <1>2 DEF Inv, TypeOK, Goto, InLogin
    <2> QED BY <1>1, <2>1, Unmoved
  <1>3. CASE Refuse(t, 502) \/ Unanswered(t)
    BY <1>1, <1>3, EndsVoid DEF Unanswered, Refuse, Reply
  <1> QED BY <1>2, <1>3 DEF Token

LEMMA UserinfoKeeps == ASSUME Inv, Inv', OnePlace, NEW t \in Tasks, Userinfo(t) PROVE Keeps
  <1>1. InLogin(t) /\ UNCHANGED <<pending, issued, sessions>>
    BY DEF Userinfo, At, InLogin, logins
  <1>2. CASE Unanswered(t)
    BY <1>1, <1>2, EndsVoid DEF Unanswered, Refuse, Reply
  <1>3. CASE ~Unanswered(t)
    <2>1. Goto(t, "encode") /\ pc \in [Tasks -> Stages] /\ "encode" \in Stages
      BY <1>3 DEF Userinfo, Inv, TypeOK, Stages
    <2>2. PICK roles : req' = [req EXCEPT ![t].roles = roles, ![t].expiresAt = clock + SessionTtl]
      BY <1>3 DEF Userinfo
    <2>3. \A u \in Tasks : InLogin(u)' <=> InLogin(u)
      BY <1>1, <2>1 DEF Goto, InLogin
    <2>4. \A u \in Tasks : req'[u].state = req[u].state
      BY <2>2 DEF Inv, Request
    <2> QED BY <1>1, <2>3, <2>4, Unmoved
  <1> QED BY <1>2, <1>3

LEMMA EncodeKeeps == ASSUME Inv, Inv', OnePlace, NEW t \in Tasks, Encode(t) PROVE Keeps
  <1> DEFINE cookie == [user |-> req[t].user, roles |-> req[t].roles, state |-> req[t].state,
                        expiresAt |-> req[t].expiresAt, secret |-> SecretOf(t)]
  <1>1. /\ InLogin(t) /\ sessions' = sessions \cup {cookie} /\ cookie.state = req[t].state
        /\ UNCHANGED <<pending, issued>>
        /\ Goto(t, "idle") /\ req' = [req EXCEPT ![t] = NoRequest]
    BY DEF Encode, At, InLogin, Refuse, Reply
  <1> HIDE DEF cookie
  <1>2. req[t].state \in States
    BY <1>1, PlaceFacts
  <1>3. PICK s \in States : s = req[t].state
    BY <1>2
  <1>4. PICK c : c = cookie
    OBVIOUS
  <1>5. c.state = s /\ sessions' = sessions \cup {c}
    BY <1>1, <1>3, <1>4
  <1>6. s \in States /\ s <= issued /\ pending[s] = NoPending /\ t \in InFlight(s)
    BY <1>1, <1>3, PlaceFacts DEF InFlight, OnePlace, InLogin
  <1>7. \A d \in sessions : d.state # s
    BY <1>1, <1>3 DEF OnePlace
  <1>8. OnePlace'
    <2>1. \A d \in sessions' : d.state <= issued' /\ pending'[d.state] = NoPending
      BY <1>1, <1>6, <1>5 DEF OnePlace
    <2>2. (\A v \in Tasks : InLogin(v)' <=> v # t /\ InLogin(v)) /\ (\A v \in Tasks \ {t} : req'[v] = req[v])
      BY <1>1, <1>2, <1>3, Ends
    <2>3. \A v \in Tasks : InLogin(v) /\ v # t => req[v].state # s
      BY <1>1, <1>3 DEF OnePlace
    <2>4. \A u \in Tasks, d \in sessions' : InLogin(u)' => req'[u].state # d.state
      BY <1>1, <1>5, <2>2, <2>3 DEF OnePlace
    <2>5. \A d, e \in sessions' : d.state = e.state => d = e
      BY <1>7, <1>5 DEF OnePlace
    <2>6. \A u \in Tasks : InLogin(u)' => pending'[req'[u].state] = NoPending
      BY <1>1, <1>5, <2>2, <2>3 DEF OnePlace
    <2>7. \A u, v \in Tasks : InLogin(u)' /\ InLogin(v)' /\ req'[u].state = req'[v].state => u = v
      BY <1>1, <1>5, <2>2, <2>3 DEF OnePlace
    <2>8. \A x \in States : pending'[x] # NoPending => x <= issued'
      BY <1>1 DEF OnePlace
    <2> QED BY <2>1, <2>4, <2>5, <2>6, <2>7, <2>8 DEF OnePlace
  <1>9. c \in Opened(s)' /\ \A x \in States \ {s} : Opened(x)' = Opened(x)
    BY <1>5 DEF Opened
  <1>10. Ticket[s] = "presented"
    BY <1>6, PlacedAll DEF Places, Place
  <1>11. Ticket'[s] = "session"
    BY <1>1, <1>6, <1>8, <1>9, <1>3, Ends, PlaceFacts, PlacedNext DEF Places, Place
  <1>12. \A x \in States \ {s} : Ticket'[x] = Ticket[x]
    <2>1. \A x \in States \ {s} : Places'[x] = Places[x]
      BY <1>1, <1>9, <1>3, Ends DEF Places, Place
    <2> QED BY <1>8, <2>1, PlacedAll, PlacedNext
  <1> QED BY <1>6, <1>8, <1>10, <1>11, <1>12, Moves DEF Keeps

\* The memory of the worker is lost, and with it every login not yet a session.
LEMMA StopKeeps == ASSUME Inv, Inv', OnePlace, Stop PROVE Keeps
  <1> DEFINE S == {s \in States : Ticket[s] \in {"open", "presented"}}
  <1>1. /\ \A s \in States : pending'[s] = NoPending
        /\ \A t \in Tasks : pc'[t] = "idle"
        /\ UNCHANGED <<issued, sessions>>
    BY DEF Stop
  <1>2. OnePlace'
    BY <1>1, PlaceFacts DEF OnePlace, InLogin
  <1>3. \A s \in States : InFlight(s)' = {} /\ Opened(s)' = Opened(s)
    BY <1>1 DEF InFlight, Opened
  <1>4. \A s \in States : pending[s] # NoPending \/ InFlight(s) # {} => s <= issued /\ Opened(s) = {}
    BY PlaceFacts DEF OnePlace, InFlight, Opened, InLogin
  <1>5. \A s \in S : Ticket'[s] = "void"
    BY <1>1, <1>2, <1>3, <1>4, PlaceFacts, PlacedAll, PlacedNext DEF Places, Place
  <1>6. \A s \in States \ S : Ticket'[s] = Ticket[s]
    BY <1>1, <1>2, <1>3, <1>4, PlaceFacts, PlacedAll, PlacedNext DEF Places, Place
  <1> QED BY <1>2, <1>5, <1>6, Voids DEF Keeps

LEMMA TaskKeeps == ASSUME Inv, Inv', OnePlace, NEW t \in Tasks, TaskStep(t) PROVE Keeps
  <1> USE DEF logins
  <1>1. CASE GateSession(t) \/ Passwd(t)
    BY <1>1, AnsweredUnmoved DEF GateSession, Passwd, At, InLogin, Serve, Refuse
  <1>2. CASE GateBasic(t)
    <2>1. \A u \in Tasks : (InLogin(u)' <=> InLogin(u)) /\ req'[u] = req[u]
      BY <1>2 DEF GateBasic, At, Goto, Inv, TypeOK, InLogin
    <2> QED BY <1>2, <2>1, Unmoved DEF GateBasic
  <1>3. CASE GateNone(t)
    <2>1. ~InLogin(t) /\ UNCHANGED <<pending, issued, sessions>>
      BY <1>3 DEF GateNone, At, InLogin
    <2>2. CASE Goto(t, "pkce") /\ UNCHANGED req
      <3>1. \A u \in Tasks : (InLogin(u)' <=> InLogin(u)) /\ req'[u] = req[u]
        BY <2>1, <2>2 DEF Goto, Inv, TypeOK, InLogin
      <3> QED BY <2>1, <3>1, Unmoved
    <2>3. CASE Refuse(t, 501) \/ Refuse(t, 401) \/ Serve(t, Anonymous)
      BY <2>1, <2>3, AnsweredUnmoved DEF Refuse, Serve
    <2> QED BY <1>3, <2>2, <2>3 DEF GateNone
  <1> QED BY <1>1, <1>2, <1>3, BeginKeeps, TokenKeeps, UserinfoKeeps, EncodeKeeps DEF TaskStep

LEMMA ArrivalKeeps ==
  ASSUME Inv, OnePlace, NEW t \in Tasks, NEW r, ArriveOpen(t, r) \/ Arrive(t, r) PROVE Keeps
  <1> USE DEF logins
  <1>1. CASE ArriveOpen(t, r)
    BY <1>1, Unmoved DEF ArriveOpen, InLogin
  <1>2. CASE Arrive(t, r)
    <2>1. ~InLogin(t) /\ "gate" \in Stages
      BY <1>2 DEF Arrive, At, InLogin, Stages
    <2> QED BY <1>2, <2>1, TaskUnmoved DEF Arrive
  <1> QED BY <1>1, <1>2

LEMMA NextKeeps == Inv /\ Inv' /\ OnePlace /\ [Next]_vars => Keeps
  <1> SUFFICES ASSUME Inv, Inv', OnePlace, [Next]_vars PROVE Keeps
    OBVIOUS
  <1>1. CASE UNCHANGED <<pending, issued, sessions, pc, req>>
    BY <1>1, Unmoved DEF InLogin
  <1>2. ASSUME NEW t \in Tasks, NEW r, Asking(r), ArriveOpen(t, r) \/ Arrive(t, r) \/ Callback(t, r)
        PROVE  Keeps
    BY <1>2, ArrivalKeeps, CallbackKeeps
  <1> QED BY <1>1, <1>2, TaskKeeps, StopKeeps, Visiting, Returning
          DEF Next, vars, DeployConfig, Install, Tick, logins

\* The refinement: for any number of requests, state values, installs and stops, a login
\* opens at most one session, and a state value once spent is never pending again
\* (oauth2.ts:114-118).
THEOREM TicketsImplemented == Spec => ImplementsTickets
  <1>1. Init => OnePlace /\ Ticket = [s \in States |-> "unissued"]
    <2> SUFFICES ASSUME Init PROVE OnePlace /\ Ticket = [s \in States |-> "unissued"]
      OBVIOUS
    <2>1. OnePlace
      BY DEF Init, OnePlace, InLogin
    <2>2. Places = [s \in States |-> "unissued"]
      BY DEF Init, Places, Place, States
    <2> QED BY <2>1, <2>2, InitInv, PlacedAll
  <1>2. Inv /\ Inv' /\ OnePlace /\ [Next]_vars => OnePlace' /\ [Login!TicketsNext]_Ticket
    BY NextKeeps DEF Keeps
  <1>3. Ticket = [s \in States |-> "unissued"] => Login!TicketsInit
    BY DEF Login!TicketsInit, Ticket
  <1>4. [Login!TicketsNext]_Ticket => [Login!TicketsNext]_([s \in States |-> TicketOf(s)])
    BY DEF Ticket
  <1> QED BY <1>1, <1>2, <1>3, <1>4, Grounded, PTL DEF Spec, ImplementsTickets, Login!TicketsSpec

===============================================================================
