------------------------------- MODULE Access -------------------------------
(***************************************************************************)
(* Who gets in, and what is written down about it: setup, login, logout,   *)
(* the authRequired gate, the audit log and the pages with their           *)
(* redirects, for any number of browsers and concurrent handlers.          *)
(*                                                                         *)
(* One handler is one request, with the requests that its page's script    *)
(* or a redirect makes next.  The cookie travels with the request; the     *)
(* answer's cookie reaches the browser only when the answer does, and the  *)
(* answer leaves when the whole chain of middleware has returned.  What a  *)
(* rule change does to the rules is the matter of RulesApi.                *)
(***************************************************************************)
EXTENDS Sessions, Sequences, FiniteSets

CONSTANTS Browser,      \* cookie jars
          MaxRequests,  \* bound: requests that users make
          MaxUnderWay,  \* bound: requests under way at once
          Faults,       \* the kinds of disturbance of an instance
          MaxFaults     \* bound: disturbances in one behaviour

ASSUME MaxRequestsAssumption == MaxRequests \in Nat
ASSUME MaxUnderWayAssumption == MaxUnderWay \in Nat
ASSUME MaxFaultsAssumption == MaxFaults \in Nat

VARIABLES up,        \* the dashboard is served
          jar,       \* jar[b]: the cookie that b keeps
          req,       \* req[r]: where the r-th request is
          lastReq,   \* requests made so far
          log,       \* table audit_log
          faults,    \* disturbances left
          unlogged,  \* auxiliary: entries whose INSERT failed
          answered,  \* auxiliary: requests whose answer has arrived
          firstSet   \* auxiliary: lastReq when the password was first stored

serverVars == <<up, jar, lastReq>>
auditVars == <<log, unlogged, answered, firstSet>>
vars == <<sessionVars, serverVars, req, auditVars, faults>>

Request == 1 .. MaxRequests

\* "change" stands for the three routes that add, delete and refresh a rule.
Post == {"login", "setup", "logout", "change"}
Page == {"home", "auditPage", "loginPage", "setupPage", "noPage"}
Script == {"apiRules", "apiAudit"}
Gated == {"home", "auditPage"} \cup Script
Credentials == {"login", "setup"}

\* cookie is the session as the handler sees it: what came with the request,
\* until SetAuthenticated replaces it.  unread: what came was Unreadable.
Progress == [pc : {"idle", "received", "hashing", "working", "handled", "answering"},
            route : Post \cup Page \cup Script \cup {"none"},
            by : Browser \cup {"none"},
            pw : Password \cup {NoPassword},
            cookie : Cookie,
            unread : BOOLEAN,
            status : {"none", "ok", "failed", "unauthorized"}]

Idle == [pc |-> "idle", route |-> "none", by |-> "none", pw |-> NoPassword,
         cookie |-> NoCookie, unread |-> FALSE, status |-> "none"]

\* The actor and the action of an entry, and in its payload the request;
\* auxiliary: the session that the request really had, and its unread.
Entry == [actor : Nat,
          action : {"login_success", "login_failed", "setup_password", "rule_changed"},
          no : Request,
          session : Nat,
          unread : BOOLEAN]

TypeOK == /\ SessionTypeOK
          /\ up \in BOOLEAN
          /\ jar \in [Browser -> Cookie]
          /\ req \in [Request -> Progress]
          /\ lastReq \in 0 .. MaxRequests
          /\ log \in Seq(Entry)
          /\ faults \in 0 .. MaxFaults
          /\ unlogged \subseteq Entry
          /\ answered \subseteq Request
          /\ firstSet \in 0 .. MaxRequests

Init == /\ SessionInit
        /\ up = TRUE
        /\ jar = [b \in Browser |-> NoCookie]
        /\ req = [r \in Request |-> Idle]
        /\ lastReq = 0
        /\ log = << >>
        /\ faults = MaxFaults
        /\ unlogged = {} /\ answered = {} /\ firstSet = 0

Fault(kind) == kind \in Faults /\ faults > 0 /\ faults' = faults - 1

At(r, pc, route) == req[r].pc = pc /\ req[r].route = route

\* The handler is done; the middleware around it is not.
Handled(r, status, c) ==
  req' = [req EXCEPT ![r] = [@ EXCEPT !.pc = "handled", !.status = status,
                                      !.pw = NoPassword, !.cookie = c,
                                      !.unread = Unreadable(req[r].cookie)]]

Failed(r) == Handled(r, "failed", req[r].cookie)

\* Authenticated: the session of this request, from here on, is a good one.
LetIn(r) == /\ SetAuthenticated(req[r].cookie)
            /\ Handled(r, "ok", Authenticated(req[r].cookie))

\* The browser goes on to a page, with the cookie that it has by then.
Visit(r, route, b, c) ==
  req' = [req EXCEPT ![r] = [Idle EXCEPT !.pc = "received", !.route = route,
                                         !.by = b, !.cookie = c]]

-----------------------------------------------------------------------------
(* Browsers                                                                *)

UnderWay == {r \in Request : req[r] # Idle}

Send(b, route, pw) ==
  /\ up
  /\ lastReq < MaxRequests /\ Cardinality(UnderWay) < MaxUnderWay
  /\ lastReq' = lastReq + 1
  /\ req' = [req EXCEPT ![lastReq + 1] =
               [Idle EXCEPT !.pc = "received", !.route = route, !.by = b, !.pw = pw,
                            !.cookie = jar[b]]]
  /\ UNCHANGED <<sessionVars, up, jar, auditVars, faults>>

Requests(b) ==
  \/ \E route \in Credentials, pw \in Password \cup {NoPassword} : Send(b, route, pw)
  \/ \E route \in (Post \ Credentials) \cup (Page \ {"noPage"}) : Send(b, route, NoPassword)

\* The cookie's twelve hours are over, or the user clears it.
CookieExpires(b) ==
  /\ jar[b] # NoCookie
  /\ jar' = [jar EXCEPT ![b] = NoCookie]
  /\ UNCHANGED <<sessionVars, up, lastReq, req, auditVars, faults>>

-----------------------------------------------------------------------------
(* handleSetup and handleLogin                                             *)

\* Mutant: without the check.
SetupChecks_Always(r) ==
  /\ At(r, "received", "setup")
  /\ IF req[r].pw # NoPassword
     THEN req' = [req EXCEPT ![r].pc = "hashing"]
     ELSE Failed(r)
  /\ UNCHANGED <<sessionVars, serverVars, auditVars, faults>>

\* Setup looks whether there is a password, and only then reads the body and
\* spends its time on bcrypt.
SetupChecks(r) ==
  /\ At(r, "received", "setup")
  /\ \/ /\ ~IsPasswordSet /\ req[r].pw # NoPassword
        /\ req' = [req EXCEPT ![r].pc = "hashing"]
        /\ UNCHANGED faults
     \/ (IsPasswordSet \/ req[r].pw = NoPassword) /\ Failed(r) /\ UNCHANGED faults
     \/ Fault("db") /\ Failed(r)
  /\ UNCHANGED <<sessionVars, serverVars, auditVars>>

\* Mutant: the session comes first, and stays when the password cannot be stored.
SetupStores_SessionFirst(r) ==
  /\ At(r, "hashing", "setup")
  /\ LetIn(r)
  /\ \/ /\ SetPasswordHash(req[r].pw)
        /\ firstSet' = IF IsPasswordSet THEN firstSet ELSE lastReq
        /\ UNCHANGED faults
     \/ Fault("db") /\ UNCHANGED <<hash, firstSet>>
  /\ UNCHANGED <<key, serverVars, log, unlogged, answered>>

\* SetPasswordHash, SetAuthenticated, 201.
SetupStores(r) ==
  /\ At(r, "hashing", "setup")
  /\ \/ /\ SetPasswordHash(req[r].pw)
        /\ LetIn(r)
        /\ firstSet' = IF IsPasswordSet THEN firstSet ELSE lastReq
        /\ UNCHANGED faults
     \/ Fault("db") /\ Failed(r) /\ UNCHANGED <<hash, lastSid, firstSet>>
  /\ UNCHANGED <<key, serverVars, log, unlogged, answered>>

\* Login reads the hash, and bcrypt compares the password with what was read ...
LoginChecks(r) ==
  /\ At(r, "received", "login")
  /\ \/ /\ VerifyPassword(req[r].pw)
        /\ req' = [req EXCEPT ![r].pc = "hashing"]
        /\ UNCHANGED faults
     \/ ~VerifyPassword(req[r].pw) /\ Failed(r) /\ UNCHANGED faults
     \/ Fault("db") /\ Failed(r)
  /\ UNCHANGED <<sessionVars, serverVars, auditVars>>

\* ... while another setup may replace it; the login is good all the same.
LoginEnters(r) ==
  /\ At(r, "hashing", "login")
  /\ LetIn(r)
  /\ UNCHANGED <<hash, key, serverVars, auditVars, faults>>

-----------------------------------------------------------------------------
(* Behind authRequired                                                     *)

\* A 401 does not pass the audit logger, which is inside the gate.
Refused(r) ==
  req' = [req EXCEPT ![r] = [@ EXCEPT !.pc = "answering", !.status = "unauthorized"]]

EnterChange(r) ==
  /\ At(r, "received", "change")
  /\ IF IsAuthenticated(req[r].cookie)
     THEN req' = [req EXCEPT ![r].pc = "working"]
     ELSE Refused(r)
  /\ UNCHANGED <<sessionVars, serverVars, auditVars, faults>>

\* The end of handleAddRule, handleDeleteRule or handleRefreshRule.
Change(r) ==
  /\ At(r, "working", "change")
  /\ \E status \in {"ok", "failed"} : Handled(r, status, req[r].cookie)
  /\ UNCHANGED <<sessionVars, serverVars, auditVars, faults>>

\* handleLogout: its group has no audit logger.
Logout(r) ==
  /\ At(r, "received", "logout")
  /\ IF IsAuthenticated(req[r].cookie)
     THEN req' = [req EXCEPT ![r] = [@ EXCEPT !.pc = "answering", !.status = "ok",
                                              !.cookie = NoCookie]]
     ELSE Refused(r)
  /\ UNCHANGED <<sessionVars, serverVars, auditVars, faults>>

-----------------------------------------------------------------------------
(* auditLogger, and the answer                                             *)

AuditAction(route, status) ==
  CASE route = "login" -> IF status = "ok" THEN "login_success" ELSE "login_failed"
    [] route = "setup" -> "setup_password"
    [] OTHER                 -> "rule_changed"

\* Mutant: the actor is taken before the handler has let anyone in.
AuditEntry_Before(r) ==
  [actor   |-> IF req[r].route \in Credentials THEN Anonymous ELSE SessionID(req[r].cookie),
   action  |-> AuditAction(req[r].route, req[r].status),
   no      |-> r,
   session |-> SessionID(req[r].cookie),
   unread  |-> req[r].unread]

\* SessionID answers "" when the library answers with an error, even for a
\* session that this very request has just been given.
AuditEntry(r) ==
  [actor   |-> IF req[r].unread THEN Anonymous ELSE SessionID(req[r].cookie),
   action  |-> AuditAction(req[r].route, req[r].status),
   no      |-> r,
   session |-> SessionID(req[r].cookie),
   unread  |-> req[r].unread]

\* Mutant: only successes are logged.
Audit_SuccessOnly(r) ==
  /\ req[r].pc = "handled"
  /\ req' = [req EXCEPT ![r].pc = "answering"]
  /\ IF req[r].status = "ok"
     THEN \/ log' = Append(log, AuditEntry(r)) /\ UNCHANGED <<unlogged, faults>>
          \/ Fault("audit") /\ unlogged' = unlogged \cup {AuditEntry(r)} /\ UNCHANGED log
     ELSE UNCHANGED <<log, unlogged, faults>>
  /\ UNCHANGED <<sessionVars, serverVars, answered, firstSet>>

\* After the handler: failures are only worth an entry at /login and /setup,
\* and an entry that cannot be written is dropped.
Audit(r) ==
  /\ req[r].pc = "handled"
  /\ req' = [req EXCEPT ![r].pc = "answering"]
  /\ IF req[r].status = "ok" \/ req[r].route \in Credentials
     THEN \/ log' = Append(log, AuditEntry(r)) /\ UNCHANGED <<unlogged, faults>>
          \/ Fault("audit") /\ unlogged' = unlogged \cup {AuditEntry(r)} /\ UNCHANGED log
     ELSE UNCHANGED <<log, unlogged, faults>>
  /\ UNCHANGED <<sessionVars, serverVars, answered, firstSet>>

\* What the page's script, or the redirect, does with the answer.  The login
\* page goes on to where authRequired redirected from, which for a logout
\* without a session is a route that has no GET.
Follow(r, c) ==
  LET q == req[r]
  IN  CASE q.status = "unauthorized" \/ q.route = "logout"
             -> Visit(r, "loginPage", q.by, c)
        [] q.status = "ok" /\ q.route \in Credentials
             -> \E next \in {"home", "auditPage", "noPage"} : Visit(r, next, q.by, c)
        [] OTHER -> req' = [req EXCEPT ![r] = Idle]

\* The answer arrives, with the new cookie or the order to forget the old one.
Answer(r) ==
  LET q == req[r]
      c == IF q.status = "ok" /\ q.route # "change" THEN q.cookie ELSE jar[q.by]
  IN  /\ q.pc = "answering"
      /\ jar' = [jar EXCEPT ![q.by] = c]
      /\ Follow(r, c)
      /\ answered' = IF q.route \in Credentials \/ (q.route = "change" /\ q.status = "ok")
                     THEN answered \cup {r} ELSE answered
      /\ UNCHANGED <<sessionVars, up, lastReq, log, unlogged, firstSet, faults>>

\* It does not, for instance because the handler took longer than the
\* server's WriteTimeout.
AnswerLost(r) ==
  /\ req[r].pc = "answering"
  /\ Fault("lost")
  /\ req' = [req EXCEPT ![r] = Idle]
  /\ UNCHANGED <<sessionVars, serverVars, auditVars>>

-----------------------------------------------------------------------------
(* Pages                                                                   *)

\* Mutant: the login page takes everyone without a session to /setup.
NextPage_AlwaysSetup(route, c) ==
  CASE route = "loginPage" /\ IsAuthenticated(c)    -> "home"
    [] route = "loginPage" /\ ~IsAuthenticated(c)   -> "setupPage"
    [] route = "setupPage"                          -> IF IsPasswordSet THEN "loginPage" ELSE "none"
    [] route \in Gated /\ ~IsAuthenticated(c)        -> "loginPage"
    [] OTHER                                         -> "none"

\* Where a page, or the request its script makes first, sends the browser on
\* to; "none" is a page to stay on.
NextPage(route, c) ==
  CASE route = "loginPage" /\ IsAuthenticated(c)    -> "home"
    [] route = "loginPage" /\ ~IsAuthenticated(c)   -> IF IsPasswordSet THEN "none" ELSE "setupPage"
    [] route = "setupPage"                          -> IF IsPasswordSet THEN "loginPage" ELSE "none"
    [] route \in Gated /\ ~IsAuthenticated(c)        -> "loginPage"
    [] route = "home" /\ IsAuthenticated(c)         -> "apiRules"
    [] route = "auditPage" /\ IsAuthenticated(c)    -> "apiAudit"
    [] OTHER                                         -> "none"

Show(r) ==
  /\ req[r].pc = "received" /\ req[r].route \in Page \cup Script
  /\ LET next == NextPage(req[r].route, req[r].cookie)
     IN  \/ /\ next = "none"
            /\ req' = [req EXCEPT ![r] = Idle] /\ UNCHANGED faults
         \/ /\ next # "none"
            /\ Visit(r, next, req[r].by, jar[req[r].by]) /\ UNCHANGED faults
         \/ /\ req[r].route \in {"loginPage", "setupPage"}  \* shown as it is
            /\ ~(req[r].route = "loginPage" /\ IsAuthenticated(req[r].cookie))
            /\ Fault("db")
            /\ req' = [req EXCEPT ![r] = Idle]
  /\ UNCHANGED <<sessionVars, serverVars, auditVars>>

-----------------------------------------------------------------------------
(* The process and its database                                            *)

\* Stopped or killed: the requests under way end without an answer.
Stops ==
  /\ up
  /\ up' = FALSE
  /\ req' = [r \in Request |-> Idle]
  /\ UNCHANGED <<sessionVars, jar, lastReq, auditVars, faults>>

\* db.Open, EnsureSigningKey, Mount.  A key that cannot be read is replaced.
Starts ==
  /\ ~up
  /\ up' = TRUE
  /\ \/ UNCHANGED <<key, faults>>
     \/ Fault("key") /\ FreshKey
  /\ UNCHANGED <<hash, lastSid, jar, lastReq, req, auditVars>>

\* Mutant: the row of settings is emptied, the key stays.
DeleteDatabase_KeepsKey ==
  /\ ~up
  /\ Fault("wipe")
  /\ hash' = NoPassword
  /\ log' = << >> /\ unlogged' = {} /\ answered' = {} /\ firstSet' = 0
  /\ UNCHANGED <<key, lastSid, serverVars, req>>

\* The operator's way out of a forgotten password: stop, delete the data
\* directory, start.  The schema seeds a new key.
DeleteDatabase ==
  /\ ~up
  /\ Fault("wipe")
  /\ hash' = NoPassword /\ FreshKey
  /\ log' = << >> /\ unlogged' = {} /\ answered' = {} /\ firstSet' = 0
  /\ UNCHANGED <<lastSid, serverVars, req>>

-----------------------------------------------------------------------------

Handle(r) == \/ SetupChecks(r) \/ SetupStores(r) \/ LoginChecks(r) \/ LoginEnters(r)
             \/ EnterChange(r) \/ Change(r) \/ Logout(r)
             \/ Audit(r) \/ Answer(r) \/ AnswerLost(r)
             \/ Show(r)

Next == \/ \E b \in Browser : Requests(b)
        \/ \E r \in Request : Handle(r)
        \/ \E b \in Browser : CookieExpires(b)
        \/ Stops \/ Starts \/ DeleteDatabase

Spec == Init /\ [][Next]_vars

\* Some request under way moves on.
FairSpec == Spec /\ WF_vars(\E r \in Request : Handle(r))

-----------------------------------------------------------------------------
(* Safety                                                                  *)

Known == {log[i] : i \in DOMAIN log} \cup unlogged
Entrance == {"login_success", "setup_password"}
Entered(e, sid) == /\ e.session = sid /\ e.action \in Entrance
                   /\ e.actor = sid \/ e.unread
Named == {sid \in Nat : \E e \in Known : Entered(e, sid)}

\* A session that the server takes for good, in a browser or under way, and
\* every rule change in progress, mean that a password is set: also after the
\* database has been deleted, a key replaced, a setup that failed half-way.
\* (handlers_login.go:102-108; RulesApi and the reconciler's gate count on it.)
EntryNeedsPassword ==
  /\ \A b \in Browser : IsAuthenticated(jar[b]) => IsPasswordSet
  /\ \A r \in Request : \/ IsAuthenticated(req[r].cookie)
                        \/ req[r].pc = "working"
                        => IsPasswordSet

\* Setup is a one-time flow (handlers_pages.go:63): a setup that is sent after
\* a password was stored is never answered with success.
OneTimeSetup ==
  \A r \in Request :
    req[r].route = "setup" /\ IsPasswordSet /\ r > firstSet
      => req[r].pc = "received" \/ req[r].status = "failed"

\* Whoever has been told the outcome of a login, of a setup or of a rule change
\* that succeeded finds it in the audit log, unless the entry could not be
\* written.  (middleware.go:98-129, Plan.md:175)
AnsweredIsAudited == \A n \in answered : \E e \in Known : e.no = n

\* Every actor that the log names came in by a login or a setup that is in the
\* same log not later and names it too - unless that entry could not be
\* written, or the browser still had a cookie of an earlier key, as after the
\* database was deleted: then that entry, and no other, is "anonymous".
\* (sessions.go:54-71, 86-97, middleware.go:119-130)
AuditNamesActors ==
  \A i \in DOMAIN log : log[i].actor # Anonymous =>
    \E e \in {log[k] : k \in 1 .. i} \cup unlogged : Entered(e, log[i].actor)

\* What makes them inductive.  A stopped server has no requests, and a running
\* one keeps the password that a login was compared with, or another, ...
Shape == /\ \A r \in Request : req[r] # Idle => up /\ r <= lastReq /\ req[r].by \in Browser
         /\ \A r \in Request : req[r].pc = "hashing" =>
                /\ req[r].pw \in Password
                /\ req[r].route = "login" => IsPasswordSet
         /\ \A r \in Request : req[r].pc \in {"received", "hashing"} => req[r].status = "none"
         /\ firstSet <= lastReq

\* ... no cookie is signed with a key that is still to come, ...
KeyOrder == /\ \A b \in Browser : jar[b].key <= key
            /\ \A r \in Request : req[r].cookie.key <= key

\* ... the log is written before the answer, ...
LoggedFirst ==
  \A r \in Request :
    /\ req[r].pc = "answering"
    /\ req[r].route \in Credentials \/ (req[r].route = "change" /\ req[r].status = "ok")
    => \E e \in Known : e.no = r

\* ... and with it the name of every session that has been answered.
SessionsNamed ==
  /\ \A b \in Browser : IsAuthenticated(jar[b]) => jar[b].sid \in Named
  /\ \A r \in Request : IsAuthenticated(req[r].cookie) =>
       \/ req[r].cookie.sid \in Named
       \/ req[r].pc = "handled" /\ req[r].status = "ok" /\ req[r].route \in Credentials

\* The inductive invariant.  (handlers_login.go, middleware.go, sessions.go)
IInv == /\ TypeOK /\ Shape /\ KeyOrder
        /\ EntryNeedsPassword /\ OneTimeSetup
        /\ LoggedFirst /\ AnsweredIsAudited
        /\ SessionsNamed /\ AuditNamesActors

-----------------------------------------------------------------------------
(* Liveness                                                                *)

\* When users stop asking the dashboard comes to rest: every request is
\* answered and every chain of redirects ends at a page, whatever happens to
\* session and password on the way.  (handlers_pages.go:35-66, middleware.go:49-56)
RedirectsEnd == []<>(UnderWay = {})

=============================================================================
