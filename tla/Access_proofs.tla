--------------------------- MODULE Access_proofs ---------------------------
(***************************************************************************)
(* Who gets in, proved: IInv is an invariant of Access for any number of   *)
(* browsers, requests, passwords and disturbances.  One lemma per kind of  *)
(* step; the log only grows while the server is up (Grows), so what it     *)
(* says of a request or a session stays said.                              *)
(***************************************************************************)
EXTENDS Access, TLAPS

USE NoPasswordAssumption, MaxKeyAssumption, MaxRequestsAssumption,
    MaxUnderWayAssumption, MaxFaultsAssumption

\* A machine that has just been set up: nobody is in.
LEMMA InitInv == Init => IInv
<1> SUFFICES ASSUME Init PROVE IInv
  OBVIOUS
<1> USE DEF Init, SessionInit, Idle, NoCookie
<1>1. TypeOK
  BY DEF TypeOK, SessionTypeOK, Cookie, Progress, Entry, Request
<1>2. Shape /\ KeyOrder
  BY DEF Shape, KeyOrder
<1>3. EntryNeedsPassword /\ SessionsNamed
  BY DEF EntryNeedsPassword, SessionsNamed, IsAuthenticated
<1>4. OneTimeSetup /\ LoggedFirst /\ AnsweredIsAudited /\ AuditNamesActors
  BY DEF OneTimeSetup, LoggedFirst, AnsweredIsAudited, AuditNamesActors, IsPasswordSet
<1> QED
  BY <1>1, <1>2, <1>3, <1>4 DEF IInv

-----------------------------------------------------------------------------

\* A session that may be given to a request in state q, ...
GoodSession(c) == /\ c.key <= key
                  /\ IsAuthenticated(c) => IsPasswordSet

\* ... and what has to hold of q alone for the invariant.
Good(r, q) ==
  /\ q # Idle => up /\ r <= lastReq /\ q.by \in Browser
  /\ q.pc = "hashing" => q.pw \in Password /\ (q.route = "login" => IsPasswordSet)
  /\ q.pc \in {"received", "hashing"} => q.status = "none"
  /\ q.pc = "working" => IsPasswordSet
  /\ GoodSession(q.cookie)
  /\ q.route = "setup" /\ IsPasswordSet /\ r > firstSet
       => q.pc = "received" \/ q.status = "failed"
  /\ /\ q.pc = "answering"
     /\ q.route \in Credentials \/ (q.route = "change" /\ q.status = "ok")
     => \E e \in Known : e.no = r
  /\ IsAuthenticated(q.cookie) =>
       \/ q.cookie.sid \in Named
       \/ q.pc = "handled" /\ q.status = "ok" /\ q.route \in Credentials

GoodJar(c) == GoodSession(c) /\ (IsAuthenticated(c) => c.sid \in Named)

LEMMA GoodHolds ==
  ASSUME IInv
  PROVE  /\ \A r \in Request : Good(r, req[r])
         /\ \A b \in Browser : GoodJar(jar[b])
BY DEF IInv, Shape, KeyOrder, EntryNeedsPassword, OneTimeSetup, LoggedFirst,
       SessionsNamed, Good, GoodJar, GoodSession

\* What is known of a session, a request or a password is not unlearned.
Grows == /\ up' = up /\ key' = key
         /\ lastReq' \in Nat /\ lastReq <= lastReq'
         /\ IsPasswordSet => IsPasswordSet'
         /\ \/ IsPasswordSet /\ firstSet' = firstSet
            \/ firstSet' = lastReq
            \/ ~IsPasswordSet'
         /\ Known \subseteq Known'

LEMMA NamedGrows == ASSUME Grows PROVE Named \subseteq Named'
BY DEF Grows, Named

\* So everybody else's state stays good.
LEMMA GoodStays ==
  ASSUME IInv, Grows, NEW r \in Request
  PROVE  Good(r, req[r])' \/ req'[r] # req[r]
<1> SUFFICES ASSUME req'[r] = req[r] PROVE Good(r, req[r])'
  OBVIOUS
<1>1. Good(r, req[r])
  BY GoodHolds
<1>2. req[r] \in Progress /\ lastReq \in Nat /\ firstSet \in Nat
  BY DEF IInv, TypeOK, Request
<1>3. req[r].route = "setup" => req[r] # Idle
  BY DEF Idle
<1>4. Named \subseteq Named'
  BY NamedGrows
<1>5. GoodSession(req[r].cookie)'
  BY <1>1 DEF Good, GoodSession, Grows, IsAuthenticated
<1>6. req'[r].route = "setup" /\ IsPasswordSet' /\ r > firstSet'
        => req'[r].pc = "received" \/ req'[r].status = "failed"
  BY <1>1, <1>2, <1>3 DEF Good, Grows, Request
<1>7. /\ req'[r].pc = "answering"
      /\ req'[r].route \in Credentials \/ (req'[r].route = "change" /\ req'[r].status = "ok")
      => \E e \in Known' : e.no = r
  BY <1>1 DEF Good, Grows
<1>8. IsAuthenticated(req[r].cookie)' =>
        \/ req'[r].cookie.sid \in Named'
        \/ req'[r].pc = "handled" /\ req'[r].status = "ok" /\ req'[r].route \in Credentials
  BY <1>1, <1>4 DEF Good, Grows, IsAuthenticated
<1>9. req'[r] # Idle => up' /\ r <= lastReq' /\ req'[r].by \in Browser
  BY <1>1, <1>2 DEF Good, Grows, Request
<1> QED
  BY <1>1, <1>5, <1>6, <1>7, <1>8, <1>9 DEF Good, Grows

LEMMA GoodJarStays ==
  ASSUME IInv, Grows, NEW b \in Browser, jar'[b] = jar[b]
  PROVE  GoodJar(jar[b])'
<1>1. GoodJar(jar[b])
  BY GoodHolds
<1> QED
  BY <1>1, NamedGrows DEF GoodJar, GoodSession, Grows, IsAuthenticated

\* A step preserves the invariant if whatever it changes is left in a good state.
LEMMA StepInv ==
  ASSUME IInv, TypeOK', Grows,
         \A r \in Request : req'[r] = req[r] \/ Good(r, req[r])',
         \A b \in Browser : jar'[b] = jar[b] \/ GoodJar(jar[b])',
         firstSet' <= lastReq', AnsweredIsAudited', AuditNamesActors'
  PROVE  IInv'
<1>1. \A r \in Request : Good(r, req[r])'
  BY GoodStays
<1>2. \A b \in Browser : GoodJar(jar[b])'
  BY GoodJarStays
<1> QED
  BY <1>1, <1>2
  DEF IInv, Shape, KeyOrder, EntryNeedsPassword, OneTimeSetup, LoggedFirst,
      SessionsNamed, Good, GoodJar, GoodSession

\* A step that stores and logs nothing.
LEMMA QuietStep ==
  ASSUME IInv, TypeOK', UNCHANGED <<hash, key, up, log, unlogged, firstSet>>,
         lastReq <= lastReq',
         \A r \in Request : req'[r] = req[r] \/ Good(r, req[r])',
         \A b \in Browser : jar'[b] = jar[b] \/ GoodJar(jar[b])',
         \A n \in answered' : n \in answered \/ \E e \in Known : e.no = n
  PROVE  IInv'
<1>1. Known' = Known
  BY DEF Known
<1>2. lastReq \in Nat /\ lastReq' \in Nat /\ firstSet \in Nat /\ firstSet <= lastReq
  BY DEF IInv, TypeOK, Shape
<1>3. Grows
  BY <1>1, <1>2 DEF Grows, IsPasswordSet
<1>4. AnsweredIsAudited'
  BY <1>1 DEF IInv, AnsweredIsAudited
<1>5. AuditNamesActors'
  BY DEF IInv, AuditNamesActors
<1> QED
  BY <1>2, <1>3, <1>4, <1>5, StepInv

-----------------------------------------------------------------------------

LEMMA IdleIsGood ==
  ASSUME IInv, NEW r \in Request, NEW q, q = Idle PROVE Good(r, q)
BY DEF IInv, TypeOK, SessionTypeOK, Idle, NoCookie, Good, GoodSession, IsAuthenticated, Credentials

\* Browse on, with the cookie that the browser keeps.
LEMMA VisitIsGood ==
  ASSUME IInv, NEW r \in Request, up, r <= lastReq,
         NEW route \in Page \cup Script, NEW b \in Browser, NEW c, GoodJar(c)
  PROVE  Good(r, [Idle EXCEPT !.pc = "received", !.route = route, !.by = b, !.cookie = c])
BY DEF Good, GoodJar, Idle, Page, Script

LEMMA FaultType ==
  ASSUME TypeOK, NEW kind, Fault(kind) \/ UNCHANGED faults
  PROVE  faults' \in 0 .. MaxFaults
BY DEF TypeOK, Fault

\* One request moves on, and nothing is stored or logged.
LEMMA QuietRequest ==
  ASSUME IInv, NEW r \in Request, NEW q \in Progress,
         req' = [req EXCEPT ![r] = q], Good(r, q),
         UNCHANGED <<hash, key, serverVars, auditVars>>,
         lastSid' \in Nat, faults' \in 0 .. MaxFaults
  PROVE  IInv'
<1>1. TypeOK /\ lastReq \in Nat
  BY DEF IInv, TypeOK
<1>2. UNCHANGED <<hash, key, up, jar, lastReq, log, unlogged, answered, firstSet>>
  BY DEF serverVars, auditVars
<1>3. TypeOK'
  BY <1>1, <1>2 DEF TypeOK, SessionTypeOK
<1>4. Named' = Named /\ Known' = Known
  BY <1>2 DEF Named, Known
<1>5. req'[r] = q /\ \A s \in Request \ {r} : req'[s] = req[s]
  BY <1>1 DEF TypeOK
<1>6. Good(r, req[r])'
  BY <1>2, <1>4, <1>5 DEF Good, GoodSession, IsAuthenticated, IsPasswordSet
<1> QED
  BY <1>1, <1>2, <1>3, <1>5, <1>6, QuietStep

\* What the steps of a handler leave of its request.
Kept(r, q) == /\ q.cookie = req[r].cookie
              /\ q.route = req[r].route /\ q.by = req[r].by

\* A handler ends without having let anyone in.
LEMMA HandledInv ==
  ASSUME IInv, NEW r \in Request, NEW status \in {"ok", "failed"},
         req[r].pc \in {"received", "hashing", "working"},
         status = "failed" \/ req[r].route = "change",
         Handled(r, status, req[r].cookie),
         UNCHANGED <<hash, key, lastSid, serverVars, auditVars>>,
         Fault("db") \/ UNCHANGED faults
  PROVE  IInv'
<1> DEFINE q == [req[r] EXCEPT !.pc = "handled", !.status = status,
                               !.pw = NoPassword, !.cookie = req[r].cookie,
                               !.unread = Unreadable(req[r].cookie)]
<1>1. TypeOK /\ req[r] \in Progress /\ Good(r, req[r]) /\ req[r] # Idle
  BY GoodHolds DEF IInv, TypeOK, Idle
<1>2. faults' \in 0 .. MaxFaults /\ lastSid' \in Nat
  BY <1>1, FaultType DEF TypeOK, SessionTypeOK
<1>3. q \in Progress /\ Kept(r, q) /\ q.pc = "handled" /\ q.status = status
  BY <1>1 DEF Progress, Kept, Unreadable
<1>4. req' = [req EXCEPT ![r] = q]
  BY DEF Handled
<1> HIDE DEF q
<1>5. Good(r, q)
  BY <1>1, <1>3 DEF Good, Kept
<1> QED
  BY <1>2, <1>3, <1>4, <1>5, QuietRequest

LEMMA SetupChecksInv ==
  ASSUME IInv, NEW r \in Request, SetupChecks(r) PROVE IInv'
<1> DEFINE q == [req[r] EXCEPT !.pc = "hashing"]
<1>1. TypeOK /\ req[r] \in Progress /\ Good(r, req[r]) /\ req[r] # Idle
      /\ req[r].pc = "received" /\ req[r].route = "setup"
  BY GoodHolds DEF IInv, TypeOK, SetupChecks, At, Idle
<1>2. UNCHANGED <<hash, key, lastSid, serverVars, auditVars>>
  BY DEF SetupChecks, sessionVars
<1>3. CASE req' = [req EXCEPT ![r] = q] /\ req[r].pw # NoPassword /\ ~IsPasswordSet
           /\ UNCHANGED faults
  <2>1. q \in Progress /\ Kept(r, q) /\ q.pc = "hashing" /\ q.pw \in Password
        /\ q.status = req[r].status
    BY <1>1, <1>3 DEF Progress, Kept
  <2> HIDE DEF q
  <2>2. Good(r, q)
    BY <1>1, <1>3, <2>1 DEF Good, Kept
  <2> QED
    BY <1>1, <1>2, <1>3, <2>1, <2>2, QuietRequest DEF TypeOK, SessionTypeOK
<1>4. CASE Failed(r) /\ (Fault("db") \/ UNCHANGED faults)
  BY <1>1, <1>2, <1>4, HandledInv DEF Failed
<1> QED
  BY <1>3, <1>4 DEF SetupChecks

LEMMA LetInType ==
  ASSUME IInv, NEW r \in Request, LetIn(r)
  PROVE  /\ Authenticated(req[r].cookie) \in Cookie
         /\ Authenticated(req[r].cookie).key = key
         /\ lastSid' \in Nat
BY DEF IInv, TypeOK, SessionTypeOK, Progress, Cookie, LetIn, SetAuthenticated,
       Authenticated, IsAuthenticated

LEMMA LoginChecksInv ==
  ASSUME IInv, NEW r \in Request, LoginChecks(r) PROVE IInv'
<1> DEFINE q == [req[r] EXCEPT !.pc = "hashing"]
<1>1. TypeOK /\ req[r] \in Progress /\ Good(r, req[r]) /\ req[r] # Idle
      /\ req[r].pc = "received" /\ req[r].route = "login"
  BY GoodHolds DEF IInv, TypeOK, LoginChecks, At, Idle
<1>2. UNCHANGED <<hash, key, lastSid, serverVars, auditVars>>
  BY DEF LoginChecks, sessionVars
<1>3. CASE req' = [req EXCEPT ![r] = q] /\ VerifyPassword(req[r].pw) /\ UNCHANGED faults
  <2>1. q \in Progress /\ Kept(r, q) /\ q.pc = "hashing" /\ q.pw \in Password
        /\ q.status = req[r].status
    BY <1>1, <1>3 DEF Progress, Kept, VerifyPassword
  <2>2. IsPasswordSet
    BY <1>3 DEF VerifyPassword, IsPasswordSet
  <2> HIDE DEF q
  <2>3. Good(r, q)
    BY <1>1, <2>1, <2>2 DEF Good, Kept
  <2> QED
    BY <1>1, <1>2, <1>3, <2>1, <2>3, QuietRequest DEF TypeOK, SessionTypeOK
<1>4. CASE Failed(r) /\ (Fault("db") \/ UNCHANGED faults)
  BY <1>1, <1>2, <1>4, HandledInv DEF Failed
<1> QED
  BY <1>3, <1>4 DEF LoginChecks

LEMMA LoginEntersInv ==
  ASSUME IInv, NEW r \in Request, LoginEnters(r) PROVE IInv'
<1> DEFINE c == Authenticated(req[r].cookie)
           q == [req[r] EXCEPT !.pc = "handled", !.status = "ok",
                               !.pw = NoPassword, !.cookie = c,
                               !.unread = Unreadable(req[r].cookie)]
<1>1. TypeOK /\ req[r] \in Progress /\ Good(r, req[r]) /\ req[r] # Idle
      /\ req[r].pc = "hashing" /\ req[r].route = "login"
  BY GoodHolds DEF IInv, TypeOK, LoginEnters, At, Idle
<1>2. UNCHANGED <<hash, key, serverVars, auditVars, faults>> /\ LetIn(r)
  BY DEF LoginEnters
<1>3. c \in Cookie /\ c.key = key /\ lastSid' \in Nat
  BY <1>2, LetInType
<1> HIDE DEF c
<1>4. q \in Progress /\ q.cookie = c /\ q.by = req[r].by
    /\ q.route = "login" /\ q.pc = "handled" /\ q.status = "ok"
  BY <1>1, <1>3 DEF Progress, Unreadable
<1>5. req' = [req EXCEPT ![r] = q]
  BY <1>2 DEF LetIn, Handled, c
<1> HIDE DEF q
<1>6. IsPasswordSet /\ key \in Nat
  BY <1>1 DEF Good, TypeOK, SessionTypeOK
<1>7. Good(r, q)
  BY <1>1, <1>3, <1>4, <1>6 DEF Good, GoodSession, Credentials
<1> QED
  BY <1>1, <1>2, <1>3, <1>4, <1>5, <1>7, QuietRequest DEF TypeOK

LEMMA RefusedInv ==
  ASSUME IInv, NEW r \in Request, Refused(r), req[r].pc = "received",
         req[r].route \in {"change", "logout"},
         UNCHANGED <<sessionVars, serverVars, auditVars, faults>>
  PROVE  IInv'
<1> DEFINE q == [req[r] EXCEPT !.pc = "answering", !.status = "unauthorized"]
<1>1. TypeOK /\ req[r] \in Progress /\ Good(r, req[r]) /\ req[r] # Idle
  BY GoodHolds DEF IInv, TypeOK, Idle
<1>2. q \in Progress /\ Kept(r, q) /\ q.pc = "answering" /\ q.status = "unauthorized"
  BY <1>1 DEF Progress, Kept
<1>3. req' = [req EXCEPT ![r] = q]
  BY DEF Refused
<1> HIDE DEF q
<1>4. Good(r, q)
  BY <1>1, <1>2 DEF Good, Kept, Credentials
<1> QED
  BY <1>1, <1>2, <1>3, <1>4, QuietRequest DEF TypeOK, SessionTypeOK, sessionVars

LEMMA GatedInv ==
  ASSUME IInv, NEW r \in Request, EnterChange(r) \/ Change(r) \/ Logout(r) PROVE IInv'
<1> DEFINE w == [req[r] EXCEPT !.pc = "working"]
           l == [req[r] EXCEPT !.pc = "answering", !.status = "ok", !.cookie = NoCookie]
<1>1. TypeOK /\ req[r] \in Progress /\ Good(r, req[r]) /\ req[r] # Idle
      /\ req[r].pc \in {"received", "working"}
  BY GoodHolds DEF IInv, TypeOK, EnterChange, Change, Logout, At, Idle
<1>2. UNCHANGED <<sessionVars, serverVars, auditVars, faults>>
  BY DEF EnterChange, Change, Logout
<1>3. CASE EnterChange(r) /\ IsAuthenticated(req[r].cookie)
  <2>1. w \in Progress /\ Kept(r, w) /\ w.pc = "working" /\ w.route = "change"
    BY <1>1, <1>3 DEF Progress, Kept, EnterChange, At
  <2>2. req' = [req EXCEPT ![r] = w] /\ req[r].pc = "received"
    BY <1>3 DEF EnterChange, At
  <2> HIDE DEF w
  <2>3. Good(r, w)
    BY <1>1, <1>3, <2>1, <2>2 DEF Good, GoodSession, Kept
  <2> QED
    BY <1>1, <1>2, <2>1, <2>2, <2>3, QuietRequest DEF TypeOK, SessionTypeOK, sessionVars
<1>4. CASE Change(r)
  BY <1>1, <1>2, <1>4, HandledInv DEF Change, At, sessionVars
<1>5. CASE Logout(r) /\ IsAuthenticated(req[r].cookie)
  <2>1. l \in Progress /\ l.cookie = NoCookie /\ l.by = req[r].by /\ l.pc = "answering" /\ l.route = "logout"
    <3>1. NoCookie \in Cookie
      BY DEF NoCookie, Cookie
    <3> QED
      BY <1>1, <1>5, <3>1 DEF Progress, Logout, At
  <2>2. req' = [req EXCEPT ![r] = l]
    BY <1>5 DEF Logout
  <2>3. ~IsAuthenticated(NoCookie) /\ NoCookie.key <= key
    BY <1>1 DEF IsAuthenticated, NoCookie, TypeOK, SessionTypeOK
  <2> HIDE DEF l
  <2>4. Good(r, l)
    BY <1>1, <2>1, <2>3 DEF Good, GoodSession, Credentials
  <2> QED
    BY <1>1, <1>2, <2>1, <2>2, <2>4, QuietRequest DEF TypeOK, SessionTypeOK, sessionVars
<1>6. CASE (EnterChange(r) \/ Logout(r)) /\ ~IsAuthenticated(req[r].cookie)
  BY <1>2, <1>6, RefusedInv DEF EnterChange, Logout, At
<1> QED
  BY <1>3, <1>4, <1>5, <1>6

LEMMA SendInv ==
  ASSUME IInv, NEW b \in Browser, Requests(b)
  PROVE  IInv'
<1> PICK route \in Post \cup (Page \ {"noPage"}), pw \in Password \cup {NoPassword} : Send(b, route, pw)
  BY DEF Requests, Credentials, Post
<1> PICK n \in Request : n = lastReq + 1
  BY DEF IInv, TypeOK, Send, Request
<1> DEFINE q == [Idle EXCEPT !.pc = "received", !.route = route, !.by = b, !.pw = pw,
                             !.cookie = jar[b]]
<1>1. TypeOK /\ lastReq' = n /\ req' = [req EXCEPT ![n] = q]
  BY DEF IInv, TypeOK, Send, Request
<1>2. q \in Progress
  BY <1>1 DEF TypeOK, Idle, Progress, Page, Post
<1>3. TypeOK'
  BY <1>1, <1>2 DEF TypeOK, SessionTypeOK, Send, Request, sessionVars, auditVars
<1>4. GoodJar(jar[b])
  BY GoodHolds
<1>5. UNCHANGED <<hash, key, up, jar, log, unlogged, answered, firstSet>> /\ up
  BY DEF Send, sessionVars, auditVars
<1>6. Named' = Named
  BY <1>5 DEF Named, Known
<1>7. n <= lastReq' /\ req'[n] = q /\ q.pc = "received" /\ q.cookie = jar[b] /\ q.by = b /\ q.status = "none"
  BY <1>1 DEF TypeOK, Request, Idle
<1> HIDE DEF q
<1>8. Good(n, req[n])'
  BY <1>4, <1>5, <1>6, <1>7
  DEF Good, GoodJar, GoodSession, IsAuthenticated, IsPasswordSet, Request
<1>9. \A r \in Request : req'[r] = req[r] \/ r = n
  BY <1>1 DEF TypeOK
<1>10. lastReq <= lastReq'
  BY <1>1 DEF TypeOK
<1> QED
  BY <1>3, <1>5, <1>8, <1>9, <1>10, QuietStep

\* A page is shown, or leads to the next one.
LEMMA ShowInv ==
  ASSUME IInv, NEW r \in Request, Show(r) PROVE IInv'
<1> DEFINE by == req[r].by
           q(p) == [Idle EXCEPT !.pc = "received", !.route = p, !.by = by, !.cookie = jar[by]]
<1>1. TypeOK /\ req[r] \in Progress /\ req[r] # Idle /\ Good(r, req[r])
  BY GoodHolds DEF IInv, TypeOK, Show, Idle
<1>2. faults' \in 0 .. MaxFaults /\ lastSid' \in Nat
      /\ UNCHANGED <<hash, key, serverVars, auditVars>>
  BY <1>1, FaultType DEF Show, sessionVars, TypeOK, SessionTypeOK
<1>3. CASE req' = [req EXCEPT ![r] = Idle]
  <2>1. Idle \in Progress
    BY DEF Idle, Progress, NoCookie, Cookie
  <2> QED
    BY <1>2, <1>3, <2>1, IdleIsGood, QuietRequest
<1>4. ASSUME NEW p \in Page \cup Script, by \in Browser, req' = [req EXCEPT ![r] = q(p)]
      PROVE  IInv'
  <2>1. GoodJar(jar[by]) /\ jar[by] \in Cookie
    BY <1>1, <1>4, GoodHolds DEF TypeOK
  <2>2. q(p) \in Progress
    BY <1>4, <2>1 DEF Idle, Progress
  <2>a. up /\ r <= lastReq
    BY <1>1 DEF Good
  <2>3. Good(r, q(p))
    BY <1>4, <2>1, <2>a, VisitIsGood
  <2> HIDE DEF q
  <2> QED
    BY <1>2, <1>4, <2>2, <2>3, QuietRequest
<1>5. by \in Browser
  BY <1>1 DEF Good
<1>6. NextPage(req[r].route, req[r].cookie) \in Page \cup Script \cup {"none"}
  BY <1>1 DEF NextPage, Page, Script, Progress, Post
<1> QED
  BY <1>3, <1>4, <1>5, <1>6 DEF Show, Visit

LEMMA AnswerLostInv ==
  ASSUME IInv, NEW r \in Request, AnswerLost(r) PROVE IInv'
<1>1. Idle \in Progress /\ TypeOK
  BY DEF IInv, Idle, Progress, NoCookie, Cookie
<1> QED
  BY <1>1, IdleIsGood, FaultType, QuietRequest
  DEF AnswerLost, sessionVars, TypeOK, SessionTypeOK

\* The answer carries a session that the log already names.
LEMMA AnswerInv ==
  ASSUME IInv, NEW r \in Request, Answer(r) PROVE IInv'
<1> DEFINE by == req[r].by
           status == req[r].status
           route == req[r].route
           c == IF status = "ok" /\ route # "change" THEN req[r].cookie ELSE jar[by]
           q(p) == [Idle EXCEPT !.pc = "received", !.route = p, !.by = by, !.cookie = c]
<1>1. TypeOK /\ req[r] \in Progress /\ req[r] # Idle /\ req[r].pc = "answering"
      /\ Good(r, req[r]) /\ by \in Browser
  BY GoodHolds DEF IInv, TypeOK, Answer, Idle, Good
<1>2. jar' = [jar EXCEPT ![by] = c] /\ Follow(r, c)
      /\ UNCHANGED <<hash, key, lastSid, up, lastReq, log, unlogged, firstSet, faults>>
  BY DEF Answer, sessionVars
<1>3. c \in Cookie /\ GoodJar(c)
  <2>1. CASE status = "ok" /\ route # "change"
    BY <1>1, <2>1 DEF Good, GoodJar, Progress
  <2>2. CASE ~(status = "ok" /\ route # "change")
    BY <1>1, <2>2, GoodHolds DEF TypeOK
  <2> QED
    BY <2>1, <2>2
<1> HIDE DEF c
<1>4. \E s \in Progress : Good(r, s) /\ req' = [req EXCEPT ![r] = s]
  <2>1. Idle \in Progress /\ Good(r, Idle)
    BY <1>1, IdleIsGood DEF Idle, Progress, NoCookie, Cookie
  <2>2. ASSUME NEW p \in Page PROVE q(p) \in Progress /\ Good(r, q(p))
    <3>1. q(p) \in Progress
      BY <1>1, <1>3 DEF Idle, Progress
    <3>2. up /\ r <= lastReq /\ p \in Page \cup Script
      BY <1>1, <2>2 DEF Good
    <3>3. Good(r, q(p))
      BY <1>1, <1>3, <3>2, VisitIsGood
    <3> QED
      BY <3>1, <3>3
  <2>3. \/ req' = [req EXCEPT ![r] = Idle]
        \/ \E p \in Page : req' = [req EXCEPT ![r] = q(p)]
    BY <1>2 DEF Follow, Visit, Page
  <2> HIDE DEF q
  <2> QED
    BY <2>1, <2>2, <2>3
<1> PICK s \in Progress : Good(r, s) /\ req' = [req EXCEPT ![r] = s]
  BY <1>4
<1>5. answered' = answered \/ (answered' = answered \cup {r} /\ \E e \in Known : e.no = r)
  BY <1>1 DEF Answer, Good
<1>6. TypeOK'
  BY <1>1, <1>2, <1>3, <1>5 DEF TypeOK, SessionTypeOK
<1>7. Known' = Known /\ Named' = Named
  BY <1>2 DEF Known, Named
<1>8. /\ req'[r] = s /\ \A n \in Request \ {r} : req'[n] = req[n]
      /\ jar'[by] = c /\ \A b \in Browser \ {by} : jar'[b] = jar[b]
  BY <1>1, <1>2 DEF TypeOK
<1>9. Good(r, req[r])'
  BY <1>2, <1>7, <1>8 DEF Good, GoodSession, IsAuthenticated, IsPasswordSet
<1>10. \A b \in Browser : jar'[b] = jar[b] \/ GoodJar(jar[b])'
  BY <1>2, <1>3, <1>7, <1>8 DEF GoodJar, GoodSession, IsAuthenticated, IsPasswordSet
<1>11. lastReq <= lastReq'
  BY <1>1, <1>2 DEF TypeOK
<1> QED
  BY <1>2, <1>5, <1>6, <1>8, <1>9, <1>10, <1>11, QuietStep

LEMMA ExpiresInv ==
  ASSUME IInv, NEW b \in Browser, CookieExpires(b) PROVE IInv'
<1>1. TypeOK /\ NoCookie \in Cookie
  BY DEF IInv, NoCookie, Cookie
<1>2. jar' = [jar EXCEPT ![b] = NoCookie]
      /\ UNCHANGED <<hash, key, lastSid, up, lastReq, req, log, unlogged, answered, firstSet, faults>>
  BY DEF CookieExpires, sessionVars, auditVars
<1>3. TypeOK' /\ lastReq <= lastReq'
  BY <1>1, <1>2 DEF TypeOK, SessionTypeOK
<1>4. \A a \in Browser : jar'[a] = jar[a] \/ GoodJar(jar[a])'
  BY <1>1, <1>2 DEF TypeOK, SessionTypeOK, GoodJar, GoodSession, IsAuthenticated, NoCookie
<1> QED
  BY <1>2, <1>3, <1>4, QuietStep

\* Setup stores and lets in; whoever is in by then is known already.
LEMMA SetupStoresInv ==
  ASSUME IInv, NEW r \in Request, SetupStores(r) PROVE IInv'
<1> DEFINE c == Authenticated(req[r].cookie)
           q == [req[r] EXCEPT !.pc = "handled", !.status = "ok",
                               !.pw = NoPassword, !.cookie = c,
                               !.unread = Unreadable(req[r].cookie)]
<1>1. TypeOK /\ req[r] \in Progress /\ Good(r, req[r]) /\ req[r] # Idle
      /\ req[r].pc = "hashing" /\ req[r].route = "setup"
  BY GoodHolds DEF IInv, TypeOK, SetupStores, At, Idle
<1>2. CASE Failed(r) /\ Fault("db") /\ UNCHANGED <<hash, lastSid, firstSet>>
  <2>1. UNCHANGED <<hash, key, lastSid, serverVars, auditVars>>
    BY <1>2 DEF SetupStores, auditVars
  <2> QED
    BY <1>1, <1>2, <2>1, HandledInv DEF Failed
<1>3. CASE /\ SetPasswordHash(req[r].pw) /\ LetIn(r) /\ UNCHANGED faults
           /\ firstSet' = IF IsPasswordSet THEN firstSet ELSE lastReq
  <2>1. c \in Cookie /\ c.key = key /\ lastSid' \in Nat
    BY <1>3, LetInType
  <2>2. UNCHANGED <<key, up, jar, lastReq, log, unlogged, answered, faults>>
    BY <1>3 DEF SetupStores, serverVars
  <2> HIDE DEF c
  <2>3. q \in Progress /\ q.cookie = c /\ q.by = req[r].by
        /\ q.route = "setup" /\ q.pc = "handled" /\ q.status = "ok"
    BY <1>1, <2>1 DEF Progress, Unreadable
  <2>4. req' = [req EXCEPT ![r] = q]
    BY <1>3 DEF LetIn, Handled, c
  <2> HIDE DEF q
  <2>5. hash' \in Password /\ IsPasswordSet'
    BY <1>1, <1>3 DEF Good, SetPasswordHash, IsPasswordSet
  <2>6. lastReq \in Nat /\ firstSet \in Nat /\ firstSet <= lastReq /\ firstSet' <= lastReq'
        /\ r <= lastReq
    BY <1>1, <1>3, <2>2 DEF IInv, Shape, TypeOK, Good
  <2>7. TypeOK'
    BY <1>1, <1>3, <2>1, <2>2, <2>3, <2>4, <2>5 DEF TypeOK, SessionTypeOK
  <2>8. Known' = Known /\ Named' = Named
    BY <2>2 DEF Known, Named
  <2>9. Grows
    BY <1>3, <2>2, <2>5, <2>6, <2>8 DEF Grows
  <2>10. req'[r] = q /\ \A s \in Request \ {r} : req'[s] = req[s]
    BY <1>1, <2>4 DEF TypeOK
  <2>11. r <= firstSet'
    <3>1. CASE IsPasswordSet
      BY <1>1, <1>3, <2>6, <3>1 DEF Good, Request
    <3>2. CASE ~IsPasswordSet
      BY <1>3, <2>6, <3>2
    <3> QED
      BY <3>1, <3>2
  <2>12. key \in Nat /\ firstSet' \in Nat
    BY <1>1, <2>7 DEF TypeOK, SessionTypeOK
  <2>13. Good(r, req[r])'
    BY <1>1, <2>1, <2>2, <2>3, <2>5, <2>6, <2>10, <2>11, <2>12
    DEF Good, GoodSession, Credentials, Request
  <2>14. AnsweredIsAudited' /\ AuditNamesActors'
    BY <2>2, <2>8 DEF IInv, AnsweredIsAudited, AuditNamesActors
  <2> QED
    BY <2>2, <2>6, <2>7, <2>9, <2>10, <2>13, <2>14, StepInv
<1> QED
  BY <1>2, <1>3 DEF SetupStores

\* An entry at the end of the log leaves the others where they are.
LEMMA AppendEntry ==
  ASSUME NEW s \in Seq(Entry), NEW e \in Entry
  PROVE  LET t == Append(s, e)
         IN  /\ t \in Seq(Entry) /\ Len(s) \in Nat
             /\ DOMAIN s = 1 .. Len(s) /\ DOMAIN t = 1 .. Len(s) + 1
             /\ \A i \in 1 .. Len(s) : t[i] = s[i]
             /\ t[Len(s) + 1] = e
OBVIOUS

LEMMA AuditInv ==
  ASSUME IInv, NEW r \in Request, Audit(r) PROVE IInv'
<1> DEFINE q == [req[r] EXCEPT !.pc = "answering"]
           e == AuditEntry(r)
<1>1. TypeOK /\ req[r] \in Progress /\ Good(r, req[r]) /\ req[r] # Idle
      /\ req[r].pc = "handled"
  BY GoodHolds DEF IInv, TypeOK, Audit, Idle
<1>2. UNCHANGED <<hash, key, lastSid, up, jar, lastReq, answered, firstSet>>
      /\ req' = [req EXCEPT ![r] = q]
  BY DEF Audit, sessionVars, serverVars
<1>3. q \in Progress /\ Kept(r, q) /\ q.pc = "answering" /\ q.status = req[r].status
  BY <1>1 DEF Progress, Kept
<1>4. /\ e \in Entry /\ e.no = r
      /\ IsAuthenticated(req[r].cookie) => e.session = req[r].cookie.sid
      /\ e.actor # Anonymous => IsAuthenticated(req[r].cookie) /\ e.actor = e.session
      /\ e.actor = e.session \/ e.unread
      /\ req[r].status = "ok" /\ req[r].route \in Credentials => e.action \in Entrance
  BY <1>1 DEF AuditEntry, AuditAction, Entry, SessionID, Anonymous, Progress, Cookie,
              Entrance, Credentials
<1>5. req'[r] = q /\ \A s \in Request \ {r} : req'[s] = req[s]
  BY <1>1, <1>2 DEF TypeOK
<1> HIDE DEF q, e
<1>6. AnsweredIsAudited /\ AuditNamesActors /\ firstSet <= lastReq
      /\ lastReq \in Nat
  BY <1>1 DEF IInv, Shape, TypeOK
<1>7. CASE e \in Known' /\ Known \subseteq Known' /\ TypeOK' /\ AuditNamesActors'
  <2>1. Grows
    BY <1>2, <1>6, <1>7 DEF Grows, IsPasswordSet
  <2>2. Named \subseteq Named'
    BY <2>1, NamedGrows
  <2>3. req[r].status = "ok" /\ req[r].route \in Credentials /\ IsAuthenticated(req[r].cookie)
          => req[r].cookie.sid \in Named'
    <3>1. req[r].cookie.sid \in Nat
      BY <1>1 DEF Progress, Cookie
    <3> QED
      BY <1>4, <1>7, <3>1 DEF Named, Entered, Entrance
  <2>4. Good(r, req[r])'
    BY <1>1, <1>2, <1>3, <1>4, <1>5, <1>7, <2>2, <2>3
    DEF Good, GoodSession, Kept, IsAuthenticated, IsPasswordSet
  <2>5. AnsweredIsAudited'
    BY <1>2, <1>6, <1>7 DEF AnsweredIsAudited
  <2> QED
    BY <1>2, <1>5, <1>6, <1>7, <2>1, <2>4, <2>5, StepInv
<1>8. CASE log' = Append(log, e) /\ UNCHANGED <<unlogged, faults>>
  <2> DEFINE n == Len(log)
  <2>1. /\ log' \in Seq(Entry) /\ n \in Nat
        /\ DOMAIN log = 1 .. n /\ DOMAIN log' = 1 .. n + 1
        /\ \A i \in 1 .. n : log'[i] = log[i]
        /\ log'[n + 1] = e
    BY <1>1, <1>4, <1>8, AppendEntry DEF TypeOK
  <2> HIDE DEF n
  <2>2. TypeOK'
    BY <1>1, <1>2, <1>3, <1>8, <2>1 DEF TypeOK, SessionTypeOK
  <2>3. e \in Known' /\ Known \subseteq Known'
    BY <1>8, <2>1 DEF Known
  <2>4. AuditNamesActors'
    <3> SUFFICES ASSUME NEW i \in 1 .. n + 1, log'[i].actor # Anonymous
                 PROVE  \E f \in {log'[k] : k \in 1 .. i} \cup unlogged :
                          Entered(f, log'[i].actor)
      BY <1>8, <2>1 DEF AuditNamesActors, Entered, Entrance
    <3>1. CASE i \in 1 .. n
      <4>1. \A k \in 1 .. i : log'[k] = log[k]
        BY <2>1, <3>1
      <4>2. PICK f \in {log[k] : k \in 1 .. i} \cup unlogged :
                   Entered(f, log[i].actor)
        BY <1>6, <2>1, <3>1 DEF AuditNamesActors
      <4> QED
        BY <2>1, <3>1, <4>1, <4>2
    <3>2. CASE i = n + 1
      <4>1. IsAuthenticated(req[r].cookie) /\ e.actor = req[r].cookie.sid
             /\ e.session = e.actor /\ log'[i] = e
        BY <1>4, <2>1, <3>2
      <4>2. CASE e.action \in Entrance
        BY <1>4, <2>1, <3>2, <4>1, <4>2 DEF Entered
      <4>3. CASE req[r].cookie.sid \in Named
        <5>1. PICK f \in Known : Entered(f, e.actor)
          BY <4>1, <4>3 DEF Named
        <5>2. f \in {log'[k] : k \in 1 .. i} \cup unlogged
          BY <2>1, <3>2, <5>1 DEF Known
        <5> QED
          BY <4>1, <5>1, <5>2
      <4> QED
        BY <1>1, <1>4, <4>1, <4>2, <4>3 DEF Good
    <3> QED
      BY <2>1, <3>1, <3>2
  <2> QED
    BY <1>7, <2>2, <2>3, <2>4
<1>9. CASE UNCHANGED log /\ unlogged' = unlogged \cup {e} /\ faults' \in 0 .. MaxFaults
  <2>1. TypeOK'
    BY <1>1, <1>2, <1>3, <1>4, <1>9 DEF TypeOK, SessionTypeOK
  <2>2. e \in Known' /\ Known \subseteq Known'
    BY <1>9 DEF Known
  <2>3. AuditNamesActors'
    BY <1>6, <1>9 DEF AuditNamesActors
  <2> QED
    BY <1>7, <2>1, <2>2, <2>3
<1>10. CASE /\ req[r].status # "ok" /\ req[r].route \notin Credentials
            /\ UNCHANGED <<log, unlogged, faults>>
  <2>1. Good(r, q)
    BY <1>1, <1>3, <1>10 DEF Good, Kept
  <2>2. UNCHANGED auditVars /\ UNCHANGED serverVars
    BY <1>2, <1>10 DEF auditVars, serverVars
  <2> QED
    BY <1>1, <1>2, <1>3, <1>10, <2>1, <2>2, QuietRequest DEF TypeOK, SessionTypeOK
<1> QED
  BY <1>1, <1>8, <1>9, <1>10, FaultType DEF Audit, e

\* The process ends or starts, or the database goes: no request is under way,
\* and after a new key nobody is in.
LEMMA ProcessInv ==
  ASSUME IInv, Stops \/ Starts \/ DeleteDatabase PROVE IInv'
<1>1. TypeOK /\ Idle \in Progress
  BY DEF IInv, Idle, Progress, NoCookie, Cookie
<1>2. \A r \in Request : req'[r] = Idle
  BY DEF IInv, Shape, Stops, Starts, DeleteDatabase
<1>3. UNCHANGED <<jar, lastReq, lastSid>> /\ firstSet' \in {0, firstSet}
  BY DEF Stops, Starts, DeleteDatabase, sessionVars, serverVars, auditVars
<1>4. key' = key \/ key' = key + 1
  BY DEF Stops, Starts, DeleteDatabase, sessionVars, FreshKey
<1>5. key \in Nat /\ key # 0 /\ key' # 0 /\ lastReq \in Nat /\ firstSet \in Nat
  BY <1>1, <1>4 DEF TypeOK, SessionTypeOK
<1>6. TypeOK'
  <2>1. CASE Stops
    BY <1>1, <2>1 DEF TypeOK, SessionTypeOK, Stops, sessionVars, auditVars
  <2>2. CASE Starts
    BY <1>1, <2>2 DEF TypeOK, SessionTypeOK, Starts, FreshKey, Fault, auditVars
  <2>3. CASE DeleteDatabase
    BY <1>1, <2>3 DEF TypeOK, SessionTypeOK, DeleteDatabase, FreshKey, Fault, serverVars
  <2> QED
    BY <2>1, <2>2, <2>3
<1>7. KeyOrder /\ KeyOrder'
  BY <1>1, <1>2, <1>3, <1>4, <1>5 DEF IInv, KeyOrder, Idle, NoCookie, TypeOK, Cookie
<1>8. Shape'
  <2>1. Idle.pc = "idle" /\ Idle.status = "none"
    BY DEF Idle
  <2>2. firstSet' <= lastReq'
    BY <1>3, <1>5 DEF IInv, Shape
  <2> QED
    BY <1>2, <2>1, <2>2 DEF Shape
<1>9. OneTimeSetup' /\ LoggedFirst'
  BY <1>2 DEF OneTimeSetup, LoggedFirst, Idle
<1>10. AnsweredIsAudited' /\ AuditNamesActors'
  <2>1. CASE UNCHANGED <<log, unlogged, answered>>
    BY <2>1 DEF IInv, AnsweredIsAudited, AuditNamesActors, Known
  <2>2. CASE log' = << >> /\ answered' = {}
    BY <2>2 DEF AnsweredIsAudited, AuditNamesActors
  <2> QED
    BY <2>1, <2>2 DEF Stops, Starts, DeleteDatabase, auditVars
<1>11. \A r \in Request : ~IsAuthenticated(req[r].cookie)' /\ req'[r].pc # "working"
  BY <1>2, <1>5 DEF IsAuthenticated, Idle, NoCookie
<1>12. \A b \in Browser : IsAuthenticated(jar[b])' => key' = key
  BY <1>1, <1>3, <1>4, <1>5, <1>7 DEF IsAuthenticated, KeyOrder, TypeOK, Cookie
<1>13. key' = key => UNCHANGED <<hash, log, unlogged>>
  BY <1>5 DEF Stops, Starts, DeleteDatabase, FreshKey, sessionVars, auditVars
<1>14. EntryNeedsPassword'
  BY <1>3, <1>11, <1>12, <1>13 DEF IInv, EntryNeedsPassword, IsAuthenticated, IsPasswordSet
<1>15. SessionsNamed'
  BY <1>3, <1>11, <1>12, <1>13 DEF IInv, SessionsNamed, IsAuthenticated, Named, Known
<1> QED
  BY <1>6, <1>7, <1>8, <1>9, <1>10, <1>14, <1>15 DEF IInv

LEMMA NextInv == IInv /\ [Next]_vars => IInv'
<1> SUFFICES ASSUME IInv, [Next]_vars PROVE IInv'
  OBVIOUS
<1>1. ASSUME NEW b \in Browser, Requests(b) \/ CookieExpires(b) PROVE IInv'
  BY <1>1, SendInv, ExpiresInv
<1>2. ASSUME NEW r \in Request, Handle(r) PROVE IInv'
  BY <1>2, SetupChecksInv, SetupStoresInv, LoginChecksInv, LoginEntersInv, GatedInv, AuditInv, AnswerInv,
     AnswerLostInv, ShowInv DEF Handle
<1>3. CASE Stops \/ Starts \/ DeleteDatabase
  BY <1>3, ProcessInv
<1>4. CASE UNCHANGED vars
  BY <1>4 DEF vars, sessionVars, serverVars, auditVars, IInv, TypeOK, SessionTypeOK, Shape,
     KeyOrder, EntryNeedsPassword, OneTimeSetup, LoggedFirst, AnsweredIsAudited,
     SessionsNamed, AuditNamesActors, IsAuthenticated, IsPasswordSet, Named, Known
<1> QED
  BY <1>1, <1>2, <1>3, <1>4 DEF Next

-----------------------------------------------------------------------------

\* The inductive invariant, for every instance.  (handlers_login.go, middleware.go)
THEOREM Invariance == Spec => []IInv
<1>1. Init => IInv
  BY InitInv
<1>2. IInv /\ [Next]_vars => IInv'
  BY NextInv
<1> QED
  BY <1>1, <1>2, PTL DEF Spec

\* A session or a rule change in progress means that a password is set.
\* (handlers_login.go:81-108)
THEOREM EntryNeedsPasswordHolds == Spec => []EntryNeedsPassword
BY Invariance, PTL DEF IInv

\* A setup that comes after the password is refused.  (handlers_login.go:76-86)
THEOREM OneTimeSetupHolds == Spec => []OneTimeSetup
BY Invariance, PTL DEF IInv

\* What has been answered is in the audit log.  (middleware.go:100-130)
THEOREM AnsweredIsAuditedHolds == Spec => []AnsweredIsAudited
BY Invariance, PTL DEF IInv

\* The audit log knows where its actors came in.  (sessions.go:54-71)
THEOREM AuditNamesActorsHolds == Spec => []AuditNamesActors
BY Invariance, PTL DEF IInv

=============================================================================
