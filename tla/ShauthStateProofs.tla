-------------------------- MODULE ShauthStateProofs --------------------------
(***************************************************************************)
(* Proofs about ShauthState, for any number of sessions, tokens, replicas  *)
(* and handlers and any times that satisfy the named assumptions.          *)
(***************************************************************************)
EXTENDS ShauthState, TLAPS

(* Types *)

LEMMA IdleTypes ==
  /\ AnySubject \in Subjects
  /\ NoToken \in Token /\ IdleCallback \in CallbackCall
  /\ IdleRequest \in RequestCall /\ IdleNotice \in NoticeCall
<1>1. AnySubject \in Subjects
  BY SubjectsAssumption DEF AnySubject
<1>2. NoToken \in Token
  BY <1>1 DEF NoToken, Token, AnySid
<1>3. IdleCallback \in CallbackCall
  BY <1>1 DEF IdleCallback, CallbackCall, AnySid
<1>4. IdleRequest \in RequestCall
  BY DEF IdleRequest, RequestCall, AnySid
<1>5. IdleNotice \in NoticeCall
  <2> HIDE DEF NoToken, Token
  <2> QED BY <1>2 DEF IdleNotice, NoticeCall
<1> QED BY <1>1, <1>2, <1>3, <1>4, <1>5

LEMMA AfterType ==
  ASSUME NEW kind \in {"page", "logout", "front"}, NEW ok \in BOOLEAN
  PROVE  After(kind, ok) \in {"idle", "admitted", "delete", "listFront"}
  BY DEF After

LEMMA WithoutType ==
  ASSUME sessions \in [SessionIds -> Session], NEW id
  PROVE  Without(id) \in [SessionIds -> Session]
<1>1. CASE Present(id) /\ id \in SessionIds
  <2>1. [sessions[id] EXCEPT !.file = "removed"] \in Session
    BY <1>1 DEF Session
  <2> HIDE DEF Session
  <2> QED BY <1>1, <2>1 DEF Without
<1>2. CASE ~(Present(id) /\ id \in SessionIds)
  <2> HIDE DEF Session
  <2> QED BY <1>2 DEF Without
<1> QED BY <1>1, <1>2

\* What a step of a request that only moves its pc leaves behind.
LEMMA BecomesType ==
  ASSUME requests \in [Requests -> RequestCall], NEW r \in Requests,
         NEW pc \in {"idle", "list", "scan", "drop", "admitted", "delete", "listFront", "front"},
         Becomes(r, pc)
  PROVE  /\ requests' \in [Requests -> RequestCall]
         /\ requests'[r].pc # "purge"
         /\ requests'[r].now \in {0, requests[r].now}
         /\ \A q \in Requests \ {r} : requests'[q] = requests[q]
<1> DEFINE rec == [requests[r] EXCEPT !.pc = pc]
           new == IF pc = "idle" THEN IdleRequest ELSE rec
<1>1. rec \in RequestCall /\ rec.pc = pc /\ rec.now = requests[r].now
  BY DEF RequestCall
<1>2. IdleRequest \in RequestCall /\ IdleRequest.pc = "idle" /\ IdleRequest.now = 0
  BY IdleTypes DEF IdleRequest
<1> HIDE DEF rec
<1>3. new \in RequestCall /\ new.pc # "purge" /\ new.now \in {0, requests[r].now}
  BY <1>1, <1>2
<1>4. requests' = [requests EXCEPT ![r] = new]
  BY DEF Becomes, rec
<1> HIDE DEF new
<1> QED BY <1>3, <1>4

-----------------------------------------------------------------------------
LEMMA TypeInit == Init => TypeOK
<1> SUFFICES ASSUME Init PROVE TypeOK
  OBVIOUS
<1>1. /\ now \in Nat /\ accepted \subseteq Acceptance /\ ended \subseteq SessionIds \cup {None}
      /\ grants \in [Jtis -> Nat]
  BY DEF Init
<1>2. sessions \in [SessionIds -> Session]
  BY IdleTypes DEF Init, Session, AnySid
<1>3. claims \in [Jtis -> Claim]
  BY IdleTypes DEF Init, Claim, AnySid
<1>4. tokens \in [Jtis -> Token] /\ callbacks \in [Callbacks -> CallbackCall]
  BY IdleTypes DEF Init
<1>5. requests \in [Requests -> RequestCall] /\ notices \in [Notices -> NoticeCall]
  BY IdleTypes DEF Init
<1> QED BY <1>1, <1>2, <1>3, <1>4, <1>5 DEF TypeOK

-----------------------------------------------------------------------------
LEMMA RequestTypes ==
  ASSUME TypeOK, NEW r \in Requests, Request(r)
  PROVE  requests' \in [Requests -> RequestCall]
<1>0. requests \in [Requests -> RequestCall] /\ requests[r] \in RequestCall
  BY DEF TypeOK
<1>k. requests[r].kind \in {"page", "logout", "front"}
  BY <1>0 DEF RequestCall
<1>1. ASSUME NEW kind \in Kinds, NEW id \in SessionIds \cup {None}, NEW sid \in AnySid,
             Begin(r, kind, id, sid)
      PROVE  requests' \in [Requests -> RequestCall]
  <2> DEFINE about == {i \in SessionIds : kind = "front" /\ Present(i) /\ sessions[i].sid = sid}
             pc == IF id = None \/ ~Present(id) THEN After(kind, FALSE)
                   ELSE IF sessions[id].expires <= now THEN "drop" ELSE "list"
             rec == [pc |-> pc, kind |-> kind, id |-> id, now |-> now, sid |-> sid, todo |-> {},
                     cur |-> None, left |-> {}, about |-> about, known |-> accepted, over |-> ended]
  <2>1. requests' = [requests EXCEPT ![r] = rec]
    BY <1>1 DEF Begin
  <2>2. kind \in {"page", "logout", "front"}
    BY KindsAssumption
  <2>3. pc \in {"idle", "list", "drop", "admitted", "delete", "listFront"}
    BY <2>2, AfterType
  <2>4. about \in SUBSET SessionIds /\ now \in Nat
        /\ accepted \in SUBSET Acceptance /\ ended \in SUBSET (SessionIds \cup {None})
    BY DEF TypeOK
  <2> HIDE DEF pc, about
  <2>5. rec \in RequestCall
    BY <2>2, <2>3, <2>4 DEF RequestCall
  <2> HIDE DEF rec
  <2> QED BY <1>0, <2>1, <2>5
<1>2. CASE List(r)
  <2> DEFINE todo == {j \in Jtis : claims[j].file}
             rec == [requests[r] EXCEPT !.pc = "scan", !.todo = todo]
  <2>1. requests' = [requests EXCEPT ![r] = rec]
    BY <1>2, <1>0 DEF List
  <2>2. todo \in SUBSET Jtis
    OBVIOUS
  <2> HIDE DEF todo
  <2>3. rec \in RequestCall
    BY <1>0, <2>2 DEF RequestCall
  <2> HIDE DEF rec
  <2> QED BY <1>0, <2>1, <2>3
<1>3. ASSUME NEW j \in Jtis, Scan(r, j)
      PROVE  requests' \in [Requests -> RequestCall]
  <2> DEFINE expired == claims[j].file /\ claims[j].expires <= requests[r].now
             pc == CASE ~claims[j].file -> "scan"
                     [] claims[j].file /\ claims[j].expires <= requests[r].now -> "purge"
                     [] OTHER -> IF Revokes(claims[j], sessions[requests[r].id]) THEN "drop" ELSE "scan"
             cur == IF claims[j].file /\ claims[j].expires <= requests[r].now THEN j ELSE None
             todo == requests[r].todo \ {j}
             rec == [requests[r] EXCEPT !.todo = todo, !.cur = cur, !.pc = pc]
  <2>1. requests' = [requests EXCEPT ![r] = rec]
    BY <1>3, <1>0 DEF Scan
  <2>2. pc \in {"scan", "purge", "drop"} /\ cur \in Jtis \cup {None}
    OBVIOUS
  <2>3. todo \in SUBSET Jtis
    BY <1>0 DEF RequestCall
  <2> HIDE DEF pc, cur, todo
  <2>4. rec \in RequestCall
    BY <1>0, <2>2, <2>3 DEF RequestCall
  <2> HIDE DEF rec
  <2> QED BY <1>0, <2>1, <2>4
<1>4. CASE Purge(r)
  BY <1>0, <1>4, BecomesType DEF Purge
<1>5. CASE InForce(r)
  <2>1. After(requests[r].kind, TRUE) \in {"idle", "admitted", "delete", "listFront"}
    BY <1>k, AfterType
  <2> QED BY <1>0, <1>5, <2>1, BecomesType DEF InForce
<1>6. CASE Drop(r)
  <2>1. After(requests[r].kind, FALSE) \in {"idle", "admitted", "delete", "listFront"}
    BY <1>k, AfterType
  <2> QED BY <1>0, <1>6, <2>1, BecomesType DEF Drop
<1>7. CASE Serve(r)
  BY <1>0, <1>7, BecomesType DEF Serve
<1>8. CASE DeleteSession(r)
  BY <1>0, <1>8, BecomesType DEF DeleteSession
<1>9. CASE ListFront(r)
  <2> DEFINE left == {i \in SessionIds : Present(i)}
             rec == [requests[r] EXCEPT !.pc = "front", !.left = left]
  <2>1. requests' = [requests EXCEPT ![r] = rec]
    BY <1>9, <1>0 DEF ListFront
  <2>2. left \in SUBSET SessionIds
    OBVIOUS
  <2> HIDE DEF left
  <2>3. rec \in RequestCall
    BY <1>0, <2>2 DEF RequestCall
  <2> HIDE DEF rec
  <2> QED BY <1>0, <2>1, <2>3
<1>10. ASSUME NEW id \in SessionIds, ScanFront(r, id)
       PROVE  requests' \in [Requests -> RequestCall]
  <2> DEFINE left == requests[r].left \ {id}
             rec == [requests[r] EXCEPT !.left = left]
  <2>1. requests' = [requests EXCEPT ![r] = rec]
    BY <1>10, <1>0 DEF ScanFront
  <2>2. left \in SUBSET SessionIds
    BY <1>0 DEF RequestCall
  <2> HIDE DEF left
  <2>3. rec \in RequestCall
    BY <1>0, <2>2 DEF RequestCall
  <2> HIDE DEF rec
  <2> QED BY <1>0, <2>1, <2>3
<1>11. CASE EndFront(r)
  BY <1>0, <1>11, BecomesType DEF EndFront
<1>12. CASE StopRequest(r)
  BY <1>0, <1>12, BecomesType DEF StopRequest
<1> QED BY <1>1, <1>2, <1>3, <1>4, <1>5, <1>6, <1>7, <1>8, <1>9, <1>10, <1>11, <1>12 DEF Request

\* Only LinkClaim, RemoveClaim and Purge write claims; only callbacks and
\* deletions write sessions.
LEMMA RequestFiles ==
  ASSUME TypeOK, NEW r \in Requests, Request(r)
  PROVE  /\ sessions' \in [SessionIds -> Session]
         /\ ended' \subseteq SessionIds \cup {None}
         /\ UNCHANGED <<now, tokens, callbacks, notices, accepted, grants>>
         /\ UNCHANGED claims \/ Purge(r)
<1>0. sessions \in [SessionIds -> Session] /\ requests[r] \in RequestCall
      /\ ended \subseteq SessionIds \cup {None}
  BY DEF TypeOK
<1>1. requests[r].id \in SessionIds \cup {None} /\ requests[r].about \subseteq SessionIds
  BY <1>0 DEF RequestCall
<1>2. UNCHANGED <<now, tokens, callbacks, notices, accepted, grants>> /\ (UNCHANGED claims \/ Purge(r))
  BY DEF Request, Begin, List, Scan, Purge, InForce, Drop, Serve, DeleteSession, ListFront,
         ScanFront, EndFront, StopRequest, files, history
<1>3. UNCHANGED sessions \/ \E id : sessions' = Without(id)
  BY DEF Request, Begin, List, Scan, Purge, InForce, Drop, Serve, DeleteSession, ListFront,
         ScanFront, EndFront, StopRequest, files, history
<1>4. \/ UNCHANGED ended
      \/ ended' = ended \cup {requests[r].id}
      \/ ended' = ended \cup requests[r].about
  BY DEF Request, Begin, List, Scan, Purge, InForce, Drop, Serve, DeleteSession, ListFront,
         ScanFront, EndFront, StopRequest, files, history
<1>5. sessions' \in [SessionIds -> Session]
  BY <1>0, <1>3, WithoutType
<1>6. ended' \subseteq SessionIds \cup {None}
  BY <1>0, <1>1, <1>4
<1> QED BY <1>2, <1>5, <1>6

LEMMA TypeNext ==
  ASSUME TypeOK, [Next]_vars
  PROVE  TypeOK'
<1>0. /\ now \in Nat /\ sessions \in [SessionIds -> Session] /\ claims \in [Jtis -> Claim]
      /\ tokens \in [Jtis -> Token] /\ callbacks \in [Callbacks -> CallbackCall]
      /\ requests \in [Requests -> RequestCall] /\ notices \in [Notices -> NoticeCall]
      /\ accepted \subseteq Acceptance /\ grants \in [Jtis -> Nat]
      /\ ended \subseteq SessionIds \cup {None}
  BY DEF TypeOK
<1>a. Skew \in Nat /\ Lifetime \in Nat /\ IdTtls \subseteq Nat /\ TokenTtls \subseteq Nat
  BY TimesAssumption
<1>1. CASE Tick
  <2>1. now' \in Nat
    BY <1>0, <1>1 DEF Tick
  <2> QED BY <1>0, <1>1, <2>1 DEF Tick, TypeOK, files, history
<1>2. CASE Provider
  <2> PICK j \in Jtis, sid \in AnySid, sub \in Subjects, iat \in now..(now + Skew), ttl \in TokenTtls :
        IssueToken(j, sid, sub, iat, ttl)
    BY <1>2 DEF Provider
  <2> DEFINE tok == [sid |-> sid, sub |-> sub, iat |-> iat, exp |-> iat + ttl]
  <2>1. iat \in Nat /\ iat + ttl \in Nat
    BY <1>0, <1>a
  <2>2. tok \in Token
    BY <2>1 DEF Token
  <2>3. tokens' = [tokens EXCEPT ![j] = tok] /\ grants' = [grants EXCEPT ![j] = 0]
    BY DEF IssueToken
  <2> HIDE DEF tok
  <2>4. tokens' \in [Jtis -> Token] /\ grants' \in [Jtis -> Nat]
    BY <1>0, <2>2, <2>3
  <2> QED BY <1>0, <2>4 DEF IssueToken, TypeOK, files
<1>3. ASSUME NEW k \in Callbacks, Callback(k)
      PROVE  TypeOK'
  <2>0. callbacks[k] \in CallbackCall
    BY <1>0
  <2>1. ASSUME NEW sid \in AnySid, NEW sub \in Subjects, NEW ttl \in IdTtls, Verify(k, sid, sub, ttl)
        PROVE  TypeOK'
    <3> DEFINE rec == [pc |-> "verified", sid |-> sid, sub |-> sub, created |-> 0,
                       expires |-> Lesser(now + ttl, now + Lifetime)]
    <3>1. Lesser(now + ttl, now + Lifetime) \in Nat
      BY <1>0, <1>a DEF Lesser
    <3>2. rec \in CallbackCall
      BY <3>1 DEF CallbackCall
    <3>3. callbacks' = [callbacks EXCEPT ![k] = rec]
      BY <2>1 DEF Verify
    <3> HIDE DEF rec
    <3>4. callbacks' \in [Callbacks -> CallbackCall]
      BY <1>0, <3>2, <3>3
    <3> QED BY <1>0, <2>1, <3>4 DEF Verify, TypeOK, files, history
  <2>2. CASE Stamp(k)
    <3> DEFINE rec == [callbacks[k] EXCEPT !.pc = "stamped", !.created = now]
    <3>1. callbacks' = [callbacks EXCEPT ![k] = rec]
      BY <1>0, <2>2 DEF Stamp
    <3>2. rec \in CallbackCall
      BY <1>0, <2>0 DEF CallbackCall
    <3> HIDE DEF rec
    <3>3. callbacks' \in [Callbacks -> CallbackCall]
      BY <1>0, <3>1, <3>2
    <3> QED BY <1>0, <2>2, <3>3 DEF Stamp, TypeOK, files, history
  <2>3. ASSUME NEW id \in SessionIds, LinkSession(k, id)
        PROVE  TypeOK'
    <3> DEFINE rec == [file |-> "present", sid |-> callbacks[k].sid, sub |-> callbacks[k].sub,
                       created |-> callbacks[k].created, expires |-> callbacks[k].expires]
    <3>1. rec \in Session
      BY <2>0 DEF CallbackCall, Session
    <3>2. sessions' = [sessions EXCEPT ![id] = rec] /\ callbacks' = [callbacks EXCEPT ![k] = IdleCallback]
      BY <2>3 DEF LinkSession
    <3> HIDE DEF rec
    <3>3. sessions' \in [SessionIds -> Session] /\ callbacks' \in [Callbacks -> CallbackCall]
      BY <1>0, <3>1, <3>2, IdleTypes
    <3> QED BY <1>0, <2>3, <3>3 DEF LinkSession, TypeOK, history
  <2>4. CASE StopCallback(k)
    <3>1. callbacks' \in [Callbacks -> CallbackCall]
      BY <1>0, <2>4, IdleTypes DEF StopCallback
    <3> QED BY <1>0, <2>4, <3>1 DEF StopCallback, TypeOK, files, history
  <2> QED BY <1>3, <2>1, <2>2, <2>3, <2>4 DEF Callback
<1>4. ASSUME NEW r \in Requests, Request(r)
      PROVE  TypeOK'
  <2>1. requests' \in [Requests -> RequestCall]
    BY <1>4, RequestTypes
  <2>2. claims' \in [Jtis -> Claim]
    <3>1. CASE Purge(r)
      <4> DEFINE c == requests[r].cur
                 rec == [claims[c] EXCEPT !.file = FALSE]
      <4>1. claims' = [claims EXCEPT ![c] = rec]
        BY <1>0, <3>1 DEF Purge
      <4>2. c \in Jtis => rec \in Claim
        BY <1>0 DEF Claim
      <4> HIDE DEF rec, c
      <4> QED BY <1>0, <4>1, <4>2
    <3> QED BY <1>0, <1>4, <3>1, RequestFiles
  <2> QED BY <1>0, <1>4, <2>1, <2>2, RequestFiles DEF TypeOK
<1>5. ASSUME NEW n \in Notices, Notice(n)
      PROVE  TypeOK'
  <2>1. /\ notices' \in [Notices -> NoticeCall]
        /\ claims' \in [Jtis -> Claim] /\ grants' \in [Jtis -> Nat] /\ accepted' \subseteq Acceptance
    <3>0. notices[n] \in NoticeCall /\ notices[n].tok \in Token /\ notices[n].now \in Nat
      BY <1>0 DEF NoticeCall
    <3>p. ASSUME NEW pc \in {"idle", "claim", "replace", "link", "accept"}, Proceed(n, pc)
          PROVE  notices' \in [Notices -> NoticeCall]
      <4> DEFINE rec == [notices[n] EXCEPT !.pc = pc]
      <4>1. rec \in NoticeCall
        BY <3>0 DEF NoticeCall
      <4>2. notices' = [notices EXCEPT ![n] = IF pc = "idle" THEN IdleNotice ELSE rec]
        BY <3>p DEF Proceed
      <4> HIDE DEF rec
      <4> QED BY <1>0, <4>1, <4>2, IdleTypes
    <3>1. ASSUME NEW j \in Jtis, Receive(n, j)
          PROVE  <2>1!:
      <4> DEFINE rec == [pc |-> "claim", jti |-> j, tok |-> tokens[j], now |-> now]
      <4>1. tokens[j] \in Token
        BY <1>0
      <4>2. rec \in NoticeCall
        BY <1>0, <4>1 DEF NoticeCall
      <4>3. notices' = [notices EXCEPT ![n] = rec]
        BY <3>1 DEF Receive
      <4> HIDE DEF rec
      <4> QED BY <1>0, <3>1, <4>2, <4>3 DEF Receive, files, history
    <3>2. CASE ReadClaim(n)
      <4>1. \E pc \in {"link", "idle", "replace"} : Proceed(n, pc)
        BY <3>2 DEF ReadClaim
      <4>2. notices' \in [Notices -> NoticeCall]
        BY <3>p, <4>1
      <4> QED BY <1>0, <3>2, <4>2 DEF ReadClaim, files, history
    <3>3. CASE RemoveClaim(n)
      <4> DEFINE c == notices[n].jti
                 rec == [claims[c] EXCEPT !.file = FALSE]
      <4>1. claims' = [claims EXCEPT ![c] = rec]
        BY <1>0, <3>3 DEF RemoveClaim
      <4>2. c \in Jtis => rec \in Claim
        BY <1>0 DEF Claim
      <4>3. notices' \in [Notices -> NoticeCall]
        BY <3>3, <3>p DEF RemoveClaim
      <4> HIDE DEF rec, c
      <4> QED BY <1>0, <3>3, <4>1, <4>2, <4>3 DEF RemoveClaim, history
    <3>4. CASE LinkClaim(n)
      <4>1. RetainUntil(notices[n].tok) \in Nat
        BY <3>0, <1>a DEF RetainUntil, Greater, Token
      <4>2. notices[n].tok.sid \in AnySid /\ notices[n].tok.sub \in Subjects
        BY <3>0 DEF Token
      <4>3. NewClaim(n) \in Claim
        BY <3>0, <4>1, <4>2 DEF NewClaim, Claim
      <4>4. notices' \in [Notices -> NoticeCall]
        BY <3>4, <3>p DEF LinkClaim
      <4>5. claims' \in {claims, [claims EXCEPT ![notices[n].jti] = NewClaim(n)]}
        BY <3>4 DEF LinkClaim
      <4> QED BY <1>0, <3>4, <4>3, <4>4, <4>5 DEF LinkClaim, history
    <3>5. CASE Accept(n)
      <4> DEFINE a == [sid |-> notices[n].tok.sid, sub |-> notices[n].tok.sub,
                       iat |-> notices[n].tok.iat, received |-> notices[n].now]
      <4>1. a \in Acceptance
        BY <3>0 DEF Token, Acceptance
      <4>2. accepted' = accepted \cup {a}
        BY <3>5 DEF Accept
      <4> HIDE DEF a
      <4>3. notices' \in [Notices -> NoticeCall]
        BY <3>5, <3>p DEF Accept
      <4>4. grants' \in [Jtis -> Nat]
        <5>1. \/ grants' = grants
              \/ grants' = [grants EXCEPT ![notices[n].jti] = grants[notices[n].jti] + 1]
          BY <3>5 DEF Accept
        <5>2. notices[n].jti \in Jtis => grants[notices[n].jti] + 1 \in Nat
          BY <1>0
        <5> QED BY <1>0, <5>1, <5>2
      <4> QED BY <1>0, <3>5, <4>1, <4>2, <4>3, <4>4 DEF Accept, files
    <3>6. CASE StopNotice(n)
      <4>1. notices' \in [Notices -> NoticeCall]
        BY <3>6, <3>p DEF StopNotice
      <4> QED BY <1>0, <3>6, <4>1 DEF StopNotice, files, history
    <3> QED BY <1>5, <3>1, <3>2, <3>3, <3>4, <3>5, <3>6 DEF Notice
  <2>2. UNCHANGED <<now, sessions, tokens, callbacks, requests, ended>>
    BY <1>5 DEF Notice, Receive, ReadClaim, RemoveClaim, LinkClaim, Accept, StopNotice, files, history
  <2> QED BY <1>0, <2>1, <2>2 DEF TypeOK
<1>6. CASE UNCHANGED vars
  BY <1>0, <1>6 DEF vars, files, history, TypeOK
<1> QED BY <1>1, <1>2, <1>3, <1>4, <1>5, <1>6 DEF Next

\* Whatever is replayed, raced or cut short, files, handlers and the histories
\* stay well formed.
THEOREM TypeCorrect == Spec => []TypeOK
<1>1. TypeOK /\ [Next]_vars => TypeOK'
  BY TypeNext
<1> QED BY TypeInit, <1>1, PTL DEF Spec

-----------------------------------------------------------------------------
(* AcceptedOnce *)

LEMMA RequestPurges ==
  ASSUME TypeOK, ClaimsKept, PurgesExpired, NEW r \in Requests, Request(r)
  PROVE  PurgesExpired'
<1>0. /\ requests \in [Requests -> RequestCall] /\ requests[r] \in RequestCall
      /\ claims \in [Jtis -> Claim] /\ tokens \in [Jtis -> Token] /\ now \in Nat
  BY DEF TypeOK
<1>k. /\ requests[r].kind \in {"page", "logout", "front"} /\ requests[r].now \in Nat
      /\ requests[r].now <= now
  BY <1>0 DEF RequestCall, PurgesExpired
<1>u. UNCHANGED <<now, tokens>>
  BY RequestFiles
<1> SUFFICES /\ \A q \in Requests \ {r} : requests'[q] = requests[q]
             /\ requests'[r].now <= now
             /\ requests'[r].pc = "purge" =>
                  /\ requests'[r].cur \in Jtis
                  /\ 0 < tokens[requests'[r].cur].exp
                  /\ tokens[requests'[r].cur].iat + Lifetime <= now
  BY <1>u DEF PurgesExpired
<1> DEFINE Good == /\ \A q \in Requests \ {r} : requests'[q] = requests[q]
                   /\ requests'[r].now <= now
                   /\ requests'[r].pc # "purge"
<1>b. ASSUME NEW pc \in {"idle", "list", "scan", "drop", "admitted", "delete", "listFront", "front"},
             Becomes(r, pc)
      PROVE  Good
  BY <1>0, <1>k, <1>b, BecomesType
<1>1. ASSUME NEW kind \in Kinds, NEW id \in SessionIds \cup {None}, NEW sid \in AnySid,
             Begin(r, kind, id, sid)
      PROVE  Good
  <2> DEFINE pc == IF id = None \/ ~Present(id) THEN After(kind, FALSE)
                   ELSE IF sessions[id].expires <= now THEN "drop" ELSE "list"
             rec == [pc |-> pc, kind |-> kind, id |-> id, now |-> now, sid |-> sid, todo |-> {},
                     cur |-> None, left |-> {},
                     about |-> {i \in SessionIds : kind = "front" /\ Present(i) /\ sessions[i].sid = sid},
                     known |-> accepted, over |-> ended]
  <2>1. pc \in {"idle", "list", "drop", "admitted", "delete", "listFront"}
    BY KindsAssumption, AfterType
  <2>2. requests' = [requests EXCEPT ![r] = rec] /\ rec.pc = pc /\ rec.now = now
    BY <1>1 DEF Begin
  <2> HIDE DEF pc, rec
  <2> QED BY <1>0, <2>1, <2>2
<1>2. CASE List(r)
  BY <1>0, <1>k, <1>2 DEF List, RequestCall
<1>3. ASSUME NEW j \in Jtis, Scan(r, j)
      PROVE  /\ \A q \in Requests \ {r} : requests'[q] = requests[q]
             /\ requests'[r].now <= now
             /\ requests'[r].pc = "purge" =>
                  /\ requests'[r].cur \in Jtis
                  /\ 0 < tokens[requests'[r].cur].exp
                  /\ tokens[requests'[r].cur].iat + Lifetime <= now
  <2> DEFINE expired == claims[j].file /\ claims[j].expires <= requests[r].now
  <2>1. /\ \A q \in Requests \ {r} : requests'[q] = requests[q]
        /\ requests'[r].now = requests[r].now
        /\ requests'[r].cur = IF expired THEN j ELSE None
        /\ requests'[r].pc = "purge" => expired
    BY <1>0, <1>3 DEF Scan, RequestCall
  <2>2. expired => 0 < tokens[j].exp /\ tokens[j].iat + Lifetime <= now
    <3>1. /\ claims[j].expires \in Nat /\ tokens[j].iat \in Nat /\ Lifetime \in Nat
      BY <1>0, TimesAssumption DEF Claim, Token
    <3> QED BY <1>0, <1>k, <3>1 DEF ClaimsKept
  <2> HIDE DEF expired
  <2> QED BY <1>k, <2>1, <2>2
<1>4. CASE Purge(r)
  BY <1>b, <1>4 DEF Purge
<1>5. CASE InForce(r)
  BY <1>b, <1>k, <1>5, AfterType DEF InForce
<1>6. CASE Drop(r)
  BY <1>b, <1>k, <1>6, AfterType DEF Drop
<1>7. CASE Serve(r)
  BY <1>b, <1>7 DEF Serve
<1>8. CASE DeleteSession(r)
  BY <1>b, <1>8 DEF DeleteSession
<1>9. CASE ListFront(r)
  BY <1>0, <1>k, <1>9 DEF ListFront, RequestCall
<1>10. ASSUME NEW id \in SessionIds, ScanFront(r, id)
       PROVE  Good
  BY <1>0, <1>k, <1>10 DEF ScanFront, RequestCall
<1>11. CASE EndFront(r)
  BY <1>b, <1>11 DEF EndFront
<1>12. CASE StopRequest(r)
  BY <1>b, <1>12 DEF StopRequest
<1> QED BY <1>1, <1>2, <1>3, <1>4, <1>5, <1>6, <1>7, <1>8, <1>9, <1>10, <1>11, <1>12 DEF Request

LEMMA InitInv == Init => IInv
<1> SUFFICES ASSUME Init PROVE IInv
  OBVIOUS
<1>1. \A n \in Notices : notices[n].pc = "idle"
  BY DEF Init, IdleNotice
<1>2. \A r \in Requests : requests[r].pc = "idle" /\ requests[r].now = 0
  BY DEF Init, IdleRequest
<1>3. \A j \in Jtis : ~claims[j].file /\ grants[j] = 0
  BY DEF Init
<1>4. now = 0
  BY DEF Init
<1>5. NoticesFresh /\ PurgesExpired
  BY <1>1, <1>2, <1>4 DEF NoticesFresh, PurgesExpired
<1>6. AcceptedOnce /\ ClaimsKept /\ WinnersClaim /\ OneWinner
  BY <1>1, <1>3 DEF AcceptedOnce, ClaimsKept, WinnersClaim, OneWinner, Won
<1> QED BY TypeInit, <1>5, <1>6 DEF IInv

LEMMA NextInv ==
  ASSUME ~ReuseJti, IInv, [Next]_vars
  PROVE  IInv'
<1>t. TypeOK'
  BY TypeNext DEF IInv
<1>0. /\ now \in Nat /\ claims \in [Jtis -> Claim] /\ tokens \in [Jtis -> Token]
      /\ requests \in [Requests -> RequestCall] /\ notices \in [Notices -> NoticeCall]
      /\ grants \in [Jtis -> Nat]
  BY DEF IInv, TypeOK
<1>i. AcceptedOnce /\ NoticesFresh /\ ClaimsKept /\ PurgesExpired /\ WinnersClaim /\ OneWinner /\ TypeOK
  BY DEF IInv
<1>n. /\ \A j \in Jtis : tokens[j].iat \in Nat /\ tokens[j].exp \in Nat /\ claims[j].expires \in Nat
                         /\ claims[j].file \in BOOLEAN /\ grants[j] \in Nat
      /\ \A r \in Requests : requests[r].now \in Nat
      /\ \A n \in Notices : notices[n].now \in Nat /\ notices[n].tok.iat \in Nat
                            /\ notices[n].tok.exp \in Nat
  <2>1. \A j \in Jtis : tokens[j].iat \in Nat /\ tokens[j].exp \in Nat
    BY <1>0 DEF Token
  <2>2. \A j \in Jtis : claims[j].expires \in Nat /\ claims[j].file \in BOOLEAN /\ grants[j] \in Nat
    BY <1>0 DEF Claim
  <2>3. \A r \in Requests : requests[r].now \in Nat
    BY <1>0 DEF RequestCall
  <2>4. \A n \in Notices : notices[n].now \in Nat /\ notices[n].tok \in Token
    BY <1>0 DEF NoticeCall
  <2>5. \A n \in Notices : notices[n].tok.iat \in Nat /\ notices[n].tok.exp \in Nat
    BY <2>4 DEF Token
  <2> QED BY <2>1, <2>2, <2>3, <2>4, <2>5
<1>a. Lifetime \in Nat /\ Window \in Nat /\ Patience \in Nat /\ Window + Patience < Lifetime
  BY TimesAssumption, RetentionAssumption
<1>1. CASE Tick
  <2>1. /\ now' = now + 1 /\ UNCHANGED <<claims, tokens, requests, notices, grants>>
        /\ \A n \in Notices : notices[n].pc # "idle" => now < notices[n].now + Patience
    BY <1>1 DEF Tick, files, history
  <2>2. NoticesFresh'
    BY <1>0, <1>i, <1>n, <1>a, <2>1 DEF NoticesFresh
  <2>3. PurgesExpired' /\ WinnersClaim'
    BY <1>0, <1>i, <1>n, <1>a, <2>1 DEF PurgesExpired, WinnersClaim, Won
  <2>4. AcceptedOnce' /\ ClaimsKept' /\ OneWinner'
    BY <1>i, <2>1 DEF AcceptedOnce, ClaimsKept, OneWinner
  <2> QED BY <1>t, <2>2, <2>3, <2>4 DEF IInv
<1>2. CASE Provider
  <2> PICK j \in Jtis, sid \in AnySid, sub \in Subjects, iat \in now..(now + Skew), ttl \in TokenTtls :
        IssueToken(j, sid, sub, iat, ttl)
    BY <1>2 DEF Provider
  <2>1. /\ tokens[j].exp = 0
        /\ \A i \in Jtis \ {j} : tokens'[i] = tokens[i] /\ grants'[i] = grants[i]
        /\ grants'[j] = 0
        /\ UNCHANGED <<now, claims, requests, notices>>
    BY <1>0 DEF IssueToken, files
  <2>2. \A n \in Notices : notices[n].pc # "idle" => notices[n].jti # j
    BY <1>i, <1>n, <2>1 DEF NoticesFresh
  <2>3. ~claims[j].file
    BY <1>i, <2>1 DEF ClaimsKept
  <2>4. NoticesFresh'
    BY <1>i, <2>1, <2>2 DEF NoticesFresh
  <2>5. ClaimsKept'
    BY <1>i, <2>1, <2>3 DEF ClaimsKept
  <2>6. PurgesExpired'
    BY <1>i, <1>n, <2>1 DEF PurgesExpired
  <2>7. WinnersClaim' /\ OneWinner' /\ AcceptedOnce'
    <3>1. ~Won(j)'
      BY <2>1, <2>2 DEF Won
    <3>2. \A i \in Jtis \ {j} : Won(i)' => Won(i)
      BY <2>1 DEF Won
    <3>3. WinnersClaim'
      BY <1>i, <2>1, <3>1, <3>2 DEF WinnersClaim
    <3>4. OneWinner'
      BY <1>i, <2>1, <2>2 DEF OneWinner, NoticesFresh
    <3>5. AcceptedOnce'
      BY <1>i, <2>1 DEF AcceptedOnce
    <3> QED BY <3>3, <3>4, <3>5
  <2> QED BY <1>t, <2>4, <2>5, <2>6, <2>7 DEF IInv
<1>3. ASSUME NEW k \in Callbacks, Callback(k)
      PROVE  IInv'
  <2>1. UNCHANGED <<now, claims, tokens, requests, notices, grants>>
    BY <1>3 DEF Callback, Verify, Stamp, LinkSession, StopCallback, files, history
  <2>2. NoticesFresh' /\ ClaimsKept' /\ PurgesExpired'
    BY <1>i, <2>1 DEF NoticesFresh, ClaimsKept, PurgesExpired
  <2>3. AcceptedOnce' /\ WinnersClaim' /\ OneWinner'
    BY <1>i, <2>1 DEF AcceptedOnce, WinnersClaim, OneWinner, Won
  <2> QED BY <1>t, <2>2, <2>3 DEF IInv
<1>4. ASSUME NEW r \in Requests, Request(r)
      PROVE  IInv'
  <2>1. UNCHANGED <<now, tokens, notices, grants>> /\ (UNCHANGED claims \/ Purge(r))
    BY <1>4, <1>i, RequestFiles
  <2>2. PurgesExpired'
    BY <1>4, <1>i, RequestPurges
  <2>3. NoticesFresh' /\ AcceptedOnce' /\ OneWinner'
    BY <1>i, <2>1 DEF NoticesFresh, AcceptedOnce, OneWinner
  <2>4. ClaimsKept' /\ WinnersClaim'
    <3>1. CASE UNCHANGED claims
      BY <1>i, <2>1, <3>1 DEF ClaimsKept, WinnersClaim, Won
    <3>2. CASE Purge(r)
      <4> DEFINE c == requests[r].cur
      <4>1. c \in Jtis /\ tokens[c].iat + Lifetime <= now
        BY <1>i, <3>2 DEF PurgesExpired, Purge
      <4>2. ~claims'[c].file /\ \A j \in Jtis \ {c} : claims'[j] = claims[j]
        BY <1>0, <3>2, <4>1 DEF Purge, Claim
      <4> HIDE DEF c
      <4>3. ClaimsKept'
        BY <1>i, <2>1, <4>2 DEF ClaimsKept
      <4>4. WinnersClaim'
        BY <1>i, <2>1, <4>1, <4>2 DEF WinnersClaim, Won
      <4> QED BY <4>3, <4>4
    <3> QED BY <2>1, <3>1, <3>2
  <2> QED BY <1>t, <2>2, <2>3, <2>4 DEF IInv
<1>5. ASSUME NEW n \in Notices, Notice(n)
      PROVE  IInv'
  <2>u. UNCHANGED <<now, tokens, requests>>
    BY <1>5 DEF Notice, Receive, ReadClaim, RemoveClaim, LinkClaim, Accept, StopNotice, files, history
  <2>p. PurgesExpired'
    BY <1>i, <2>u DEF PurgesExpired
  <2>f. notices[n].pc # "idle" =>
          /\ notices[n].jti \in Jtis /\ notices[n].tok = tokens[notices[n].jti]
          /\ notices[n].pc # "replace" /\ notices[n].now < notices[n].tok.exp
          /\ now < tokens[notices[n].jti].iat + Lifetime
    <3>1. ASSUME notices[n].pc # "idle"
          PROVE  /\ notices[n].jti \in Jtis /\ notices[n].tok = tokens[notices[n].jti]
                 /\ notices[n].pc # "replace" /\ notices[n].now < notices[n].tok.exp
                 /\ notices[n].now <= notices[n].tok.iat + Window
                 /\ now <= notices[n].now + Patience
      BY <1>i, <3>1 DEF NoticesFresh
    <3> QED BY <1>0, <1>n, <1>a, <3>1
  \* A step of n that moves its pc, or forgets it.
  <2>m. ASSUME NEW pc \in {"idle", "link", "accept"}, notices[n].pc # "idle", Proceed(n, pc)
        PROVE  /\ NoticesFresh'
               /\ \A m \in Notices \ {n} : notices'[m] = notices[m]
               /\ notices'[n].pc = pc
               /\ pc # "idle" => notices'[n].jti = notices[n].jti
    <3> DEFINE rec == [notices[n] EXCEPT !.pc = pc]
               new == IF pc = "idle" THEN IdleNotice ELSE rec
    <3>1. /\ rec.pc = pc /\ rec.jti = notices[n].jti
          /\ rec.tok = notices[n].tok /\ rec.now = notices[n].now
      BY <1>0 DEF NoticeCall
    <3>2. IdleNotice.pc = "idle"
      BY DEF IdleNotice
    <3>3. notices' = [notices EXCEPT ![n] = new]
      BY <2>m DEF Proceed
    <3> HIDE DEF rec
    <3>4. /\ new.pc = pc
          /\ pc # "idle" => /\ new.jti = notices[n].jti /\ new.tok = notices[n].tok
                            /\ new.now = notices[n].now
      BY <3>1, <3>2
    <3> HIDE DEF new
    <3>5. /\ \A m \in Notices \ {n} : notices'[m] = notices[m]
          /\ notices'[n] = new
      BY <1>0, <3>3
    <3>6. NoticesFresh'
      BY <1>i, <2>u, <2>m, <3>4, <3>5 DEF NoticesFresh
    <3> QED BY <3>4, <3>5, <3>6
  <2>1. ASSUME NEW j \in Jtis, Receive(n, j)
        PROVE  IInv'
    <3>1. /\ notices' = [notices EXCEPT ![n] = [pc |-> "claim", jti |-> j, tok |-> tokens[j], now |-> now]]
          /\ tokens[j].exp > now /\ tokens[j].iat >= now - Window
          /\ UNCHANGED <<claims, grants>>
      BY <2>1 DEF Receive, files, history
    <3>2. /\ \A m \in Notices \ {n} : notices'[m] = notices[m]
          /\ notices'[n].pc = "claim" /\ notices'[n].jti = j /\ notices'[n].tok = tokens[j]
          /\ notices'[n].now = now
      BY <1>0, <3>1
    <3>3. NoticesFresh'
      BY <1>0, <1>i, <1>n, <1>a, <2>u, <3>1, <3>2 DEF NoticesFresh
    <3>4. WinnersClaim' /\ OneWinner' /\ AcceptedOnce' /\ ClaimsKept'
      <4>1. \A i \in Jtis : Won(i)' => Won(i)
        BY <3>1, <3>2 DEF Won
      <4>2. WinnersClaim'
        BY <1>i, <2>u, <3>1, <4>1 DEF WinnersClaim
      <4>3. OneWinner'
        BY <1>i, <3>1, <3>2 DEF OneWinner
      <4> QED BY <1>i, <2>u, <3>1, <4>2, <4>3 DEF AcceptedOnce, ClaimsKept
    <3> QED BY <1>t, <2>p, <3>3, <3>4 DEF IInv
  <2>2. ASSUME NEW pc \in {"idle", "link"}, notices[n].pc # "idle", Proceed(n, pc),
               UNCHANGED <<claims, grants>>
        PROVE  IInv'
    <3>1. /\ NoticesFresh' /\ notices'[n].pc = pc
          /\ \A m \in Notices \ {n} : notices'[m] = notices[m]
      BY <2>2, <2>m
    <3>2. \A i \in Jtis : Won(i)' => Won(i)
      BY <2>2, <3>1 DEF Won
    <3>3. WinnersClaim' /\ AcceptedOnce' /\ ClaimsKept'
      BY <1>i, <2>u, <2>2, <3>2 DEF WinnersClaim, AcceptedOnce, ClaimsKept
    <3>4. OneWinner'
      BY <1>i, <2>2, <3>1 DEF OneWinner
    <3> QED BY <1>t, <2>p, <3>1, <3>3, <3>4 DEF IInv
  <2>3. CASE ReadClaim(n)
    <3> DEFINE j == notices[n].jti
    <3>1. notices[n].pc = "claim" /\ UNCHANGED <<claims, grants>>
      BY <2>3 DEF ReadClaim, files, history
    <3>2. claims[j].file => claims[j].expires > notices[n].now
      <4>1. claims[j].file => tokens[j].exp <= claims[j].expires
        BY <1>i, <2>f, <3>1 DEF ClaimsKept
      <4> QED BY <1>n, <2>f, <3>1, <4>1
    <3>3. \E pc \in {"idle", "link"} : Proceed(n, pc)
      BY <2>3, <3>2 DEF ReadClaim
    <3> QED BY <2>2, <3>1, <3>3
  <2>4. CASE RemoveClaim(n)
    BY <2>f, <2>4 DEF RemoveClaim
  <2>5. CASE LinkClaim(n)
    <3> DEFINE j == notices[n].jti
    <3>1. notices[n].pc = "link" /\ UNCHANGED grants
      BY <2>5 DEF LinkClaim, history
    <3>2. CASE claims[j].file
      BY <2>2, <2>5, <3>1, <3>2 DEF LinkClaim
    <3>3. CASE ~claims[j].file
      <4>1. Proceed(n, "accept") /\ claims' = [claims EXCEPT ![j] = NewClaim(n)]
        BY <2>5, <3>3 DEF LinkClaim
      <4>2. j \in Jtis /\ notices[n].tok = tokens[j] /\ now < tokens[j].iat + Lifetime
            /\ notices[n].now < tokens[j].exp
        BY <2>f, <3>1
      <4>3. ~Won(j)
        BY <1>0, <1>i, <1>n, <1>a, <3>3, <4>2 DEF WinnersClaim
      <4>4. /\ NoticesFresh' /\ notices'[n].pc = "accept" /\ notices'[n].jti = j
            /\ \A m \in Notices \ {n} : notices'[m] = notices[m]
        BY <2>m, <3>1, <4>1
      <4>5. /\ claims'[j].file /\ claims'[j].expires = RetainUntil(tokens[j])
            /\ \A i \in Jtis \ {j} : claims'[i] = claims[i]
        BY <1>0, <4>1, <4>2 DEF NewClaim
      <4>6. /\ RetainUntil(tokens[j]) >= tokens[j].iat + Lifetime
            /\ RetainUntil(tokens[j]) >= tokens[j].exp
            /\ 0 < tokens[j].exp
        BY <1>n, <1>a, <4>2 DEF RetainUntil, Greater
      <4> HIDE DEF j
      <4>7. ClaimsKept'
        BY <1>i, <2>u, <4>5, <4>6 DEF ClaimsKept
      <4>8. WinnersClaim'
        <5>1. \A i \in Jtis \ {j} : Won(i)' => Won(i)
          BY <3>1, <4>4 DEF Won
        <5> QED BY <1>i, <2>u, <4>5, <5>1 DEF WinnersClaim
      <4>9. OneWinner'
        <5>1. grants[j] = 0 /\ \A m \in Notices : notices[m].pc = "accept" => notices[m].jti # j
          BY <1>n, <4>2, <4>3 DEF Won
        <5> QED BY <1>i, <3>1, <4>4, <5>1 DEF OneWinner
      <4>10. AcceptedOnce'
        BY <1>i, <3>1 DEF AcceptedOnce
      <4> QED BY <1>t, <2>p, <4>4, <4>7, <4>8, <4>9, <4>10 DEF IInv
    <3> QED BY <3>2, <3>3
  <2>6. CASE Accept(n)
    <3> DEFINE j == notices[n].jti
    <3>1. notices[n].pc = "accept" /\ Proceed(n, "idle") /\ UNCHANGED claims
      BY <2>6 DEF Accept, files
    <3>2. j \in Jtis /\ notices[n].tok = tokens[j] /\ grants[j] = 0
      BY <1>i, <2>f, <3>1 DEF OneWinner
    <3>3. grants'[j] = 1 /\ \A i \in Jtis \ {j} : grants'[i] = grants[i]
      BY <1>0, <2>6, <3>2 DEF Accept
    <3>4. /\ NoticesFresh' /\ notices'[n].pc = "idle"
          /\ \A m \in Notices \ {n} : notices'[m] = notices[m]
      BY <2>m, <3>1
    <3>5. Won(j) /\ \A m \in Notices \ {n} : notices[m].pc = "accept" => notices[m].jti # j
      BY <1>i, <3>1 DEF OneWinner, Won
    <3> HIDE DEF j
    <3>6. WinnersClaim'
      <4>1. \A i \in Jtis : Won(i)' => Won(i)
        BY <3>3, <3>4, <3>5 DEF Won
      <4> QED BY <1>i, <2>u, <3>1, <4>1 DEF WinnersClaim
    <3>7. OneWinner'
      <4>1. \A m \in Notices \ {n} : notices[m].pc = "accept" => notices[m].jti \in Jtis \ {j}
        BY <1>i, <3>5 DEF NoticesFresh
      <4> QED BY <1>i, <3>3, <3>4, <4>1 DEF OneWinner
    <3>8. AcceptedOnce' /\ ClaimsKept'
      BY <1>i, <2>u, <3>1, <3>3 DEF AcceptedOnce, ClaimsKept
    <3> QED BY <1>t, <2>p, <3>4, <3>6, <3>7, <3>8 DEF IInv
  <2>7. CASE StopNotice(n)
    BY <2>2, <2>7 DEF StopNotice, files, history
  <2> QED BY <1>5, <2>1, <2>3, <2>4, <2>5, <2>6, <2>7 DEF Notice
<1>6. CASE UNCHANGED vars
  <2>1. UNCHANGED <<now, claims, tokens, requests, notices, grants>>
    BY <1>6 DEF vars, files, history
  <2>2. NoticesFresh' /\ ClaimsKept' /\ PurgesExpired'
    BY <1>i, <2>1 DEF NoticesFresh, ClaimsKept, PurgesExpired
  <2>3. AcceptedOnce' /\ WinnersClaim' /\ OneWinner'
    BY <1>i, <2>1 DEF AcceptedOnce, WinnersClaim, OneWinner, Won
  <2> QED BY <1>t, <2>2, <2>3 DEF IInv
<1> QED BY <1>1, <1>2, <1>3, <1>4, <1>5, <1>6 DEF Next

\* The invariant of the claims, when every logout token has its own jti.
THEOREM ClaimInvariance ==
  ASSUME ~ReuseJti
  PROVE  Spec => []IInv
<1>1. IInv /\ [Next]_vars => IInv'
  BY NextInv
<1> QED BY InitInv, <1>1, PTL DEF Spec

\* claimLogout answers a logout token with success at most once, on however
\* many replicas it is replayed and whoever dies while it is handled.
THEOREM TokenAcceptedOnce ==
  ASSUME ~ReuseJti
  PROVE  Spec => []AcceptedOnce
<1>1. IInv => AcceptedOnce
  BY DEF IInv
<1> QED BY <1>1, ClaimInvariance, PTL

-----------------------------------------------------------------------------
(* Logouts are final.  EndedStaysEnded needs no assumption;                *)
(* LoggedOutStaysOut needs that each logout token has its own jti          *)
(* (~ReuseJti).                                                            *)

(* What other handlers leave alone *)

\* A session file never changes once it has been linked, except to vanish.
LEMMA SessionStays ==
  ASSUME TypeOK, [Next]_vars, NEW i \in SessionIds, sessions[i].file # "unused"
  PROVE  /\ sessions'[i].file # "unused"
         /\ sessions[i].file = "removed" => sessions'[i].file = "removed"
         /\ sessions'[i].sid = sessions[i].sid /\ sessions'[i].sub = sessions[i].sub
         /\ sessions'[i].created = sessions[i].created
         /\ sessions'[i].expires = sessions[i].expires
<1>0. sessions \in [SessionIds -> Session] /\ sessions[i] \in Session
  BY DEF TypeOK
<1>1. \/ UNCHANGED sessions
      \/ \E id : sessions' = Without(id)
      \/ \E k \in Callbacks, id \in SessionIds : LinkSession(k, id)
  BY DEF Next, Tick, Provider, IssueToken, Callback, Verify, Stamp, StopCallback,
         Request, Begin, List, Scan, Purge, InForce, Drop, Serve, DeleteSession, ListFront,
         ScanFront, EndFront, StopRequest, Notice, Receive, ReadClaim, RemoveClaim, LinkClaim,
         Accept, StopNotice, files, history, vars
<1>2. ASSUME NEW id, sessions' = Without(id)
      PROVE  sessions'[i] \in {sessions[i], [sessions[i] EXCEPT !.file = "removed"]}
  <2> HIDE DEF Session
  <2> QED
    BY <1>0, <1>2 DEF Without
<1>3. ASSUME NEW k \in Callbacks, NEW id \in SessionIds, LinkSession(k, id)
      PROVE  sessions'[i] = sessions[i]
  <2>1. id # i
    BY <1>3 DEF LinkSession
  <2> QED
    BY <1>3, <2>1 DEF LinkSession
<1>4. sessions'[i] \in {sessions[i], [sessions[i] EXCEPT !.file = "removed"]}
  BY <1>1, <1>2, <1>3
<1> QED
  BY <1>0, <1>4 DEF Session

LEMMA OtherRequests ==
  ASSUME TypeOK, [Next]_vars, NEW r \in Requests
  PROVE  requests'[r] = requests[r] \/ Request(r)
<1>0. requests \in [Requests -> RequestCall]
  BY DEF TypeOK
<1>1. UNCHANGED requests \/ \E q \in Requests : Request(q)
  BY DEF Next, Tick, Provider, IssueToken, Callback, Verify, Stamp, LinkSession, StopCallback,
         Notice, Receive, ReadClaim, RemoveClaim, LinkClaim, Accept, StopNotice, vars
<1>2. ASSUME NEW q \in Requests, Request(q), q # r PROVE requests'[r] = requests[r]
  <2> HIDE DEF RequestCall
  <2> QED
    BY <1>0, <1>2 DEF Request, Begin, List, Scan, Purge, InForce, Drop, Serve, DeleteSession,
      ListFront, ScanFront, EndFront, StopRequest, Becomes
<1> QED
  BY <1>1, <1>2

\* What a step of a request that only moves its pc, or forgets it, leaves.
LEMMA BecomesKeeps ==
  ASSUME TypeOK, NEW r \in Requests, NEW pc, Becomes(r, pc)
  PROVE  /\ requests'[r].pc = pc
         /\ pc # "idle" =>
              /\ requests'[r].kind = requests[r].kind /\ requests'[r].id = requests[r].id
              /\ requests'[r].now = requests[r].now /\ requests'[r].sid = requests[r].sid
              /\ requests'[r].todo = requests[r].todo /\ requests'[r].left = requests[r].left
              /\ requests'[r].about = requests[r].about
              /\ requests'[r].known = requests[r].known /\ requests'[r].over = requests[r].over
<1>0. requests \in [Requests -> RequestCall] /\ requests[r] \in RequestCall
  BY DEF TypeOK
<1> DEFINE rec == [requests[r] EXCEPT !.pc = pc]
<1>1. requests'[r] = IF pc = "idle" THEN IdleRequest ELSE rec
  <2> HIDE DEF RequestCall
  <2> QED
    BY <1>0 DEF Becomes
<1>2. /\ rec.pc = pc
      /\ rec.kind = requests[r].kind /\ rec.id = requests[r].id
      /\ rec.now = requests[r].now /\ rec.sid = requests[r].sid
      /\ rec.todo = requests[r].todo /\ rec.left = requests[r].left
      /\ rec.about = requests[r].about
      /\ rec.known = requests[r].known /\ rec.over = requests[r].over
  BY <1>0 DEF RequestCall
<1>3. IdleRequest.pc = "idle"
  BY DEF IdleRequest
<1> HIDE DEF rec
<1> QED
  BY <1>1, <1>2, <1>3

-----------------------------------------------------------------------------
(* Sessions that a logout has ended *)

EndedAreRemoved == \A id \in ended \cap SessionIds : sessions[id].file = "removed"

\* A request's session has been linked; a page's was not over when it began;
\* what a front-channel logout is about is still to be scanned or gone.
RequestFacts(r) ==
  requests[r].pc # "idle" =>
    /\ requests[r].id \in SessionIds => sessions[requests[r].id].file # "unused"
    /\ requests[r].kind = "page" =>
         requests[r].id \in SessionIds /\ requests[r].id \notin requests[r].over
    /\ requests[r].pc = "admitted" => requests[r].kind = "page"
    /\ requests[r].pc \in {"list", "scan", "purge", "drop", "delete"} => requests[r].id \in SessionIds
    /\ \A i \in requests[r].about : /\ i \in SessionIds /\ sessions[i].file # "unused"
                                    /\ sessions[i].sid = requests[r].sid
                                    /\ requests[r].pc = "front" => i \in requests[r].left \/ ~Present(i)

EInv == TypeOK /\ EndedAreRemoved /\ \A r \in Requests : RequestFacts(r)

LEMMA InitEnded == Init => EInv
<1> SUFFICES ASSUME Init PROVE EInv
  OBVIOUS
<1>1. \A r \in Requests : requests[r].pc = "idle"
  BY DEF Init, IdleRequest
<1>2. ended = {}
  BY DEF Init
<1> QED
  BY TypeInit, <1>1, <1>2 DEF EInv, EndedAreRemoved, RequestFacts

\* The facts of a request hold on while only others move.
LEMMA FactsStay ==
  ASSUME EInv, [Next]_vars, NEW r \in Requests,
         requests[r].pc # "idle",
         requests'[r].id = requests[r].id,
         requests'[r].kind = requests[r].kind,
         requests'[r].over = requests[r].over,
         requests'[r].about = requests[r].about,
         requests'[r].sid = requests[r].sid,
         requests'[r].pc = "admitted" => requests[r].kind = "page",
         requests'[r].pc \in {"list", "scan", "purge", "drop", "delete"} => requests[r].id \in SessionIds,
         requests'[r].pc = "front" =>
           \A i \in requests[r].about : i \in requests'[r].left \/ ~Present(i)'
  PROVE  RequestFacts(r)'
<1>0. RequestFacts(r) /\ TypeOK
  BY DEF EInv
<1>1. requests[r].id \in SessionIds => sessions'[requests[r].id].file # "unused"
  BY <1>0, SessionStays DEF RequestFacts
<1>2. \A i \in requests[r].about : /\ i \in SessionIds /\ sessions'[i].file # "unused"
                                   /\ sessions'[i].sid = requests[r].sid
  BY <1>0, SessionStays DEF RequestFacts
<1> QED
  BY <1>0, <1>1, <1>2 DEF RequestFacts

LEMMA RequestKeepsFacts ==
  ASSUME EInv, [Next]_vars, NEW r \in Requests, Request(r)
  PROVE  RequestFacts(r)'
<1>0. /\ TypeOK /\ RequestFacts(r) /\ EndedAreRemoved
      /\ requests \in [Requests -> RequestCall] /\ requests[r] \in RequestCall
      /\ sessions \in [SessionIds -> Session]
  BY DEF EInv, TypeOK
<1>k. requests[r].kind \in {"page", "logout", "front"}
  BY <1>0 DEF RequestCall
\* A step that moves the pc to one that needs no more than is known.
<1>b. ASSUME NEW pc, Becomes(r, pc), requests[r].pc # "idle",
             pc = "admitted" => requests[r].kind = "page",
             pc \in {"list", "scan", "purge", "drop", "delete"} => requests[r].id \in SessionIds,
             pc # "front"
      PROVE  RequestFacts(r)'
  <2>1. CASE pc = "idle"
    BY <1>0, <1>b, <2>1, BecomesKeeps DEF RequestFacts
  <2>2. CASE pc # "idle"
    BY <1>0, <1>b, <2>2, BecomesKeeps, FactsStay
  <2> QED
    BY <2>1, <2>2
<1>1. ASSUME NEW kind \in Kinds, NEW id \in SessionIds \cup {None}, NEW sid \in AnySid,
             Begin(r, kind, id, sid)
      PROVE  RequestFacts(r)'
  <2> DEFINE about == {i \in SessionIds : kind = "front" /\ Present(i) /\ sessions[i].sid = sid}
             pc == IF id = None \/ ~Present(id) THEN After(kind, FALSE)
                   ELSE IF sessions[id].expires <= now THEN "drop" ELSE "list"
             rec == [pc |-> pc, kind |-> kind, id |-> id, now |-> now, sid |-> sid, todo |-> {},
                     cur |-> None, left |-> {}, about |-> about, known |-> accepted, over |-> ended]
  <2>1. requests'[r] = rec
    BY <1>0, <1>1 DEF Begin
  <2>2. kind \in {"page", "logout", "front"} /\ sessions' = sessions
    BY <1>1, KindsAssumption DEF Begin, files
  <2>3. /\ pc \in {"idle", "list", "drop", "delete", "listFront"}
        /\ pc \in {"list", "drop"} => id \in SessionIds
        /\ pc = "delete" => kind \in {"logout"}
    BY <2>2 DEF After
  <2>4. /\ id = None => kind = "front"
        /\ id \in SessionIds => sessions[id].file # "unused"
        /\ kind = "page" => Present(id)
    BY <1>1, NoneAssumption DEF Begin
  <2>5. kind = "page" => id \in SessionIds /\ id \notin ended
    BY <1>0, <2>4 DEF EndedAreRemoved, Present
  <2>6. \A i \in about : i \in SessionIds /\ sessions[i].file # "unused" /\ sessions[i].sid = sid
    BY DEF Present
  <2> HIDE DEF pc, about
  <2>7. /\ requests'[r].pc = pc /\ requests'[r].kind = kind /\ requests'[r].id = id
        /\ requests'[r].sid = sid /\ requests'[r].about = about /\ requests'[r].over = ended
    BY <2>1
  <2> HIDE DEF rec
  <2> QED
    BY <2>2, <2>3, <2>4, <2>5, <2>6, <2>7 DEF RequestFacts
<1>2. CASE List(r)
  <2>1. /\ requests[r].pc = "list" /\ requests'[r].pc = "scan"
        /\ requests'[r].id = requests[r].id /\ requests'[r].kind = requests[r].kind
        /\ requests'[r].over = requests[r].over /\ requests'[r].about = requests[r].about
        /\ requests'[r].sid = requests[r].sid
    BY <1>0, <1>2 DEF List, RequestCall
  <2> QED
    BY <1>0, <2>1, FactsStay DEF RequestFacts
<1>3. ASSUME NEW j \in Jtis, Scan(r, j)
      PROVE  RequestFacts(r)'
  <2>1. /\ requests[r].pc = "scan" /\ requests'[r].pc \in {"scan", "purge", "drop"}
        /\ requests'[r].id = requests[r].id /\ requests'[r].kind = requests[r].kind
        /\ requests'[r].over = requests[r].over /\ requests'[r].about = requests[r].about
        /\ requests'[r].sid = requests[r].sid
    <3> DEFINE pc == CASE ~claims[j].file -> "scan"
                       [] claims[j].file /\ claims[j].expires <= requests[r].now -> "purge"
                       [] OTHER -> IF Revokes(claims[j], sessions[requests[r].id]) THEN "drop" ELSE "scan"
               cur == IF claims[j].file /\ claims[j].expires <= requests[r].now THEN j ELSE None
               todo == requests[r].todo \ {j}
               rec == [requests[r] EXCEPT !.todo = todo, !.cur = cur, !.pc = pc]
    <3>1. requests'[r] = rec /\ requests[r].pc = "scan"
      BY <1>3, <1>0 DEF Scan
    <3>2. pc \in {"scan", "purge", "drop"}
      OBVIOUS
    <3> HIDE DEF pc, cur, todo
    <3>3. /\ rec.pc = pc /\ rec.id = requests[r].id /\ rec.kind = requests[r].kind
          /\ rec.over = requests[r].over /\ rec.about = requests[r].about
          /\ rec.sid = requests[r].sid
      BY <1>0 DEF RequestCall
    <3> QED
      BY <3>1, <3>2, <3>3
  <2> QED
    BY <1>0, <2>1, FactsStay DEF RequestFacts
<1>4. CASE Purge(r)
  <2>1. requests[r].pc = "purge" /\ Becomes(r, "scan")
    BY <1>4 DEF Purge
  <2> QED
    BY <1>0, <1>b, <2>1 DEF RequestFacts
<1>5. CASE InForce(r)
  <2>1. requests[r].pc = "scan" /\ Becomes(r, After(requests[r].kind, TRUE))
    BY <1>5 DEF InForce
  <2>2. /\ After(requests[r].kind, TRUE) \in {"admitted", "delete", "listFront"}
        /\ After(requests[r].kind, TRUE) = "admitted" => requests[r].kind = "page"
    BY <1>k DEF After
  <2> QED
    BY <1>0, <1>b, <2>1, <2>2 DEF RequestFacts
<1>6. CASE Drop(r)
  <2>1. requests[r].pc = "drop" /\ Becomes(r, After(requests[r].kind, FALSE))
    BY <1>6 DEF Drop
  <2>2. After(requests[r].kind, FALSE) \in {"idle", "delete", "listFront"}
    BY <1>k DEF After
  <2> QED
    BY <1>0, <1>b, <2>1, <2>2 DEF RequestFacts
<1>7. CASE Serve(r) \/ DeleteSession(r) \/ EndFront(r)
  <2>1. requests[r].pc # "idle" /\ Becomes(r, "idle")
    BY <1>7 DEF Serve, DeleteSession, EndFront
  <2> QED
    BY <1>b, <2>1
<1>8. CASE ListFront(r)
  <2>1. /\ requests[r].pc = "listFront" /\ requests'[r].pc = "front" /\ sessions' = sessions
        /\ requests'[r].left = {i \in SessionIds : Present(i)}
        /\ requests'[r].id = requests[r].id /\ requests'[r].kind = requests[r].kind
        /\ requests'[r].over = requests[r].over /\ requests'[r].about = requests[r].about
        /\ requests'[r].sid = requests[r].sid
    BY <1>0, <1>8 DEF ListFront, RequestCall, files
  <2>2. \A i \in requests[r].about : i \in requests'[r].left \/ ~Present(i)'
    BY <1>0, <2>1 DEF RequestFacts, Present
  <2> QED
    BY <1>0, <2>1, <2>2, FactsStay DEF RequestFacts
<1>9. ASSUME NEW id \in SessionIds, ScanFront(r, id)
      PROVE  RequestFacts(r)'
  <2>1. /\ requests[r].pc = "front" /\ requests'[r].pc = "front"
        /\ requests'[r].left = requests[r].left \ {id}
        /\ requests'[r].id = requests[r].id /\ requests'[r].kind = requests[r].kind
        /\ requests'[r].over = requests[r].over /\ requests'[r].about = requests[r].about
        /\ requests'[r].sid = requests[r].sid
        /\ sessions' = IF sessions[id].sid = requests[r].sid THEN Without(id) ELSE sessions
    BY <1>0, <1>9 DEF ScanFront, RequestCall
  <2>2. ASSUME NEW i \in requests[r].about PROVE i \in requests'[r].left \/ ~Present(i)'
    <3>1. /\ i \in SessionIds /\ sessions[i].file # "unused" /\ sessions[i].sid = requests[r].sid
          /\ i \in requests[r].left \/ ~Present(i)
      BY <1>0, <2>1 DEF RequestFacts
    <3>2. CASE i = id
      <4>1. sessions' = Without(id) /\ sessions[id] \in Session
        BY <1>0, <2>1, <3>1, <3>2
      <4>2. [sessions[id] EXCEPT !.file = "removed"].file = "removed"
        BY <4>1 DEF Session
      <4>3. sessions'[id].file # "present"
        BY <1>0, <4>1, <4>2 DEF Without, Present
      <4> QED
        BY <3>2, <4>3 DEF Present
    <3>3. CASE i # id /\ i \in requests[r].left
      BY <2>1, <3>3
    <3>4. CASE ~Present(i)
      <4>1. sessions[i].file = "removed"
        BY <1>0, <3>1, <3>4 DEF Present, Session
      <4> QED
        BY <1>0, <3>1, <4>1, SessionStays DEF Present
    <3> QED
      BY <3>1, <3>2, <3>3, <3>4
  <2> QED
    BY <1>0, <2>1, <2>2, FactsStay DEF RequestFacts
<1>10. CASE StopRequest(r)
  <2>1. /\ requests[r].pc # "idle"
        /\ \/ Becomes(r, "idle")
           \/ Becomes(r, "delete") /\ requests[r].pc \in {"list", "scan", "purge", "drop"}
    BY <1>10 DEF StopRequest
  <2> QED
    BY <1>0, <1>b, <2>1 DEF RequestFacts
<1> QED
  BY <1>1, <1>2, <1>3, <1>4, <1>5, <1>6, <1>7, <1>8, <1>9, <1>10 DEF Request

LEMMA EndedNext ==
  ASSUME EInv, [Next]_vars
  PROVE  EInv'
<1>0. TypeOK /\ EndedAreRemoved /\ \A r \in Requests : RequestFacts(r)
  BY DEF EInv
<1>1. TypeOK'
  BY <1>0, TypeNext
<1>2. ASSUME NEW r \in Requests PROVE RequestFacts(r)'
  <2>1. CASE Request(r)
    BY <2>1, RequestKeepsFacts
  <2>2. CASE requests'[r] = requests[r]
    <3>1. CASE requests[r].pc = "idle"
      BY <2>2, <3>1 DEF RequestFacts
    <3>2. CASE requests[r].pc # "idle"
      <4>1. ASSUME NEW i \in requests[r].about, requests[r].pc = "front"
            PROVE  i \in requests[r].left \/ ~Present(i)'
        <5>1. i \in SessionIds /\ sessions[i].file # "unused" /\ (i \in requests[r].left \/ ~Present(i))
          BY <1>0, <3>2, <4>1 DEF RequestFacts
        <5>2. ~Present(i) => sessions[i].file = "removed"
          BY <1>0, <5>1 DEF TypeOK, Present, Session
        <5> QED
          BY <1>0, <5>1, <5>2, SessionStays DEF Present
      <4> QED
        BY <1>0, <2>2, <3>2, <4>1, FactsStay DEF RequestFacts
    <3> QED
      BY <3>1, <3>2
  <2> QED
    BY <1>0, <2>1, <2>2, OtherRequests
<1>3. EndedAreRemoved'
  <2>1. ASSUME NEW id \in ended, id \in SessionIds PROVE sessions'[id].file = "removed"
    BY <1>0, <2>1, SessionStays DEF EndedAreRemoved
  <2>2. ASSUME NEW r \in Requests, DeleteSession(r)
        PROVE  EndedAreRemoved'
    <3>1. PICK id : id = requests[r].id
      OBVIOUS
    <3>2. /\ sessions' = Without(id) /\ ended' = ended \cup {id}
          /\ id \in SessionIds /\ sessions[id].file # "unused"
      BY <1>0, <2>2, <3>1 DEF DeleteSession, RequestFacts
    <3>3. sessions \in [SessionIds -> Session] /\ sessions[id] \in Session
      BY <1>0, <3>2 DEF TypeOK
    <3>4. [sessions[id] EXCEPT !.file = "removed"].file = "removed"
      BY <3>3 DEF Session
    <3>5. sessions'[id].file # "present"
      BY <3>2, <3>3, <3>4 DEF Without, Present
    <3>6. sessions'[id].file # "unused" /\ sessions'[id] \in Session
      BY <1>0, <1>1, <3>2, SessionStays DEF TypeOK
    <3>7. sessions'[id].file = "removed"
      BY <3>5, <3>6 DEF Session
    <3> QED
      BY <2>1, <3>2, <3>7 DEF EndedAreRemoved
  <2>3. ASSUME NEW r \in Requests, EndFront(r)
        PROVE  EndedAreRemoved'
    <3>1. /\ sessions' = sessions /\ ended' = ended \cup requests[r].about
          /\ requests[r].pc = "front" /\ requests[r].left = {}
      BY <2>3 DEF EndFront, files
    <3>2. ASSUME NEW i \in requests[r].about PROVE sessions[i].file = "removed"
      BY <1>0, <3>1 DEF RequestFacts, TypeOK, Present, Session
    <3> QED
      BY <2>1, <3>1, <3>2 DEF EndedAreRemoved
  <2>4. UNCHANGED ended \/ \E r \in Requests : DeleteSession(r) \/ EndFront(r)
    BY DEF Next, Tick, Provider, IssueToken, Callback, Verify, Stamp, LinkSession, StopCallback,
         Request, Begin, List, Scan, Purge, InForce, Drop, Serve, ListFront,
         ScanFront, StopRequest, Notice, Receive, ReadClaim, RemoveClaim, LinkClaim,
         Accept, StopNotice, history, vars
  <2> QED
    BY <2>1, <2>2, <2>3, <2>4 DEF EndedAreRemoved
<1> QED
  BY <1>1, <1>2, <1>3 DEF EInv

LEMMA EndedInvariance == Spec => []EInv
<1>1. EInv /\ [Next]_vars => EInv'
  BY EndedNext
<1> QED
  BY InitEnded, <1>1, PTL DEF Spec

\* When handleLogout or the front-channel logout has answered, whatever it was
\* about is over for every request that begins later, on any replica.
THEOREM EndedSessionsStayEnded == Spec => []EndedStaysEnded
<1>1. EInv => EndedStaysEnded
  BY DEF EInv, RequestFacts, EndedStaysEnded
<1> QED
  BY <1>1, EndedInvariance, PTL

-----------------------------------------------------------------------------
(* Sessions that a back-channel logout has revoked *)

\* The session a cannot be about any more: it ends with its login's 8 hours.
Over(a) == a.iat + Lifetime <= now

\* The claim of jti is the one of the logout a.
ClaimOf(a, j) ==
  /\ claims[j].file /\ claims[j].sid = a.sid /\ claims[j].sub = a.sub
  /\ claims[j].received = a.received /\ tokens[j].iat = a.iat

Logout(n) == [sid |-> notices[n].tok.sid, sub |-> notices[n].tok.sub,
              iat |-> notices[n].tok.iat, received |-> notices[n].now]

SessionTimes ==
  /\ \A i \in SessionIds :
       sessions[i].file # "unused" => sessions[i].expires <= sessions[i].created + Lifetime
  /\ \A k \in Callbacks :
       /\ callbacks[k].pc = "verified" => callbacks[k].expires <= now + Lifetime
       /\ callbacks[k].pc = "stamped" => callbacks[k].expires <= callbacks[k].created + Lifetime

WinnersLinked ==
  \A n \in Notices : notices[n].pc = "accept" => ClaimOf(Logout(n), notices[n].jti)

AcceptedKept == \A a \in accepted : Over(a) \/ \E j \in Jtis : ClaimOf(a, j)

\* What a request that looks for a reason to drop its session has yet to find.
Sought(r) ==
  requests[r].pc # "idle" =>
    /\ requests[r].known \subseteq accepted
    /\ \A a \in requests[r].known : Revokes(a, sessions[requests[r].id]) =>
         /\ requests[r].pc \in {"scan", "purge"} =>
              Over(a) \/ \E j \in requests[r].todo : ClaimOf(a, j)
         /\ requests[r].pc = "admitted" => Over(a)

LInv == /\ IInv /\ EInv /\ SessionTimes /\ WinnersLinked /\ AcceptedKept
        /\ \A r \in Requests : Sought(r)

LEMMA InitLogout == Init => LInv
<1> SUFFICES ASSUME Init PROVE LInv
  OBVIOUS
<1>1. /\ \A i \in SessionIds : sessions[i].file = "unused"
      /\ \A k \in Callbacks : callbacks[k].pc = "idle"
      /\ \A r \in Requests : requests[r].pc = "idle"
      /\ \A n \in Notices : notices[n].pc = "idle"
      /\ accepted = {}
  BY DEF Init, IdleCallback, IdleRequest, IdleNotice
<1>2. SessionTimes /\ WinnersLinked /\ AcceptedKept
  BY <1>1 DEF SessionTimes, WinnersLinked, AcceptedKept
<1>3. \A r \in Requests : Sought(r)
  BY <1>1 DEF Sought
<1> QED
  BY InitInv, InitEnded, <1>2, <1>3 DEF LInv

\* The clock only goes on, and only for a Tick.
LEMMA NowGrows ==
  ASSUME TypeOK, [Next]_vars
  PROVE  /\ now' \in Nat /\ now <= now' /\ now' <= now + 1
         /\ now' = now \/ UNCHANGED <<files, tokens, callbacks, requests, notices, history>>
<1>0. now \in Nat
  BY DEF TypeOK
<1>1. CASE Tick
  BY <1>0, <1>1 DEF Tick
<1>2. CASE ~Tick
  <2>1. now' = now
    BY <1>2 DEF Next, Provider, IssueToken, Callback, Verify, Stamp, LinkSession, StopCallback,
         Request, Begin, List, Scan, Purge, InForce, Drop, Serve, DeleteSession, ListFront,
         ScanFront, EndFront, StopRequest, Notice, Receive, ReadClaim, RemoveClaim, LinkClaim,
         Accept, StopNotice, vars
  <2> QED
    BY <1>0, <2>1
<1> QED
  BY <1>1, <1>2

LEMMA OverStays ==
  ASSUME TypeOK, [Next]_vars, NEW a \in Acceptance, Over(a)
  PROVE  Over(a)'
<1>1. a.iat \in Nat /\ Lifetime \in Nat /\ now \in Nat
  BY TimesAssumption DEF TypeOK, Acceptance
<1>2. now' \in Nat /\ now <= now'
  BY NowGrows
<1> QED
  BY <1>1, <1>2 DEF Over

\* A claim stays until what it says is about sessions that must be over.
LEMMA ClaimStays ==
  ASSUME ~ReuseJti, IInv, [Next]_vars, NEW j \in Jtis, NEW a \in Acceptance, ClaimOf(a, j)
  PROVE  ClaimOf(a, j)' \/ Over(a)'
<1>0. /\ TypeOK /\ NoticesFresh /\ ClaimsKept /\ PurgesExpired
      /\ claims \in [Jtis -> Claim] /\ tokens \in [Jtis -> Token]
  BY DEF IInv, TypeOK
<1>1. tokens'[j] = tokens[j]
  <2>1. 0 < tokens[j].exp
    BY <1>0 DEF ClaimsKept, ClaimOf
  <2>2. CASE UNCHANGED tokens
    BY <2>2
  <2>3. ASSUME NEW i \in Jtis, NEW sid, NEW sub, NEW iat, NEW ttl, IssueToken(i, sid, sub, iat, ttl)
        PROVE  tokens'[j] = tokens[j]
    <3>1. tokens[i].exp = 0
      BY <2>3 DEF IssueToken
    <3>2. i # j
      BY <2>1, <3>1
    <3> QED
      BY <1>0, <2>3, <3>2 DEF IssueToken
  <2>4. UNCHANGED tokens \/ Provider
    BY DEF Next, Tick, Callback, Verify, Stamp, LinkSession, StopCallback,
         Request, Begin, List, Scan, Purge, InForce, Drop, Serve, DeleteSession, ListFront,
         ScanFront, EndFront, StopRequest, Notice, Receive, ReadClaim, RemoveClaim, LinkClaim,
         Accept, StopNotice, vars
  <2> QED
    BY <2>2, <2>3, <2>4 DEF Provider
<1>2. CASE claims'[j] = claims[j]
  BY <1>1, <1>2 DEF ClaimOf
<1>3. ASSUME NEW r \in Requests, Purge(r), claims'[j] # claims[j]
      PROVE  Over(a)'
  <2>1. requests[r].cur = j
    BY <1>0, <1>3 DEF Purge
  <2>2. tokens[j].iat + Lifetime <= now
    BY <1>0, <1>3, <2>1 DEF PurgesExpired, Purge
  <2>3. Over(a)
    BY <2>2 DEF ClaimOf, Over
  <2> QED
    BY <1>0, <2>3, OverStays
<1>4. ASSUME NEW n \in Notices, LinkClaim(n)
      PROVE  claims'[j] = claims[j]
  <2>1. CASE notices[n].jti = j
    BY <1>4, <2>1 DEF LinkClaim, ClaimOf
  <2>2. CASE notices[n].jti # j
    BY <1>0, <1>4, <2>2 DEF LinkClaim
  <2> QED
    BY <2>1, <2>2
<1>5. ASSUME NEW n \in Notices, RemoveClaim(n)
      PROVE  FALSE
  BY <1>0, <1>5 DEF NoticesFresh, RemoveClaim
<1>6. \/ UNCHANGED claims
      \/ \E r \in Requests : Purge(r)
      \/ \E n \in Notices : LinkClaim(n) \/ RemoveClaim(n)
  BY DEF Next, Tick, Provider, IssueToken, Callback, Verify, Stamp, LinkSession, StopCallback,
         Request, Begin, List, Scan, InForce, Drop, Serve, DeleteSession, ListFront,
         ScanFront, EndFront, StopRequest, Notice, Receive, ReadClaim,
         Accept, StopNotice, files, vars
<1> QED
  BY <1>2, <1>3, <1>4, <1>5, <1>6

LEMMA TimesStay ==
  ASSUME TypeOK, SessionTimes, [Next]_vars
  PROVE  SessionTimes'
<1>0. /\ now \in Nat /\ Lifetime \in Nat /\ callbacks \in [Callbacks -> CallbackCall]
      /\ sessions \in [SessionIds -> Session] /\ now' \in Nat /\ now <= now'
  BY TimesAssumption, NowGrows DEF TypeOK
<1>1. ASSUME NEW i \in SessionIds, sessions'[i].file # "unused"
      PROVE  sessions'[i].expires <= sessions'[i].created + Lifetime
  <2>1. CASE sessions[i].file # "unused"
    BY <2>1, SessionStays DEF SessionTimes
  <2>2. ASSUME NEW k \in Callbacks, LinkSession(k, i)
        PROVE  sessions'[i].expires <= sessions'[i].created + Lifetime
    <3>1. /\ callbacks[k].pc = "stamped"
          /\ sessions'[i].expires = callbacks[k].expires /\ sessions'[i].created = callbacks[k].created
      BY <1>0, <2>2 DEF LinkSession
    <3> QED
      BY <3>1 DEF SessionTimes
  <2>3. CASE sessions[i].file = "unused" /\ \A k \in Callbacks : ~LinkSession(k, i)
    <3>1. \/ UNCHANGED sessions
          \/ \E id : sessions' = Without(id)
          \/ \E k \in Callbacks, id \in SessionIds : LinkSession(k, id)
      BY DEF Next, Tick, Provider, IssueToken, Callback, Verify, Stamp, StopCallback,
         Request, Begin, List, Scan, Purge, InForce, Drop, Serve, DeleteSession, ListFront,
         ScanFront, EndFront, StopRequest, Notice, Receive, ReadClaim, RemoveClaim, LinkClaim,
         Accept, StopNotice, files, history, vars
    <3>2. ASSUME NEW id, sessions' = Without(id) PROVE sessions'[i] = sessions[i]
      <4>1. CASE id = i
        BY <2>3, <3>2, <4>1 DEF Without, Present
      <4>2. CASE id # i
        <5> HIDE DEF Session
        <5> QED
          BY <1>0, <3>2, <4>2 DEF Without
      <4> QED
        BY <4>1, <4>2
    <3>3. ASSUME NEW k \in Callbacks, NEW id \in SessionIds, LinkSession(k, id)
          PROVE  sessions'[i] = sessions[i]
      <4>1. id # i
        BY <2>3, <3>3
      <4> QED
        BY <1>0, <3>3, <4>1 DEF LinkSession
    <3> QED
      BY <1>1, <2>3, <3>1, <3>2, <3>3
  <2> QED
    BY <2>1, <2>2, <2>3
<1>2. ASSUME NEW k \in Callbacks
      PROVE  /\ callbacks'[k].pc = "verified" => callbacks'[k].expires <= now' + Lifetime
             /\ callbacks'[k].pc = "stamped" => callbacks'[k].expires <= callbacks'[k].created + Lifetime
  <2>1. callbacks[k] \in CallbackCall /\ callbacks[k].expires \in Nat /\ callbacks[k].created \in Nat
    BY <1>0 DEF CallbackCall
  <2>2. CASE callbacks'[k] = callbacks[k]
    BY <1>0, <2>1, <2>2 DEF SessionTimes
  <2>3. ASSUME NEW sid \in AnySid, NEW sub \in Subjects, NEW ttl \in IdTtls, Verify(k, sid, sub, ttl)
        PROVE  /\ callbacks'[k].pc = "verified" => callbacks'[k].expires <= now' + Lifetime
               /\ callbacks'[k].pc # "stamped"
    <3>1. /\ callbacks'[k].pc = "verified"
          /\ callbacks'[k].expires = Lesser(now + ttl, now + Lifetime) /\ now' = now
      BY <1>0, <2>3 DEF Verify
    <3>2. ttl \in Nat
      BY TimesAssumption
    <3>3. Lesser(now + ttl, now + Lifetime) <= now + Lifetime
      BY <1>0, <3>2 DEF Lesser
    <3> QED
      BY <3>1, <3>3
  <2>4. CASE Stamp(k)
    <3>1. /\ callbacks[k].pc = "verified" /\ callbacks'[k].pc = "stamped"
          /\ callbacks'[k].created = now /\ callbacks'[k].expires = callbacks[k].expires
      BY <1>0, <2>1, <2>4 DEF Stamp, CallbackCall
    <3> QED
      BY <3>1 DEF SessionTimes
  <2>5. CASE callbacks'[k] = IdleCallback
    BY <2>5 DEF IdleCallback
  <2>6. \/ UNCHANGED callbacks
        \/ \E c \in Callbacks : Callback(c)
    BY DEF Next, Tick, Provider, IssueToken, Request, Begin, List, Scan, Purge, InForce, Drop,
         Serve, DeleteSession, ListFront, ScanFront, EndFront, StopRequest, Notice, Receive,
         ReadClaim, RemoveClaim, LinkClaim, Accept, StopNotice, vars
  <2>7. ASSUME NEW c \in Callbacks, Callback(c), c # k
        PROVE  callbacks'[k] = callbacks[k]
    <3> HIDE DEF CallbackCall
    <3> QED
      BY <1>0, <2>7 DEF Callback, Verify, Stamp, LinkSession, StopCallback
  <2>8. CASE Callback(k)
    <3>1. ASSUME NEW id \in SessionIds, LinkSession(k, id) PROVE callbacks'[k] = IdleCallback
      BY <1>0, <3>1 DEF LinkSession
    <3>2. CASE StopCallback(k)
      <4>1. callbacks'[k] = IdleCallback
        BY <1>0, <3>2 DEF StopCallback
      <4> QED
        BY <2>5, <4>1
    <3> QED
      BY <2>3, <2>4, <2>5, <2>8, <3>1, <3>2 DEF Callback
  <2> QED
    BY <2>2, <2>6, <2>7, <2>8
<1> QED
  BY <1>1, <1>2 DEF SessionTimes

LEMMA OtherNotices ==
  ASSUME TypeOK, [Next]_vars, NEW n \in Notices
  PROVE  notices'[n] = notices[n] \/ Notice(n)
<1>0. notices \in [Notices -> NoticeCall]
  BY DEF TypeOK
<1>1. UNCHANGED notices \/ \E m \in Notices : Notice(m)
  BY DEF Next, Tick, Provider, IssueToken, Callback, Verify, Stamp, LinkSession, StopCallback,
         Request, Begin, List, Scan, Purge, InForce, Drop, Serve, DeleteSession, ListFront,
         ScanFront, EndFront, StopRequest, vars
<1>2. ASSUME NEW m \in Notices, Notice(m), m # n PROVE notices'[n] = notices[n]
  <2> HIDE DEF NoticeCall
  <2> QED
    BY <1>0, <1>2 DEF Notice, Receive, ReadClaim, RemoveClaim, LinkClaim, Accept, StopNotice,
         Proceed
<1> QED
  BY <1>1, <1>2

\* Whoever has linked a claim has its own, and the token is fresh still.
LEMMA WinnersStayLinked ==
  ASSUME ~ReuseJti, IInv, WinnersLinked, [Next]_vars
  PROVE  WinnersLinked'
<1> SUFFICES ASSUME NEW n \in Notices, notices'[n].pc = "accept"
             PROVE  ClaimOf(Logout(n), notices[n].jti)'
  BY DEF WinnersLinked
<1>0. /\ TypeOK /\ NoticesFresh /\ claims \in [Jtis -> Claim] /\ tokens \in [Jtis -> Token]
      /\ notices \in [Notices -> NoticeCall] /\ notices[n] \in NoticeCall
      /\ notices[n].tok \in Token /\ notices[n].now \in Nat
  BY DEF IInv, TypeOK, NoticeCall
<1>1. CASE notices'[n] = notices[n]
  <2>1. PICK a : a = Logout(n)
    OBVIOUS
  <2>2. PICK j : j = notices[n].jti
    OBVIOUS
  <2>3. ClaimOf(a, j) /\ j \in Jtis
    BY <1>0, <1>1, <2>1, <2>2 DEF WinnersLinked, NoticesFresh
  <2>4. /\ a \in Acceptance /\ a.iat = notices[n].tok.iat /\ a.iat \in Nat
    BY <1>0, <2>1 DEF Logout, Acceptance, Token
  <2>5. /\ notices'[n].now <= notices'[n].tok.iat + Window /\ now' <= notices'[n].now + Patience
    <3>1. NoticesFresh'
      BY NextInv DEF IInv
    <3> QED
      BY <3>1 DEF NoticesFresh
  <2>6. ~Over(a)'
    <3>1. /\ Window \in Nat /\ Patience \in Nat /\ Lifetime \in Nat /\ Window + Patience < Lifetime
          /\ now' \in Nat
      BY <1>0, TimesAssumption, RetentionAssumption, NowGrows
    <3> QED
      BY <1>0, <1>1, <2>4, <2>5, <3>1 DEF Over
  <2>7. ClaimOf(a, j)'
    BY <2>3, <2>4, <2>6, ClaimStays
  <2> QED
    BY <1>1, <2>1, <2>2, <2>7 DEF ClaimOf, Logout
<1>2. CASE LinkClaim(n)
  <2> DEFINE j == notices[n].jti
             rec == [notices[n] EXCEPT !.pc = "accept"]
  <2>1. notices[n].pc = "link" /\ UNCHANGED tokens
    BY <1>2 DEF LinkClaim
  <2>2. j \in Jtis /\ notices[n].tok = tokens[j]
    BY <1>0, <2>1 DEF NoticesFresh
  <2>3. ~claims[j].file
    BY <1>0, <1>2 DEF LinkClaim, Proceed, IdleNotice
  <2>4. claims' = [claims EXCEPT ![j] = NewClaim(n)] /\ notices'[n] = rec
    BY <1>0, <1>2, <2>3 DEF LinkClaim, Proceed
  <2>5. rec.jti = j /\ rec.tok = notices[n].tok /\ rec.now = notices[n].now
    BY <1>0 DEF NoticeCall
  <2> HIDE DEF rec
  <2>6. claims'[j] = NewClaim(n)
    BY <1>0, <2>2, <2>4
  <2>7. notices'[n].jti = j /\ notices'[n].tok = tokens[j] /\ notices'[n].now = notices[n].now
    BY <2>2, <2>4, <2>5
  <2> QED
    BY <2>1, <2>2, <2>6, <2>7 DEF ClaimOf, Logout, NewClaim
<1>3. Notice(n) => LinkClaim(n)
  <2>1. ~(ReadClaim(n) \/ RemoveClaim(n) \/ Accept(n) \/ StopNotice(n))
    <3>1. ASSUME NEW pc \in {"idle", "link", "replace"}, Proceed(n, pc) PROVE FALSE
      BY <1>0, <3>1 DEF Proceed, IdleNotice, NoticeCall
    <3> QED
      BY <3>1 DEF ReadClaim, RemoveClaim, Accept, StopNotice
  <2>2. \A j \in Jtis : ~Receive(n, j)
    BY <1>0 DEF Receive
  <2> QED
    BY <2>1, <2>2 DEF Notice
<1> QED
  BY <1>0, <1>1, <1>2, <1>3, OtherNotices

LEMMA AcceptedStayKept ==
  ASSUME ~ReuseJti, IInv, WinnersLinked, AcceptedKept, [Next]_vars
  PROVE  accepted \subseteq accepted' /\ AcceptedKept'
<1>0. TypeOK /\ NoticesFresh /\ accepted \subseteq Acceptance
  BY DEF IInv, TypeOK
<1>1. ASSUME NEW a \in accepted PROVE (Over(a) \/ \E j \in Jtis : ClaimOf(a, j))'
  <2>1. CASE Over(a)
    BY <1>0, <2>1, OverStays
  <2>2. ASSUME NEW j \in Jtis, ClaimOf(a, j) PROVE Over(a)' \/ ClaimOf(a, j)'
    BY <1>0, <2>2, ClaimStays
  <2> QED
    BY <2>1, <2>2 DEF AcceptedKept
<1>2. ASSUME NEW n \in Notices, Accept(n)
      PROVE  accepted' = accepted \cup {Logout(n)} /\ (\E j \in Jtis : ClaimOf(Logout(n), j)) /\ UNCHANGED <<claims, tokens>>
  BY <1>0, <1>2 DEF Accept, Logout, WinnersLinked, NoticesFresh, files
<1>3. UNCHANGED accepted \/ \E n \in Notices : Accept(n)
  BY DEF Next, Tick, Provider, IssueToken, Callback, Verify, Stamp, LinkSession, StopCallback,
         Request, Begin, List, Scan, Purge, InForce, Drop, Serve, DeleteSession, ListFront,
         ScanFront, EndFront, StopRequest, Notice, Receive, ReadClaim, RemoveClaim, LinkClaim,
         StopNotice, history, vars
<1>4. CASE UNCHANGED accepted
  BY <1>1, <1>4 DEF AcceptedKept
<1>5. ASSUME NEW n \in Notices, Accept(n) PROVE accepted \subseteq accepted' /\ AcceptedKept'
  <2>1. PICK a : a = Logout(n)
    OBVIOUS
  <2>2. accepted' = accepted \cup {a} /\ \E j \in Jtis : ClaimOf(a, j)'
    BY <1>2, <1>5, <2>1 DEF ClaimOf
  <2> QED
    BY <1>1, <2>2 DEF AcceptedKept
<1> QED
  BY <1>3, <1>4, <1>5

LEMMA LogoutNextButSought ==
  ASSUME ~ReuseJti, LInv, [Next]_vars
  PROVE  /\ IInv' /\ EInv' /\ SessionTimes' /\ WinnersLinked' /\ AcceptedKept'
         /\ accepted \subseteq accepted'
<1>1. TypeOK
  BY DEF LInv, IInv
<1> QED
  BY <1>1, NextInv, EndedNext, TimesStay, WinnersStayLinked, AcceptedStayKept DEF LInv

\* What a request seeks it seeks on, if what its step found allows that.
LEMMA SoughtStays ==
  ASSUME ~ReuseJti, LInv, [Next]_vars, NEW r \in Requests,
         requests[r].pc # "idle",
         requests'[r].id = requests[r].id, requests'[r].known = requests[r].known,
         \A a \in requests[r].known : Revokes(a, sessions[requests[r].id]) =>
           /\ requests'[r].pc \in {"scan", "purge"} =>
                (Over(a) \/ \E j \in requests[r].todo : ClaimOf(a, j))'
           /\ requests'[r].pc = "admitted" => Over(a)'
  PROVE  Sought(r)'
<1>0. TypeOK /\ EInv /\ Sought(r) /\ RequestFacts(r) /\ RequestFacts(r)'
  BY LogoutNextButSought DEF LInv, EInv
<1>1. requests[r].known \subseteq accepted'
  BY <1>0, LogoutNextButSought DEF Sought
<1>2. ASSUME NEW a \in requests[r].known, requests'[r].pc \in {"scan", "purge", "admitted"},
             Revokes(a, sessions'[requests[r].id])
      PROVE  Revokes(a, sessions[requests[r].id])
  <2>1. requests[r].id \in SessionIds /\ sessions[requests[r].id].file # "unused"
    BY <1>0, <1>2 DEF RequestFacts
  <2>2. PICK i \in SessionIds : i = requests[r].id
    BY <2>1
  <2>3. /\ sessions'[i].sid = sessions[i].sid /\ sessions'[i].sub = sessions[i].sub
        /\ sessions'[i].created = sessions[i].created
    BY <1>0, <2>1, <2>2, SessionStays
  <2> QED
    BY <1>2, <2>2, <2>3 DEF Revokes, Matches
<1> QED
  BY <1>1, <1>2 DEF Sought

LEMMA RequestKeepsSought ==
  ASSUME ~ReuseJti, LInv, [Next]_vars, NEW r \in Requests, Request(r)
  PROVE  Sought(r)'
<1>0. /\ TypeOK /\ IInv /\ Sought(r) /\ AcceptedKept /\ PurgesExpired /\ ClaimsKept
      /\ requests \in [Requests -> RequestCall] /\ requests[r] \in RequestCall
      /\ accepted \subseteq Acceptance /\ now \in Nat /\ Lifetime \in Nat
  BY TimesAssumption DEF LInv, IInv, TypeOK
<1>k. requests[r].kind \in {"page", "logout", "front"}
  BY <1>0 DEF RequestCall
\* A step to where nothing more is said.
<1>b. ASSUME NEW pc, Becomes(r, pc), requests[r].pc # "idle", pc \notin {"scan", "purge", "admitted"}
      PROVE  Sought(r)'
  <2>1. CASE pc = "idle"
    BY <1>0, <1>b, <2>1, BecomesKeeps DEF Sought
  <2>2. CASE pc # "idle"
    BY <1>0, <1>b, <2>2, BecomesKeeps, SoughtStays
  <2> QED
    BY <2>1, <2>2
\* What a scanning request has yet to find is there after the step too.
<1>s. ASSUME NEW a \in requests[r].known, requests[r].pc \in {"scan", "purge"},
             Revokes(a, sessions[requests[r].id])
      PROVE  /\ a \in Acceptance
             /\ Over(a)' \/ \E j \in requests[r].todo : ClaimOf(a, j) /\ ClaimOf(a, j)'
  <2>1. a \in Acceptance /\ requests[r].todo \subseteq Jtis
    BY <1>0, <1>s DEF Sought, RequestCall
  <2>2. Over(a) \/ \E j \in requests[r].todo : ClaimOf(a, j)
    BY <1>0, <1>s DEF Sought
  <2>3. CASE Over(a)
    BY <1>0, <2>1, <2>3, OverStays
  <2>4. ASSUME NEW j \in requests[r].todo, ClaimOf(a, j) PROVE ClaimOf(a, j)' \/ Over(a)'
    <3>1. j \in Jtis
      BY <2>1
    <3> QED
      BY <1>0, <2>1, <2>4, <3>1, ClaimStays
  <2> QED
    BY <2>1, <2>2, <2>3, <2>4
<1>1. ASSUME NEW kind \in Kinds, NEW id \in SessionIds \cup {None}, NEW sid \in AnySid,
             Begin(r, kind, id, sid)
      PROVE  Sought(r)'
  <2> DEFINE about == {i \in SessionIds : kind = "front" /\ Present(i) /\ sessions[i].sid = sid}
             pc == IF id = None \/ ~Present(id) THEN After(kind, FALSE)
                   ELSE IF sessions[id].expires <= now THEN "drop" ELSE "list"
             rec == [pc |-> pc, kind |-> kind, id |-> id, now |-> now, sid |-> sid, todo |-> {},
                     cur |-> None, left |-> {}, about |-> about, known |-> accepted, over |-> ended]
  <2>1. requests'[r] = rec /\ accepted' = accepted
    BY <1>0, <1>1 DEF Begin, history
  <2>2. kind \in {"page", "logout", "front"}
    BY KindsAssumption
  <2>3. pc \in {"idle", "list", "drop", "delete", "listFront"}
    BY <2>2 DEF After
  <2> HIDE DEF pc, about
  <2>4. requests'[r].pc = pc /\ requests'[r].known = accepted
    BY <2>1
  <2> HIDE DEF rec
  <2> QED
    BY <2>1, <2>3, <2>4 DEF Sought
<1>2. CASE List(r)
  <2>1. /\ requests[r].pc = "list" /\ requests'[r].pc = "scan"
        /\ requests'[r].todo = {j \in Jtis : claims[j].file}
        /\ requests'[r].id = requests[r].id /\ requests'[r].known = requests[r].known
        /\ UNCHANGED <<now, claims, tokens>>
    BY <1>0, <1>2 DEF List, RequestCall, files
  <2>2. ASSUME NEW a \in requests[r].known
        PROVE  (Over(a) \/ \E j \in requests[r].todo : ClaimOf(a, j))'
    <3>1. a \in accepted
      BY <1>0, <2>1 DEF Sought
    <3> QED
      BY <1>0, <2>1, <3>1 DEF AcceptedKept, ClaimOf, Over
  <2> QED
    BY <2>1, <2>2, SoughtStays
<1>3. ASSUME NEW j \in Jtis, Scan(r, j)
      PROVE  Sought(r)'
  <2> DEFINE expired == claims[j].file /\ claims[j].expires <= requests[r].now
  <2>1. /\ requests[r].pc = "scan" /\ requests'[r].pc \in {"scan", "purge", "drop"}
        /\ requests'[r].todo = requests[r].todo \ {j}
        /\ requests'[r].id = requests[r].id /\ requests'[r].known = requests[r].known
        /\ requests'[r].pc \in {"scan", "purge"} =>
             ~claims[j].file \/ expired \/ ~Revokes(claims[j], sessions[requests[r].id])
        /\ UNCHANGED <<now, claims, tokens>>
    <3> DEFINE pc == CASE ~claims[j].file -> "scan"
                       [] claims[j].file /\ claims[j].expires <= requests[r].now -> "purge"
                       [] OTHER -> IF Revokes(claims[j], sessions[requests[r].id]) THEN "drop" ELSE "scan"
               cur == IF claims[j].file /\ claims[j].expires <= requests[r].now THEN j ELSE None
               todo == requests[r].todo \ {j}
               rec == [requests[r] EXCEPT !.todo = todo, !.cur = cur, !.pc = pc]
    <3>1. requests'[r] = rec /\ requests[r].pc = "scan" /\ UNCHANGED <<now, claims, tokens>>
      BY <1>3, <1>0 DEF Scan, files
    <3>2. /\ pc \in {"scan", "purge", "drop"}
          /\ pc \in {"scan", "purge"} =>
               ~claims[j].file \/ expired \/ ~Revokes(claims[j], sessions[requests[r].id])
      OBVIOUS
    <3> HIDE DEF pc, cur, todo, expired
    <3>3. /\ rec.pc = pc /\ rec.id = requests[r].id /\ rec.known = requests[r].known
          /\ rec.todo = todo
      BY <1>0 DEF RequestCall
    <3> HIDE DEF rec
    <3> QED
      BY <3>1, <3>2, <3>3 DEF todo
  <2>2. ASSUME NEW a \in requests[r].known, requests'[r].pc \in {"scan", "purge"},
               Revokes(a, sessions[requests[r].id])
        PROVE  (Over(a) \/ \E i \in requests[r].todo : ClaimOf(a, i))'
    <3>1. a \in Acceptance /\ (Over(a)' \/ \E i \in requests[r].todo : ClaimOf(a, i) /\ ClaimOf(a, i)')
      BY <1>s, <2>1, <2>2
    <3>2. ASSUME ClaimOf(a, j) PROVE Over(a)
      <4>1. claims[j].file /\ Revokes(claims[j], sessions[requests[r].id])
        BY <2>2, <3>2 DEF ClaimOf, Revokes, Matches
      <4>2. expired
        BY <2>1, <2>2, <4>1
      <4>3. a.iat + Lifetime <= claims[j].expires
        BY <1>0, <3>2, <4>1 DEF ClaimsKept, ClaimOf
      <4>4. requests[r].now <= now /\ requests[r].now \in Nat /\ claims[j].expires \in Nat /\ a.iat \in Nat
        BY <1>0, <3>1 DEF PurgesExpired, RequestCall, TypeOK, Claim, Acceptance
      <4> QED
        BY <1>0, <4>2, <4>3, <4>4 DEF Over
    <3>3. Over(a) => Over(a)'
      BY <2>1 DEF Over
    <3> QED
      BY <2>1, <3>1, <3>2, <3>3
  <2> QED
    BY <2>1, <2>2, SoughtStays
<1>4. CASE Purge(r)
  <2>1. requests[r].pc = "purge" /\ Becomes(r, "scan")
    BY <1>4 DEF Purge
  <2>2. /\ requests'[r].pc = "scan" /\ requests'[r].todo = requests[r].todo
        /\ requests'[r].id = requests[r].id /\ requests'[r].known = requests[r].known
    BY <1>0, <2>1, BecomesKeeps
  <2> QED
    BY <1>s, <2>1, <2>2, SoughtStays
<1>5. CASE InForce(r)
  <2>1. /\ requests[r].pc = "scan" /\ requests[r].todo = {}
        /\ Becomes(r, After(requests[r].kind, TRUE))
    BY <1>5 DEF InForce
  <2>2. After(requests[r].kind, TRUE) \in {"admitted", "delete", "listFront"}
    BY <1>k DEF After
  <2>3. /\ requests'[r].pc \in {"admitted", "delete", "listFront"}
        /\ requests'[r].id = requests[r].id /\ requests'[r].known = requests[r].known
    BY <1>0, <2>1, <2>2, BecomesKeeps
  <2> QED
    BY <1>s, <2>1, <2>3, SoughtStays
<1>6. CASE Drop(r)
  <2>1. requests[r].pc = "drop" /\ Becomes(r, After(requests[r].kind, FALSE))
    BY <1>6 DEF Drop
  <2>2. After(requests[r].kind, FALSE) \in {"idle", "delete", "listFront"}
    BY <1>k DEF After
  <2> QED
    BY <1>b, <2>1, <2>2
<1>7. CASE Serve(r) \/ DeleteSession(r) \/ EndFront(r)
  <2>1. requests[r].pc # "idle" /\ Becomes(r, "idle")
    BY <1>7 DEF Serve, DeleteSession, EndFront
  <2> QED
    BY <1>b, <2>1
<1>8. ASSUME ListFront(r) \/ \E id \in SessionIds : ScanFront(r, id)
      PROVE  Sought(r)'
  <2>1. /\ requests[r].pc # "idle" /\ requests'[r].pc = "front"
        /\ requests'[r].id = requests[r].id /\ requests'[r].known = requests[r].known
    BY <1>0, <1>8 DEF ListFront, ScanFront, RequestCall
  <2> QED
    BY <2>1, SoughtStays
<1>9. CASE StopRequest(r)
  <2>1. requests[r].pc # "idle" /\ (Becomes(r, "idle") \/ Becomes(r, "delete"))
    BY <1>9 DEF StopRequest
  <2> QED
    BY <1>b, <2>1
<1> QED
  BY <1>1, <1>2, <1>3, <1>4, <1>5, <1>6, <1>7, <1>8, <1>9 DEF Request

LEMMA LogoutNext ==
  ASSUME ~ReuseJti, LInv, [Next]_vars
  PROVE  LInv'
<1>0. IInv /\ TypeOK /\ \A r \in Requests : Sought(r)
  BY DEF LInv, IInv
<1>1. ASSUME NEW r \in Requests PROVE Sought(r)'
  <2>1. CASE Request(r)
    BY <2>1, RequestKeepsSought
  <2>2. CASE requests'[r] = requests[r] /\ requests[r].pc = "idle"
    BY <2>2 DEF Sought
  <2>3. CASE requests'[r] = requests[r] /\ requests[r].pc # "idle"
    <3>1. ASSUME NEW a \in requests[r].known, Revokes(a, sessions[requests[r].id])
          PROVE  /\ requests[r].pc \in {"scan", "purge"} =>
                      Over(a)' \/ \E j \in requests[r].todo : ClaimOf(a, j)'
                 /\ requests[r].pc = "admitted" => Over(a)'
      <4>1. /\ requests[r].pc \in {"scan", "purge"} =>
                 Over(a) \/ \E j \in requests[r].todo : ClaimOf(a, j)
            /\ requests[r].pc = "admitted" => Over(a)
            /\ a \in Acceptance /\ requests[r].todo \subseteq Jtis
        BY <1>0, <2>3, <3>1 DEF Sought, TypeOK, RequestCall
      <4>2. Over(a) => Over(a)'
        BY <1>0, <4>1, OverStays
      <4>3. \A j \in requests[r].todo : ClaimOf(a, j) => ClaimOf(a, j)' \/ Over(a)'
        BY <1>0, <4>1, ClaimStays
      <4> QED
        BY <4>1, <4>2, <4>3
    <3> QED
      BY <2>3, <3>1, SoughtStays
  <2> QED
    BY <1>0, <2>1, <2>2, <2>3, OtherRequests
<1> QED
  BY <1>1, LogoutNextButSought DEF LInv

LEMMA LogoutInvariance ==
  ASSUME ~ReuseJti
  PROVE  Spec => []LInv
<1>1. LInv /\ [Next]_vars => LInv'
  BY LogoutNext
<1> QED
  BY InitLogout, <1>1, PTL DEF Spec

\* A page that begins after a back-channel logout was answered is served, on
\* any replica and whoever purges, with a session of its user only if that is
\* younger than the token: an older one is over before its claim can vanish.
THEOREM LogoutsAreFinal ==
  ASSUME ~ReuseJti
  PROVE  Spec => []LoggedOutStaysOut
<1>1. LInv => LoggedOutStaysOut
  <2> SUFFICES ASSUME LInv, NEW r \in Requests, NEW a \in accepted, ServedDespite(r, a),
                      ~(sessions[requests[r].id].created > a.iat)
               PROVE  FALSE
    BY DEF LoggedOutStaysOut
  <2>0. TypeOK /\ SessionTimes /\ Sought(r) /\ RequestFacts(r)
    BY DEF LInv, IInv, EInv
  <2>1. /\ requests[r].pc = "admitted" /\ a \in requests[r].known
        /\ Revokes(a, sessions[requests[r].id]) /\ now < sessions[requests[r].id].expires
    BY DEF ServedDespite
  <2>2. a.iat + Lifetime <= now
    BY <2>0, <2>1 DEF Sought, Over
  <2>3. PICK i \in SessionIds : i = requests[r].id /\ sessions[i].file # "unused"
    BY <2>0, <2>1 DEF RequestFacts
  <2>4. sessions[i].expires <= sessions[i].created + Lifetime
    BY <2>0, <2>3 DEF SessionTimes
  <2>5. /\ sessions[i].expires \in Nat /\ sessions[i].created \in Nat
        /\ a.iat \in Nat /\ now \in Nat /\ Lifetime \in Nat
    BY <2>0, TimesAssumption DEF TypeOK, Session, Acceptance
  <2> QED
    BY <2>1, <2>2, <2>3, <2>4, <2>5
<1> QED
  BY <1>1, LogoutInvariance, PTL

=============================================================================
