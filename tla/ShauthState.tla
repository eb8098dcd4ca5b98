----------------------------- MODULE ShauthState -----------------------------
(***************************************************************************)
(* SHAUTH sessions and logout tokens as the replicas of bleeplab keep them *)
(* in files of a shared directory (shauth_state.go), and the handlers that *)
(* use them (shauth.go): the login callback, authenticated requests, the   *)
(* logout pages, front-channel and back-channel logout.                    *)
(*                                                                         *)
(* Nothing locks the directory: every access to a file is an action of its *)
(* own and handlers of any replica interleave between them.  A handler may *)
(* stop after any of them, because its replica dies or an access fails.    *)
(* A new file is written under a name nobody reads and linked to its own,  *)
(* so it appears whole or not at all, and a file never changes.  Issuer    *)
(* and client are those of the deployment; all clocks agree.               *)
(***************************************************************************)
EXTENDS Integers, FiniteSets

CONSTANTS
  SessionIds,  \* names of session files
  Jtis,        \* token identifiers, the names of claim files
  Subjects,    \* users
  Sids,        \* login sessions of the provider
  None,        \* the empty sid; no file
  Callbacks,   \* login callbacks in flight
  Requests,    \* authenticated requests in flight, logouts included
  Kinds,       \* which of "page", "logout" and "front" they are
  Notices,     \* back-channel logout requests in flight
  Lifetime,    \* 8 hours: a session's longest life, a claim's shortest
  Window,      \* 5 minutes: how old a logout token may be when it arrives
  Skew,        \* 1 minute: how far ahead its iat may be
  IdTtls,      \* how long ID tokens are valid
  TokenTtls,   \* how long logout tokens are valid
  Patience,    \* longest time a back-channel request takes once it has read the clock
  ReuseJti,    \* the provider may give an expired token's jti to another token
  MaxTime      \* bound on the clock

ASSUME TimesAssumption ==
  /\ Lifetime \in Nat /\ Window \in Nat /\ Skew \in Nat /\ Patience \in Nat /\ MaxTime \in Nat
  /\ IdTtls \subseteq Nat \ {0} /\ TokenTtls \subseteq Nat \ {0}
ASSUME RetentionAssumption == Window + Patience < Lifetime
ASSUME SubjectsAssumption == Subjects # {}
ASSUME KindsAssumption == Kinds \subseteq {"page", "logout", "front"}
ASSUME NoneAssumption == None \notin Sids \cup SessionIds \cup Jtis
ASSUME ReuseAssumption == ReuseJti \in BOOLEAN

VARIABLES
  now,        \* the clock
  sessions,   \* sessions/<id>.json
  claims,     \* logout-claims/<hash of jti>.json
  tokens,     \* provider: the token it last issued under each jti
  callbacks, requests, notices,
  accepted,   \* history: the tokens answered with 204
  grants,     \* history: how often the current token of a jti was answered with 204
  ended       \* history: the sessions that finished logouts were about

files == <<sessions, claims>>
history == <<accepted, grants, ended>>
vars == <<now, files, tokens, callbacks, requests, notices, history>>

AnySid == Sids \cup {None}

Token == [sid: AnySid, sub: Subjects, iat: Nat, exp: Nat]
Acceptance == [sid: AnySid, sub: Subjects, iat: Nat, received: Nat]
Session == [file: {"unused", "present", "removed"}, sid: AnySid, sub: Subjects,
            created: Nat, expires: Nat]
Claim == [file: BOOLEAN, sid: AnySid, sub: Subjects, received: Nat, expires: Nat]
CallbackCall == [pc: {"idle", "verified", "stamped"}, sid: AnySid, sub: Subjects,
                 created: Nat, expires: Nat]
RequestCall ==
  [pc: {"idle", "list", "scan", "purge", "drop", "admitted", "delete", "listFront", "front"},
   kind: {"page", "logout", "front"}, id: SessionIds \cup {None}, now: Nat, sid: AnySid,
   todo: SUBSET Jtis, cur: Jtis \cup {None}, left: SUBSET SessionIds,
   about: SUBSET SessionIds, known: SUBSET Acceptance, over: SUBSET (SessionIds \cup {None})]
NoticeCall == [pc: {"idle", "claim", "replace", "link", "accept"}, jti: Jtis \cup {None},
               tok: Token, now: Nat]

TypeOK ==
  /\ now \in Nat
  /\ sessions \in [SessionIds -> Session]
  /\ claims \in [Jtis -> Claim]
  /\ tokens \in [Jtis -> Token]
  /\ callbacks \in [Callbacks -> CallbackCall]
  /\ requests \in [Requests -> RequestCall]
  /\ notices \in [Notices -> NoticeCall]
  /\ accepted \subseteq Acceptance
  /\ grants \in [Jtis -> Nat]
  /\ ended \subseteq SessionIds \cup {None}

AnySubject == CHOOSE s \in Subjects : TRUE
NoToken == [sid |-> None, sub |-> AnySubject, iat |-> 0, exp |-> 0]
IdleCallback == [pc |-> "idle", sid |-> None, sub |-> AnySubject, created |-> 0, expires |-> 0]
IdleRequest == [pc |-> "idle", kind |-> "page", id |-> None, now |-> 0, sid |-> None, todo |-> {},
                cur |-> None, left |-> {}, about |-> {}, known |-> {}, over |-> {}]
IdleNotice == [pc |-> "idle", jti |-> None, tok |-> NoToken, now |-> 0]

Present(id) == sessions[id].file = "present"

Lesser(a, b) == IF a < b THEN a ELSE b
Greater(a, b) == IF a > b THEN a ELSE b

\* deleteSession: os.Remove, and a file that is gone already is no error.
Without(id) == IF Present(id) THEN [sessions EXCEPT ![id].file = "removed"] ELSE sessions

-----------------------------------------------------------------------------
(* The clock and the provider *)

Tick ==
  /\ now < MaxTime
  /\ \A n \in Notices : notices[n].pc # "idle" => now < notices[n].now + Patience
  /\ now' = now + 1
  /\ UNCHANGED <<files, tokens, callbacks, requests, notices, history>>

\* A logout token for one login session, or for all of a user (sid = None).
IssueToken(j, sid, sub, iat, ttl) ==
  /\ tokens[j].exp = 0 \/ (ReuseJti /\ tokens[j].exp <= now)
  /\ tokens' = [tokens EXCEPT ![j] = [sid |-> sid, sub |-> sub, iat |-> iat, exp |-> iat + ttl]]
  /\ grants' = [grants EXCEPT ![j] = 0]
  /\ UNCHANGED <<now, files, callbacks, requests, notices, accepted, ended>>

-----------------------------------------------------------------------------
(* handleSHAUTHCallback *)

\* The ID token is verified; the session ends with it, or after 8 hours.
Verify(k, sid, sub, ttl) ==
  /\ callbacks[k].pc = "idle"
  /\ callbacks' = [callbacks EXCEPT ![k] =
       [pc |-> "verified", sid |-> sid, sub |-> sub, created |-> 0,
        expires |-> Lesser(now + ttl, now + Lifetime)]]
  /\ UNCHANGED <<now, files, tokens, requests, notices, history>>

\* createSHAUTHSession: session.Created = time.Now()
Stamp(k) ==
  /\ callbacks[k].pc = "verified"
  /\ callbacks' = [callbacks EXCEPT ![k].pc = "stamped", ![k].created = now]
  /\ UNCHANGED <<now, files, tokens, requests, notices, history>>

\* The file is linked under a random name; the browser gets the cookie.
LinkSession(k, id) ==
  /\ callbacks[k].pc = "stamped"
  /\ sessions[id].file = "unused"
  /\ sessions' = [sessions EXCEPT ![id] =
       [file |-> "present", sid |-> callbacks[k].sid, sub |-> callbacks[k].sub,
        created |-> callbacks[k].created, expires |-> callbacks[k].expires]]
  /\ callbacks' = [callbacks EXCEPT ![k] = IdleCallback]
  /\ UNCHANGED <<now, claims, tokens, requests, notices, history>>

StopCallback(k) ==
  /\ callbacks[k].pc # "idle"
  /\ callbacks' = [callbacks EXCEPT ![k] = IdleCallback]
  /\ UNCHANGED <<now, files, tokens, requests, notices, history>>

-----------------------------------------------------------------------------
(* shauthSessionForRequest and store.session, for a page, a logout and a   *)
(* front-channel logout                                                    *)

\* What follows once the session is known to be in force or not.
After(kind, ok) ==
  CASE kind = "page"   -> IF ok THEN "admitted" ELSE "idle"
    [] kind = "logout" -> "delete"
    [] kind = "front"  -> "listFront"

\* A request with the cookie of a session, or for a front-channel logout of
\* sid, perhaps without one.  The clock and the session's file are read; a
\* page whose session has no file is refused at once, which changes nothing.
Begin(r, kind, id, sid) ==
  /\ requests[r].pc = "idle"
  /\ IF id = None THEN kind = "front" ELSE sessions[id].file # "unused"
  /\ (kind = "front") = (sid # None)
  /\ kind = "page" => Present(id)
  /\ requests' = [requests EXCEPT ![r] =
       [pc |-> IF id = None \/ ~Present(id) THEN After(kind, FALSE)
               ELSE IF sessions[id].expires <= now THEN "drop" ELSE "list",
        kind |-> kind, id |-> id, now |-> now, sid |-> sid, todo |-> {}, cur |-> None, left |-> {},
        about |-> {i \in SessionIds : kind = "front" /\ Present(i) /\ sessions[i].sid = sid},
        known |-> accepted, over |-> ended]]
  /\ UNCHANGED <<now, files, tokens, callbacks, notices, history>>

Becomes(r, pc) == requests' =
  [requests EXCEPT ![r] = IF pc = "idle" THEN IdleRequest ELSE [requests[r] EXCEPT !.pc = pc]]

\* Faulty variant of List: the wrong directory is listed.
ListSessions(r) ==
  /\ requests[r].pc = "list"
  /\ requests' = [requests EXCEPT ![r].pc = "scan", ![r].todo = {i \in SessionIds : Present(i)}]
  /\ UNCHANGED <<now, files, tokens, callbacks, notices, history>>

\* sessionRevoked: os.ReadDir(claimsDir)
List(r) ==
  /\ requests[r].pc = "list"
  /\ requests' = [requests EXCEPT ![r].pc = "scan", ![r].todo = {j \in Jtis : claims[j].file}]
  /\ UNCHANGED <<now, files, tokens, callbacks, notices, history>>

Matches(logout, session) ==
  IF logout.sid # None THEN logout.sid = session.sid ELSE logout.sub = session.sub

Revokes(claim, session) == Matches(claim, session) /\ session.created <= claim.received

\* One entry of the listing: its file may be gone by now, may have expired,
\* or may revoke the session.
Scan(r, j) ==
  /\ requests[r].pc = "scan"
  /\ j \in requests[r].todo
  /\ requests' = [requests EXCEPT
       ![r].todo = @ \ {j},
       ![r].cur = IF claims[j].file /\ claims[j].expires <= requests[r].now THEN j ELSE None,
       ![r].pc = CASE ~claims[j].file -> "scan"
                   [] claims[j].file /\ claims[j].expires <= requests[r].now -> "purge"
                   [] OTHER -> IF Revokes(claims[j], sessions[requests[r].id]) THEN "drop" ELSE "scan"]
  /\ UNCHANGED <<now, files, tokens, callbacks, notices, history>>

\* The expired claim is removed, whatever the file holds by now.
Purge(r) ==
  /\ requests[r].pc = "purge"
  /\ claims' = [claims EXCEPT ![requests[r].cur].file = FALSE]
  /\ Becomes(r, "scan")
  /\ UNCHANGED <<now, sessions, tokens, callbacks, notices, history>>

\* No claim revokes the session.
InForce(r) ==
  /\ requests[r].pc = "scan" /\ requests[r].todo = {}
  /\ Becomes(r, After(requests[r].kind, TRUE))
  /\ UNCHANGED <<now, files, tokens, callbacks, notices, history>>

\* The session is expired or revoked: its file is deleted.
Drop(r) ==
  /\ requests[r].pc = "drop"
  /\ sessions' = Without(requests[r].id)
  /\ Becomes(r, After(requests[r].kind, FALSE))
  /\ UNCHANGED <<now, claims, tokens, callbacks, notices, history>>

\* The page has been served.
Serve(r) ==
  /\ requests[r].pc = "admitted"
  /\ Becomes(r, "idle")
  /\ UNCHANGED <<now, files, tokens, callbacks, notices, history>>

\* clearSHAUTHSessionForLogout
DeleteSession(r) ==
  /\ requests[r].pc = "delete"
  /\ sessions' = Without(requests[r].id)
  /\ ended' = ended \cup {requests[r].id}
  /\ Becomes(r, "idle")
  /\ UNCHANGED <<now, claims, tokens, callbacks, notices, accepted, grants>>

\* deleteSessions: os.ReadDir(sessionsDir)
ListFront(r) ==
  /\ requests[r].pc = "listFront"
  /\ requests' = [requests EXCEPT ![r].pc = "front", ![r].left = {i \in SessionIds : Present(i)}]
  /\ UNCHANGED <<now, files, tokens, callbacks, notices, history>>

\* Faulty variant of ScanFront: an entry that is gone ends the deletion.
ScanFrontStops(r, id) ==
  /\ requests[r].pc = "front"
  /\ id \in requests[r].left
  /\ sessions' = IF sessions[id].sid = requests[r].sid THEN Without(id) ELSE sessions
  /\ requests' = [requests EXCEPT ![r].left = IF Present(id) THEN @ \ {id} ELSE {}]
  /\ UNCHANGED <<now, claims, tokens, callbacks, notices, history>>

\* One entry: a file that is gone is passed over, a matching one is removed.
\* (The file never changes, so reading and removing it are one action.)
ScanFront(r, id) ==
  /\ requests[r].pc = "front"
  /\ id \in requests[r].left
  /\ sessions' = IF sessions[id].sid = requests[r].sid THEN Without(id) ELSE sessions
  /\ requests' = [requests EXCEPT ![r].left = @ \ {id}]
  /\ UNCHANGED <<now, claims, tokens, callbacks, notices, history>>

EndFront(r) ==
  /\ requests[r].pc = "front" /\ requests[r].left = {}
  /\ ended' = ended \cup requests[r].about
  /\ Becomes(r, "idle")
  /\ UNCHANGED <<now, files, tokens, callbacks, notices, accepted, grants>>

\* The replica dies, or an access fails and the answer is 503; a logout whose
\* session could not be read still deletes it.
StopRequest(r) ==
  /\ requests[r].pc # "idle"
  /\ \/ Becomes(r, "idle")
     \/ /\ requests[r].kind = "logout" /\ requests[r].pc \in {"list", "scan", "purge", "drop"}
        /\ Becomes(r, "delete")
  /\ UNCHANGED <<now, files, tokens, callbacks, notices, history>>

-----------------------------------------------------------------------------
(* handleSHAUTHBackChannelLogout and claimLogout *)

\* The token is verified and found fresh by the clock.
Receive(n, j) ==
  /\ notices[n].pc = "idle"
  /\ tokens[j].exp > now
  /\ tokens[j].iat >= now - Window /\ tokens[j].iat <= now + Skew
  /\ notices' = [notices EXCEPT ![n] = [pc |-> "claim", jti |-> j, tok |-> tokens[j], now |-> now]]
  /\ UNCHANGED <<now, files, tokens, callbacks, requests, history>>

Proceed(n, pc) == notices' =
  [notices EXCEPT ![n] = IF pc = "idle" THEN IdleNotice ELSE [notices[n] EXCEPT !.pc = pc]]

\* Faulty variant of ReadClaim: any claim found is taken for an expired one.
ReadClaimExpired(n) ==
  /\ notices[n].pc = "claim"
  /\ Proceed(n, IF claims[notices[n].jti].file THEN "replace" ELSE "link")
  /\ UNCHANGED <<now, files, tokens, callbacks, requests, history>>

\* A claim that is still in force: "logout token was already used".
ReadClaim(n) ==
  /\ notices[n].pc = "claim"
  /\ LET c == claims[notices[n].jti]
     IN  Proceed(n, IF ~c.file THEN "link" ELSE IF c.expires > notices[n].now THEN "idle" ELSE "replace")
  /\ UNCHANGED <<now, files, tokens, callbacks, requests, history>>

\* os.Remove of the expired claim.
RemoveClaim(n) ==
  /\ notices[n].pc = "replace"
  /\ claims' = [claims EXCEPT ![notices[n].jti].file = FALSE]
  /\ Proceed(n, "link")
  /\ UNCHANGED <<now, sessions, tokens, callbacks, requests, history>>

\* Faulty variant of RetainUntil: the claim is kept as long as the token lives.
RetainWhileValid(tok) == tok.exp

\* How long the claim is kept.
RetainUntil(tok) == Greater(tok.iat + Lifetime, tok.exp)

NewClaim(n) ==
  [file |-> TRUE, sid |-> notices[n].tok.sid, sub |-> notices[n].tok.sub,
   received |-> notices[n].now, expires |-> RetainUntil(notices[n].tok)]

\* Faulty variant of LinkClaim: the claim is renamed over what is there.
RenameClaim(n) ==
  /\ notices[n].pc = "link"
  /\ claims' = [claims EXCEPT ![notices[n].jti] = NewClaim(n)]
  /\ Proceed(n, "accept")
  /\ UNCHANGED <<now, sessions, tokens, callbacks, requests, history>>

\* os.Link: it fails when another handler was first.
LinkClaim(n) ==
  /\ notices[n].pc = "link"
  /\ IF claims[notices[n].jti].file
       THEN Proceed(n, "idle") /\ UNCHANGED claims
       ELSE Proceed(n, "accept") /\ claims' = [claims EXCEPT ![notices[n].jti] = NewClaim(n)]
  /\ UNCHANGED <<now, sessions, tokens, callbacks, requests, history>>

\* 204
Accept(n) ==
  /\ notices[n].pc = "accept"
  /\ LET tok == notices[n].tok
     IN  /\ accepted' = accepted \cup {[sid |-> tok.sid, sub |-> tok.sub, iat |-> tok.iat,
                                        received |-> notices[n].now]}
         /\ grants' = IF tokens[notices[n].jti] = tok
                      THEN [grants EXCEPT ![notices[n].jti] = @ + 1] ELSE grants
  /\ Proceed(n, "idle")
  /\ UNCHANGED <<now, files, tokens, callbacks, requests, ended>>

StopNotice(n) ==
  /\ notices[n].pc # "idle"
  /\ Proceed(n, "idle")
  /\ UNCHANGED <<now, files, tokens, callbacks, requests, history>>

-----------------------------------------------------------------------------

Init ==
  /\ now = 0
  /\ sessions = [id \in SessionIds |-> [file |-> "unused", sid |-> None, sub |-> AnySubject,
                                        created |-> 0, expires |-> 0]]
  /\ claims = [j \in Jtis |-> [file |-> FALSE, sid |-> None, sub |-> AnySubject,
                               received |-> 0, expires |-> 0]]
  /\ tokens = [j \in Jtis |-> NoToken]
  /\ callbacks = [k \in Callbacks |-> IdleCallback]
  /\ requests = [r \in Requests |-> IdleRequest]
  /\ notices = [n \in Notices |-> IdleNotice]
  /\ accepted = {}
  /\ grants = [j \in Jtis |-> 0]
  /\ ended = {}

Provider ==
  \E j \in Jtis, sid \in AnySid, sub \in Subjects, iat \in now..(now + Skew), ttl \in TokenTtls :
    IssueToken(j, sid, sub, iat, ttl)

Callback(k) ==
  \/ \E sid \in AnySid, sub \in Subjects, ttl \in IdTtls : Verify(k, sid, sub, ttl)
  \/ Stamp(k)
  \/ \E id \in SessionIds : LinkSession(k, id)
  \/ StopCallback(k)

Request(r) ==
  \/ \E kind \in Kinds, id \in SessionIds \cup {None}, sid \in AnySid :
       Begin(r, kind, id, sid)
  \/ List(r)
  \/ \E j \in Jtis : Scan(r, j)
  \/ Purge(r)
  \/ InForce(r)
  \/ Drop(r)
  \/ Serve(r)
  \/ DeleteSession(r)
  \/ ListFront(r)
  \/ \E id \in SessionIds : ScanFront(r, id)
  \/ EndFront(r)
  \/ StopRequest(r)

Notice(n) ==
  \/ \E j \in Jtis : Receive(n, j)
  \/ ReadClaim(n)
  \/ RemoveClaim(n)
  \/ LinkClaim(n)
  \/ Accept(n)
  \/ StopNotice(n)

Next ==
  \/ Tick
  \/ Provider
  \/ \E k \in Callbacks : Callback(k)
  \/ \E r \in Requests : Request(r)
  \/ \E n \in Notices : Notice(n)

Spec == Init /\ [][Next]_vars

-----------------------------------------------------------------------------
(* Properties *)

\* A logout token is answered with 204 at most once, whatever replicas it is
\* sent to, however often, and whoever dies in between (claimLogout).
AcceptedOnce == \A j \in Jtis : grants[j] <= 1

\* The request r, begun after the token of a was answered, is served with a
\* session that a is about and that existed when a arrived, and is not over.
ServedDespite(r, a) ==
  /\ requests[r].pc = "admitted" /\ a \in requests[r].known
  /\ Revokes(a, sessions[requests[r].id])
  /\ now < sessions[requests[r].id].expires

\* Back-channel logout (claims, kept until the sessions they are about must be
\* over): no page is served with a session that is not younger than the token.
LoggedOutStaysOut ==
  \A r \in Requests : \A a \in accepted :
    ServedDespite(r, a) => sessions[requests[r].id].created > a.iat

\* README.md:92-93 "signed Back-Channel Logout atomically revokes matching local
\* sessions": no page is served with any session that existed when it arrived.
RevokedStaysOut == \A r \in Requests : \A a \in accepted : ~ServedDespite(r, a)

\* Once a logout page or a front-channel logout has answered, no page that is
\* requested later is served with a session it ended.
EndedStaysEnded ==
  \A r \in Requests : requests[r].pc = "admitted" => requests[r].id \notin requests[r].over

\* The invariant behind AcceptedOnce when no jti is reused: a handler works on
\* a fresh token, a claim outlives that freshness, and whoever won the link
\* left a claim that is only purged when the token can no longer be fresh.
NoticesFresh ==
  \A n \in Notices : notices[n].pc # "idle" =>
    /\ notices[n].jti \in Jtis /\ notices[n].tok = tokens[notices[n].jti]
    /\ notices[n].pc # "replace"
    /\ notices[n].now < notices[n].tok.exp
    /\ notices[n].now <= notices[n].tok.iat + Window
    /\ notices[n].now <= now /\ now <= notices[n].now + Patience

ClaimsKept ==
  \A j \in Jtis : claims[j].file =>
    /\ 0 < tokens[j].exp /\ tokens[j].exp <= claims[j].expires
    /\ tokens[j].iat + Lifetime <= claims[j].expires

PurgesExpired ==
  \A r \in Requests :
    /\ requests[r].now <= now
    /\ requests[r].pc = "purge" =>
         /\ requests[r].cur \in Jtis
         /\ 0 < tokens[requests[r].cur].exp
         /\ tokens[requests[r].cur].iat + Lifetime <= now

Won(j) == grants[j] > 0 \/ \E n \in Notices : notices[n].pc = "accept" /\ notices[n].jti = j

WinnersClaim ==
  \A j \in Jtis : Won(j) => claims[j].file \/ tokens[j].iat + Lifetime <= now

OneWinner ==
  /\ \A n \in Notices : notices[n].pc = "accept" => grants[notices[n].jti] = 0
  /\ \A n, m \in Notices :
       notices[n].pc = "accept" /\ notices[m].pc = "accept" /\ notices[n].jti = notices[m].jti => n = m

IInv == /\ TypeOK /\ AcceptedOnce /\ NoticesFresh /\ ClaimsKept /\ PurgesExpired
        /\ WinnersClaim /\ OneWinner
=============================================================================
