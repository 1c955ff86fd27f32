----------------------------- MODULE HttpClient -----------------------------
(***************************************************************************)
(* The HTTP client: its requests with the credentials that sign them       *)
(* (binding-http/src/http-client-impl.ts, credential.ts, oauth-manager.ts) *)
(* and its subscriptions by long polling or server-sent events             *)
(* (subscription-protocols.ts).  The servers it talks to are external.     *)
(*                                                                         *)
(* A step is the code between two awaits that wait for the network.        *)
(***************************************************************************)
EXTENDS Naturals, FiniteSets

CONSTANTS
    Metadata,       \* the security that a Thing may have, see SecurityType
    Rotating,       \* a refresh token can be used once
    MaxTokens,      \* bound on the tokens issued
    Requests, Subscriptions,
    Hrefs,
    MaxEvents,      \* bound on what is delivered to a subscription
    None

VARIABLES
    credential,     \* this.credential
    valid,          \* tokens that the resource accepts
    refreshable,    \* tokens that the token endpoint takes for a new one
    issued,         \* how many tokens there have been
    requests,
    doubled,        \* the tokens that two refreshes had in hand at a time
    subs,           \* the internal subscriptions
    active          \* activeSubscriptions, by href

tokenVars == <<credential, valid, refreshable, issued, requests, doubled>>
subVars == <<subs, active>>
vars == <<credential, valid, refreshable, issued, requests, doubled, subs, active>>

\* configured: credentials for the scheme were given.
SecurityType ==
    [scheme : {None, "nosec", "basic", "bearer", "apikey", "client", "password", "code", "tuya", "psk"},
     configured : BOOLEAN]

\* first: the promise of the first token.  token: the number of a token, 0
\* if there is none.
NoCredential == [kind |-> "none", first |-> "none", token |-> 0]

\* from: the token that a refresh presents; lost: the answer to it, by which
\* the token has been used up, did not arrive.
NewRequest == [stage |-> "unused", used |-> 0, from |-> 0, refused |-> FALSE, lost |-> FALSE]

\* before: how the subscriptions had ended when this one was established.
NewSubscription ==
    [stage |-> "unused", kind |-> None, href |-> None, settled |-> "no", closed |-> FALSE,
     failed |-> FALSE, events |-> 0, undone |-> FALSE, before |-> [x \in Subscriptions |-> {}]]

Init ==
    /\ credential = NoCredential
    /\ valid = {} /\ refreshable = {} /\ issued = 0
    /\ requests = [r \in Requests |-> NewRequest]
    /\ doubled = {}
    /\ subs = [s \in Subscriptions |-> NewSubscription]
    /\ active = [h \in Hrefs |-> None]

-----------------------------------------------------------------------------
(* Credentials                                                             *)

\* setSecurity: what is in place afterwards.  Without credentials the
\* constructors throw; other schemes, and flows, leave what there was.
Secured(m) ==
    CASE m.scheme \in {"basic", "bearer", "apikey"} /\ m.configured -> [NoCredential EXCEPT !.kind = "static"]
      [] m.scheme \in {"client", "password"} /\ m.configured -> 
             [NoCredential EXCEPT !.kind = m.scheme, !.first = "pending"]
      [] m.scheme = "tuya" /\ m.configured -> [NoCredential EXCEPT !.kind = "tuya"]
      [] OTHER -> credential

SetSecurity(m) ==
    /\ credential = NoCredential /\ \A r \in Requests : requests[r] = NewRequest
    /\ credential' = Secured(m)
    /\ UNCHANGED <<valid, refreshable, issued, requests, doubled, subVars>>

OAuth == credential.kind \in {"client", "password"}

Sent(r, token) == [requests[r] EXCEPT !.stage = "sent", !.used = token]
Fail(r) == [requests[r] EXCEPT !.stage = "failed"]

\* The token endpoint issues a token.
Issue ==
    /\ issued < MaxTokens
    /\ issued' = issued + 1
    /\ valid' = valid \cup {issued + 1}

\* generateFetchRequest up to the first await: signing may wait for a token.
\* A Tuya credential fetches one when it has none or when it has expired.
Request(r) ==
    /\ requests[r].stage = "unused"
    /\ requests' = [requests EXCEPT ![r] =
         CASE OAuth /\ credential.first = "pending" -> [@ EXCEPT !.stage = "token"]
           [] OAuth /\ credential.first = "rejected" -> Fail(r)
           [] credential.kind = "tuya" /\ credential.token \notin valid -> [@ EXCEPT !.stage = "token"]
           [] OTHER -> Sent(r, credential.token)]
    /\ UNCHANGED <<credential, valid, refreshable, issued, doubled, subVars>>

Signing == {r \in Requests : requests[r].stage = "token"}

\* The promise of the first token settles, for all who wait for it.
FirstToken ==
    /\ OAuth /\ credential.first = "pending"
    /\ \/ /\ Issue
          /\ credential' = [credential EXCEPT !.first = "resolved", !.token = issued + 1]
          /\ refreshable' = refreshable \cup {issued + 1}
          /\ requests' = [r \in Requests |-> IF r \in Signing THEN Sent(r, issued + 1) ELSE requests[r]]
       \/ /\ credential' = [credential EXCEPT !.first = "rejected"]
          /\ requests' = [r \in Requests |-> IF r \in Signing THEN Fail(r) ELSE requests[r]]
          /\ UNCHANGED <<issued, valid, refreshable>>
    /\ UNCHANGED <<doubled, subVars>>

\* requestAndRefreshToken: each request that found no token fetches one.
TuyaToken(r) ==
    /\ credential.kind = "tuya" /\ r \in Signing
    /\ \/ /\ Issue
          /\ credential' = [credential EXCEPT !.token = issued + 1]
          /\ requests' = [requests EXCEPT ![r] = Sent(r, issued + 1)]
       \/ /\ requests' = [requests EXCEPT ![r] = Fail(r)]
          /\ UNCHANGED <<credential, issued, valid>>
    /\ UNCHANGED <<refreshable, doubled, subVars>>

Expire ==
    /\ valid # {} /\ valid' = {}
    /\ UNCHANGED <<credential, refreshable, issued, requests, doubled, subVars>>

Refreshing == {r \in Requests : requests[r].stage = "refresh"}

\* doFetch: 401 makes an OAuth credential refresh its token, which is the
\* one in place by now.  Any other error status rejects.
Response(r) ==
    /\ requests[r].stage = "sent"
    /\ \/ requests' = [requests EXCEPT ![r].stage = "done"] /\ UNCHANGED doubled
       \/ requests' = [requests EXCEPT ![r] = Fail(r)] /\ UNCHANGED doubled
       \/ /\ OAuth /\ requests[r].used \notin valid
          /\ requests' = [requests EXCEPT ![r].stage = "refresh", ![r].from = credential.token]
          /\ doubled' = IF \E q \in Refreshing : requests[q].from = credential.token
                        THEN doubled \cup {credential.token} ELSE doubled
    /\ (requests'[r].stage = "done" /\ OAuth) => requests[r].used \in valid
    /\ UNCHANGED <<credential, valid, refreshable, issued, subVars>>

\* Mutant: the new credential serves this request only.
CredentialKept(token) == credential

CredentialAfter(token) == [credential EXCEPT !.token = token]

\* refreshToken: client credentials ask for another token, the password flow
\* presents the refresh token.  The credential is replaced only when the
\* answer arrives, which a rotating endpoint does not wait for.
Refreshed(r) ==
    LET answered == credential.kind = "client" \/ requests[r].from \in refreshable
        rotated == (IF Rotating THEN refreshable \ {requests[r].from} ELSE refreshable)
                   \cup {issued + 1}
    IN  /\ r \in Refreshing
        /\ \/ /\ answered /\ Issue
              /\ credential' = CredentialAfter(issued + 1)
              /\ refreshable' = rotated
              /\ requests' = [requests EXCEPT ![r].stage = "resent", ![r].used = issued + 1]
           \/ /\ answered /\ Issue
              /\ refreshable' = rotated
              /\ requests' = [requests EXCEPT ![r].stage = "failed", ![r].lost = TRUE]
              /\ UNCHANGED credential
           \/ /\ answered
              /\ requests' = [requests EXCEPT ![r] = Fail(r)]
              /\ UNCHANGED <<credential, valid, refreshable, issued>>
           \/ /\ ~answered
              /\ requests' = [requests EXCEPT ![r].stage = "failed", ![r].refused = TRUE]
              /\ UNCHANGED <<credential, valid, refreshable, issued>>
        /\ UNCHANGED <<doubled, subVars>>

\* The second answer is checked as it is, a second 401 as well.
ResponseAgain(r) ==
    /\ requests[r].stage = "resent"
    /\ requests' = [requests EXCEPT ![r] =
         IF @.used \in valid THEN [@ EXCEPT !.stage = "done"] ELSE Fail(r)]
    /\ UNCHANGED <<credential, valid, refreshable, issued, doubled, subVars>>

-----------------------------------------------------------------------------
(* Subscriptions                                                           *)

\* subscribeResource: other subprotocols are refused.
Subscribe(s, h, kind) ==
    /\ subs[s].stage = "unused"
    /\ subs' = [subs EXCEPT ![s].stage = IF kind = "longpoll" THEN "head" ELSE "connecting",
                            ![s].kind = kind, ![s].href = h]
    /\ UNCHANGED <<active, tokenVars>>

\* Which of the two ends of a subscription there have been: close(), and the
\* call of unsubscribe.
Ends(x) ==
    (IF subs[x].closed THEN {"closed"} ELSE {}) \cup (IF subs[x].undone THEN {"undone"} ELSE {})

\* open() has resolved, for the HEAD or for the event source: now the
\* subscription is active.  (It resolves once only.)
Opened(s) ==
    /\ subs[s].stage \in {"head", "connecting"}
    /\ subs' = [subs EXCEPT ![s].stage = IF @ = "head" THEN "get" ELSE "listening",
                            ![s].settled = IF @ = "no" THEN "resolved" ELSE @,
                            ![s].before = IF subs[s].settled = "no" THEN [x \in Subscriptions |-> Ends(x)] ELSE @]
    /\ active' = IF subs[s].settled = "no" THEN [active EXCEPT ![subs[s].href] = s] ELSE active
    /\ UNCHANGED tokenVars

\* The long poll has arrived at the server.
Arrives(s) ==
    /\ subs[s].stage = "get"
    /\ subs' = [subs EXCEPT ![s].stage = "registered"]
    /\ UNCHANGED <<active, tokenVars>>

\* Mutant: polling stops after the first event.
NextPollOnce(s) == "idle"

\* polling(false)
NextPoll(s) == "get"

\* An event reaches the client: the poll is answered, and polled again, or
\* the source goes on.
Event(s) ==
    /\ subs[s].stage \in {"registered", "listening"}
    /\ subs[s].events < MaxEvents
    /\ subs' = [subs EXCEPT ![s].events = @ + 1, ![s].stage = IF @ = "registered" THEN NextPoll(s) ELSE @]
    /\ UNCHANGED <<active, tokenVars>>

\* A HEAD fails, or a poll, also with the error status of an answer (doFetch
\* throws), and the polling ends.  An event source tries again by itself.
Breaks(s) ==
    /\ subs[s].stage \in {"head", "get", "registered", "connecting", "listening"}
    /\ subs' = [subs EXCEPT ![s].stage = IF subs[s].kind = "longpoll" THEN "ended" ELSE "connecting",
                            ![s].failed = TRUE,
                            ![s].settled = IF @ = "no" THEN "rejected" ELSE @]
    /\ UNCHANGED <<active, tokenVars>>

\* close(): the poll that is under way is aborted, which is reported as an
\* error; the source is closed.
Close(s) ==
    [subs[s] EXCEPT !.closed = TRUE, !.stage = IF @ = "unused" THEN @ ELSE "ended",
                    !.failed = @ \/ subs[s].kind = "longpoll"]

\* unsubscribe, once, of the Subscription that subscribeResource returned
Unsubscribe(s) ==
    /\ subs[s].settled = "resolved" /\ ~subs[s].undone
    /\ subs' = [subs EXCEPT ![s] = [Close(s) EXCEPT !.undone = TRUE]]
    /\ active' = [active EXCEPT ![subs[s].href] = None]
    /\ UNCHANGED tokenVars

\* Mutant: the entry goes, the subscription stays.
UnlinkedOnly(h) == subs
Unlinked(h) == [subs EXCEPT ![active[h]] = Close(active[h])]

UnlinkResource(h) ==
    /\ active[h] # None
    /\ subs' = Unlinked(h)
    /\ active' = [active EXCEPT ![h] = None]
    /\ UNCHANGED tokenVars

Stop ==
    /\ \E h \in Hrefs : active[h] # None
    /\ subs' = [s \in Subscriptions |-> IF \E h \in Hrefs : active[h] = s THEN Close(s) ELSE subs[s]]
    /\ active' = [h \in Hrefs |-> None]
    /\ UNCHANGED tokenVars

Tokens ==
    \/ \E m \in Metadata : SetSecurity(m)
    \/ FirstToken \/ Expire
    \/ \E r \in Requests : Request(r) \/ TuyaToken(r) \/ Response(r) \/ Refreshed(r) \/ ResponseAgain(r)

Subscribing ==
    \/ \E s \in Subscriptions, h \in Hrefs, kind \in {"longpoll", "sse"} : Subscribe(s, h, kind)
    \/ \E s \in Subscriptions : Opened(s) \/ Arrives(s) \/ Event(s) \/ Breaks(s) \/ Unsubscribe(s)
    \/ \E h \in Hrefs : UnlinkResource(h)
    \/ Stop

\* Requests for events arrive, or fail.
Fairness ==
    \A s \in Subscriptions : WF_vars(Arrives(s)) /\ WF_vars(Opened(s) \/ Breaks(s))

-----------------------------------------------------------------------------
(* Properties                                                              *)

\* A second subscription to the href has the entry, or has been ended since,
\* which takes the entry of the href whoever's it is.
Displaced(s) ==
    \E x \in Subscriptions \ {s} :
        /\ subs[x].href = subs[s].href
        /\ active[subs[s].href] = x \/ ~(Ends(x) \subseteq subs[s].before[x])

\* A subscription that delivers events and goes on can be stopped by
\* unlinkResource and by stop(): it is the active one of its href, unless a
\* second subscription to the href has taken the entry or taken it away, or
\* an event source was refused and has come back.  And what is active has
\* been established and not closed.  This is about activeSubscriptions, which
\* is set after an await and cleared by three functions.
ActiveIffOpen ==
    /\ \A s \in Subscriptions :
          subs[s].events > 0 /\ subs[s].stage # "ended" =>
             active[subs[s].href] = s \/ Displaced(s) \/ subs[s].settled = "rejected"
    /\ \A h \in Hrefs : active[h] # None =>
          subs[active[h]].settled = "resolved" /\ ~subs[active[h]].closed

\* A subscription that polls is at the server again and again, or else an
\* error is reported: it does not end without notice.
PollsAgain ==
    \A s \in Subscriptions :
        (subs[s].kind = "longpoll")
          ~> (subs[s].stage = "registered" \/ subs[s].failed \/ subs[s].closed)

\* The token endpoint refuses a refresh only when the token that it presents
\* was in the hands of two refreshes at a time, or when the answer to another
\* refresh with that token was lost: each of them presents it once more.
RefusedIfDoubled ==
    \A r \in Requests : requests[r].refused =>
        \/ requests[r].from \in doubled
        \/ \E q \in Requests : requests[q].lost /\ requests[q].from = requests[r].from
=============================================================================
