------------------------------- MODULE Access -------------------------------
(***************************************************************************)
(* The way of a request to its user's workspace: arborist names the user       *)
(* (internal/identity), the headers are rewritten, the user's Service is        *)
(* looked up in the cache or at Kubernetes (workspace/workspace.go,             *)
(* kubernetes/kubernetes.go) and the request is proxied there.  Users come and  *)
(* go, several requests run at a time, and the service account token is          *)
(* rotated.  Arborist, Kubernetes and the workspace answer as they like.         *)
(*                                                                          *)
(* What the upstream cache does with time is the subject of UpstreamCache;      *)
(* here it is shared by several users, and an entry may expire at any time.     *)
(***************************************************************************)
EXTENDS ServiceNames

CONSTANTS
    Requests,      \* requests that may run at the same time
    Users,         \* user names, sequences of characters
    Tokens,        \* access tokens
    OwnerOf,       \* the user a token was issued to, None for one that is not valid
    Arrivals,      \* the requests clients may send
    MaxRotations,  \* a bound on the rotations of the service account token
    None

\* The headers that matter: the access_token cookie, the Authorization header, which
\* is a Bearer token, one of Jupyter's own or absent, and REMOTE_USER and its likes.
Headers == [cookie : Tokens \cup {None}, auth : Tokens \cup {"jupyter", None},
            remote : Users \cup {None}]

ASSUME AccessConstants ==
    /\ Users \subseteq Seq(Nat)
    /\ OwnerOf \in [Tokens -> Users \cup {None}]
    /\ Arrivals \subseteq Headers
    /\ MaxRotations \in Nat
    /\ "jupyter" \notin Tokens
    /\ None \notin Users \cup Tokens \cup Nat \cup Seq(Nat)

VARIABLES
    inCluster,      \* whether there is a Kubernetes client
    upstreamCache,  \* user -> the Service stored for it, or None
    rotations,      \* how often the service account token was rotated
    request         \* request -> the locals of its handler, or None

vars == <<inCluster, upstreamCache, rotations, request>>

Names == {userToServiceName(u) : u \in Users}

Labels == {"authorize", "load", "bearerToken", "getJSON", "store", "proxy", "reply"}
Statuses == {"none", "ok", "unauthorized", "forbidden", "failed", "refused"}

\* The locals of a handler.  sent, the headers as they arrived, is a ghost.
Locals == [pc : Labels, headers : Headers, token : Tokens \cup {None},
           id : Users \cup {None}, bearer : 0..MaxRotations,
           upstream : Names \cup {None}, status : Statuses,
           sent : Headers]

----------------------------------------------------------------------------
(* Identity.                                                                *)
(*                                                                          *)
(* TakesAnyAuthorization, TrustsRemoteUser, ReadsTokenOnce and                  *)
(* RetriesForEver are mutants: each stands in for the definition after it to    *)
(* see that a property notices.                                               *)

TakesAnyAuthorization(headers) ==
    IF headers.cookie # None THEN headers.cookie ELSE headers.auth
tokenFromRequest(headers) ==
    IF headers.cookie # None THEN headers.cookie
    ELSE IF headers.auth \in Tokens THEN headers.auth ELSE None

StripCredentials(headers) ==
    [headers EXCEPT !.cookie = None,
                    !.auth = IF headers.auth \in Tokens THEN None ELSE headers.auth]

TrustsRemoteUser(headers, user) ==
    [StripCredentials(headers) EXCEPT !.remote = IF headers.remote # None THEN @ ELSE user]
SetUpstreamHeaders(headers, user) == [StripCredentials(headers) EXCEPT !.remote = user]

At(r, label) == request[r] # None /\ request[r].pc = label

Become(r, h) == request' = [request EXCEPT ![r] = h]

Goto(h, label) == [h EXCEPT !.pc = label]

Reply(h, status) == [h EXCEPT !.pc = "reply", !.status = status]

\* A request arrives; without a token it is unauthorized.
Start(r, headers) ==
    /\ request[r] = None
    /\ LET token == tokenFromRequest(headers)
           h == [pc |-> "authorize", headers |-> headers, token |-> token, id |-> None,
                 bearer |-> 0, upstream |-> None, status |-> "none",
                 sent |-> headers]
       IN  Become(r, IF token = None THEN Reply(h, "unauthorized") ELSE h)
    /\ UNCHANGED <<inCluster, upstreamCache, rotations>>

\* Arborist allows the token and names its user; or it denies that or does not answer,
\* and the request is forbidden.
authorize(r) ==
    /\ At(r, "authorize")
    /\ LET h == request[r]
           user == OwnerOf[h.token]
       IN  \/ /\ user # None
              /\ Become(r, [h EXCEPT !.pc = "load", !.id = user,
                                     !.headers = SetUpstreamHeaders(h.headers, user)])
           \/ Become(r, Reply(h, "forbidden"))
    /\ UNCHANGED <<inCluster, upstreamCache, rotations>>

----------------------------------------------------------------------------
(* The lookup of the workspace.                                             *)

\* Take the user's entry, or resolve its Service: outside of a cluster by its name.
Load(r) ==
    /\ At(r, "load")
    /\ LET h == request[r]
           name == userToServiceName(h.id)
       IN  Become(r,
             IF upstreamCache[h.id] # None
             THEN Goto([h EXCEPT !.upstream = upstreamCache[h.id]], "proxy")
             ELSE IF ~inCluster THEN Goto([h EXCEPT !.upstream = name], "store")
             ELSE IF IsDNS1123Label(name) THEN Goto(h, "bearerToken")
             ELSE Reply(h, "failed"))
    /\ UNCHANGED <<inCluster, upstreamCache, rotations>>

\* The service account token is read for each call, if there is one, ...
ReadsTokenOnce(r) ==
    /\ At(r, "bearerToken")
    /\ Become(r, Goto([request[r] EXCEPT !.bearer = 0], "getJSON"))
    /\ UNCHANGED <<inCluster, upstreamCache, rotations>>
bearerToken(r) ==
    /\ At(r, "bearerToken")
    /\ \/ Become(r, Goto([request[r] EXCEPT !.bearer = rotations], "getJSON"))
       \/ Become(r, Reply(request[r], "failed"))
    /\ UNCHANGED <<inCluster, upstreamCache, rotations>>

\* ... and expires when its successor has been replaced.
Expired(bearer) == bearer + 1 < rotations

RetriesForEver(r) ==
    /\ At(r, "getJSON")
    /\ LET h == request[r]
       IN  \/ /\ ~Expired(h.bearer)
              /\ Become(r, Goto([h EXCEPT !.upstream = userToServiceName(h.id)], "store"))
           \/ Become(r, Goto(h, "bearerToken"))
    /\ UNCHANGED <<inCluster, upstreamCache, rotations>>
\* Kubernetes finds the user's Service; or there is none or the call fails.
getJSON(r) ==
    /\ At(r, "getJSON")
    /\ LET h == request[r]
       IN  \/ /\ ~Expired(h.bearer)
              /\ Become(r, Goto([h EXCEPT !.upstream = userToServiceName(h.id)], "store"))
           \/ Become(r, Reply(h, IF Expired(h.bearer) THEN "refused" ELSE "failed"))
    /\ UNCHANGED <<inCluster, upstreamCache, rotations>>

Stored(user, name) == upstreamCache' = [upstreamCache EXCEPT ![user] = name]

Store(r) ==
    /\ At(r, "store")
    /\ Stored(request[r].id, request[r].upstream)
    /\ Become(r, Goto(request[r], "proxy"))
    /\ UNCHANGED <<inCluster, rotations>>

\* The workspace answers, or cannot be reached and the entry is dropped.
ProxyHandler(r) ==
    /\ At(r, "proxy")
    /\ \/ /\ Become(r, Reply(request[r], "ok"))
          /\ UNCHANGED upstreamCache
       \/ /\ Become(r, Reply(request[r], "failed"))
          /\ Stored(request[r].id, None)
    /\ UNCHANGED <<inCluster, rotations>>

Finish(r) ==
    /\ At(r, "reply")
    /\ Become(r, None)
    /\ UNCHANGED <<inCluster, upstreamCache, rotations>>

----------------------------------------------------------------------------
(* Around the requests.                                                     *)

Expire(user) ==
    /\ upstreamCache[user] # None
    /\ Stored(user, None)
    /\ UNCHANGED <<inCluster, rotations, request>>

\* Rotations are an hour apart and a call takes five seconds, so at most one falls
\* between reading the token and using it.
Rotate ==
    /\ rotations < MaxRotations
    /\ \A r \in Requests : At(r, "getJSON") => ~(request[r].bearer < rotations)
    /\ rotations' = rotations + 1
    /\ UNCHANGED <<inCluster, upstreamCache, request>>

Init ==
    /\ inCluster \in BOOLEAN
    /\ upstreamCache = [u \in Users |-> None]
    /\ rotations = 0
    /\ request = [r \in Requests |-> None]

\* What a handler does without waiting for the workspace or the client.
Decide(r) == authorize(r) \/ Load(r) \/ bearerToken(r) \/ getJSON(r) \/ Store(r)

Next ==
    \/ \E r \in Requests : \/ Decide(r) \/ ProxyHandler(r) \/ Finish(r)
                           \/ \E headers \in Arrivals : Start(r, headers)
    \/ \E user \in Users : Expire(user)
    \/ Rotate

Spec == Init /\ [][Next]_vars

\* The clients of arborist and of Kubernetes time out after five seconds.
FairSpec == Spec /\ \A r \in Requests : WF_vars(Decide(r))

----------------------------------------------------------------------------
TypeOK ==
    /\ inCluster \in BOOLEAN
    /\ upstreamCache \in [Users -> Names \cup {None}]
    /\ rotations \in 0..MaxRotations
    /\ request \in [Requests -> Locals \cup {None}]

\* The headers a workspace receives name the user arborist vouched for,
\* whatever user the client named, and carry no access token,
\* while Jupyter's own Authorization is kept (identity.go:69-114, "no handler, log
\* statement or upstream ever sees the user's access token").
HeadersVouchedFor ==
    \A r \in Requests : At(r, "proxy") =>
        LET h == request[r]
        IN  /\ h.headers.remote = h.id
            /\ h.id = OwnerOf[tokenFromRequest(h.sent)]
            /\ tokenFromRequest(h.headers) = None
            /\ h.sent.auth \notin Tokens => h.headers.auth = h.sent.auth

\* A request goes to the workspace of its user and of nobody else, although users share
\* the cache and Services are told apart by an escaped name only (workspace.go:20-37,
\* 53-73).
OwnWorkspace ==
    \A r \in Requests : At(r, "proxy") =>
        {u \in Users : userToServiceName(u) = request[r].upstream} = {request[r].id}

\* Kubernetes never refuses a call for an expired token, however often it was rotated
\* (kubernetes.go:36-39).
RotationPickedUp == \A r \in Requests : At(r, "reply") => request[r].status # "refused"

\* Every request is answered or proxied in the end: neither arborist nor Kubernetes can
\* hold it up (authorizer.go:44, kubernetes.go:217).
Decided == \A r \in Requests : request[r] # None ~> At(r, "proxy") \/ At(r, "reply")
=============================================================================
