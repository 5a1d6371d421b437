--------------------------- MODULE Authentication ---------------------------
(***************************************************************************)
(* Who a request comes from: authenticate, authenticate_optional and        *)
(* authenticate_ws (yapit/gateway/auth.py) over Stack Auth                  *)
(* (yapit/gateway/stack_auth/users.py), which may answer, answer with an    *)
(* error, not answer at all, or break the connection off.                   *)
(***************************************************************************)
EXTENDS Naturals

\* flaky: a timeout or a refused connection once; unreachable: both times; reset: any
\* other error of the transport (a read error, a protocol error, a reply cut short);
\* broken: a reply that is an error or not a user
StackAuthStates == {"up", "broken", "flaky", "unreachable", "reset"}

Requests ==
    [token : {"none", "valid", "expired"}, guest : {"none", "signed", "forged"},
     service : StackAuthStates, auth_enabled : BOOLEAN]

VARIABLES
    request,      \* the credentials, and how Stack Auth fares meanwhile
    verdicts      \* [entry point -> verdict], or <<>> before the request

authVars == <<request, verdicts>>

AuthInit == request \in Requests /\ verdicts = <<>>

\* _request: one retry on a timeout or a refused connection, _TRANSIENT_ERRORS to its
\* callers: a flaky service answers then. Any other error is raised at once.
stack_auth_request ==
    CASE request.service = "unreachable" -> "transient error"
      [] request.service = "reset" -> "other error"
      [] request.service = "broken" -> "5xx"
      [] OTHER -> "reply"

\* 401 is no user; raise_for_status on anything else
get_me == IF stack_auth_request # "reply" THEN stack_auth_request
          ELSE IF request.token = "valid" THEN "user" ELSE "nobody"

verify_anonymous_token == request.guest = "signed"
Guest == IF verify_anonymous_token THEN "guest" ELSE "rejected"

TokenVerdict ==
    CASE get_me = "transient error" -> "try later"
      [] get_me \in {"other error", "5xx"} -> "failed"
      [] get_me = "nobody" -> "rejected"
      [] get_me = "user" -> "user"

authenticate ==
    CASE ~request.auth_enabled -> "selfhost"
      [] request.auth_enabled /\ request.token # "none" -> TokenVerdict
      [] request.auth_enabled /\ request.token = "none" /\ request.guest # "none" -> Guest
      [] OTHER -> "rejected"

authenticate_optional ==
    CASE ~request.auth_enabled -> "selfhost"
      [] request.auth_enabled /\ request.token # "none" -> TokenVerdict
      [] request.auth_enabled /\ request.token = "none" /\ request.guest # "none" -> Guest
      [] OTHER -> "no user"

\* Mutant of authenticate_ws: an expired token is forgotten for the guest session
authenticate_ws_guest ==
    CASE ~request.auth_enabled -> "selfhost"
      [] request.auth_enabled /\ request.token # "none" /\ get_me = "user" -> "user"
      [] request.auth_enabled /\ request.guest # "none" /\ (request.token = "none" \/ get_me # "user") -> Guest
      [] OTHER -> "rejected"

\* "except Exception": any error but the transient ones is "Invalid token" here
authenticate_ws ==
    CASE ~request.auth_enabled -> "selfhost"
      [] request.auth_enabled /\ request.token # "none" ->
           IF get_me \in {"other error", "5xx"} THEN "rejected" ELSE TokenVerdict
      [] request.auth_enabled /\ request.token = "none" /\ request.guest # "none" -> Guest
      [] OTHER -> "rejected"

Authenticate ==
    /\ verdicts = <<>>
    /\ verdicts' = <<authenticate, authenticate_optional, authenticate_ws>>
    /\ UNCHANGED request

AuthNext == Authenticate

-----------------------------------------------------------------------------
\* What Stack Auth or the network does to a request with a token
Outages == {"unreachable", "reset", "broken"}
Asked == request.auth_enabled /\ request.token # "none"

\* auth: the HTTP and the WebSocket side take the same credentials for the same
\* user, guest or refusal, or ask alike to try later, while Stack Auth answers or is
\* out by timeouts or refused connections. An error reply and a connection broken off
\* are excepted: they are a failure over HTTP and "Invalid token" on the WebSocket.
SidesAgree ==
    verdicts # <<>> /\ request.service \notin {"broken", "reset"} =>
        /\ verdicts[1] = verdicts[3]
        /\ verdicts[2] = verdicts[1] \/ (verdicts[2] = "no user" /\ request.token = "none" /\ request.guest = "none")

\* auth: over HTTP no failure of Stack Auth or of the network reads as a bad token, so
\* that clients keep their session; on the WebSocket an outage of timeouts or refused
\* connections does not.
OutageIsNoRefusal ==
    verdicts # <<>> /\ Asked /\ request.service \in Outages =>
        /\ verdicts[1] # "rejected" /\ verdicts[2] # "rejected"
        /\ request.service = "unreachable" => verdicts[3] # "rejected"

\* What may be said of a request
Earned(v) ==
    /\ v = "user" => Asked /\ request.token = "valid" /\ request.service \in {"up", "flaky"}
    /\ v = "guest" => request.auth_enabled /\ request.token = "none" /\ request.guest = "signed"
    /\ v = "no user" => request.token = "none" /\ request.guest = "none"
    /\ v = "selfhost" <=> ~request.auth_enabled

\* auth: whatever fails, at every entry, a user is one whose token Stack Auth
\* confirmed, a guest has no token and a signed session (an expired token does not
\* fall back on it), and a request without credentials is let in where they are
\* optional or off, and nowhere else.
NobodyElse ==
    verdicts # <<>> =>
        /\ \A i \in 1 .. 3 : Earned(verdicts[i])
        /\ verdicts[1] # "no user" /\ verdicts[3] # "no user"

\* The entries agree on who somebody is, and on an outage they are known to survive.
EntriesAgree == SidesAgree /\ OutageIsNoRefusal /\ NobodyElse
=============================================================================
