---------------------------- MODULE TokenEndpoint ----------------------------
(***************************************************************************)
(* POST /api/oauth/token (src/src/api/oauth_routes.py): the limiter is asked *)
(* first, then the form is looked at, then the credentials, then the scope.  *)
(* The handler never awaits, so a request is one step.  What a token is good *)
(* for once it is issued is TokenAccess's subject.                           *)
(***************************************************************************)
EXTENDS TokenRateLimiter

CONSTANT Unknown   \* the limiter's key for a client_id that is empty or blank

ASSUME UnknownAssumption == Unknown \in Clients

VARIABLES
    compared,   \* history: when each client's credentials were compared
    reply       \* what the last request was answered, until the clock moves on

endpointVars == <<vars, compared, reply>>

\* What may be wrong with a form, in the order the handler finds it; Fine forms
\* get a token.
Faults == {"missing_field", "wrong_grant", "blank_client", "wrong_secret", "foreign_scope"}
Fine == "fine"

EndpointInit ==
    /\ Init
    /\ compared = [k \in Clients |-> <<>>]
    /\ reply = "none"

\* The client's key is the stripped client_id, so a blank one is Unknown, and a
\* form with nothing missing but the secret may still name a client.
Carries(client, form) ==
    /\ form = "blank_client" => client = Unknown
    /\ client = Unknown => form \in {"missing_field", "blank_client"}

\* Does this form get as far as is_valid_client?
Compares(form) == form \in {"wrong_secret", "foreign_scope", Fine}

\* Mutant: the credentials are compared before the limiter is asked.
RejectBusyCompares(client, form) ==
    /\ compared' = IF Compares(form)
                   THEN [compared EXCEPT ![client] = Append(@, clock)]
                   ELSE compared
    /\ reply' = "too_many_requests"

\* 429 before anything else of the form is read.
RejectBusy(client, form) ==
    /\ reply' = "too_many_requests"
    /\ UNCHANGED compared

\* 400, or a token (200).
Evaluate(client, form) ==
    /\ compared' = IF Compares(form)
                   THEN [compared EXCEPT ![client] = Append(@, clock)]
                   ELSE compared
    /\ reply' = CASE form = Fine           -> "issued"
                  [] form = "wrong_secret" -> "invalid_client"
                  [] OTHER                 -> "invalid_request"

OauthToken(ip, client, form) ==
    /\ Carries(client, form)
    /\ \/ /\ RefuseIp(ip, client) \/ RefuseClient(ip, client)
          /\ RejectBusy(client, form)
       \/ Allow(ip, client) /\ Evaluate(client, form)

EndpointTick ==
    /\ Tick
    /\ reply' = "none"
    /\ UNCHANGED compared

\* reset() or a new process: the histories start again with the buckets.
EndpointReset ==
    /\ Reset
    /\ compared' = [k \in Clients |-> <<>>]
    /\ reply' = "none"

EndpointNext ==
    \/ \E ip \in Ips, client \in Clients, form \in Faults \cup {Fine} :
        OauthToken(ip, client, form)
    \/ EndpointTick
    \/ EndpointReset

EndpointSpec == EndpointInit /\ [][EndpointNext]_endpointVars

-----------------------------------------------------------------------------
(* Properties *)

Replies == {"none", "issued", "invalid_request", "invalid_client", "too_many_requests"}

\* Types of what the handler adds to the limiter's state.
EndpointTypeOK ==
    /\ compared \in [Clients -> Seq(0 .. MaxTime)]
    /\ reply \in Replies

\* However requests are spread over IPs and whatever is wrong with them, one
\* client's secret is compared at most ClientLimit times in any window: the
\* limiter is asked before the form is looked at (oauth_routes.py:105-141).
ComparisonsSpaced ==
    \A k \in Clients : \A i, j \in DOMAIN compared[k] :
        j = i + ClientLimit => compared[k][j] - compared[k][i] >= Window
=============================================================================
