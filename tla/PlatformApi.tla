---------------------------- MODULE PlatformApi ----------------------------
(***************************************************************************)
(* The HTTP client of the IoT platform: the static state of                *)
(* components/platform_client/platform_api.c, and the routines of          *)
(* test_sensor_lab/main/webFunctions.c that drive it.  A step is one call  *)
(* of the library; `todo' holds the calls a routine has still to make.     *)
(*                                                                         *)
(* One task calls at a time, as xAccessCount arranges for the backups of   *)
(* the count.  (The library has no lock of its own.)                       *)
(*                                                                         *)
(* Data abstracted: a parameter of the query is its name, a body what      *)
(* platform_api_retrieve_val can make of it.  Strings are allocated        *)
(* without fail.                                                           *)
(***************************************************************************)
EXTENDS Naturals, SequencesExt

CONSTANTS
  MAX_FAILURES,  \* bound of the model: requests that fail in a row
  MAX_FETCHES,   \* bound of the model: fetches that find no value
  NULL

ASSUME ClientAssumption ==
  /\ MAX_FAILURES \in Nat /\ MAX_FETCHES \in Nat
  /\ NULL # "value"

VARIABLES
  host_url,         \* endpoint, NULL when not allocated
  bearer_token,     \* TRUE when allocated
  query,            \* parameters collected so far, empty when NULL
  response_buffer,  \* body of the last response, NULL when not allocated
  http_client,      \* TRUE when it holds a client handle
  lostClients,      \* handles overwritten before their cleanup
  todo,             \* calls left
  err,              \* platform_api_retrieve_val failed
  request,          \* last request: its endpoint, parameters, body, and if one failed before
  own,              \* parameters set since the last platform_api_init
  failures,         \* requests failed in a row
  failedFetches     \* fetches of a number that found no value

library == <<host_url, bearer_token, query, response_buffer, http_client, lostClients>>
history == <<request, own, failures, failedFetches>>
vars == <<library, todo, err, history>>

Call(f, arg) == [call |-> f, arg |-> arg]

\* Begin of every routine: an endpoint, the token, and two parameters.
Prepare(url, param) ==
  << Call("init", url), Call("set_token", NULL),
     Call("set_query_string", "type"), Call("set_query_string", param) >>

\* setCount_backup
SetCount == Prepare("update", "count")
            \o << Call("perform_request", NULL), Call("cleanup", NULL) >>

\* fetchNumber
FetchNumber == Prepare("fetch", "keys")
  \o << Call("perform_request", NULL), Call("retrieve_val", NULL),
        Call("check", NULL), Call("cleanup", NULL) >>

\* systemReport, the last part of error_message
SystemReport ==
  ( Prepare("fetch", "keys")
    \o << Call("perform_request", NULL), Call("retrieve_val", NULL),
          Call("cleanup", NULL), Call("parse", NULL) >> )
  \o
  ( Prepare("update", "sys_report")
    \o << Call("perform_request", NULL), Call("cleanup", NULL) >> )

Routines == {SetCount, FetchNumber, SystemReport}

Init ==
  /\ host_url = NULL
  /\ bearer_token = FALSE
  /\ query = <<>>
  /\ response_buffer = NULL
  /\ http_client = FALSE /\ lostClients = 0
  /\ todo = <<>>
  /\ err = FALSE
  /\ request = NULL /\ own = <<>> /\ failures = 0 /\ failedFetches = 0

\* A NULL pointer or a pointer never set is followed: the device restarts.
Panic ==
  /\ host_url' = NULL
  /\ bearer_token' = FALSE
  /\ query' = <<>>
  /\ response_buffer' = NULL
  /\ http_client' = FALSE /\ lostClients' = 0
  /\ todo' = <<>>
  /\ err' = FALSE
  /\ request' = NULL /\ own' = <<>> /\ failures' = 0 /\ failedFetches' = 0

Calls(f) == todo # <<>> /\ Head(todo).call = f
Done == todo' = Tail(todo)

-----------------------------------------------------------------------------

\* A task calls one of the routines; the reports of other errors included.
Start ==
  /\ todo = <<>>
  /\ todo' \in Routines
  /\ todo' = FetchNumber => failedFetches < MAX_FETCHES
  /\ UNCHANGED <<library, err, history>>

\* Mutant: a response is never freed.
KeepResponse == response_buffer

\* Mutant: the pointer is left dangling.
DanglingResponse == "freed"

\* The value of response_buffer after it was freed.
FreedResponse == NULL

platform_api_init ==
  /\ Calls("init")
  /\ response_buffer' = FreedResponse
  /\ host_url' = Head(todo).arg
  /\ own' = <<>>
  /\ Done
  /\ UNCHANGED <<bearer_token, query, http_client, lostClients, err, request, failures,
                 failedFetches>>

platform_api_set_token ==
  /\ Calls("set_token")
  /\ bearer_token' = TRUE
  /\ Done
  /\ UNCHANGED <<host_url, query, response_buffer, http_client, lostClients, err, history>>

\* Mutant: parameters are put in front.
PrependParameter(p) == query' = <<p>> \o query /\ own' = Append(own, p)

AddParameter(p) == query' = Append(query, p) /\ own' = Append(own, p)

\* The text of the report is NULL when it could not be fetched; the library
\* then refuses the parameter, and nobody looks at its answer.
platform_api_set_query_string ==
  /\ Calls("set_query_string")
  /\ IF Head(todo).arg = "sys_report" /\ err
     THEN UNCHANGED <<query, own>>
     ELSE AddParameter(Head(todo).arg)
  /\ Done
  /\ UNCHANGED <<host_url, bearer_token, response_buffer, http_client, lostClients,
                 err, request, failures, failedFetches>>

\* The handle is overwritten, whatever it was.
NewClient ==
  /\ http_client' = TRUE
  /\ lostClients' = lostClients + (IF http_client THEN 1 ELSE 0)

\* What the response may be: a JSON object with the field as a string, as
\* something else, or without it; no JSON; no body.
Bodies == {"value", "number", "other", "text", NULL}

\* The old response is freed before the request, the new one received, if any.
Receive(body) ==
  /\ response_buffer' = IF body = NULL THEN FreedResponse ELSE body
  /\ request' = [url |-> host_url, params |-> query, own |-> own, body |-> body,
                 afterFailure |-> failures > 0]

QueryFreed == query' = <<>>

\* platform_api_perform_request, answered with 200
RequestSucceeds ==
  /\ Calls("perform_request")
  /\ NewClient
  /\ \E body \in Bodies : Receive(body)
  /\ QueryFreed
  /\ failures' = 0
  /\ Done
  /\ UNCHANGED <<host_url, bearer_token, err, own, failedFetches>>

\* ... or not: it returns early, and keeps the query.  The event handler has
\* stored what arrived until then, the body of an error page or of an answer
\* whose end was lost.
RequestFails ==
  /\ Calls("perform_request")
  /\ failures < MAX_FAILURES
  /\ NewClient
  /\ \E body \in Bodies : Receive(body)
  /\ failures' = failures + 1
  /\ Done
  /\ UNCHANGED <<host_url, bearer_token, query, err, own, failedFetches>>

\* A body without the field is dereferenced.
platform_api_retrieve_val ==
  /\ Calls("retrieve_val")
  /\ IF response_buffer = "other" THEN Panic
     ELSE /\ err' = (response_buffer # "value")
          /\ Done
          /\ UNCHANGED <<library, history>>

\* fetchNumber reports an error before it cleans up, and then makes a number of a
\* pointer that was never set.
CheckError ==
  /\ Calls("check")
  /\ todo' = (IF err THEN SystemReport \o << Call("atoi", NULL) >> ELSE <<>>) \o Tail(todo)
  /\ failedFetches' = failedFetches + (IF err THEN 1 ELSE 0)
  /\ UNCHANGED <<library, err, request, own, failures>>

\* Whatever the pointer holds: some number, or no memory at all.
ConvertUnset ==
  /\ Calls("atoi")
  /\ \/ Done /\ UNCHANGED <<library, err, history>>
     \/ Panic

\* systemReport parses the text it fetched, or a pointer that was never set.
ParseReport ==
  /\ Calls("parse")
  /\ \/ Done /\ UNCHANGED <<library, err, history>>
     \/ err /\ Panic

\* Mutant: the client is not cleaned up.
ClientKept == UNCHANGED <<http_client, lostClients>>

ClientFreed == http_client' = FALSE /\ UNCHANGED lostClients

platform_api_cleanup ==
  /\ Calls("cleanup")
  /\ response_buffer' = FreedResponse
  /\ host_url' = NULL
  /\ bearer_token' = FALSE
  /\ ClientFreed
  /\ Done
  /\ UNCHANGED <<query, err, history>>

Next ==
  \/ Start
  \/ platform_api_init \/ platform_api_set_token \/ platform_api_set_query_string
  \/ RequestSucceeds \/ RequestFails
  \/ platform_api_retrieve_val \/ CheckError \/ ConvertUnset \/ ParseReport
  \/ platform_api_cleanup

Spec == Init /\ [][Next]_vars

-----------------------------------------------------------------------------
(* Properties *)

Parameters == {"type", "count", "keys", "sys_report"}

TypeOK ==
  /\ host_url \in {"fetch", "update", NULL}
  /\ bearer_token \in BOOLEAN
  /\ query \in Seq(Parameters) /\ own \in Seq(Parameters)
  /\ response_buffer \in Bodies
  /\ http_client \in BOOLEAN
  /\ lostClients \in Nat
  /\ err \in BOOLEAN
  /\ failures \in 0..MAX_FAILURES
  /\ failedFetches \in 0..MAX_FETCHES

\* Nested reports and failures included, a request goes to the endpoint its
\* parameters are meant for, and the caller's own parameters come last, so that
\* they override those that earlier failures left in the query.  Nothing is left
\* of a request that succeeded, or of any before it.
OwnParametersLast ==
  request # NULL =>
    /\ IsSuffix(request.own, request.params)
    /\ ~request.afterFailure => request.params = request.own
    /\ request.url = IF "keys" \in ToSet(request.own) THEN "fetch" ELSE "update"

\* What a routine reads is what its own request has received, the last one made
\* and made with the routine's parameters: no body of an earlier request, of a
\* nested report or of another routine, also when the request failed or brought
\* nothing.  (Nobody looks at the result of the request: a body that arrived
\* before it failed is taken like any other.)
ValueOfOwnRequest ==
  Calls("retrieve_val") =>
    /\ response_buffer = request.body
    /\ request.own = own /\ request.url = "fetch" /\ host_url = "fetch"

\* A client handle is lost only when fetchNumber reports that it found no value:
\* the report opens a handle before that of fetchNumber is cleaned up.
LostByReportsOnly == lostClients <= failedFetches

=============================================================================
