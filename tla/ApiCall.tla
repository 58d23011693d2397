------------------------------ MODULE ApiCall ------------------------------
(***************************************************************************)
(* GreenComputeClient._open, _request, _get and _delete: an HTTP call of   *)
(* the SDK with its retry loop, against a server that may execute a        *)
(* request whose answer the client never reads.  One client makes Calls    *)
(* calls, one after the other (the CLI and the SDK are synchronous).       *)
(*                                                                         *)
(* urllib wraps an OSError raised while connecting or writing in a         *)
(* URLError; one raised while waiting for the status line reaches _open    *)
(* as it is, and one raised by response.read() is outside _open.           *)
(*                                                                         *)
(* The platform is taken to answer where it is asked.  urllib follows a    *)
(* redirect by itself, and makes a GET of a POST: what the caller then     *)
(* gets is the answer to another request.  PATCH and DELETE are not        *)
(* followed; for them a redirect is one of the answers called "4xx".       *)
(***************************************************************************)
EXTENDS Integers

CONSTANTS
    NCalls,         \* bound: calls made by the client
    MaxRetriesArg   \* the constructor's max_retries argument

ASSUME ApiAssumption == NCalls \in Nat /\ MaxRetriesArg \in Int

\* `self.max_retries = max(0, max_retries)`
max_retries == IF MaxRetriesArg < 0 THEN 0 ELSE MaxRetriesArg

Calls == 1..NCalls

VARIABLES
    url,          \* whether base_url is usable
    cur,          \* the call being made, 0 before the first
    attempt,      \* loop variable of _open
    conn,         \* what the client is doing
    answer,       \* "pending": the current attempt's request is unhandled at the
                  \* server; else the status class of its response
    stray,        \* per call: abandoned requests the server may yet handle
    executed,     \* per call: how often the server executed it
    cause,        \* per call: what went wrong in the last failed attempt
    outcome       \* per call: the value or exception the caller gets

vars == <<url, cur, attempt, conn, answer, stray,
          executed, cause, outcome>>

Conns == {"idle", "connect", "await", "reading", "backoff"}
Replies == {"2xx", "4xx", "5xx"}
Answers == {"none", "pending"} \cup Replies
Outcomes == {"none", "value", "GreenComputeHTTPError", "GreenComputeTimeoutError",
             "GreenComputeConnectionError", "raw"}

\* Failures of one attempt.  A timeout counts as such whether it struck while
\* connecting or while waiting for the answer.
Timeouts == {"connect timeout", "read timeout"}
Causes == Timeouts \cup {"none", "refused", "broken send", "unknown scheme",
                         "4xx", "5xx", "reset", "broken body", "invalid url"}

Init ==
    /\ url \in {"good", "no scheme", "unknown scheme"}
    /\ cur = 0 /\ attempt = 0 /\ conn = "idle"
    /\ answer = "none"
    /\ stray = [c \in Calls |-> 0]
    /\ executed = [c \in Calls |-> 0]
    /\ cause = [c \in Calls |-> "none"]
    /\ outcome = [c \in Calls |-> "none"]

\* The call ends with o.  What is unhandled at the server stays there.
End(o, why) ==
    /\ conn' = "idle"
    /\ outcome' = [outcome EXCEPT ![cur] = o]
    /\ cause' = [cause EXCEPT ![cur] = why]
    /\ stray' = IF answer = "pending" THEN [stray EXCEPT ![cur] = @ + 1] ELSE stray
    /\ answer' = "none"
    /\ UNCHANGED <<url, cur, attempt, executed>>

\* Fault: one attempt too many.
RetryOnceMore(o, why) ==
    IF attempt <= max_retries
    THEN /\ conn' = "backoff"
         /\ cause' = [cause EXCEPT ![cur] = why]
         /\ stray' = IF answer = "pending" THEN [stray EXCEPT ![cur] = @ + 1] ELSE stray
         /\ answer' = "none"
         /\ UNCHANGED <<url, cur, attempt, executed, outcome>>
    ELSE End(o, why)

\* `if attempt < self.max_retries: sleep; continue`, else raise.
RetryOrRaise(o, why) ==
    IF attempt < max_retries
    THEN /\ conn' = "backoff"
         /\ cause' = [cause EXCEPT ![cur] = why]
         /\ stray' = IF answer = "pending" THEN [stray EXCEPT ![cur] = @ + 1] ELSE stray
         /\ answer' = "none"
         /\ UNCHANGED <<url, cur, attempt, executed, outcome>>
    ELSE End(o, why)

-----------------------------------------------------------------------------
\* The client.

\* A method of the client is called.  Without a scheme the Request
\* constructor raises ValueError, before _open.
StartCall ==
    /\ conn = "idle" /\ cur < NCalls
    /\ cur' = cur + 1
    /\ attempt' = 0
    /\ IF url = "no scheme"
       THEN /\ outcome' = [outcome EXCEPT ![cur + 1] = "raw"]
            /\ cause' = [cause EXCEPT ![cur + 1] = "invalid url"]
            /\ UNCHANGED conn
       ELSE /\ conn' = "connect"
            /\ UNCHANGED <<outcome, cause>>
    /\ UNCHANGED <<url, answer, stray, executed>>

\* URLError whose reason is an OSError (refused, unreachable, unknown host, a
\* connect timeout, broken while the request was half written): after the last
\* attempt it is raised as a timeout.
ConnectFails ==
    /\ conn = "connect" /\ url = "good"
    /\ \E why \in {"refused", "connect timeout", "broken send"} :
          RetryOrRaise("GreenComputeTimeoutError", why)

\* URLError whose reason is a string.
UnknownScheme ==
    /\ conn = "connect" /\ url = "unknown scheme"
    /\ RetryOrRaise("GreenComputeConnectionError", "unknown scheme")

\* The request is written.
SendRequest ==
    /\ conn = "connect" /\ url = "good"
    /\ conn' = "await" /\ answer' = "pending"
    /\ UNCHANGED <<url, cur, attempt, stray, executed, cause, outcome>>

\* The same error from the end of the write, when the server has it all.
SendBreaks ==
    /\ conn = "await"
    /\ RetryOrRaise("GreenComputeTimeoutError", "broken send")

\* No status line within timeout_seconds.  The request may be unhandled, or
\* handled with the answer lost or late.
ReadTimeout ==
    /\ conn = "await"
    /\ RetryOrRaise("GreenComputeTimeoutError", "read timeout")

\* The server closes the connection instead of answering: an OSError that no
\* handler of _open names.
Disconnect ==
    /\ conn = "await"
    /\ End("raw", "reset")

\* The status line arrives.  5xx is retried; 4xx, and a redirect that urllib
\* does not follow, is not.
ReceiveAnswer ==
    /\ conn = "await" /\ answer \in Replies
    /\ CASE answer = "2xx" -> /\ conn' = "reading"
                              /\ UNCHANGED <<url, cur, attempt, answer,
                                             stray, executed, cause, outcome>>
         [] answer = "4xx" -> End("GreenComputeHTTPError", "4xx")
         [] answer = "5xx" -> RetryOrRaise("GreenComputeHTTPError", "5xx")

\* `exc.fp.read()` fails while the body of an error answer is read.
ErrorBodyBreaks ==
    /\ conn = "await"
    /\ answer = "4xx" \/ (answer = "5xx" /\ attempt = max_retries)
    /\ End("raw", "broken body")

\* response.read() and json.loads.
ReadBody ==
    /\ conn = "reading"
    /\ End("value", "none")

\* The body is cut off, times out or is no JSON, all outside _open, or is not
\* the object that _build_info and the like take it for.
BodyBreaks ==
    /\ conn = "reading"
    /\ End("raw", "broken body")

\* Fault: the loop variable does not advance.
RetryForever ==
    /\ conn = "backoff"
    /\ conn' = "connect"
    /\ UNCHANGED <<url, cur, attempt, answer, stray, executed, cause, outcome>>

\* time.sleep(0.5 * 2**attempt) is over.
Retry ==
    /\ conn = "backoff"
    /\ conn' = "connect" /\ attempt' = attempt + 1
    /\ UNCHANGED <<url, cur, answer, stray, executed, cause, outcome>>

Client ==
    \/ StartCall \/ ConnectFails \/ UnknownScheme \/ SendRequest \/ SendBreaks
    \/ ReadTimeout \/ Disconnect \/ ReceiveAnswer \/ ErrorBodyBreaks
    \/ ReadBody \/ BodyBreaks \/ Retry

-----------------------------------------------------------------------------
\* The server (external): it executes a request and answers 2xx, refuses it
\* with 4xx, or fails with 5xx before or after the effect.

Handle(c, a, n) ==
    /\ a = "2xx" => n = 1
    /\ a = "4xx" => n = 0
    /\ executed' = [executed EXCEPT ![c] = @ + n]

ServerHandles ==
    /\ answer = "pending"
    /\ \E a \in Replies, n \in {0, 1} : Handle(cur, a, n) /\ answer' = a
    /\ UNCHANGED <<url, cur, attempt, conn, stray, cause, outcome>>

\* A request the client gave up on is handled, or was lost.
ServerHandlesStray ==
    /\ \E c \in Calls :
        /\ stray[c] > 0
        /\ stray' = [stray EXCEPT ![c] = @ - 1]
        /\ \E n \in {0, 1} : executed' = [executed EXCEPT ![c] = @ + n]
    /\ UNCHANGED <<url, cur, attempt, conn, answer, cause, outcome>>

Next == Client \/ ServerHandles \/ ServerHandlesStray

\* Every socket operation ends, with timeout_seconds at the latest, and a
\* sleep ends; the server owes nothing.
Safety == Init /\ [][Next]_vars

Spec == Safety /\ WF_vars(Client)

-----------------------------------------------------------------------------
\* Properties.

\* Every variable keeps its type, and a call in progress has no outcome yet.
TypeOK ==
    /\ url \in {"good", "no scheme", "unknown scheme"}
    /\ cur \in 0..NCalls /\ attempt \in 0..max_retries
    /\ conn \in Conns /\ answer \in Answers
    /\ stray \in [Calls -> Nat] /\ executed \in [Calls -> Nat]
    /\ cause \in [Calls -> Causes] /\ outcome \in [Calls -> Outcomes]
    /\ conn # "idle" => cur \in Calls /\ outcome[cur] = "none"

\* One call is never executed more often than it may be attempted, counting
\* the requests still under way when the client has long moved on.  (POSTs are
\* retried like GETs: _open does not look at the method.)
ExecutionsBounded ==
    \A c \in Calls : executed[c] + stray[c] <= max_retries + 1

\* What an answer tells the caller: a returned value means that the server
\* executed the call, a 4xx that the attempt it answers did not, and a call that
\* raises for its URL was never executed; nothing else than the earlier
\* attempts may still be under way.  So on the first attempt, the only one by
\* default, these answers are exact; timeouts, 5xx and raw errors never are.
AnswersAreDefinite ==
    [][\A c \in Calls : outcome[c] = "none" /\ outcome'[c] # "none" =>
        /\ outcome'[c] = "value" => executed'[c] \in 1..(attempt + 1 - stray'[c])
        /\ outcome'[c] = "GreenComputeHTTPError" /\ cause'[c] = "4xx"
              => executed'[c] + stray'[c] <= attempt
        /\ outcome'[c] = "GreenComputeConnectionError"
              => executed'[c] + stray'[c] = 0]_vars

\* Every call of a method returns or raises.
CallsEnd == \A c \in Calls : cur = c ~> outcome[c] # "none"

\* What the docstrings of the exceptions say (client.py:31 and :37): a request
\* that timed out raises GreenComputeTimeoutError, a connection or network
\* error raises GreenComputeConnectionError.
TimeoutErrorMeansTimeout ==
    \A c \in Calls : outcome[c] = "GreenComputeTimeoutError" => cause[c] \in Timeouts

\* What the retry loop may still send for call c, with what is on its way.
Budget(c) ==
    stray[c] + (IF c = cur /\ conn # "idle"
                THEN (max_retries - attempt) + (IF answer = "pending" \/ conn = "connect" THEN 1 ELSE 0)
                ELSE 0)

Fate(c) == IF outcome[c] = "value" THEN "value"
           ELSE IF outcome[c] # "none" THEN "failed"
           ELSE IF c <= cur THEN "open" ELSE "new"

\* Each call keeps the contract of CallContract: its budget is what the loop
\* may still send, what is pending and what is stray.
Contract == INSTANCE CallContract WITH
    Limit <- max_retries + 1,
    budget <- [c \in Calls |-> Budget(c)],
    done <- executed,
    fate <- [c \in Calls |-> Fate(c)]

ImplementsContract == Contract!CCSpec

=============================================================================
