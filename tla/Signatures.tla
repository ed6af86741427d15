----------------------------- MODULE Signatures -----------------------------
(***************************************************************************)
(* Signed requests of workers (auth.go, auth.py): the registration over    *)
(* the websocket, which the Python SDK signs, and HTTP requests, signed by *)
(* Go or by Python; the controller checks either against its own clock. An *)
(* HMAC is the record of what it covers.                                   *)
(***************************************************************************)
EXTENDS Integers

CONSTANTS
    Token,        \* what a client may sign with
    WorkerToken,  \* what the controller expects, one of Token
    Window,       \* five minutes
    Day,          \* the length of a day
    MaxTime,      \* bounds of the model: the last tick of the clock,
    MaxSkew       \* and how far a client's clock is off

VARIABLES
    now,      \* the controller's clock
    request,  \* the request on its way, or None
    verdict   \* what the controller made of it

vars == <<now, request, verdict>>

None == [kind |-> "none"]

Time == 0..(MaxTime + MaxSkew)

\* The data of a registration holds its date.
Registration(date) == [date |-> date]

\* canonical_request of Python has a blank line after its headers only when
\* there are none, CanonicalRequest of Go always.
BlankLine(headers, by) == by = "go" \/ headers = {}

Canonical(headers, payload, by) ==
    [headers |-> headers, payload |-> payload, blank |-> BlankLine(headers, by)]

\* Mutant of KeyDate: the day of the controller's clock.
KeyDateNow(date) == now \div Day

\* The date that goes into the signing key: DateOnlyFormat of the request.
KeyDate(date) == date \div Day

\* GenerateSignature, GenerateWebSocketSignature.
Sign(purpose, token, date, content) ==
    [purpose |-> purpose, token |-> token, day |-> KeyDate(date), content |-> content]

\* A verdict is one of those the validation has, and a request a signed one.
TypeOK ==
    /\ now \in 0..MaxTime
    /\ request # None => /\ request.date \in Time /\ request.by \in {"go", "python"}
                         /\ request.signature.token \in Token
    /\ verdict \in {"none", "accepted", "malformed", "stale", "mismatch"}

Init == now = 0 /\ request = None /\ verdict = "none"

-----------------------------------------------------------------------------
Tick ==
    /\ now < MaxTime /\ verdict = "none"
    /\ now' = now + 1
    /\ UNCHANGED <<request, verdict>>

\* A client whose clock shows date sends what it has signed.
Submit(kind, by, headers, date, signature) ==
    /\ request = None
    /\ date \in Time /\ date - now \in -MaxSkew..MaxSkew
    /\ request' = [kind |-> kind, by |-> by, headers |-> headers, date |-> date,
                   signature |-> signature]
    /\ UNCHANGED <<now, verdict>>

\* _send_registration.
SendRegistration(token, date) ==
    Submit("register", "python", {}, date,
           Sign("websocket", token, date, Registration(date)))

\* BuildAuthorizationHeader. It looks for the payload's hash under a name the
\* header map never has, and signs "unsigned" also when the hash is sent.
BuildAuthorizationHeader(token, date, hashed) ==
    LET headers == {"date"} \cup (IF hashed THEN {"hash"} ELSE {})
    IN  Submit("http", "go", headers, date,
               Sign("request", token, date, Canonical(headers, "unsigned", "go")))

\* build_http_authorization_header: "GET", "/" and no headers, whatever is sent;
\* the date is in the authorization header, next to "WorkerId".
build_http_authorization_header(token, date) ==
    Submit("http", "python", {}, date,
           Sign("request", token, date, Canonical({}, "none", "python")))

-----------------------------------------------------------------------------
Stale == now - request.date \notin -Window..Window

Receive(kind) == request # None /\ request.kind = kind /\ verdict = "none"

Judge(v) == verdict' = v /\ UNCHANGED <<now, request>>

\* HandleRegister: ValidateWebSocketSignature.
ValidateWebSocketSignature ==
    /\ Receive("register")
    /\ Judge(IF Stale THEN "stale"
             ELSE IF request.signature = Sign("websocket", WorkerToken, request.date,
                                              Registration(request.date))
                  THEN "accepted" ELSE "mismatch")

\* NewValidateContext: "workerId" and the date header have to be there.
Malformed == request.by = "python" \/ "date" \notin request.headers

\* handleFileDownload: NewValidateContext, then ValidateSignature.
ValidateSignature ==
    /\ Receive("http")
    /\ LET payload == IF "hash" \in request.headers THEN "hash" ELSE "unsigned"
       IN  Judge(IF Malformed THEN "malformed"
                 ELSE IF Stale THEN "stale"
                 ELSE IF request.signature = Sign("request", WorkerToken, request.date,
                                                  Canonical(request.headers, payload, "go"))
                      THEN "accepted" ELSE "mismatch")

Answer ==
    /\ verdict # "none"
    /\ request' = None /\ verdict' = "none"
    /\ UNCHANGED now

Next ==
    \/ Tick \/ ValidateWebSocketSignature \/ ValidateSignature \/ Answer
    \/ \E token \in Token, date \in Time :
          \/ SendRegistration(token, date)
          \/ \E hashed \in BOOLEAN : BuildAuthorizationHeader(token, date, hashed)
          \/ build_http_authorization_header(token, date)

Spec == Init /\ [][Next]_vars

-----------------------------------------------------------------------------
\* A client with the right token and a clock within the window is accepted, over
\* midnight too, and nobody else. Two kinds of HTTP request are always refused:
\* what Python signs, and what carries a hash of its payload.
SignedIsAccepted ==
    verdict # "none" =>
        (verdict = "accepted" <=>
            /\ request.signature.token = WorkerToken
            /\ request.date - now \in -Window..Window
            /\ request.kind = "http" => request.by = "go" /\ "hash" \notin request.headers)
=============================================================================
