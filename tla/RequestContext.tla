-------------------------- MODULE RequestContext --------------------------
(***************************************************************************)
(* The Context of a request as its handlers use it: the cookie jar, filled *)
(* from the Cookie headers on the first call of `cookies`, and the         *)
(* supplemental response headers.  What they leave in both is merged into  *)
(* the response, a success or an error, and the client keeps the cookies   *)
(* it is told to keep and sends them with its next request.                *)
(***************************************************************************)
EXTENDS Sequences, SequencesExt

CONSTANTS
  Names,       \* cookie names
  Contents,    \* cookie values
  Headers,     \* supplemental response headers
  Bad,         \* a cookie string that does not parse, or is not text
  None,        \* no cookie, no jar
  Unchanged    \* a cookie no handler has changed

ASSUME ContextAssumption ==
  /\ None \notin Contents /\ Unchanged \notin Contents \cup {None}
  /\ Bad \notin Names /\ IsFiniteSet(Names)

VARIABLES
  kept,       \* the cookies of the client
  pc,         \* "client", "handler", "refused" or "error"
  sent,       \* the cookie strings of the request, in their order
  cookies,    \* Context.cookies: None, or the original cookies and the delta
  response_headers,   \* Context.response_headers
  asked,      \* what the handlers have done to the cookies and headers
  received    \* the supplemental headers of the last response

vars == <<kept, pc, sent, cookies, response_headers, asked, received>>

Jar == [original : [Names -> Contents \cup {None}],
        delta : [Names -> Contents \cup {None, Unchanged}]]

ASSUME NoJarAssumption == None \notin Jar

Nothing == [cookies |-> [n \in Names |-> Unchanged], headers |-> {}]

Init ==
  /\ kept = [n \in Names |-> None]
  /\ pc = "client"
  /\ sent = <<>> /\ cookies = None /\ response_headers = {}
  /\ asked = Nothing /\ received = {}

(* The client sends its cookies in any order; another application of its   *)
(* host may have left it one that does not parse.                          *)
CookieStrings ==
  LET own == {n \in Names : kept[n] # None}
  IN  SetToSeqs(own) \cup SetToSeqs(own \cup {Bad})

Request ==
  /\ pc = "client"
  /\ sent' \in CookieStrings
  /\ pc' = "handler"
  /\ cookies' = None /\ response_headers' = {}
  /\ asked' = Nothing
  /\ UNCHANGED <<kept, received>>

Filled(read) ==
  [original |-> [n \in Names |-> IF n \in read THEN kept[n] ELSE None],
   delta |-> [n \in Names |-> Unchanged]]

(* Parsing stops at the first cookie that does not parse.                  *)
Parsed ==
  Filled({n \in Names : \E i \in DOMAIN sent : sent[i] = n /\ \A j \in 1 .. i - 1 : sent[j] # Bad})

ParsedToEnd == Bad \notin Range(sent)

(* `cookies`: the jar is stored before it is filled and returned as it is  *)
(* when it is there.                                                       *)
FirstCookies ==
  /\ pc = "handler" /\ cookies = None
  /\ cookies' = Parsed
  /\ pc' = IF ParsedToEnd THEN "handler" ELSE "refused"
  /\ UNCHANGED <<kept, sent, response_headers, asked, received>>

Change(n, delta, want) ==
  /\ cookies' = [cookies EXCEPT !.delta[n] = delta]
  /\ asked' = [asked EXCEPT !.cookies[n] = want]
  /\ UNCHANGED <<kept, pc, sent, response_headers, received>>

AddCookie(n, v) == pc = "handler" /\ cookies # None /\ Change(n, v, v)

(* Unused: the cookie of a removal, without the expiry that makes it one.  *)
RemovalEmpty(n) == ""

(* A removal is sent only for a cookie of the request.                     *)
RemovalOf(n) == IF cookies.original[n] = None THEN Unchanged ELSE None

RemoveCookie(n) == pc = "handler" /\ cookies # None /\ Change(n, RemovalOf(n), None)

AddHeader(h) ==
  /\ pc = "handler"
  /\ response_headers' = response_headers \cup {h}
  /\ asked' = [asked EXCEPT !.headers = @ \cup {h}]
  /\ UNCHANGED <<kept, pc, sent, cookies, received>>

(* The caller of `cookies` goes on without it, or another handler runs.    *)
Ignore ==
  /\ pc = "refused" /\ pc' = "handler"
  /\ UNCHANGED <<kept, sent, cookies, response_headers, asked, received>>

Fail ==
  /\ pc \in {"handler", "refused"} /\ pc' = "error"
  /\ UNCHANGED <<kept, sent, cookies, response_headers, asked, received>>

(* Unused: only the cookies of an output are sent.                         *)
DeltaOfSuccess == IF cookies = None \/ pc = "error" THEN [n \in Names |-> Unchanged] ELSE cookies.delta
Delta == IF cookies = None THEN [n \in Names |-> Unchanged] ELSE cookies.delta

(* The end of AppFuture::poll: the delta becomes Set-Cookie headers and    *)
(* the supplemental headers are appended, for an output and an error alike.*)
Respond ==
  /\ pc \in {"handler", "error"}
  /\ pc' = "client"
  /\ kept' = [n \in Names |-> IF Delta[n] = Unchanged THEN kept[n] ELSE Delta[n]]
  /\ received' = response_headers
  /\ sent' = <<>> /\ cookies' = None /\ response_headers' = {}
  /\ UNCHANGED asked

Next ==
  \/ Request \/ FirstCookies \/ Ignore \/ Fail \/ Respond
  \/ \E n \in Names : RemoveCookie(n) \/ \E v \in Contents : AddCookie(n, v)
  \/ \E h \in Headers : AddHeader(h)

Spec == Init /\ [][Next]_vars

(*------------------------------ properties -------------------------------*)

TypeOK ==
  /\ kept \in [Names -> Contents \cup {None}]
  /\ pc \in {"client", "handler", "refused", "error"}
  /\ sent \in Seq(Names \cup {Bad})
  /\ cookies \in Jar \cup {None}
  /\ response_headers \in SUBSET Headers /\ received \in SUBSET Headers
  /\ asked \in [cookies : [Names -> Contents \cup {None, Unchanged}], headers : SUBSET Headers]

(* A handler that holds the jar finds in it every cookie of the request:   *)
(* "Initializes the inner `CookieJar` and returns a mutable reference to   *)
(* its instance." (service.rs:295)                                         *)
JarIsComplete ==
  cookies # None /\ pc = "handler" =>
    \A n \in Names : n \in Range(sent) => cookies.original[n] = kept[n]

(* A request leaves the client with the last value its handlers have given *)
(* to each cookie, without those they have removed, with the others as     *)
(* they were, and with every supplemental header, however it ends          *)
(* (service.rs:178-193).  Only a removal may be lost, where a cookie that  *)
(* does not parse has hidden what was to be removed.                       *)
Effects ==
  [][pc' = "client" =>
       /\ received' = asked.headers
       /\ \A n \in Names :
            LET want == asked.cookies[n]
            IN  \/ kept'[n] = IF want = Unchanged THEN kept[n] ELSE want
                \/ want = None /\ Bad \in Range(sent)]_vars
=============================================================================
