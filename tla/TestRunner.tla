----------------------------- MODULE TestRunner -----------------------------
(***************************************************************************)
(* The test runner: it turns what a test hands it (a path, a Uri, a builder*)
(* or a Request with a body) into the request an endpoint sees, applies    *)
(* requests one after the other and keeps its default headers between      *)
(* them.  A header map holds the values of a name in the order in which    *)
(* they were appended; `get` finds the first one.  A value is the name of  *)
(* who has given it.                                                       *)
(***************************************************************************)
EXTENDS Naturals, Sequences, FiniteSets

CONSTANT MaxDefaults   \* bound on the default values of one name

ASSUME MaxDefaults \in Nat

VARIABLES
  default_headers,   \* TestRunner.default_headers
  own,               \* the headers of the request the test has built
  kind,              \* what the test hands over
  seen               \* the headers the endpoint saw last

runnerVars == <<default_headers, own, kind, seen>>

Names == {"host", "user-agent", "content-type"}
Kinds == {"path", "authority", "builder", "text", "bytes"}
Empty == [n \in Names |-> <<>>]

RunnerInit == default_headers = Empty /\ own = {} /\ kind = "path" /\ seen = Empty

(* A test puts a value into `default_headers()`.                           *)
SetDefault(n) ==
  /\ Len(default_headers[n]) < MaxDefaults
  /\ default_headers' = [default_headers EXCEPT ![n] = Append(@, "default")]
  /\ UNCHANGED <<own, kind, seen>>

OrInsert(h, n, v) == IF h[n] = <<>> THEN [h EXCEPT ![n] = <<v>>] ELSE h

(* TestRequestImpl::into_request: a Uri with an authority gives the Host,  *)
(* a body of text the Content-Type.                                        *)
IntoRequest(k, names) ==
  LET h == [n \in Names |-> IF n \in names THEN <<"own">> ELSE <<>>]
  IN  CASE k = "authority" -> OrInsert(h, "host", "uri")
        [] k = "text" -> OrInsert(h, "content-type", "body")
        [] k \in {"path", "builder", "bytes"} -> h

(* Only a builder and a Request have headers of their own.                 *)
CanHave(k) == IF k \in {"path", "authority"} THEN {{}} ELSE SUBSET Names

(* Unused: no defaults.                                                    *)
WithoutDefaults(h) == h
WithDefaults(h) == [n \in Names |-> h[n] \o default_headers[n]]

Completed(h) == OrInsert(OrInsert(h, "host", "runner"), "user-agent", "runner")

(* Unused: Host and User-Agent are filled in before the defaults.          *)
PrepareCompletedFirst(k, names) == WithDefaults(Completed(IntoRequest(k, names)))
PrepareRequest(k, names) == Completed(WithDefaults(IntoRequest(k, names)))

Apply(k, names) ==
  /\ kind' = k /\ own' = names
  /\ seen' = PrepareRequest(k, names)
  /\ UNCHANGED default_headers

(*------------------------------ properties -------------------------------*)

(* What an endpoint gets for a header is what the test has written into    *)
(* the request, or else what its Uri or body say, or else the first of the *)
(* defaults set for it, or else, for Host and User-Agent, what the runner  *)
(* fills in, which must not hide a default (test.rs:127-144).              *)
OwnComesFirst ==
  seen # Empty =>
    \A n \in Names :
      LET first == IF seen[n] = <<>> THEN "none" ELSE Head(seen[n])
      IN  IF n \in own THEN first = "own"
          ELSE IF n = "host" /\ kind = "authority" THEN first = "uri"
          ELSE IF n = "content-type" /\ kind = "text" THEN first = "body"
          ELSE IF \E i \in DOMAIN seen[n] : seen[n][i] = "default" THEN first = "default"
          ELSE first = IF n \in {"host", "user-agent"} THEN "runner" ELSE "none"

(* The default headers "are set before applying the request": the endpoint *)
(* sees each of them, with every request of the runner (test.rs:111-112).  *)
DefaultsReachEndpoint ==
  [][seen' # seen =>
       \A n \in Names :
         Cardinality({i \in DOMAIN seen'[n] : seen'[n][i] = "default"}) = Len(default_headers[n])]_runnerVars
=============================================================================
