------------------------ MODULE RequestContextProofs ------------------------
(***************************************************************************)
(* Theorems about RequestContext, for any finite set of cookie names and   *)
(* any number of handlers and requests.                                    *)
(***************************************************************************)
EXTENDS RequestContext, FiniteSetTheorems, TLAPS

(* An enumeration of a finite set leaves nothing out.                      *)
LEMMA SeqsCover ==
  ASSUME NEW S, IsFiniteSet(S), NEW f \in SetToSeqs(S)
  PROVE  f \in Seq(S) /\ Range(f) = S
<1>1. Cardinality(S) \in Nat
  BY FS_CardinalityType
<1> DEFINE D == 1 .. Cardinality(S)
<1>2. f \in [D -> S] /\ \A i, j \in D : i # j => f[i] # f[j]
  BY DEF SetToSeqs
<1>3. f \in Injection(D, S)
  BY <1>2, Zenon DEF Injection, IsInjective
<1>4. Cardinality(D) = Cardinality(S)
  BY <1>1, FS_Interval
<1>5. f \in Surjection(D, S)
  BY <1>3, <1>4, FS_Injection
<1>6. Range(f) = S
  BY <1>2, <1>5, ZenonT(30) DEF Surjection, Range
<1> QED BY <1>1, <1>2, <1>6

(* The headers a handler has asked for are in the context; so is what it   *)
(* has asked of a cookie, but for a removal the jar does not know of.      *)
Agree(n) ==
  \/ cookies.delta[n] = asked.cookies[n]
  \/ /\ asked.cookies[n] = None
     /\ cookies.delta[n] = Unchanged /\ cookies.original[n] = None

Known(n) == cookies.original[n] = None => kept[n] = None \/ Bad \in Range(sent)

Inv ==
  /\ TypeOK
  /\ pc # "client" =>
       /\ asked.headers = response_headers
       /\ \A n \in Names : kept[n] # None => n \in Range(sent)
       /\ cookies = None => \A n \in Names : asked.cookies[n] = Unchanged
       /\ cookies # None => \A n \in Names : Agree(n) /\ Known(n)

LEMMA InitInv == Init => Inv
BY DEF Init, Inv, TypeOK, Nothing

LEMMA RequestInv == Inv /\ Request => Inv'
<1> SUFFICES ASSUME Inv, Request PROVE Inv'
  OBVIOUS
<1> DEFINE Own == {n \in Names : kept[n] # None}
<1>1. IsFiniteSet(Own) /\ IsFiniteSet(Own \cup {Bad})
  BY ContextAssumption, FS_Subset, FS_AddElement
<1>2. sent' \in Seq(Names \cup {Bad}) /\ \A n \in Own : n \in Range(sent')
  <2>1. CASE sent' \in SetToSeqs(Own)
    BY <1>1, <2>1, SeqsCover
  <2>2. CASE sent' \in SetToSeqs(Own \cup {Bad})
    BY <1>1, <2>2, SeqsCover
  <2> QED BY <2>1, <2>2 DEF Request, CookieStrings
<1>3. TypeOK'
  BY <1>2 DEF Inv, TypeOK, Request, Nothing
<1>4. /\ asked'.headers = response_headers' /\ cookies' = None
      /\ \A n \in Names : asked'.cookies[n] = Unchanged
      /\ \A n \in Names : kept'[n] # None => n \in Range(sent')
  BY <1>2 DEF Request, Nothing
<1> QED BY <1>3, <1>4 DEF Inv

LEMMA FirstCookiesInv == Inv /\ FirstCookies => Inv'
<1> SUFFICES ASSUME Inv, FirstCookies PROVE Inv'
  OBVIOUS
<1> DEFINE read == {n \in Names : \E i \in DOMAIN sent : sent[i] = n /\ \A j \in 1 .. i - 1 : sent[j] # Bad}
<1>1. cookies' = [original |-> [n \in Names |-> IF n \in read THEN kept[n] ELSE None],
                  delta |-> [n \in Names |-> Unchanged]]
  BY Zenon DEF FirstCookies, Parsed, Filled
<1>2. cookies' \in Jar
  <2>1. [n \in Names |-> IF n \in read THEN kept[n] ELSE None] \in [Names -> Contents \cup {None}]
    BY DEF Inv, TypeOK
  <2>2. [n \in Names |-> Unchanged] \in [Names -> Contents \cup {None, Unchanged}]
    OBVIOUS
  <2> HIDE DEF read
  <2> QED BY <1>1, <2>1, <2>2 DEF Jar
<1>3. TypeOK'
  BY <1>2 DEF Inv, TypeOK, FirstCookies
<1>4. ASSUME NEW n \in Names PROVE Agree(n)' /\ Known(n)'
  <2>1. cookies'.delta[n] = Unchanged /\ asked'.cookies[n] = Unchanged
    BY <1>1 DEF FirstCookies, Inv
  <2>2. CASE n \in read
    BY <1>1, <2>1, <2>2 DEF Agree, Known, FirstCookies
  <2>3. CASE n \notin read /\ kept[n] # None /\ Bad \notin Range(sent)
    <3>1. PICK i \in DOMAIN sent : sent[i] = n
      BY <2>3 DEF Inv, FirstCookies, Range
    <3>2. \A j \in 1 .. i - 1 : j \in DOMAIN sent
      BY DEF Inv, TypeOK
    <3>3. \A j \in 1 .. i - 1 : sent[j] # Bad
      BY <2>3, <3>2, Zenon DEF Range
    <3> QED BY <2>3, <3>1, <3>3
  <2>4. CASE kept[n] = None \/ Bad \in Range(sent)
    BY <2>1, <2>4 DEF Agree, Known, FirstCookies
  <2> QED BY <2>2, <2>3, <2>4
<1> QED BY <1>2, <1>3, <1>4, NoJarAssumption DEF Inv, FirstCookies

(* A handler gives a cookie a value or removes it.                         *)
LEMMA ChangeInv ==
  ASSUME Inv, NEW n \in Names, NEW delta \in Contents \cup {None, Unchanged},
         NEW want \in Contents \cup {None},
         pc = "handler", cookies # None, Change(n, delta, want),
         \/ delta = want
         \/ want = None /\ delta = Unchanged /\ cookies.original[n] = None
  PROVE  Inv'
<1> USE DEF Inv, TypeOK
<1>1. cookies \in Jar
  OBVIOUS
<1>2. /\ cookies' \in Jar /\ cookies'.original = cookies.original
      /\ cookies'.delta = [cookies.delta EXCEPT ![n] = delta]
  BY <1>1 DEF Change, Jar
<1>3. /\ asked' \in [cookies : [Names -> Contents \cup {None, Unchanged}], headers : SUBSET Headers]
      /\ asked'.headers = asked.headers
      /\ asked'.cookies = [asked.cookies EXCEPT ![n] = want]
  BY DEF Change
<1>4. TypeOK'
  BY <1>2, <1>3 DEF Change
<1>5. ASSUME NEW k \in Names PROVE Agree(k)' /\ Known(k)'
  <2>1. cookies.delta \in [Names -> Contents \cup {None, Unchanged}]
    BY <1>1 DEF Jar
  <2>2. asked.cookies \in [Names -> Contents \cup {None, Unchanged}]
    OBVIOUS
  <2>3. Agree(k) /\ Known(k)
    OBVIOUS
  <2> QED BY <1>2, <1>3, <2>1, <2>2, <2>3 DEF Agree, Known, Change
<1> QED BY <1>2, <1>3, <1>4, <1>5, NoJarAssumption DEF Change

LEMMA RespondType == Inv /\ Respond => TypeOK'
<1> SUFFICES ASSUME Inv, Respond PROVE TypeOK'
  OBVIOUS
<1> USE DEF Inv, TypeOK
<1>1. Delta \in [Names -> Contents \cup {None, Unchanged}]
  BY DEF Delta, Jar
<1>2. kept' \in [Names -> Contents \cup {None}]
  BY <1>1 DEF Respond
<1> QED BY <1>2 DEF Respond

LEMMA StepInv == Inv /\ [Next]_vars => Inv'
<1> SUFFICES ASSUME Inv, [Next]_vars PROVE Inv'
  OBVIOUS
<1>1. CASE Request
  BY <1>1, RequestInv
<1>2. CASE FirstCookies
  BY <1>2, FirstCookiesInv
<1>3. CASE Ignore \/ Fail
  BY <1>3 DEF Ignore, Fail, Inv, TypeOK, Agree, Known
<1>4. CASE Respond
  BY <1>4, RespondType DEF Respond, Inv
<1>5. ASSUME NEW n \in Names, RemoveCookie(n) PROVE Inv'
  <2>1. \/ RemovalOf(n) = None
        \/ RemovalOf(n) = Unchanged /\ cookies.original[n] = None
    BY DEF RemovalOf
  <2> QED BY <1>5, <2>1, ChangeInv DEF RemoveCookie
<1>6. ASSUME NEW n \in Names, NEW v \in Contents, AddCookie(n, v) PROVE Inv'
  BY <1>6, ChangeInv DEF AddCookie
<1>7. ASSUME NEW h \in Headers, AddHeader(h) PROVE Inv'
  BY <1>7 DEF AddHeader, Inv, TypeOK, Agree, Known
<1>8. CASE UNCHANGED vars
  BY <1>8 DEF vars, Inv, TypeOK, Agree, Known
<1> QED BY <1>1, <1>2, <1>3, <1>4, <1>5, <1>6, <1>7, <1>8 DEF Next

(* What is in the context is what the handlers of the request have asked.  *)
THEOREM Invariance == Spec => []Inv
BY InitInv, StepInv, PTL DEF Spec

(* The jar, the supplemental headers and the cookies of the client keep    *)
(* their types.                                                            *)
THEOREM TypeCorrect == Spec => []TypeOK
<1>1. Inv => TypeOK
  BY DEF Inv
<1> QED BY <1>1, Invariance, PTL

(* The end of AppFuture::poll (service.rs:178-193) carries out whatever    *)
(* any number of handlers have asked for, for a success and an error.      *)
THEOREM EffectsReachClient == Spec => Effects
<1> DEFINE Effect(n) ==
      LET want == asked.cookies[n]
      IN  \/ kept'[n] = IF want = Unchanged THEN kept[n] ELSE want
          \/ want = None /\ Bad \in Range(sent)
<1>1. ASSUME Inv, Next, pc' = "client" PROVE Respond
  BY <1>1 DEF Next, Request, FirstCookies, Ignore, Fail, AddCookie, RemoveCookie, Change, AddHeader
<1>2. ASSUME Inv, Respond, NEW n \in Names PROVE Effect(n)
  <2>1. kept'[n] = IF Delta[n] = Unchanged THEN kept[n] ELSE Delta[n]
    BY <1>2 DEF Respond
  <2>2. CASE cookies = None
    BY <1>2, <2>1, <2>2 DEF Delta, Inv, Respond
  <2>3. CASE cookies # None
    <3>1. Delta[n] = cookies.delta[n] /\ Agree(n) /\ Known(n)
      BY <1>2, <2>3 DEF Delta, Inv, Respond
    <3> QED BY <1>2, <2>1, <3>1, ContextAssumption DEF Agree, Known
  <2> QED BY <2>2, <2>3
<1>3. ASSUME Inv, Respond PROVE received' = asked.headers
  BY <1>3 DEF Respond, Inv
<1>4. Inv /\ [Next]_vars => [pc' = "client" => received' = asked.headers /\ \A n \in Names : Effect(n)]_vars
  BY <1>1, <1>2, <1>3
<1> QED BY <1>4, Invariance, PTL DEF Spec, Effects
=============================================================================
