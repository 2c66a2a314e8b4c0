-------------------------- MODULE ExtractionProofs --------------------------
(***************************************************************************)
(* Theorems about TestedExtraction, for endpoints, requests, bodies and    *)
(* default headers of any number and length; and at the end those about    *)
(* VerbSet, a small component of its own, for any number of verbs.         *)
(***************************************************************************)
EXTENDS TestedExtraction, VerbSet, FiniteSetTheorems, SequenceTheorems, WellFoundedInduction, TLAPS

-----------------------------------------------------------------------------
(* FlattenSeq.                                                             *)

LEMMA Smallest ==
  ASSUME NEW S \in SUBSET Nat, S # {}
  PROVE  \E x \in S : \A y \in S : x <= y
<1> DEFINE less == {ss \in Nat \X Nat : ss[1] < ss[2]}
<1>1. IsWellFoundedOn(less, Nat)
  BY NatLessThanWellFounded DEF OpToRel
<1>2. PICK x \in S : \A y \in S : <<y, x>> \notin less
  <2> HIDE DEF less
  <2> QED BY <1>1, WFMin
<1>3. ASSUME NEW y \in S PROVE x <= y
  <2>1. x \in Nat /\ y \in Nat
    OBVIOUS
  <2>2. ~(y < x)
    BY <1>2, <2>1
  <2> QED BY <2>1, <2>2
<1> QED BY <1>2, <1>3

(* What FlattenSeq chooses: f[i] is the concatenation of the first i items.*)
Flattens(f, q, n) == f = [i \in 1..n |-> IF i = 1 THEN q[i] ELSE f[i - 1] \o q[i]]

LEMMA FlattensAt ==
  ASSUME NEW f, NEW q, NEW n, Flattens(f, q, n), NEW i \in 1..n
  PROVE  f[i] = IF i = 1 THEN q[i] ELSE f[i - 1] \o q[i]
<1> DEFINE E(k) == IF k = 1 THEN q[k] ELSE f[k - 1] \o q[k]
<1>1. f = [k \in 1..n |-> E(k)]
  BY Zenon DEF Flattens
<1> HIDE DEF E
<1>2. f[i] = E(i)
  BY <1>1
<1> QED BY <1>2 DEF E

Agree(q, r, n) == \A i \in 1..n : q[i] = r[i]

LEMMA FlattensAgree ==
  ASSUME NEW q, NEW r, NEW n \in Nat, NEW m \in Nat, n <= m, Agree(q, r, n),
         NEW f, NEW g, Flattens(f, q, n), Flattens(g, r, m)
  PROVE  Agree(f, g, n)
<1> DEFINE S == {i \in 1..n : f[i] # g[i]}
<1>1. ASSUME NEW i \in 1..n
      PROVE  /\ f[i] = IF i = 1 THEN q[i] ELSE f[i - 1] \o q[i]
             /\ g[i] = IF i = 1 THEN r[i] ELSE g[i - 1] \o r[i]
  <2>1. i \in 1..m
    OBVIOUS
  <2> QED BY <2>1, FlattensAt
<1>2. SUFFICES ASSUME S # {} PROVE FALSE
  BY DEF Agree
<1>3. S \in SUBSET Nat
  OBVIOUS
<1>4. PICK x \in S : \A y \in S : x <= y
  <2> HIDE DEF S
  <2> QED BY <1>2, <1>3, Smallest
<1>5. x \in 1..n /\ f[x] # g[x]
  OBVIOUS
<1>6. q[x] = r[x]
  BY <1>5 DEF Agree
<1>7. x # 1
  BY <1>1, <1>5, <1>6
<1>8. x - 1 \in 1..n /\ x - 1 \notin S
  BY <1>4, <1>5, <1>7
<1>9. f[x - 1] = g[x - 1]
  BY <1>8
<1> QED BY <1>1, <1>5, <1>6, <1>7, <1>9

LEMMA FlattensExists ==
  ASSUME NEW q, NEW n \in Nat
  PROVE  \E f : Flattens(f, q, n)
<1> DEFINE S == {k \in Nat : ~\E f : Flattens(f, q, k)}
<1>1. SUFFICES ASSUME S # {} PROVE FALSE
  OBVIOUS
<1>2. PICK x \in S : \A y \in S : x <= y
  <2> HIDE DEF S
  <2>1. S \in SUBSET Nat
    BY DEF S
  <2> QED BY <1>1, <2>1, Smallest
<1>3. x \in Nat /\ ~\E f : Flattens(f, q, x)
  OBVIOUS
<1>4. x # 0
  <2>1. [i \in 1..0 |-> q] = [i \in 1..0 |-> IF i = 1 THEN q[i] ELSE [j \in 1..0 |-> q][i - 1] \o q[i]]
    OBVIOUS
  <2>2. Flattens([i \in 1..0 |-> q], q, 0)
    BY <2>1, Zenon DEF Flattens
  <2> QED BY <1>3, <2>2
<1>5. x - 1 \in Nat /\ x - 1 \notin S
  BY <1>2, <1>3, <1>4
<1>6. PICK f : Flattens(f, q, x - 1)
  BY <1>5
<1> DEFINE g == [i \in 1..x |-> IF i = x THEN (IF x = 1 THEN q[x] ELSE f[x - 1] \o q[x]) ELSE f[i]]
<1>7. ASSUME NEW i \in 1..x PROVE g[i] = IF i = 1 THEN q[i] ELSE g[i - 1] \o q[i]
  <2>1. CASE i = x
    BY <1>3, <2>1
  <2>2. CASE i # x
    <3>1. i \in 1..x - 1 /\ g[i] = f[i]
      BY <1>3, <2>2
    <3>2. f[i] = IF i = 1 THEN q[i] ELSE f[i - 1] \o q[i]
      BY <1>6, <3>1, FlattensAt
    <3>3. i # 1 => i - 1 \in 1..x /\ g[i - 1] = f[i - 1]
      BY <1>3, <2>2
    <3> HIDE DEF g
    <3> QED BY <3>1, <3>2, <3>3
  <2> QED BY <2>1, <2>2
<1>8. Flattens(g, q, x)
  <2>1. g = [i \in 1..x |-> g[i]]
    OBVIOUS
  <2> HIDE DEF g
  <2>2. [i \in 1..x |-> g[i]] = [i \in 1..x |-> IF i = 1 THEN q[i] ELSE g[i - 1] \o q[i]]
    BY <1>7
  <2> QED BY <2>1, <2>2 DEF Flattens
<1> QED BY <1>3, <1>8

LEMMA FlattenIs ==
  ASSUME NEW q, Len(q) \in Nat \ {0}, NEW f, Flattens(f, q, Len(q))
  PROVE  FlattenSeq(q) = f[Len(q)]
<1> DEFINE n == Len(q)
           g == CHOOSE h : Flattens(h, q, n)
<1>1. Flattens(g, q, n)
  BY FlattensExists
<1>2. FlattenSeq(q) = g[n]
  BY DEF FlattenSeq, Flattens
<1>3. Agree(f, g, n)
  <2>1. n \in Nat /\ n <= n /\ Agree(q, q, n)
    BY DEF Agree
  <2>2. Flattens(f, q, n)
    OBVIOUS
  <2> HIDE DEF g, n
  <2> QED BY <1>1, <2>1, <2>2, FlattensAgree
<1>4. n \in 1..n
  OBVIOUS
<1> HIDE DEF g
<1> QED BY <1>2, <1>3, <1>4 DEF Agree

LEMMA FlattenEmpty == FlattenSeq(<<>>) = <<>>
<1>1. Len(<<>>) = 0
  OBVIOUS
<1> QED BY <1>1, Zenon DEF FlattenSeq

(* An item more is appended to what the others are together.               *)
LEMMA FlattenAppend ==
  ASSUME NEW B, NEW q \in Seq(Seq(B)), NEW x \in Seq(B)
  PROVE  FlattenSeq(Append(q, x)) = FlattenSeq(q) \o x
<1> DEFINE n == Len(q)
           m == n + 1
           r == Append(q, x)
<1>1. /\ n \in Nat /\ m \in Nat \ {0} /\ m \in 1..m /\ n <= m /\ m - 1 = n /\ (m = 1 <=> n = 0)
      /\ Len(r) = m /\ r[m] = x /\ Agree(q, r, n)
  BY DEF Agree
<1>2. n = 0 => q = <<>> /\ x = <<>> \o x
  OBVIOUS
<1>3. Len(q) = n
  OBVIOUS
<1> HIDE DEF n, m, r
<1>4. PICK g : Flattens(g, r, m)
  BY <1>1, FlattensExists
<1>5. FlattenSeq(r) = g[m]
  BY <1>1, <1>4, FlattenIs, Zenon
<1>6. g[m] = IF m = 1 THEN r[m] ELSE g[m - 1] \o r[m]
  BY <1>1, <1>4, FlattensAt
<1>7. CASE n = 0
  <2>1. FlattenSeq(q) = <<>>
    BY <1>2, <1>7, FlattenEmpty
  <2>2. FlattenSeq(r) = x
    BY <1>1, <1>5, <1>6, <1>7
  <2> QED BY <1>2, <1>7, <2>1, <2>2 DEF r
<1>8. CASE n # 0
  <2>1. PICK f : Flattens(f, q, n)
    BY <1>1, FlattensExists
  <2>2. n \in Nat \ {0} /\ n \in 1..n
    BY <1>1, <1>8
  <2>3. FlattenSeq(q) = f[n]
    BY <1>3, <2>1, <2>2, FlattenIs, Zenon
  <2>4. Agree(f, g, n)
    BY <1>1, <1>4, <2>1, FlattensAgree
  <2>5. f[n] = g[n]
    BY <2>2, <2>4 DEF Agree
  <2> QED BY <1>1, <1>5, <1>6, <1>8, <2>3, <2>5 DEF r
<1> QED BY <1>7, <1>8

LEMMA FlattenOne ==
  ASSUME NEW B, NEW x \in Seq(B)
  PROVE  FlattenSeq(<<x>>) = x
<1>1. <<>> \in Seq(Seq(B)) /\ <<x>> = Append(<<>>, x) /\ <<>> \o x = x
  OBVIOUS
<1>2. FlattenSeq(<<>>) = <<>>
  BY FlattenEmpty
<1>3. FlattenSeq(Append(<<>>, x)) = FlattenSeq(<<>>) \o x
  BY <1>1, FlattenAppend
<1> QED BY <1>1, <1>2, <1>3

LEMMA FlattenType ==
  ASSUME NEW B, NEW q \in Seq(Seq(B))
  PROVE  FlattenSeq(q) \in Seq(B)
<1> DEFINE n == Len(q)
<1>1. CASE n = 0
  <2>1. q = <<>>
    BY <1>1
  <2>2. <<>> \in Seq(B)
    OBVIOUS
  <2> QED BY <2>1, <2>2, FlattenEmpty, Zenon
<1>2. CASE n # 0
  <2>0. n \in Nat \ {0}
    BY <1>2
  <2>1. PICK f : Flattens(f, q, n)
    BY <2>0, FlattensExists
  <2>2. FlattenSeq(q) = f[n]
    BY <2>0, <2>1, FlattenIs
  <2> DEFINE S == {i \in 1..n : f[i] \notin Seq(B)}
  <2>3. S = {}
    <3> SUFFICES ASSUME S # {} PROVE FALSE
      OBVIOUS
    <3>1. PICK x \in S : \A y \in S : x <= y
      <4>1. S \in SUBSET Nat
        OBVIOUS
      <4> HIDE DEF S
      <4> QED BY <4>1, Smallest
    <3>2. x \in 1..n /\ f[x] \notin Seq(B) /\ q[x] \in Seq(B)
      OBVIOUS
    <3>3. f[x] = IF x = 1 THEN q[x] ELSE f[x - 1] \o q[x]
      BY <2>1, <3>2, FlattensAt
    <3>4. x # 1
      BY <3>2, <3>3
    <3>5. x - 1 \in 1..n /\ x - 1 \notin S
      BY <3>1, <3>2, <3>4
    <3>6. f[x - 1] \in Seq(B)
      BY <3>5
    <3>7. f[x - 1] \o q[x] \in Seq(B)
      BY <3>2, <3>6
    <3> QED BY <3>2, <3>3, <3>4, <3>7
  <2>4. n \in 1..n
    BY <1>2
  <2> QED BY <2>2, <2>3, <2>4
<1> QED BY <1>1, <1>2

-----------------------------------------------------------------------------
(* The extraction of a request.                                            *)

(* The alternatives that the request is for.                               *)
Able == {i \in DOMAIN endpoint : For(endpoint[i], request)}

BodyHolders == {"none", "request", "action", "output", "task", "dropped"}

ExtractionTypes ==
  /\ endpoint \in Endpoints
  /\ request.query \in Values /\ request.bytes \in Seq(Bytes)
  /\ phase \in {"idle", "dispatched", "inflight", "answered"}
  /\ body \in BodyHolders /\ task \in {"none", "spawned", "handler", "failed"}
  /\ stream \in {"open", "end", "error"} /\ sent \in 0 .. Len(request.bytes)
  /\ queue \in Seq(Seq(Bytes)) /\ buf \in Seq(Bytes)

(* What has arrived is in the buffer or in the queue, in order, as long as *)
(* somebody can still read it, and unless it came in several slices.       *)
NothingLost ==
  body = "request" \/ (body = "action" /\ Contiguous) =>
    buf \o FlattenSeq(queue) = SubSeq(request.bytes, 1, sent)

Phases ==
  /\ phase = "idle" <=> body = "none"
  /\ phase = "dispatched" => body = "request"
  /\ phase = "inflight" => body \in {"request", "action"} /\ Able # {} /\ chosen = First(Able)
  /\ phase \in {"idle", "dispatched", "inflight"} => task = "none" /\ answer = NoAnswer
  /\ body \in {"none", "request"} => buf = <<>>
  /\ body \in {"action", "output", "task", "dropped"} => Able # {}
  /\ body \in {"task", "dropped"} => Handshake
  /\ stream = "end" => sent = Len(request.bytes)

ExtractionInv ==
  /\ ExtractionTypes /\ NothingLost /\ Phases
  /\ AnswerIsOfWholeBody /\ RejectedKeepsBody /\ UpgradeIsKept

LEMMA FirstIs ==
  ASSUME NEW S \in SUBSET Nat, S # {}
  PROVE  First(S) \in S /\ \A j \in S : First(S) <= j
BY Smallest DEF First

(* A preflight succeeds exactly for the requests the alternative is for.   *)
LEMMA PreflightFor ==
  ASSUME NEW alt \in Alternatives, request.query \in Values
  PROVE  /\ PreflightStatus(alt) = Accepted <=> For(alt, request)
         /\ PreflightStatus(alt) \in {Accepted, BadRequest, NotFound}
<1> DEFINE h == HeaderStatus[alt.header]
           q == QueryStatus[alt.query]
           b == BodyPreflight(alt.body)
           all == <<h, q, b>>
           errors == {i \in 1..3 : all[i] # Accepted}
<1>1. /\ h = Accepted <=> /\ alt.header \in {"parse", "matches"} => request.header = "good"
                          /\ alt.header = "optional" => request.header \in {"none", "good"}
      /\ h \in {Accepted, BadRequest, NotFound}
  BY DEF Alternatives, HeaderStatus, HeaderParse, HeaderOptional, HeaderMatches, HeaderRaw, Converts,
         Accepted, BadRequest, NotFound
<1>2. /\ q = Accepted <=> /\ alt.query = "required" => request.query = "good"
                          /\ alt.query = "optional" => request.query \in {"none", "good"}
      /\ q \in {Accepted, BadRequest, NotFound}
  BY DEF Alternatives, QueryStatus, QueryRequired, QueryOptional, QueryRaw, Values,
         Accepted, BadRequest, NotFound
<1>3. /\ b = Accepted <=> /\ alt.body = "json" => request.content = "json"
                          /\ alt.body = "urlencoded" => request.content = "form"
                          /\ alt.body = "text" => request.content \notin {"unreadable", "text_latin1"}
      /\ b \in {Accepted, BadRequest, NotFound}
  BY DEF Alternatives, BodyPreflight, ContentChecks, TextPreflight, JsonPreflight, UrlencodedPreflight,
         ContentType, Accepted, BadRequest, NotFound
<1>4. PreflightStatus(alt) = IF errors = {} THEN Accepted ELSE all[First(errors)]
  BY DEF PreflightStatus
<1>5. errors = {} <=> h = Accepted /\ q = Accepted /\ b = Accepted
  <2> HIDE DEF h, q, b
  <2> QED OBVIOUS
<1>6. For(alt, request) <=> h = Accepted /\ q = Accepted /\ b = Accepted
  <2> HIDE DEF h, q, b
  <2> QED BY <1>1, <1>2, <1>3 DEF For
<1>7. errors # {} => First(errors) \in 1..3 /\ all[First(errors)] # Accepted
  <2>1. errors \in SUBSET Nat
    OBVIOUS
  <2>2. errors # {} => First(errors) \in errors
    <3> HIDE DEF errors
    <3> QED BY <2>1, FirstIs
  <2> HIDE DEF h, q, b
  <2> QED BY <2>2
<1>8. \A i \in 1..3 : all[i] \in {Accepted, BadRequest, NotFound}
  <2> HIDE DEF h, q, b
  <2> QED BY <1>1, <1>2, <1>3
<1> HIDE DEF all, errors, h, q, b
<1>9. errors # {} => all[First(errors)] \in {Accepted, BadRequest, NotFound}
  BY <1>7, <1>8
<1>10. PreflightStatus(alt) = Accepted <=> errors = {}
  BY <1>4, <1>7
<1>11. PreflightStatus(alt) \in {Accepted, BadRequest, NotFound}
  BY <1>4, <1>9
<1> QED BY <1>5, <1>6, <1>10, <1>11

LEMMA SplitSubSeq ==
  ASSUME NEW B, NEW s \in Seq(B), NEW i \in 0 .. Len(s), NEW j \in i .. Len(s)
  PROVE  /\ SubSeq(s, i + 1, j) \in Seq(B) /\ Len(SubSeq(s, i + 1, j)) = j - i
         /\ SubSeq(s, 1, j) = SubSeq(s, 1, i) \o SubSeq(s, i + 1, j)
<1>1. /\ SubSeq(s, 1, i) \in Seq(B) /\ Len(SubSeq(s, 1, i)) = i
      /\ SubSeq(s, 1, j) \in Seq(B) /\ Len(SubSeq(s, 1, j)) = j
      /\ SubSeq(s, i + 1, j) \in Seq(B) /\ Len(SubSeq(s, i + 1, j)) = j - i
  OBVIOUS
<1>2. /\ \A k \in 1 .. i : SubSeq(s, 1, i)[k] = s[k]
      /\ \A k \in 1 .. j : SubSeq(s, 1, j)[k] = s[k]
      /\ \A k \in 1 .. j - i : SubSeq(s, i + 1, j)[k] = s[i + k]
  OBVIOUS
<1> DEFINE l == SubSeq(s, 1, i)
           r == SubSeq(s, i + 1, j)
           w == SubSeq(s, 1, j)
<1> HIDE DEF l, r, w
<1>3. /\ l \o r \in Seq(B) /\ Len(l \o r) = j
      /\ \A k \in 1 .. j : (l \o r)[k] = IF k <= i THEN l[k] ELSE r[k - i]
  BY <1>1, ConcatProperties DEF l, r
<1>4. ASSUME NEW k \in 1 .. j PROVE (l \o r)[k] = w[k]
  <2>1. CASE k <= i
    BY <1>2, <1>3, <2>1 DEF l, w
  <2>2. CASE ~(k <= i)
    <3>1. k - i \in 1 .. j - i /\ i + (k - i) = k
      BY <2>2
    <3> QED BY <1>2, <1>3, <2>2, <3>1 DEF r, w
  <2> QED BY <2>1, <2>2
<1>5. w = l \o r
  BY <1>1, <1>3, <1>4, SeqEqual DEF w
<1> QED BY <1>1, <1>5 DEF l, r, w

LEMMA EndpointTypes ==
  ASSUME ExtractionTypes
  PROVE  /\ endpoint \in Seq(Alternatives) /\ DOMAIN endpoint \in {{1}, {1, 2}} /\ Len(endpoint) \in {1, 2}
         /\ DOMAIN endpoint = 1 .. Len(endpoint)
         /\ \A i \in DOMAIN endpoint : endpoint[i] \in Alternatives
<1>1. endpoint \in Seq(Alternatives) /\ Len(endpoint) \in 1..2
  BY EndpointsAssumption DEF ExtractionTypes
<1>2. DOMAIN endpoint = 1 .. Len(endpoint)
  BY <1>1
<1>3. Len(endpoint) = 1 \/ Len(endpoint) = 2
  BY <1>1
<1> QED BY <1>1, <1>2, <1>3

(* The alternatives whose preflight succeeds, and the one of them that the *)
(* property names.                                                         *)
LEMMA AbleMatches ==
  ASSUME ExtractionTypes
  PROVE  {i \in DOMAIN endpoint : PreflightStatus(endpoint[i]) = Accepted} = Able
<1>1. \A i \in DOMAIN endpoint : PreflightStatus(endpoint[i]) = Accepted <=> For(endpoint[i], request)
  BY EndpointTypes, PreflightFor DEF ExtractionTypes
<1> QED BY <1>1, Zenon DEF Able

LEMMA ChosenKind ==
  ASSUME ExtractionTypes, Able # {}, chosen = First(Able)
  PROVE  /\ chosen \in Able /\ Kind = endpoint[chosen].body
         /\ Kind = IF 1 \in Able THEN endpoint[1].body ELSE endpoint[2].body
<1>1. Able \subseteq DOMAIN endpoint /\ DOMAIN endpoint \in {{1}, {1, 2}}
  BY EndpointTypes DEF Able
<1>2. Able \in SUBSET Nat
  BY <1>1
<1>3. chosen \in Able /\ \A j \in Able : chosen <= j
  BY <1>2, FirstIs
<1>4. chosen = IF 1 \in Able THEN 1 ELSE 2
  BY <1>1, <1>3
<1> QED BY <1>3, <1>4 DEF Kind

(* What an answer has to be, in terms of the chosen alternative.           *)
Fits(format, status, output) ==
  IF format = "raw" THEN status = 200
  ELSE IF format = "ws" THEN status \in {BadRequest, 101, 500}
  ELSE IF stream = "error" THEN status = 500
  ELSE IF ~Contiguous THEN status \in {200, BadRequest}
  ELSE IF Parses(format, request.bytes) THEN status = 200 /\ output = request.bytes
  ELSE status = BadRequest

LEMMA AnswerFits ==
  ASSUME ExtractionTypes, Able # {}, chosen = First(Able),
         NEW s, NEW b, answer' = [status |-> s, bytes |-> b], Fits(Kind, s, b),
         UNCHANGED <<endpoint, request, stream>>
  PROVE  AnswerIsOfWholeBody'
<1> DEFINE able == {i \in DOMAIN endpoint : For(endpoint[i], request)}
           format == IF 1 \in able THEN endpoint[1].body ELSE endpoint[2].body
<1>1. able = Able /\ format = Kind
  BY ChosenKind DEF Able
<1>2. answer' = [status |-> s, bytes |-> b] /\ answer'.status = s
  OBVIOUS
<1>3. (IF able = {} THEN answer'.status \in {BadRequest, NotFound}
       ELSE IF format = "raw" THEN answer'.status = 200
       ELSE IF format = "ws" THEN answer'.status \in {BadRequest, 101, 500}
       ELSE IF stream = "error" THEN answer'.status = 500
       ELSE IF ~Contiguous THEN answer'.status \in {200, BadRequest}
       ELSE IF Parses(format, request.bytes)
            THEN answer' = [status |-> 200, bytes |-> request.bytes]
            ELSE answer'.status = BadRequest)
  <2> HIDE DEF able, format
  <2> QED BY <1>1, <1>2 DEF Fits
<1>4. \A k, q : Parses(k, q)' <=> Parses(k, q)
  BY DEF Parses, ParsesText, ParsesJson, ParsesUrlencoded, Utf8, Clean
<1>5. able' = able /\ format' = format /\ Contiguous' = Contiguous
  <2>1. \A a : For(a, request)' <=> For(a, request)
    BY DEF For
  <2> QED BY <2>1 DEF Contiguous
<1> QED BY <1>3, <1>4, <1>5 DEF AnswerIsOfWholeBody, BadRequest, NotFound

LEMMA SameRequest ==
  ASSUME UNCHANGED <<endpoint, request>>
  PROVE  /\ Able' = Able /\ (Handshake <=> Handshake') /\ Contiguous' = Contiguous
         /\ \A i \in DOMAIN endpoint : For(endpoint[i], request) <=> For(endpoint[i], request)'
BY DEF Able, For, Handshake, Contiguous

LEMMA KeepsBody ==
  ASSUME ExtractionTypes, NothingLost, Phases
  PROVE  RejectedKeepsBody
<1>1. body \notin {"none", "request"} => Able # {}
  BY DEF Phases, ExtractionTypes, BodyHolders
<1>2. body \in {"task", "dropped"} => \A n \in WsNames : request.ws[n] = "valid"
  BY DEF Phases, Handshake
<1>3. body = "request" => FlattenSeq(queue) = SubSeq(request.bytes, 1, sent)
  <2>1. FlattenSeq(queue) \in Seq(Bytes)
    BY FlattenType DEF ExtractionTypes
  <2>2. <<>> \o FlattenSeq(queue) = FlattenSeq(queue)
    BY <2>1
  <2> QED BY <2>2 DEF NothingLost, Phases
<1> QED BY <1>1, <1>2, <1>3 DEF RejectedKeepsBody, Able

(* Everything but the answer follows from the phase and the body.          *)
LEMMA Reassemble ==
  ASSUME ExtractionTypes', NothingLost', Phases', AnswerIsOfWholeBody', UpgradeIsKept'
  PROVE  ExtractionInv'
<1>1. (ExtractionTypes /\ NothingLost /\ Phases => RejectedKeepsBody)'
  BY KeepsBody, PTL
<1> QED BY <1>1 DEF ExtractionInv

LEMMA InitExtraction == TestedInit => ExtractionInv
<1> SUFFICES ASSUME TestedInit PROVE ExtractionInv
  OBVIOUS
<1>1. /\ endpoint \in Endpoints /\ request = NoRequest /\ phase = "idle" /\ chosen = 0
      /\ body = "none" /\ sent = 0 /\ queue = <<>> /\ stream = "open"
      /\ buf = <<>> /\ answer = NoAnswer /\ task = "none"
  BY DEF TestedInit, RequestInit
<1>2. ExtractionTypes
  BY <1>1 DEF ExtractionTypes, NoRequest, BodyHolders, Values
<1>3. NothingLost /\ Phases
  BY <1>1 DEF NothingLost, Phases
<1>4. RejectedKeepsBody
  BY <1>2, <1>3, KeepsBody
<1> QED BY <1>1, <1>2, <1>3, <1>4 DEF ExtractionInv, AnswerIsOfWholeBody, UpgradeIsKept, NoAnswer

LEMMA DispatchInv ==
  ASSUME ExtractionInv, NEW r, NEW items \in Seq(Seq(Bytes)), NEW end \in {"open", "end"},
         Dispatch(r, items, end), r.query \in Values, r.bytes \in Seq(Bytes),
         FlattenSeq(items) = SubSeq(r.bytes, 1, Len(FlattenSeq(items))),
         Len(FlattenSeq(items)) \in 0 .. Len(r.bytes),
         end = "end" => Len(FlattenSeq(items)) = Len(r.bytes)
  PROVE  ExtractionInv'
<1>1. /\ phase = "idle" /\ body = "none" /\ buf = <<>> /\ task = "none" /\ answer = NoAnswer
      /\ request' = r /\ phase' = "dispatched" /\ body' = "request"
      /\ queue' = items /\ stream' = end /\ sent' = Len(FlattenSeq(items))
      /\ endpoint' = endpoint /\ buf' = buf /\ answer' = answer /\ task' = task
  BY DEF Dispatch, ExtractionInv, Phases
<1>2. ExtractionTypes'
  BY <1>1 DEF ExtractionInv, ExtractionTypes, BodyHolders
<1>3. NothingLost'
  <2>1. FlattenSeq(items) \in Seq(Bytes)
    BY FlattenType
  <2>2. <<>> \o FlattenSeq(items) = FlattenSeq(items)
    BY <2>1
  <2> QED BY <1>1, <2>2 DEF NothingLost
<1>4. Phases'
  BY <1>1 DEF Phases
<1>5. AnswerIsOfWholeBody' /\ UpgradeIsKept'
  BY <1>1 DEF AnswerIsOfWholeBody, UpgradeIsKept, NoAnswer
<1> QED BY <1>2, <1>3, <1>4, <1>5, Reassemble

LEMMA PreflightInv == ExtractionInv /\ Preflight => ExtractionInv'
<1> SUFFICES ASSUME ExtractionInv, Preflight PROVE ExtractionInv'
  OBVIOUS
<1>1. ExtractionTypes /\ NothingLost /\ Phases
  BY DEF ExtractionInv
<1>2. /\ phase = "dispatched" /\ body = "request" /\ task = "none" /\ answer = NoAnswer /\ buf = <<>>
      /\ UNCHANGED <<endpoint, request, body, sent, queue, stream, buf, task>>
      /\ IF Able # {}
         THEN phase' = "inflight" /\ chosen' = First(Able) /\ answer' = answer
         ELSE /\ phase' = "answered"
              /\ answer' = [status |-> IF Len(endpoint) = 1 THEN PreflightStatus(endpoint[1]) ELSE NotFound,
                            bytes |-> <<>>]
  BY <1>1, AbleMatches DEF Preflight, Respond, Phases, Kept
<1>3. Able' = Able /\ (Handshake <=> Handshake') /\ Contiguous' = Contiguous
  BY <1>2, SameRequest
<1>4. ExtractionTypes' /\ NothingLost'
  BY <1>1, <1>2 DEF ExtractionTypes, NothingLost
<1>5. Phases'
  BY <1>1, <1>2, <1>3 DEF Phases
<1>6. CASE Able # {}
  <2>1. AnswerIsOfWholeBody' /\ UpgradeIsKept'
    BY <1>2, <1>6 DEF AnswerIsOfWholeBody, UpgradeIsKept, NoAnswer
  <2> QED BY <1>4, <1>5, <2>1, Reassemble
<1>7. CASE Able = {}
  <2>1. answer'.status \in {BadRequest, NotFound}
    <3>1. CASE Len(endpoint) = 1
      <4>1. 1 \in DOMAIN endpoint /\ endpoint[1] \in Alternatives
        BY <1>1, <3>1, EndpointTypes
      <4>2. ~For(endpoint[1], request)
        BY <1>7, <4>1 DEF Able
      <4>3. PreflightStatus(endpoint[1]) \in {BadRequest, NotFound}
        BY <1>1, <4>1, <4>2, PreflightFor DEF ExtractionTypes
      <4> QED BY <1>2, <1>7, <3>1, <4>3
    <3>2. CASE Len(endpoint) # 1
      BY <1>2, <1>7, <3>2
    <3> QED BY <3>1, <3>2
  <2>2. {i \in DOMAIN endpoint' : For(endpoint'[i], request')} = {}
    BY <1>3, <1>7 DEF Able
  <2>3. AnswerIsOfWholeBody'
    BY <2>1, <2>2 DEF AnswerIsOfWholeBody, BadRequest, NotFound
  <2>4. UpgradeIsKept'
    BY <1>2, <2>1 DEF UpgradeIsKept, BadRequest, NotFound
  <2> QED BY <1>4, <1>5, <2>3, <2>4, Reassemble
<1> QED BY <1>6, <1>7

LEMMA PollRawInv == ExtractionInv /\ PollRaw => ExtractionInv'
<1> SUFFICES ASSUME ExtractionInv, PollRaw PROVE ExtractionInv'
  OBVIOUS
<1>1. ExtractionTypes /\ NothingLost /\ Phases
  BY DEF ExtractionInv
<1>2. /\ phase = "inflight" /\ Kind = "raw" /\ body' = "output" /\ phase' = "answered"
      /\ answer' = [status |-> 200, bytes |-> <<>>] /\ task = "none" /\ Able # {} /\ chosen = First(Able)
      /\ UNCHANGED <<endpoint, request, chosen, sent, queue, stream, buf, task>>
  BY <1>1 DEF PollRaw, Respond, Phases
<1>3. Able' = Able /\ (Handshake <=> Handshake') /\ Contiguous' = Contiguous
  BY <1>2, SameRequest
<1>4. ExtractionTypes' /\ NothingLost' /\ Phases'
  BY <1>1, <1>2, <1>3 DEF ExtractionTypes, NothingLost, Phases, BodyHolders
<1>5. AnswerIsOfWholeBody'
  BY <1>1, <1>2, AnswerFits DEF Fits
<1>6. UpgradeIsKept'
  BY <1>2 DEF UpgradeIsKept
<1> QED BY <1>4, <1>5, <1>6, Reassemble

LEMMA FunctionIsSeq ==
  ASSUME NEW T, NEW n \in Nat, NEW f \in [1 .. n -> T]
  PROVE  f \in Seq(T)
OBVIOUS

(* A poll appends what it is given, whole if the items are one slice each. *)
LEMMA ReceivedIs ==
  ASSUME NEW items \in Seq(Seq(Bytes)), buf \in Seq(Bytes), NEW b \in Received(items)
  PROVE  b \in Seq(Bytes) /\ (Contiguous => b = buf \o FlattenSeq(items))
<1>1. PICK slices \in SlicesOf(items) : b = buf \o FlattenSeq(slices)
  BY DEF Received
<1>2. /\ slices \in [DOMAIN items -> AllSlices(items)] /\ DOMAIN items = 1 .. Len(items) /\ Len(items) \in Nat
      /\ \A i \in DOMAIN items : slices[i] \in FirstSlices(items[i])
  BY DEF SlicesOf
<1>3. ASSUME NEW i \in DOMAIN items PROVE slices[i] \in Seq(Bytes)
  <2>1. items[i] \in Seq(Bytes)
    OBVIOUS
  <2>2. CASE Contiguous
    BY <1>2, <2>1, <2>2 DEF FirstSlices
  <2>3. CASE ~Contiguous
    <3>1. PICK n \in IF items[i] = <<>> THEN {0} ELSE 1 .. Len(items[i]) : slices[i] = SubSeq(items[i], 1, n)
      BY <1>2, <2>3 DEF FirstSlices
    <3>2. n \in 0 .. Len(items[i])
      BY <2>1, <3>1
    <3> QED BY <2>1, <3>1, <3>2
  <2> QED BY <2>2, <2>3
<1>4. slices \in Seq(Seq(Bytes))
  <2> DEFINE T == Seq(Bytes)
  <2>1. slices \in [1 .. Len(items) -> T]
    BY <1>2, <1>3
  <2> HIDE DEF T
  <2>2. slices \in Seq(T)
    BY <1>2, <2>1, FunctionIsSeq
  <2> QED BY <2>2 DEF T
<1>5. FlattenSeq(slices) \in Seq(Bytes)
  BY <1>4, FlattenType
<1>6. Contiguous => slices = items
  <2>1. Contiguous => \A i \in DOMAIN items : slices[i] = items[i]
    BY <1>2 DEF FirstSlices
  <2>2. items = [i \in 1 .. Len(items) |-> items[i]] /\ slices = [i \in 1 .. Len(items) |-> slices[i]]
    BY <1>2
  <2> QED BY <1>2, <2>1, <2>2
<1> HIDE DEF SlicesOf
<1>7. b \in Seq(Bytes)
  <2> DEFINE flat == FlattenSeq(slices)
  <2> HIDE DEF flat
  <2>1. b = buf \o flat /\ flat \in Seq(Bytes)
    BY <1>1, <1>5 DEF flat
  <2> QED BY <2>1
<1> QED BY <1>1, <1>6, <1>7

LEMMA PollReceiveInv == ExtractionInv /\ PollReceive => ExtractionInv'
<1> SUFFICES ASSUME ExtractionInv, PollReceive PROVE ExtractionInv'
  OBVIOUS
<1>1. ExtractionTypes /\ NothingLost /\ Phases
  BY DEF ExtractionInv
<1> DEFINE all == SubSeq(request.bytes, 1, sent)
<1>2. /\ phase = "inflight" /\ Kind \notin {"raw", "ws"}
      /\ body \in {"request", "action"} /\ body' = "action" /\ queue' = <<>>
      /\ task = "none" /\ answer = NoAnswer /\ Able # {} /\ chosen = First(Able)
      /\ UNCHANGED <<endpoint, request, chosen, sent, stream, task>>
  BY <1>1 DEF PollReceive, Phases
<1>3. buf' \in Seq(Bytes) /\ (Contiguous => buf' = all)
  <2>1. buf' \in Received(queue) /\ buf \in Seq(Bytes) /\ queue \in Seq(Seq(Bytes))
    BY <1>1 DEF PollReceive, ExtractionTypes
  <2>2. buf' \in Seq(Bytes) /\ (Contiguous => buf' = buf \o FlattenSeq(queue))
    BY <2>1, ReceivedIs
  <2> QED BY <1>1, <1>2, <2>2 DEF NothingLost
<1>4. all \in Seq(Bytes) /\ (stream = "end" => all = request.bytes)
  BY <1>1, SubSeqFull DEF ExtractionTypes, Phases
<1>5. \/ stream = "open" /\ phase' = phase /\ answer' = answer
      \/ \E s : \E b : phase' = "answered" /\ answer' = [status |-> s, bytes |-> b] /\ Fits(Kind, s, b)
                       /\ s \in {200, BadRequest, 500}
  <2>1. CASE stream = "open"
    BY <2>1 DEF PollReceive
  <2>2. CASE stream = "error"
    BY <1>2, <2>2 DEF PollReceive, Respond, Fits
  <2>3. CASE stream = "end"
    <3>1. Contiguous => buf' = request.bytes
      BY <1>3, <1>4, <2>3
    <3>2. IF Parses(Kind, buf') THEN Respond(200, buf') ELSE Respond(BadRequest, <<>>)
      BY <2>3 DEF PollReceive
    <3>3. CASE Parses(Kind, buf')
      BY <1>2, <2>3, <3>1, <3>2, <3>3 DEF Respond, Fits
    <3>4. CASE ~Parses(Kind, buf')
      BY <1>2, <2>3, <3>1, <3>2, <3>4 DEF Respond, Fits
    <3> QED BY <3>3, <3>4
  <2> QED BY <1>1, <2>1, <2>2, <2>3 DEF ExtractionTypes
<1>6. Able' = Able /\ (Handshake <=> Handshake') /\ Contiguous' = Contiguous
  BY <1>2, SameRequest
<1>7. ExtractionTypes'
  <2>1. <<>> \in Seq(Seq(Bytes)) /\ phase' \in {"inflight", "answered"}
    BY <1>2, <1>5
  <2> HIDE DEF all
  <2> QED BY <1>1, <1>2, <1>3, <1>4, <2>1 DEF ExtractionTypes, BodyHolders
<1>8. NothingLost'
  <2>1. all \o <<>> = all
    BY <1>4
  <2> QED BY <1>2, <1>3, <1>6, <2>1, FlattenEmpty DEF NothingLost
<1>9. Phases'
  BY <1>1, <1>2, <1>5, <1>6 DEF Phases
<1>10. AnswerIsOfWholeBody' /\ UpgradeIsKept'
  <2>1. CASE phase' = phase /\ answer' = answer
    BY <1>2, <2>1 DEF AnswerIsOfWholeBody, UpgradeIsKept, NoAnswer
  <2>2. ASSUME NEW s \in {200, BadRequest, 500}, NEW b, answer' = [status |-> s, bytes |-> b], Fits(Kind, s, b)
        PROVE  AnswerIsOfWholeBody' /\ UpgradeIsKept'
    <3>1. AnswerIsOfWholeBody'
      BY <1>1, <1>2, <2>2, AnswerFits
    <3>2. answer'.status \in {200, BadRequest, 500}
      BY <2>2
    <3> QED BY <1>2, <3>1, <3>2 DEF UpgradeIsKept, BadRequest
  <2> QED BY <1>5, <2>1, <2>2
<1> QED BY <1>7, <1>8, <1>9, <1>10, Reassemble

LEMMA PollWsInv == ExtractionInv /\ PollWs => ExtractionInv'
<1> SUFFICES ASSUME ExtractionInv, PollWs PROVE ExtractionInv'
  OBVIOUS
<1>1. ExtractionTypes /\ NothingLost /\ Phases
  BY DEF ExtractionInv
<1>2. /\ phase = "inflight" /\ Kind = "ws" /\ phase' = "answered"
      /\ body \in {"request", "action"} /\ task = "none" /\ Able # {} /\ chosen = First(Able)
      /\ UNCHANGED <<endpoint, request, chosen, sent, queue, stream, buf>>
  BY <1>1 DEF PollWs, Respond, Phases
<1>3. \E s \in {BadRequest, 101, 500} :
        /\ answer' = [status |-> s, bytes |-> <<>>]
        /\ \/ s = BadRequest /\ task' = task /\ body' = body
           \/ s = 101 /\ task' = "spawned" /\ body' = "task" /\ Handshake
           \/ s = 500 /\ task' = task /\ body' = "dropped" /\ Handshake
  <2>1. CASE Handshake
    BY <2>1 DEF PollWs, Respond, SpawnedStatus
  <2>2. CASE ~Handshake
    BY <2>2 DEF PollWs, Respond
  <2> QED BY <2>1, <2>2
<1>4. PICK s \in {BadRequest, 101, 500} :
        /\ answer' = [status |-> s, bytes |-> <<>>]
        /\ \/ s = BadRequest /\ task' = task /\ body' = body
           \/ s = 101 /\ task' = "spawned" /\ body' = "task" /\ Handshake
           \/ s = 500 /\ task' = task /\ body' = "dropped" /\ Handshake
  BY <1>3
<1>5. Able' = Able /\ (Handshake <=> Handshake') /\ Contiguous' = Contiguous
  BY <1>2, SameRequest
<1>6. ExtractionTypes' /\ NothingLost' /\ Phases'
  BY <1>1, <1>2, <1>4, <1>5 DEF ExtractionTypes, NothingLost, Phases, BodyHolders
<1>7. AnswerIsOfWholeBody'
  BY <1>1, <1>2, <1>4, AnswerFits DEF Fits
<1>8. UpgradeIsKept'
  <2>1. answer'.status = s
    BY <1>4
  <2> QED BY <1>2, <1>4, <1>5, <2>1 DEF UpgradeIsKept, BadRequest, Handshake
<1> QED BY <1>6, <1>7, <1>8, Reassemble

(* Steps that touch neither the request nor the answer to it.              *)
LEMMA SameAnswer ==
  ASSUME ExtractionInv, UNCHANGED <<endpoint, request, phase, stream, answer>>
  PROVE  AnswerIsOfWholeBody'
BY DEF ExtractionInv, AnswerIsOfWholeBody, For, Contiguous

LEMMA UpgradeInv == ExtractionInv /\ Upgrade => ExtractionInv'
<1> SUFFICES ASSUME ExtractionInv, Upgrade PROVE ExtractionInv'
  OBVIOUS
<1>1. /\ task = "spawned" /\ task' \in {"handler", "failed"}
      /\ UNCHANGED <<endpoint, request, phase, chosen, body, sent, queue, stream, buf, answer>>
  BY DEF Upgrade
<1>2. Able' = Able /\ (Handshake <=> Handshake') /\ Contiguous' = Contiguous
  BY <1>1, SameRequest
<1>3. ExtractionTypes' /\ NothingLost' /\ Phases'
  BY <1>1, <1>2 DEF ExtractionInv, ExtractionTypes, NothingLost, Phases
<1>4. AnswerIsOfWholeBody' /\ UpgradeIsKept'
  BY <1>1, SameAnswer DEF ExtractionInv, UpgradeIsKept
<1> QED BY <1>3, <1>4, Reassemble

LEMMA ArriveInv ==
  ASSUME ExtractionInv, NEW n \in 0..MaxItem, Arrive(n)
  PROVE  ExtractionInv'
<1> DEFINE bytes == request.bytes
           item == SubSeq(bytes, sent + 1, sent + n)
<1>1. /\ ExtractionTypes /\ NothingLost /\ Phases
      /\ bytes \in Seq(Bytes) /\ sent \in 0 .. Len(bytes) /\ queue \in Seq(Seq(Bytes)) /\ buf \in Seq(Bytes)
  BY DEF ExtractionInv, ExtractionTypes
<1>2. /\ phase \in {"dispatched", "inflight"} /\ stream = "open" /\ sent + n <= Len(bytes)
      /\ queue' = Append(queue, item) /\ sent' = sent + n
      /\ UNCHANGED <<endpoint, request, phase, chosen, body, stream, buf, answer, task>>
  BY DEF Arrive
<1>3. n \in Nat /\ sent + n \in sent .. Len(bytes)
  BY <1>1, <1>2, ExtractionBounds
<1> HIDE DEF bytes, item
<1>4. item \in Seq(Bytes) /\ SubSeq(bytes, 1, sent + n) = SubSeq(bytes, 1, sent) \o item
  BY <1>1, <1>3, SplitSubSeq DEF item
<1>5. Able' = Able /\ (Handshake <=> Handshake') /\ Contiguous' = Contiguous
  BY <1>2, SameRequest
<1>6. NothingLost'
  <2>1. FlattenSeq(queue) \in Seq(Bytes) /\ FlattenSeq(queue') = FlattenSeq(queue) \o item
    BY <1>1, <1>2, <1>4, FlattenType, FlattenAppend
  <2>2. buf \o FlattenSeq(queue') = (buf \o FlattenSeq(queue)) \o item
    <3> DEFINE flat == FlattenSeq(queue)
    <3>1. (buf \o flat) \o item = buf \o (flat \o item)
      <4> HIDE DEF flat
      <4>1. buf \in Seq(Bytes) /\ flat \in Seq(Bytes) /\ item \in Seq(Bytes)
        BY <1>1, <1>4, <2>1 DEF flat
      <4> QED BY <4>1
    <3> QED BY <2>1, <3>1
  <2> QED BY <1>1, <1>2, <1>4, <1>5, <2>2 DEF NothingLost, bytes
<1>7. ExtractionTypes'
  <2>1. queue' \in Seq(Seq(Bytes)) /\ sent' \in 0 .. Len(bytes)
    BY <1>1, <1>2, <1>3, <1>4
  <2> QED BY <1>1, <1>2, <2>1 DEF ExtractionTypes, bytes
<1>8. Phases'
  BY <1>1, <1>2, <1>5 DEF Phases
<1>9. AnswerIsOfWholeBody' /\ UpgradeIsKept'
  BY <1>2, SameAnswer DEF ExtractionInv, UpgradeIsKept
<1> QED BY <1>6, <1>7, <1>8, <1>9, Reassemble

LEMMA EndInv ==
  ASSUME ExtractionInv, NEW how \in {"end", "error"}, End(how)
  PROVE  ExtractionInv'
<1>1. /\ phase \in {"dispatched", "inflight"} /\ (how = "end" => sent = Len(request.bytes)) /\ stream' = how
      /\ UNCHANGED <<endpoint, request, phase, chosen, body, sent, queue, buf, answer, task>>
  BY DEF End
<1>2. Able' = Able /\ (Handshake <=> Handshake') /\ Contiguous' = Contiguous
  BY <1>1, SameRequest
<1>3. ExtractionTypes' /\ NothingLost' /\ Phases'
  BY <1>1, <1>2 DEF ExtractionInv, ExtractionTypes, NothingLost, Phases
<1>4. AnswerIsOfWholeBody' /\ UpgradeIsKept'
  BY <1>1 DEF ExtractionInv, AnswerIsOfWholeBody, UpgradeIsKept
<1> QED BY <1>3, <1>4, Reassemble

LEMMA ReleaseInv == ExtractionInv /\ Release => ExtractionInv'
<1> SUFFICES ASSUME ExtractionInv, Release PROVE ExtractionInv'
  OBVIOUS
<1>1. /\ request' = NoRequest /\ phase' = "idle" /\ chosen' = 0
      /\ body' = "none" /\ sent' = 0 /\ queue' = <<>> /\ stream' = "open"
      /\ buf' = <<>> /\ answer' = NoAnswer /\ task' = "none" /\ endpoint' = endpoint
  BY DEF Release
<1>2. ExtractionTypes'
  BY <1>1 DEF ExtractionInv, ExtractionTypes, NoRequest, BodyHolders, Values
<1>3. NothingLost' /\ Phases'
  BY <1>1 DEF NothingLost, Phases
<1>4. AnswerIsOfWholeBody' /\ UpgradeIsKept'
  BY <1>1 DEF AnswerIsOfWholeBody, UpgradeIsKept, NoAnswer
<1> QED BY <1>2, <1>3, <1>4, Reassemble

(* A TestRunner hands the body over at once, a server nothing at first.    *)
LEMMA TestApplyInv ==
  ASSUME ExtractionInv, NEW k \in Kinds, NEW names \in CanHave(k), NEW b \in Seq(Bytes), TestApply(k, names, b)
  PROVE  ExtractionInv'
<1> DEFINE r == [NoRequest EXCEPT !.content = ContentSeen(seen'["content-type"]), !.bytes = b]
<1>1. Dispatch(r, <<b>>, "end")
  BY DEF TestApply
<1>2. r.query \in Values /\ r.bytes = b
  BY DEF NoRequest, Values
<1>3. FlattenSeq(<<b>>) = b /\ SubSeq(b, 1, Len(b)) = b /\ Len(b) \in 0 .. Len(b) /\ <<b>> \in Seq(Seq(Bytes))
  BY FlattenOne, SubSeqFull
<1> HIDE DEF r
<1> QED BY <1>1, <1>2, <1>3, DispatchInv

LEMMA ServeInv ==
  ASSUME ExtractionInv, NEW r \in Requests, Dispatch(r, <<>>, "open")
  PROVE  ExtractionInv'
<1>1. r.query \in Values /\ r.bytes \in Seq(Bytes)
  BY RequestsAssumption
<1>2. FlattenSeq(<<>>) = <<>> /\ Len(<<>>) = 0 /\ SubSeq(r.bytes, 1, 0) = <<>> /\ <<>> \in Seq(Seq(Bytes))
  BY <1>1, FlattenEmpty
<1>3. 0 \in 0 .. Len(r.bytes)
  BY <1>1
<1> QED BY <1>1, <1>2, <1>3, DispatchInv

LEMMA StepExtraction == ExtractionInv /\ [TestedNext]_allVars => ExtractionInv'
<1> SUFFICES ASSUME ExtractionInv, [TestedNext]_allVars PROVE ExtractionInv'
  OBVIOUS
<1>1. ASSUME UNCHANGED requestVars PROVE ExtractionInv'
  BY <1>1 DEF requestVars, ExtractionInv, ExtractionTypes, NothingLost, Phases, Able, For, Handshake,
              AnswerIsOfWholeBody, RejectedKeepsBody, UpgradeIsKept, Contiguous
<1>2. CASE Test
  <2>1. ASSUME NEW k \in Kinds, NEW names \in CanHave(k),
               NEW b \in IF k \in {"text", "bytes"} THEN TestBodies ELSE {<<>>}, TestApply(k, names, b)
        PROVE  ExtractionInv'
    <3>1. b \in Seq(Bytes)
      <4>1. b \in TestBodies \/ b = <<>>
        OBVIOUS
      <4>2. <<>> \in Seq(Bytes)
        OBVIOUS
      <4> QED BY <4>1, <4>2, TestBodiesAssumption
    <3> QED BY <2>1, <3>1, TestApplyInv
  <2> QED BY <1>1, <1>2, <2>1 DEF Test
<1>3. CASE Serve
  BY <1>3, ServeInv DEF Serve
<1>4. CASE InProgress
  BY <1>4, PreflightInv, PollRawInv, PollReceiveInv, PollWsInv, UpgradeInv, ReleaseInv, ArriveInv, EndInv
     DEF InProgress
<1>5. CASE UNCHANGED allVars
  BY <1>1, <1>5 DEF allVars
<1> QED BY <1>2, <1>3, <1>4, <1>5 DEF TestedNext

THEOREM ExtractionInvariance == TestedSpec => []ExtractionInv
BY InitExtraction, StepExtraction, PTL DEF TestedSpec

(* For endpoints, requests and bodies of any size, cut into any items of   *)
(* one slice each: the answer is what the first alternative makes of the   *)
(* whole body (body.rs:120-146, or.rs:60-137).                             *)
THEOREM WholeBody == TestedSpec => []AnswerIsOfWholeBody
<1>1. ExtractionInv => AnswerIsOfWholeBody
  BY DEF ExtractionInv
<1> QED BY <1>1, ExtractionInvariance, PTL

(* And nobody reads the body of a request that is rejected before.         *)
THEOREM BodyIsKept == TestedSpec => []RejectedKeepsBody
<1>1. ExtractionInv => RejectedKeepsBody
  BY DEF ExtractionInv
<1> QED BY <1>1, ExtractionInvariance, PTL

(* A 101 is answered exactly when a task waits for the upgraded connection *)
(* of a valid handshake (tungstenite lib.rs:104-136).                      *)
THEOREM UpgradeHasTask == TestedSpec => []UpgradeIsKept
<1>1. ExtractionInv => UpgradeIsKept
  BY DEF ExtractionInv
<1> QED BY <1>1, ExtractionInvariance, PTL

-----------------------------------------------------------------------------
(* The test runner.                                                        *)

Origins == {"own", "uri", "body", "default", "runner"}
Headers == [Names -> Seq(Origins)]

LEMMA OrInsertAt ==
  ASSUME NEW h \in Headers, NEW m \in Names, NEW v \in Origins
  PROVE  /\ OrInsert(h, m, v) \in Headers
         /\ \A n \in Names : OrInsert(h, m, v)[n] = IF n = m /\ h[n] = <<>> THEN <<v>> ELSE h[n]
<1>1. <<v>> \in Seq(Origins)
  OBVIOUS
<1> DEFINE w == <<v>>
<1> HIDE DEF w
<1>2. OrInsert(h, m, v) = IF h[m] = <<>> THEN [h EXCEPT ![m] = w] ELSE h
  BY DEF OrInsert, w
<1>3. w \in Seq(Origins)
  BY <1>1 DEF w
<1> QED BY <1>2, <1>3 DEF Headers, w

(* What the request has for a header when it gets to the runner.           *)
Given(k, names, n) ==
  IF n \in names THEN <<"own">>
  ELSE IF n = "host" /\ k = "authority" THEN <<"uri">>
  ELSE IF n = "content-type" /\ k = "text" THEN <<"body">>
  ELSE <<>>

LEMMA GivenFirst ==
  ASSUME NEW k \in Kinds, NEW names \in SUBSET Names
  PROVE  /\ IntoRequest(k, names) \in Headers
         /\ \A n \in Names : IntoRequest(k, names)[n] = Given(k, names, n)
<1> DEFINE h == [n \in Names |-> IF n \in names THEN <<"own">> ELSE <<>>]
<1>1. h \in Headers /\ \A n \in Names : h[n] = (IF n \in names THEN <<"own">> ELSE <<>>)
  <2>1. <<"own">> \in Seq(Origins) /\ <<>> \in Seq(Origins)
    BY DEF Origins
  <2> DEFINE own1 == <<"own">>
  <2> HIDE DEF own1
  <2>2. h = [n \in Names |-> IF n \in names THEN own1 ELSE <<>>]
    BY DEF own1
  <2> HIDE DEF h
  <2>3. h \in Headers /\ \A n \in Names : h[n] = (IF n \in names THEN own1 ELSE <<>>)
    BY <2>1, <2>2 DEF Headers, own1
  <2> QED BY <2>3 DEF own1
<1>2. IntoRequest(k, names) = CASE k = "authority" -> OrInsert(h, "host", "uri")
                                [] k = "text" -> OrInsert(h, "content-type", "body")
                                [] k \in {"path", "builder", "bytes"} -> h
  BY DEF IntoRequest
<1> HIDE DEF h
<1>3. <<"own">> # <<>>
  OBVIOUS
<1>4. CASE k = "authority"
  <2>1. IntoRequest(k, names) = OrInsert(h, "host", "uri")
    BY <1>2, <1>4
  <2>2. "host" \in Names /\ "uri" \in Origins
    BY DEF Names, Origins
  <2> QED BY <1>1, <1>3, <1>4, <2>1, <2>2, OrInsertAt DEF Given
<1>5. CASE k = "text"
  <2>1. IntoRequest(k, names) = OrInsert(h, "content-type", "body")
    BY <1>2, <1>5
  <2>2. "content-type" \in Names /\ "body" \in Origins
    BY DEF Names, Origins
  <2> QED BY <1>1, <1>3, <1>5, <2>1, <2>2, OrInsertAt DEF Given
<1>6. CASE k \in {"path", "builder", "bytes"}
  <2>1. IntoRequest(k, names) = h
    BY <1>2, <1>6
  <2> QED BY <1>1, <1>6, <2>1 DEF Given
<1> QED BY <1>4, <1>5, <1>6 DEF Kinds

Defaults == default_headers \in [Names -> Seq({"default"})]

(* The endpoint sees first what the request has been given, then the       *)
(* defaults; the runner fills in Host and User-Agent where there is        *)
(* neither.                                                                *)
LEMMA Prepared ==
  ASSUME Defaults, NEW k \in Kinds, NEW names \in SUBSET Names, NEW n \in Names
  PROVE  LET given == Given(k, names, n) \o default_headers[n]
         IN  PrepareRequest(k, names)[n] =
               IF given = <<>> /\ n \in {"host", "user-agent"} THEN <<"runner">> ELSE given
<1> DEFINE h == IntoRequest(k, names)
           w == WithDefaults(h)
           x == OrInsert(w, "host", "runner")
<1>1. h \in Headers /\ h[n] = Given(k, names, n)
  BY GivenFirst
<1>2. ASSUME NEW m \in Names PROVE h[m] \o default_headers[m] \in Seq(Origins)
  <2>1. h[m] \in Seq(Origins) /\ default_headers[m] \in Seq({"default"})
    BY <1>1 DEF Headers, Defaults
  <2>2. default_headers[m] \in Seq(Origins)
    BY <2>1 DEF Origins
  <2> HIDE DEF h
  <2> QED BY <2>1, <2>2
<1> HIDE DEF h
<1>3. w \in Headers /\ w[n] = h[n] \o default_headers[n]
  BY <1>2 DEF WithDefaults, Headers
<1> HIDE DEF w
<1>4. "host" \in Names /\ "user-agent" \in Names /\ "runner" \in Origins
  BY DEF Names, Origins
<1>5. x \in Headers /\ x[n] = IF n = "host" /\ w[n] = <<>> THEN <<"runner">> ELSE w[n]
  BY <1>3, <1>4, OrInsertAt
<1>6. PrepareRequest(k, names) = OrInsert(x, "user-agent", "runner")
  BY DEF PrepareRequest, Completed, h, w
<1> HIDE DEF x
<1>7. OrInsert(x, "user-agent", "runner")[n] = IF n = "user-agent" /\ x[n] = <<>> THEN <<"runner">> ELSE x[n]
  BY <1>4, <1>5, OrInsertAt
<1> QED BY <1>1, <1>3, <1>5, <1>6, <1>7

RunnerInv == Defaults /\ OwnComesFirst

LEMMA ApplyOwnFirst ==
  ASSUME Defaults, NEW k \in Kinds, NEW names \in CanHave(k), Apply(k, names)
  PROVE  OwnComesFirst'
<1>1. names \in SUBSET Names /\ kind' = k /\ own' = names /\ seen' = PrepareRequest(k, names)
  BY DEF CanHave, Apply
<1>2. ASSUME NEW n \in Names
      PROVE  LET first == IF seen'[n] = <<>> THEN "none" ELSE Head(seen'[n])
             IN  IF n \in names THEN first = "own"
                 ELSE IF n = "host" /\ k = "authority" THEN first = "uri"
                 ELSE IF n = "content-type" /\ k = "text" THEN first = "body"
                 ELSE IF \E i \in DOMAIN seen'[n] : seen'[n][i] = "default" THEN first = "default"
                 ELSE first = IF n \in {"host", "user-agent"} THEN "runner" ELSE "none"
  <2> DEFINE d == default_headers[n]
             g == Given(k, names, n)
  <2>1. d \in Seq({"default"})
    BY DEF Defaults
  <2>2. g \in {<<>>, <<"own">>, <<"uri">>, <<"body">>}
    BY DEF Given
  <2>3. seen'[n] = IF g \o d = <<>> /\ n \in {"host", "user-agent"} THEN <<"runner">> ELSE g \o d
    BY <1>1, Prepared
  <2> HIDE DEF d, g
  <2>4. CASE g = <<>>
    <3>1. g \o d = d
      BY <2>1, <2>4
    <3>2. d # <<>> => Head(d) = "default" /\ 1 \in DOMAIN d /\ d[1] = "default"
      BY <2>1
    <3>3. Head(<<"runner">>) = "runner" /\ ~\E i \in DOMAIN <<"runner">> : <<"runner">>[i] = "default"
      OBVIOUS
    <3>4. ~(n \in names) /\ ~(n = "host" /\ k = "authority") /\ ~(n = "content-type" /\ k = "text")
      BY <2>4 DEF g, Given
    <3> QED BY <2>3, <3>1, <3>2, <3>3, <3>4
  <2>5. ASSUME NEW o \in {"own", "uri", "body"}, g = <<o>>
        PROVE  seen'[n] # <<>> /\ Head(seen'[n]) = o
    <3>1. g \o d # <<>> /\ Head(g \o d) = o
      BY <2>1, <2>5
    <3> QED BY <2>3, <3>1
  <2>6. CASE g # <<>>
    BY <2>5, <2>6 DEF g, Given
  <2> QED BY <2>4, <2>6
<1> QED BY <1>1, <1>2 DEF OwnComesFirst

(* A step of the composition is one of the runner or leaves it alone.      *)
LEMMA RunnerSteps ==
  ASSUME [TestedNext]_allVars
  PROVE  \/ UNCHANGED runnerVars
         \/ \E n \in Names : SetDefault(n)
         \/ \E k \in Kinds : \E names \in CanHave(k) : Apply(k, names)
BY DEF TestedNext, Test, TestApply, Serve, allVars

LEMMA RunnerStep == RunnerInv /\ [TestedNext]_allVars => RunnerInv'
<1> SUFFICES ASSUME RunnerInv, [TestedNext]_allVars PROVE RunnerInv'
  OBVIOUS
<1>1. CASE UNCHANGED runnerVars
  BY <1>1 DEF runnerVars, RunnerInv, Defaults, OwnComesFirst
<1>2. ASSUME NEW n \in Names, SetDefault(n) PROVE RunnerInv'
  <2>1. Append(default_headers[n], "default") \in Seq({"default"})
    BY DEF RunnerInv, Defaults
  <2>2. Defaults'
    BY <1>2, <2>1 DEF RunnerInv, Defaults, SetDefault
  <2> QED BY <1>2, <2>2 DEF RunnerInv, SetDefault, OwnComesFirst
<1>3. ASSUME NEW k \in Kinds, NEW names \in CanHave(k), Apply(k, names) PROVE RunnerInv'
  <2>1. Defaults'
    BY <1>3 DEF RunnerInv, Defaults, Apply
  <2> QED BY <1>3, <2>1, ApplyOwnFirst DEF RunnerInv
<1> QED BY <1>1, <1>2, <1>3, RunnerSteps

LEMMA InitRunner == TestedInit => RunnerInv
BY DEF TestedInit, RunnerInit, RunnerInv, Defaults, OwnComesFirst, Empty

LEMMA RunnerInvariance == TestedSpec => []RunnerInv
BY InitRunner, RunnerStep, PTL DEF TestedSpec

(* Whatever defaults are set, however many: what a test has written is     *)
(* what the endpoint gets, then a default, and only then what the runner   *)
(* fills in (test.rs:127-144).                                             *)
THEOREM OwnFirst == TestedSpec => []OwnComesFirst
<1>1. RunnerInv => OwnComesFirst
  BY DEF RunnerInv
<1> QED BY <1>1, RunnerInvariance, PTL

(* The places of the defaults in what the endpoint sees.                   *)
LEMMA DefaultsCounted ==
  ASSUME Defaults, NEW k \in Kinds, NEW names \in CanHave(k), Apply(k, names), NEW n \in Names
  PROVE  Cardinality({i \in DOMAIN seen'[n] : seen'[n][i] = "default"}) = Len(default_headers[n])
<1> DEFINE d == default_headers[n]
           g == Given(k, names, n)
           s == g \o d
           S == {i \in DOMAIN seen'[n] : seen'[n][i] = "default"}
<1>1. names \in SUBSET Names /\ seen' = PrepareRequest(k, names)
  BY DEF CanHave, Apply
<1>2. d \in Seq({"default"}) /\ Len(d) \in Nat
  BY DEF Defaults
<1>3. g \in {<<>>, <<"own">>, <<"uri">>, <<"body">>}
  BY DEF Given
<1>4. seen'[n] \in {s} \cup (IF s = <<>> THEN {<<"runner">>} ELSE {})
  <2>1. seen'[n] = IF s = <<>> /\ n \in {"host", "user-agent"} THEN <<"runner">> ELSE s
    BY <1>1, Prepared
  <2> QED BY <2>1
<1> HIDE DEF d, g
<1>5. CASE seen'[n] = s
  <2>1. /\ Len(g) \in Nat /\ DOMAIN s = 1 .. Len(g) + Len(d)
        /\ \A i \in 1 .. Len(g) : s[i] # "default"
        /\ \A i \in Len(g) + 1 .. Len(g) + Len(d) : s[i] = "default"
    <3>1. g \in Seq({"own", "uri", "body"}) /\ Len(g) \in Nat
      <4>1. ASSUME NEW o \in {"own", "uri", "body"} PROVE <<o>> \in Seq({"own", "uri", "body"})
        OBVIOUS
      <4>2. <<>> \in Seq({"own", "uri", "body"})
        OBVIOUS
      <4>3. g \in Seq({"own", "uri", "body"})
        BY <1>3, <4>1, <4>2
      <4> QED BY <4>3
    <3>2. \A i \in 1 .. Len(g) + Len(d) : s[i] = IF i <= Len(g) THEN g[i] ELSE d[i - Len(g)]
      BY <1>2, <3>1
    <3>3. DOMAIN s = 1 .. Len(g) + Len(d)
      BY <1>2, <3>1
    <3>4. \A i \in 1 .. Len(g) : g[i] # "default"
      BY <3>1
    <3>5. \A i \in 1 .. Len(d) : d[i] = "default"
      BY <1>2
    <3> HIDE DEF s
    <3> QED BY <1>2, <3>1, <3>2, <3>3, <3>4, <3>5
  <2> HIDE DEF s
  <2>2. S = Len(g) + 1 .. Len(g) + Len(d)
    BY <1>2, <1>5, <2>1
  <2>3. Cardinality(Len(g) + 1 .. Len(g) + Len(d)) = Len(d)
    <3> DEFINE a == Len(g) + 1
               b == Len(g) + Len(d)
    <3>1. a \in Int /\ b \in Int /\ Len(d) = IF a > b THEN 0 ELSE b - a + 1
      BY <1>2, <2>1
    <3> HIDE DEF a, b
    <3>2. Cardinality(a .. b) = Len(d)
      BY <3>1, FS_Interval
    <3> QED BY <3>2 DEF a, b
  <2> QED BY <2>2, <2>3 DEF d
<1>6. CASE seen'[n] # s
  <2>1. s = <<>> /\ seen'[n] = <<"runner">>
    BY <1>4, <1>6
  <2>2. S = {}
    BY <2>1
  <2>3. Len(d) = 0
    BY <1>2, <1>3, <2>1
  <2> QED BY <2>2, <2>3, FS_EmptySet DEF d
<1> QED BY <1>5, <1>6

(* The endpoint sees every default, with every request (test.rs:111-112).  *)
THEOREM DefaultsArrive == TestedSpec => DefaultsReachEndpoint
<1>1. ASSUME RunnerInv, [TestedNext]_allVars, seen' # seen, NEW n \in Names
      PROVE  Cardinality({i \in DOMAIN seen'[n] : seen'[n][i] = "default"}) = Len(default_headers[n])
  <2>1. ~UNCHANGED runnerVars /\ ~\E m \in Names : SetDefault(m)
    BY <1>1 DEF runnerVars, SetDefault
  <2> QED BY <1>1, <2>1, RunnerSteps, DefaultsCounted DEF RunnerInv
<1>2. RunnerInv /\ [TestedNext]_allVars =>
        [seen' # seen =>
           \A n \in Names :
             Cardinality({i \in DOMAIN seen'[n] : seen'[n][i] = "default"}) = Len(default_headers[n])]_runnerVars
  BY <1>1
<1> QED BY <1>2, RunnerInvariance, PTL DEF TestedSpec, DefaultsReachEndpoint

-----------------------------------------------------------------------------
(* The iterator over a set of verbs.                                       *)

(* The cursor is one bit until it is shifted out, and then the iterator    *)
(* has ended.                                                              *)
VerbInv ==
  /\ TypeOK
  /\ cursor = {} \/ \E b \in Bit : cursor = {b}
  /\ ended => cursor = {}
  /\ NothingSkipped

LEMMA ShiftedFacts ==
  ASSUME NEW b \in Bit, cursor = {b}
  PROVE  Shifted = IF b = LastVerb THEN {} ELSE {b + 1}
BY LastVerbAssumption DEF Shifted, Bit

LEMMA EmptyShifted == cursor = {} => Shifted = {}
BY DEF Shifted

LEMMA VerbInitInv == Init => VerbInv
<1> SUFFICES ASSUME Init PROVE VerbInv
  OBVIOUS
<1>1. 0 \in Bit /\ \A b \in Bit : b \in Nat
  BY LastVerbAssumption DEF Bit
<1>2. TypeOK
  <2>1. allowed \subseteq Bit /\ cursor = {0} /\ calling = FALSE /\ returned = <<>> /\ ended = FALSE
    BY DEF Init
  <2>2. cursor \subseteq Bit /\ returned \in Seq(Bit)
    BY <1>1, <2>1
  <2> QED BY <2>1, <2>2, Zenon DEF TypeOK
<1>3. allowed \subseteq Nat /\ returned = <<>> /\ cursor = {0}
  BY <1>1 DEF Init
<1>4. ToSet(returned) = {} /\ DOMAIN returned = {}
  BY <1>3 DEF ToSet
<1>5. \A v \in allowed : ~(v < 0)
  BY <1>3
<1>6. {v \in allowed : v < 0} = {}
  BY <1>5, Zenon
<1>7. NothingSkipped
  BY <1>3, <1>4, <1>6 DEF NothingSkipped
<1> QED BY <1>1, <1>2, <1>3, <1>7 DEF Init, VerbInv

(* The pass over bit b, which is or is not a member.                       *)
LEMMA PassVerbInv ==
  ASSUME VerbInv, ReturnVerb \/ GoOn
  PROVE  VerbInv'
<1>1. PICK b \in Bit : cursor = {b} /\ b # LastVerb /\ b + 1 \in Bit /\ cursor' = {b + 1}
  <2>1. Shifted # {} /\ cursor' = Shifted
    BY DEF ReturnVerb, GoOn
  <2>2. PICK b \in Bit : cursor = {b}
    BY <2>1, EmptyShifted DEF VerbInv
  <2>3. b # LastVerb /\ Shifted = {b + 1}
    BY <2>1, <2>2, ShiftedFacts
  <2>4. b + 1 \in Bit
    BY <2>3, LastVerbAssumption DEF Bit
  <2> QED BY <2>1, <2>2, <2>3, <2>4
<1>2. b \in Nat
  BY DEF Bit
<1>3. returned \in Seq(Bit) /\ ~ended /\ allowed \subseteq Bit
  BY <1>1 DEF VerbInv, TypeOK
<1>4. /\ ToSet(returned) = {v \in allowed : v < b}
      /\ \A i, j \in DOMAIN returned : i < j => returned[i] < returned[j]
  BY <1>1 DEF VerbInv, NothingSkipped
<1>5. CASE ReturnVerb
  <2>1. b \in allowed /\ returned' = Append(returned, b)
    BY <1>1, <1>5 DEF ReturnVerb, Masked
  <2> DEFINE n == Len(returned)
  <2>2. /\ n \in Nat /\ DOMAIN returned = 1 .. n /\ DOMAIN returned' = 1 .. n + 1
        /\ returned'[n + 1] = b /\ \A i \in 1 .. n : returned'[i] = returned[i]
    BY <1>3, <2>1
  <2>3. ToSet(returned') = ToSet(returned) \cup {b}
    BY <2>2 DEF ToSet
  <2>4. ToSet(returned') = {v \in allowed' : v < b + 1}
    <3>1. allowed' = allowed
      BY <1>5 DEF ReturnVerb
    <3>2. \A v \in allowed : v < b + 1 <=> v < b \/ v = b
      BY <1>2, <1>3 DEF Bit
    <3>3. {v \in allowed : v < b + 1} = {v \in allowed : v < b} \cup {b}
      BY <2>1, <3>2
    <3> QED BY <1>4, <2>3, <3>1, <3>3
  <2>5. \A i \in 1 .. n : returned[i] < b
    BY <1>4, <2>2 DEF ToSet
  <2>6. ASSUME NEW i \in DOMAIN returned', NEW j \in DOMAIN returned', i < j
        PROVE  returned'[i] < returned'[j]
    BY <1>4, <2>2, <2>5, <2>6
  <2>7. NothingSkipped'
    BY <1>1, <2>4, <2>6 DEF NothingSkipped
  <2>8. returned' \in Seq(Bit)
    BY <1>3, <2>1
  <2>9. TypeOK'
    BY <1>1, <1>5, <2>8 DEF VerbInv, TypeOK, ReturnVerb
  <2>10. ~ended'
    BY <1>3, <1>5 DEF ReturnVerb
  <2> QED BY <1>1, <2>7, <2>9, <2>10 DEF VerbInv
<1>6. CASE GoOn
  <2>1. b \notin allowed /\ allowed' = allowed /\ returned' = returned
    BY <1>1, <1>6 DEF GoOn, Masked
  <2>2. {v \in allowed : v < b} = {v \in allowed : v < b + 1}
    <3>1. \A v \in allowed : v < b + 1 <=> v < b
      BY <1>2, <1>3, <2>1 DEF Bit
    <3> QED BY <3>1
  <2>3. NothingSkipped'
    BY <1>1, <1>4, <2>1, <2>2 DEF NothingSkipped
  <2> QED BY <1>1, <1>3, <1>6, <2>3 DEF VerbInv, TypeOK, GoOn
<1> QED BY <1>5, <1>6

LEMMA VerbStepInv == VerbInv /\ [Next]_vars => VerbInv'
<1> SUFFICES ASSUME VerbInv, [Next]_vars PROVE VerbInv'
  OBVIOUS
<1>1. CASE CallNext
  BY <1>1 DEF CallNext, VerbInv, TypeOK, NothingSkipped
<1>2. CASE ReturnNone
  BY <1>2 DEF ReturnNone, VerbInv, TypeOK, NothingSkipped
<1>3. CASE UNCHANGED vars
  BY <1>3 DEF vars, VerbInv, TypeOK, NothingSkipped
<1> QED BY <1>1, <1>2, <1>3, PassVerbInv DEF Next

(* The cursor is a single bit that moves up.                               *)
THEOREM VerbInvariance == Spec => []VerbInv
BY VerbInitInv, VerbStepInv, PTL DEF Spec

(* The bits stay among those of Methods (verb.rs:124-140).                 *)
THEOREM TypeCorrect == Spec => []TypeOK
<1>1. VerbInv => TypeOK
  BY DEF VerbInv
<1> QED BY <1>1, VerbInvariance, PTL

(* For a bit set of any width the iterator has returned the members below  *)
(* its cursor, in order (verb.rs:228-246): only the last can be missing.   *)
THEOREM MembersInOrder == Spec => []NothingSkipped
<1>1. VerbInv => NothingSkipped
  BY DEF VerbInv
<1> QED BY <1>1, VerbInvariance, PTL

(* An iterator that has returned None goes on doing so.                    *)
THEOREM StaysEnded == Spec => Fused
<1>1. ASSUME VerbInv, [Next]_vars, ended PROVE UNCHANGED returned
  <2>1. Shifted = {}
    BY <1>1, EmptyShifted DEF VerbInv
  <2> QED BY <1>1, <2>1 DEF Next, CallNext, ReturnNone, ReturnVerb, GoOn, vars
<1>2. VerbInv /\ [Next]_vars => [ended => UNCHANGED returned]_vars
  BY <1>1
<1> QED BY <1>2, VerbInvariance, PTL DEF Spec, Fused
=============================================================================
