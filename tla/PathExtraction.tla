--------------------------- MODULE PathExtraction ---------------------------
(***************************************************************************)
(* Extraction of values from the path of a request: the literal of `path!` *)
(* is parsed into components when the program is compiled; for a request   *)
(* they are run one after the other, followed by the endpoints joined to   *)
(* them with `and`, on the Cursor, which slices the path of the request.   *)
(* The path is a sequence of characters, positions count from 0 as in the  *)
(* code; "%20", "%61" and "%FF" are each the three characters of an        *)
(* escape: of a blank, of an "a", which needs none, and of no text.        *)
(***************************************************************************)
EXTENDS Integers, Sequences, FiniteSets, SequencesExt

CONSTANTS
  Paths,       \* paths of requests
  Literals,    \* what is written in path!
  Chains,      \* the endpoints joined to it
  None         \* no outcome yet, no value

PathChars == {"/", "a", "1", "%20", "%61", "%FF", "*"}

(* A path starts with a slash; that of `OPTIONS *` is a star, that of a    *)
(* CONNECT request is empty.                                               *)
ASSUME PathsAssumption ==
  \A p \in Paths : p \in Seq(PathChars) /\ (p = <<>> \/ p[1] = "/" \/ p = <<"*">>)

VARIABLES
  literal,     \* what follows the first slash of the literal, split at the others
               \* (one without a first slash is rejected)
  components,  \* the result of parse_path
  program,     \* the components and endpoints of the endpoint being served
  path,        \* the path of the request
  pos, popped, \* CursorInner
  pc,          \* "parse", "rejected", "idle", "extract", "drain", "done" or
               \* "panicked"
  at,          \* the segment to parse or component to run next
  values,      \* the values extracted so far
  outcome      \* None, 200 (extracted), 400 or 404

cursor == <<path, pos, popped>>
vars == <<literal, components, program, cursor, pc, at, values, outcome>>

-----------------------------------------------------------------------------
(* Components and the segments of a literal.                               *)

Types == {"String", "i32"}
Texts == {<<"a">>, <<" ", "a">>}

Static(s) == [kind |-> "static", text |-> s]
SingleParam(t) == [kind |-> "param", type |-> t]
CatchAllParam(t) == [kind |-> "remains", type |-> t]
Segment(s) == [kind |-> "segment", text |-> s]
Eos == [kind |-> "eos"]

Components ==
  {Static(s) : s \in Texts} \cup {SingleParam(t) : t \in Types} \cup {CatchAllParam(t) : t \in Types}
Endpoints == {Segment(s) : s \in Texts} \cup {Eos} \cup {SingleParam(t) : t \in Types} \cup {CatchAllParam(t) : t \in Types}

(* An empty segment, and one that is no parameter although it starts with  *)
(* "<": without ">", with letters beyond ASCII, or without a type.         *)
Empty == [kind |-> "empty"]
Malformed == [kind |-> "malformed"]
LiteralSegments == Components \cup {Empty, Malformed}

ASSUME LiteralsAssumption == \A l \in Literals : l \in Seq(LiteralSegments)
ASSUME ChainsAssumption == \A c \in Chains : c \in Seq(Endpoints)

Converts(type, s) ==
  /\ "%FF" \notin Range(s)
  /\ type = "i32" => s # <<>> /\ Range(s) = {"1"}

DecodedChar(c) == IF c = "%20" THEN " " ELSE IF c = "%61" THEN "a" ELSE c
Decoded(s) == [i \in DOMAIN s |-> DecodedChar(s[i])]
PercentEncode(s) == [i \in DOMAIN s |-> IF s[i] = " " THEN "%20" ELSE s[i]]

(* Unused: the text of `segment` is compared as it is written.             *)
ExpectedRaw(c) == c.text
Expected(c) == IF c.kind = "segment" THEN PercentEncode(c.text) ELSE c.text

-----------------------------------------------------------------------------
(* parse_path, at compile time.                                            *)

Init ==
  /\ literal \in Literals
  /\ components = <<>> /\ program = <<>>
  /\ path = <<>> /\ pos = 0 /\ popped = 0
  /\ pc = "parse" /\ at = 1 /\ values = <<>> /\ outcome = None

Parse(parsed, next) ==
  /\ components' = parsed /\ pc' = next /\ at' = at + 1
  /\ UNCHANGED <<literal, program, cursor, values, outcome>>

ParseNext(kinds) == pc = "parse" /\ at <= Len(literal) /\ literal[at].kind \in kinds

AtEnd == at = Len(literal)

(* An empty segment is the end of a literal with a trailing slash.         *)
ParseEmpty ==
  /\ ParseNext({"empty"})
  /\ Parse(components, IF AtEnd THEN "idle" ELSE "rejected")

ParseMalformed == ParseNext({"malformed"}) /\ Parse(components, "rejected")

ParseSegment ==
  /\ ParseNext({"static", "param"})
  /\ Parse(Append(components, literal[at]), "parse")

(* Unused: a catch-all followed by a slash is taken, or one anywhere.      *)
CatchAllBeforeSlash ==
  Parse(Append(components, literal[at]),
        IF AtEnd \/ literal[at + 1] = Empty THEN "idle" ELSE "rejected")
CatchAll == Parse(Append(components, literal[at]), IF AtEnd THEN "idle" ELSE "rejected")

ParseCatchAll == ParseNext({"remains"}) /\ CatchAll

ParseEnd == pc = "parse" /\ at > Len(literal) /\ Parse(components, "idle")

-----------------------------------------------------------------------------
(* The Cursor.                                                             *)

Rest == SubSeq(path, pos + 1, Len(path))

(* The distance to the next slash, if there is one.                        *)
Offsets == {i \in 0 .. Len(path) - pos - 1 : path[pos + i + 1] = "/"}
Offset == CHOOSE i \in Offsets : \A j \in Offsets : i <= j

NextIsNone == pos = Len(path)
NextSegment == IF Offsets # {} THEN SubSeq(path, pos + 1, pos + Offset) ELSE Rest

(* Unused: the slash is not skipped.                                       *)
AdvanceOverSlash == pos + Offset
AdvanceOver == pos + Offset + 1

Advance ==
  /\ pos' = IF Offsets # {} THEN AdvanceOver ELSE Len(path)
  /\ popped' = popped + 1
  /\ UNCHANGED path

(* Slicing from beyond the end panics.                                     *)
Panic ==
  /\ pc \in {"extract", "drain"} /\ pos > Len(path) /\ at <= Len(program)
  /\ pc' = "panicked"
  /\ UNCHANGED <<literal, components, program, cursor, at, values, outcome>>

-----------------------------------------------------------------------------
(* The generated `extract` and the endpoints segment, eos, param, remains. *)

Serve(p, chain) ==
  /\ pc = "idle"
  /\ program' = components \o chain
  /\ path' = p /\ pos' = 1 /\ popped' = 0
  /\ pc' = "extract" /\ at' = 1 /\ values' = <<>> /\ outcome' = None
  /\ UNCHANGED <<literal, components>>

Current == program[at]
Running(kinds) == pc = "extract" /\ at <= Len(program) /\ pos <= Len(path) /\ Current.kind \in kinds

GoOn == pc' = "extract" /\ at' = at + 1 /\ outcome' = None
Fail(status) == pc' = "done" /\ outcome' = status /\ UNCHANGED <<values, at>>

ExtractStatic ==
  /\ Running({"static", "segment"})
  /\ IF NextIsNone THEN Fail(404) /\ UNCHANGED cursor
     ELSE /\ Advance
          /\ IF NextSegment = Expected(Current) THEN GoOn /\ UNCHANGED values ELSE Fail(404)
  /\ UNCHANGED <<literal, components, program>>

ExtractParam ==
  /\ Running({"param"})
  /\ IF NextIsNone THEN Fail(404) /\ UNCHANGED cursor
     ELSE /\ Advance
          /\ IF Converts(Current.type, NextSegment)
             THEN GoOn /\ values' = Append(values, Decoded(NextSegment))
             ELSE Fail(400)
  /\ UNCHANGED <<literal, components, program>>

MatchEos ==
  /\ Running({"eos"})
  /\ IF NextIsNone THEN GoOn /\ UNCHANGED <<cursor, values>> ELSE Advance /\ Fail(404)
  /\ UNCHANGED <<literal, components, program>>

(* The rest is converted first, then the cursor is drained, whatever the   *)
(* result of the conversion.                                               *)
ConvertRest ==
  /\ Running({"remains"})
  /\ pc' = "drain"
  /\ IF Converts(Current.type, Rest)
     THEN values' = Append(values, Decoded(Rest)) /\ outcome' = 200
     ELSE UNCHANGED values /\ outcome' = 400
  /\ UNCHANGED <<literal, components, program, cursor, at>>

Drain ==
  /\ pc = "drain" /\ pos <= Len(path)
  /\ IF ~NextIsNone THEN Advance /\ UNCHANGED <<pc, at, values, outcome>>
     ELSE /\ UNCHANGED cursor
          /\ IF outcome = 200 THEN GoOn /\ UNCHANGED values ELSE Fail(400)
  /\ UNCHANGED <<literal, components, program>>

Extracted ==
  /\ pc = "extract" /\ at > Len(program)
  /\ pc' = "done" /\ outcome' = 200
  /\ UNCHANGED <<literal, components, program, cursor, at, values>>

(* The Context of the request is dropped.                                  *)
Release ==
  /\ pc \in {"done", "panicked"}
  /\ program' = <<>> /\ path' = <<>> /\ pos' = 0 /\ popped' = 0
  /\ pc' = "idle" /\ at' = 1 /\ values' = <<>> /\ outcome' = None
  /\ UNCHANGED <<literal, components>>

Compile == ParseEmpty \/ ParseMalformed \/ ParseSegment \/ ParseCatchAll \/ ParseEnd
Extract == Panic \/ ExtractStatic \/ ExtractParam \/ MatchEos \/ ConvertRest \/ Drain \/ Extracted

Next == Compile \/ Extract \/ Release \/ \E p \in Paths, chain \in Chains : Serve(p, chain)

Spec == Init /\ [][Next]_vars

(*------------------------------ properties -------------------------------*)

TypeOK ==
  /\ literal \in Seq(LiteralSegments) /\ components \in Seq(Components)
  /\ program \in Seq(Endpoints \cup Components)
  /\ path \in Seq(PathChars) /\ pos \in Nat /\ popped \in Nat
  /\ pc \in {"parse", "rejected", "idle", "extract", "drain", "done", "panicked"}
  /\ at \in Nat \ {0} /\ outcome \in {None, 200, 400, 404}

Slashes(n) == {p \in 1 .. n : path[p] = "/"}
AfterSlash == IF path[pos] = "/" THEN 1 ELSE 0

(* The cursor never points into a segment, and it has counted each segment *)
(* before it once, with its slash or at the end of the path: Or compares   *)
(* these counts (or.rs:76).  A slice is out of bounds only for the empty   *)
(* path of a CONNECT request.                                              *)
CursorSound ==
  /\ pc = "panicked" => path = <<>>
  /\ path # <<>> =>
       /\ pos \in 1 .. Len(path)
       /\ pos > 1 /\ path[pos] # "/" => pos = Len(path)
       /\ popped = Cardinality(Slashes(pos)) - AfterSlash

(* What the messages of parse_path say of a literal (macros lib.rs:162-218)*)
(* decides alone whether it is taken: segments and <T> in any order, none  *)
(* of them empty, <..T> at the very end only, and a trailing slash means   *)
(* nothing.                                                                *)
Trimmed == IF literal # <<>> /\ Last(literal) = Empty THEN Front(literal) ELSE literal

Accepted ==
  /\ \A i \in DOMAIN Trimmed : Trimmed[i] \in Components
  /\ \A i \in DOMAIN Trimmed : Trimmed[i].kind = "remains" => i = Len(literal)

LiteralIsParsed ==
  /\ pc = "rejected" => ~Accepted
  /\ pc \notin {"parse", "rejected"} => Accepted /\ components = Trimmed

(* The segments of the path, the empty one after a trailing slash left out,*)
(* and the text behind the first k of them.                                *)
NumSegments == Cardinality(Slashes(Len(path))) - IF Last(path) = "/" THEN 1 ELSE 0
SlashAt(k) == CHOOSE p \in Slashes(Len(path)) : Cardinality(Slashes(p)) = k
Behind(k) == IF k < NumSegments THEN SubSeq(path, SlashAt(k + 1) + 1, Len(path)) ELSE <<>>
SegmentOf(k) ==
  LET end == IF k < Cardinality(Slashes(Len(path))) THEN SlashAt(k + 1) - 1 ELSE Len(path)
  IN  SubSeq(path, SlashAt(k) + 1, end)

(* How many segments are behind the components before i.                   *)
Consumed(i) ==
  IF \E j \in 1 .. i - 1 : program[j].kind = "remains" THEN NumSegments
  ELSE Cardinality({j \in 1 .. i - 1 : program[j].kind # "eos"})

Text(i) == IF program[i].kind = "remains" THEN Behind(Consumed(i)) ELSE SegmentOf(Consumed(i) + 1)

(* path! compares the characters of a segment.  `segment` compares them    *)
(* with the one canonical encoding of its text (syntax.rs:194): a segment  *)
(* that stands for the text but has a needless escape is no match.         *)
Canonical(s) == "%61" \notin Range(s)
Matches(c, s) ==
  IF c.kind = "segment" THEN Decoded(s) = c.text /\ Canonical(s) ELSE s = c.text

Result(i) ==
  LET c == program[i]
      there == Consumed(i) < NumSegments
  IN  CASE c.kind = "eos" -> IF there THEN 404 ELSE 200
        [] c.kind = "remains" -> IF Converts(c.type, Text(i)) THEN 200 ELSE 400
        [] c.kind \in {"static", "segment"} ->
             IF there /\ Matches(c, Text(i)) THEN 200 ELSE 404
        [] c.kind = "param" ->
             IF ~there THEN 404 ELSE IF Converts(c.type, Text(i)) THEN 200 ELSE 400

(* The values are those of the parameters up to n, each in its place.      *)
Params(n) == {i \in 1 .. n : program[i].kind \in {"param", "remains"}}
ValuesOf(n) ==
  /\ Len(values) = Cardinality(Params(n))
  /\ \A i \in Params(n) : values[Cardinality(Params(i))] = Decoded(Text(i))

Failing == {i \in DOMAIN program : Result(i) # 200}

(* The whole extraction is what its parts say of the segments of the path: *)
(* it fails as the first component that does not match, or yields the      *)
(* decoded text of every parameter in order, and what it leaves to the     *)
(* endpoints behind it starts at a segment (syntax.rs:111, macros:103).    *)
ExtractsSegments ==
  pc = "done" /\ path # <<>> =>
    IF Failing # {} THEN outcome = Result(CHOOSE i \in Failing : \A j \in Failing : i <= j)
    ELSE /\ outcome = 200 /\ ValuesOf(Len(program))
         /\ Rest = Behind(Consumed(Len(program) + 1))
=============================================================================
