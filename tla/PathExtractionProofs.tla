------------------------ MODULE PathExtractionProofs ------------------------
(***************************************************************************)
(* Theorems about PathExtraction, for paths and literals of any length.    *)
(***************************************************************************)
EXTENDS PathExtraction, FiniteSetTheorems, WellFoundedInduction, TLAPS

LEMMA Smallest ==
  ASSUME NEW S \in SUBSET Nat, S # {}
  PROVE  \E x \in S : \A y \in S : x <= y
<1> DEFINE less == {ss \in Nat \X Nat : ss[1] < ss[2]}
<1>1. IsWellFoundedOn(less, Nat)
  BY NatLessThanWellFounded DEF OpToRel
<1>2. PICK x \in S : \A y \in S : <<y, x>> \notin less
  <2> HIDE DEF less
  <2> QED BY <1>1, WFMin
<1>3. ASSUME NEW y \in S PROVE x <= y
  <2>1. x \in Nat /\ y \in Nat
    OBVIOUS
  <2>2. ~(y < x)
    BY <1>2, <2>1
  <2> QED BY <2>1, <2>2
<1> QED BY <1>2, <1>3

-----------------------------------------------------------------------------
(* The Cursor.                                                             *)

Served == {"extract", "drain", "done", "panicked"}

(* A slice in progress is one of a path of Paths.                          *)
CursorInv ==
  /\ path \in Seq(PathChars) /\ pos \in Nat /\ popped \in Int
  /\ pc \in Served \cup {"parse", "rejected", "idle"}
  /\ IF pc \in Served THEN path \in Paths /\ pos # 0 ELSE path = <<>>
  /\ CursorSound

LEMMA SlashesFinite ==
  ASSUME NEW n \in Nat
  PROVE  IsFiniteSet(Slashes(n)) /\ Cardinality(Slashes(n)) \in Nat
<1>1. Slashes(n) \in SUBSET (1 .. n)
  BY DEF Slashes
<1>2. IsFiniteSet(1 .. n)
  BY FS_Interval
<1> QED BY <1>1, <1>2, FS_Subset, FS_CardinalityType

(* Where there is something to advance over, it follows a slash.           *)
LEMMA BehindSlash ==
  ASSUME CursorInv, pc \in Served, pos < Len(path)
  PROVE  /\ path # <<>> /\ pos \in 1 .. Len(path) /\ path[pos] = "/"
         /\ popped = Cardinality(Slashes(pos)) - 1
<1>1. path # <<>> /\ path \in Paths
  BY DEF CursorInv, Served
<1>2. path[1] = "/" \/ path = <<"*">>
  BY <1>1, PathsAssumption
<1>3. /\ pos \in 1 .. Len(path)
      /\ pos > 1 /\ path[pos] # "/" => pos = Len(path)
      /\ popped = Cardinality(Slashes(pos)) - AfterSlash
  BY <1>1 DEF CursorInv, CursorSound
<1>4. path # <<"*">>
  <2> SUFFICES ASSUME path = <<"*">> PROVE FALSE
    OBVIOUS
  <2>1. Len(path) = 1
    OBVIOUS
  <2>2. pos \in Nat /\ 1 <= pos /\ pos < 1
    BY <1>3, <2>1
  <2> QED BY <2>2
<1>5. path[pos] = "/"
  BY <1>2, <1>3, <1>4
<1> QED BY <1>1, <1>3, <1>5 DEF AfterSlash

(* The slash that Offset finds is the next one.                            *)
LEMMA NextSlash ==
  ASSUME CursorInv, pc \in Served, pos < Len(path)
  PROVE  /\ Offsets # {} =>
              /\ Offset \in Nat /\ pos + Offset + 1 \in pos + 1 .. Len(path) /\ path[pos + Offset + 1] = "/"
              /\ Cardinality(Slashes(pos + Offset + 1)) = Cardinality(Slashes(pos)) + 1
         /\ Offsets = {} => Slashes(Len(path)) = Slashes(pos) /\ path[Len(path)] # "/"
<1>1. /\ path # <<>> /\ pos \in 1 .. Len(path) /\ path[pos] = "/"
      /\ popped = Cardinality(Slashes(pos)) - 1
  BY BehindSlash
<1>2. Len(path) \in Nat
  BY DEF CursorInv
<1>3. IsFiniteSet(Slashes(pos)) /\ Cardinality(Slashes(pos)) \in Nat
  BY <1>1, <1>2, SlashesFinite
<1>4. CASE Offsets # {}
  <2>1. Offsets \in SUBSET Nat
    BY <1>1, <1>2 DEF Offsets
  <2>2. Offset \in Offsets /\ \A j \in Offsets : Offset <= j
    BY <1>4, <2>1, Smallest, Zenon DEF Offset
  <2> DEFINE q == pos + Offset + 1
  <2>3. Offset \in Nat /\ q \in 1 .. Len(path) /\ q > pos /\ path[q] = "/"
    BY <1>1, <1>2, <2>2 DEF Offsets
  <2>4. ASSUME NEW p \in pos + 1 .. q - 1 PROVE path[p] # "/"
    <3>1. p - pos - 1 \in 0 .. Len(path) - pos - 1 /\ pos + (p - pos - 1) + 1 = p
      BY <1>1, <1>2, <2>3
    <3>2. p - pos - 1 \notin Offsets
      BY <1>1, <2>2, <2>3
    <3> QED BY <3>1, <3>2 DEF Offsets
  <2>5. Slashes(q) = Slashes(pos) \cup {q}
    <3>1. ASSUME NEW p \in 1 .. q, path[p] = "/" PROVE p \in 1 .. pos \/ p = q
      BY <1>1, <2>3, <2>4, <3>1
    <3>2. 1 .. pos \subseteq 1 .. q /\ q \in 1 .. q
      BY <1>1, <2>3
    <3> HIDE DEF q
    <3> QED BY <2>3, <3>1, <3>2 DEF Slashes
  <2>6. q \notin Slashes(pos)
    BY <1>1, <2>3 DEF Slashes
  <2>7. Cardinality(Slashes(q)) = Cardinality(Slashes(pos)) + 1
    <3> HIDE DEF q
    <3> QED BY <1>3, <2>5, <2>6, FS_AddElement
  <2>8. q \in pos + 1 .. Len(path)
    <3> HIDE DEF q
    <3> QED BY <1>1, <2>3
  <2> QED BY <1>4, <2>3, <2>7, <2>8
<1>5. CASE Offsets = {}
  <2>1. ASSUME NEW p \in pos + 1 .. Len(path) PROVE path[p] # "/"
    <3>1. p - pos - 1 \in 0 .. Len(path) - pos - 1 /\ pos + (p - pos - 1) + 1 = p
      BY <1>1, <1>2
    <3> QED BY <1>5, <3>1 DEF Offsets
  <2>2. Slashes(Len(path)) = Slashes(pos)
    <3>1. ASSUME NEW p \in 1 .. Len(path), path[p] = "/" PROVE p \in 1 .. pos
      BY <1>1, <1>2, <2>1, <3>1
    <3>2. 1 .. pos \subseteq 1 .. Len(path)
      BY <1>1, <1>2
    <3> QED BY <3>1, <3>2 DEF Slashes
  <2>3. path[Len(path)] # "/"
    BY <1>1, <1>2, <2>1
  <2> QED BY <1>5, <2>2, <2>3
<1> QED BY <1>4, <1>5

LEMMA AdvanceSound ==
  ASSUME CursorInv, pc \in Served, pos < Len(path), Advance
  PROVE  /\ path' = path /\ path # <<>> /\ pos' \in 1 .. Len(path) /\ popped' \in Int
         /\ pos' > 1 /\ path[pos'] # "/" => pos' = Len(path)
         /\ popped' = Cardinality(Slashes(pos')) - (IF path[pos'] = "/" THEN 1 ELSE 0)
<1>1. /\ path # <<>> /\ pos \in 1 .. Len(path) /\ path[pos] = "/"
      /\ popped = Cardinality(Slashes(pos)) - 1
  BY BehindSlash
<1>2. path' = path /\ popped' = popped + 1 /\ Len(path) \in Nat
  BY DEF Advance, CursorInv
<1>3. Cardinality(Slashes(pos)) \in Nat
  BY <1>1, <1>2, SlashesFinite
<1>4. CASE Offsets # {}
  <2> DEFINE q == pos + Offset + 1
  <2>1. pos' = q
    BY <1>4 DEF Advance, AdvanceOver
  <2>2. q \in pos + 1 .. Len(path) /\ path[q] = "/" /\ Cardinality(Slashes(q)) = Cardinality(Slashes(pos)) + 1
    BY <1>4, NextSlash
  <2> HIDE DEF q
  <2> QED BY <1>1, <1>2, <1>3, <2>1, <2>2
<1>5. CASE Offsets = {}
  <2>1. pos' = Len(path) /\ Slashes(Len(path)) = Slashes(pos) /\ path[Len(path)] # "/"
    BY <1>5, NextSlash DEF Advance
  <2> QED BY <1>1, <1>2, <1>3, <2>1
<1> QED BY <1>4, <1>5

(* A step that advances, or leaves the cursor alone.                       *)
LEMMA MovedInv ==
  ASSUME CursorInv, pc \in Served, pc' \in Served \ {"panicked"}, pos <= Len(path),
         \/ UNCHANGED cursor
         \/ ~NextIsNone /\ Advance
  PROVE  CursorInv'
<1>1. CASE UNCHANGED cursor
  BY <1>1 DEF CursorInv, CursorSound, cursor, Slashes, AfterSlash, Served
<1>2. CASE ~NextIsNone /\ Advance
  <2>1. pos < Len(path)
    BY <1>2 DEF NextIsNone, CursorInv
  <2>2. /\ path' = path /\ path # <<>> /\ pos' \in 1 .. Len(path) /\ popped' \in Int
        /\ pos' > 1 /\ path[pos'] # "/" => pos' = Len(path)
        /\ popped' = Cardinality(Slashes(pos')) - (IF path[pos'] = "/" THEN 1 ELSE 0)
    BY <1>2, <2>1, AdvanceSound
  <2>3. CursorSound'
    <3>1. Slashes(pos)' = Slashes(pos')
      BY <2>2 DEF Slashes
    <3>2. AfterSlash' = IF path[pos'] = "/" THEN 1 ELSE 0
      BY <2>2 DEF AfterSlash
    <3> QED BY <2>2, <3>1, <3>2 DEF CursorSound, Served
  <2>4. path \in Seq(PathChars) /\ path \in Paths
    BY DEF CursorInv, Served
  <2> QED BY <2>2, <2>3, <2>4 DEF CursorInv
<1> QED BY <1>1, <1>2

LEMMA ServeInv ==
  ASSUME CursorInv, NEW p \in Paths, NEW chain \in Chains, Serve(p, chain)
  PROVE  CursorInv'
<1>1. path' = p /\ pos' = 1 /\ popped' = 0 /\ pc' = "extract"
  BY DEF Serve
<1>2. p \in Seq(PathChars) /\ (p = <<>> \/ p[1] = "/" \/ p = <<"*">>)
  BY PathsAssumption
<1>3. CASE p = <<>>
  BY <1>1, <1>2, <1>3 DEF CursorInv, CursorSound, Served
<1>4. CASE p # <<>>
  <2>1. Len(p) \in Nat /\ Len(p) >= 1
    BY <1>2, <1>4
  <2>2. Slashes(1)' = {q \in {1} : p[q] = "/"}
    BY <1>1 DEF Slashes
  <2>3. CASE p[1] = "/"
    <3>1. Slashes(1)' = {1}
      BY <2>2, <2>3
    <3>2. Cardinality(Slashes(pos)') = 1
      BY <1>1, <3>1, FS_Singleton DEF Slashes
    <3> QED BY <1>1, <1>2, <2>1, <2>3, <3>2 DEF CursorInv, CursorSound, AfterSlash, Served
  <2>4. CASE p = <<"*">>
    <3>1. Slashes(1)' = {}
      BY <2>2, <2>4
    <3>2. Cardinality(Slashes(pos)') = 0
      BY <1>1, <3>1, FS_EmptySet DEF Slashes
    <3> QED BY <1>1, <1>2, <2>1, <2>4, <3>2 DEF CursorInv, CursorSound, AfterSlash, Served
  <2> QED BY <1>2, <1>4, <2>3, <2>4
<1> QED BY <1>3, <1>4

LEMMA CursorStep == CursorInv /\ [Next]_vars => CursorInv'
<1> SUFFICES ASSUME CursorInv, [Next]_vars PROVE CursorInv'
  OBVIOUS
<1>1. CASE Compile
  BY <1>1 DEF Compile, ParseEmpty, ParseMalformed, ParseSegment, ParseCatchAll, CatchAll, ParseEnd,
              ParseNext, Parse, AtEnd, cursor, CursorInv, CursorSound, Served
<1>2. CASE Panic
  <2>1. path = <<>>
    BY <1>2 DEF Panic, CursorInv, CursorSound, Served
  <2> QED BY <1>2, <2>1 DEF Panic, cursor, CursorInv, CursorSound, Served
<1>3. CASE ExtractStatic
  BY <1>3, MovedInv DEF ExtractStatic, Running, Served, GoOn, Fail
<1>4. CASE ExtractParam
  BY <1>4, MovedInv DEF ExtractParam, Running, Served, GoOn, Fail
<1>5. CASE MatchEos
  BY <1>5, MovedInv DEF MatchEos, Running, Served, GoOn, Fail
<1>6. CASE ConvertRest
  BY <1>6, MovedInv DEF ConvertRest, Running, Served
<1>7. CASE Drain
  BY <1>7, MovedInv DEF Drain, Served, GoOn, Fail
<1>8. CASE Extracted
  BY <1>8 DEF Extracted, Served, CursorInv, CursorSound, cursor, Slashes, AfterSlash
<1>9. CASE Release
  BY <1>9 DEF Release, Served, CursorInv, CursorSound
<1>10. CASE UNCHANGED vars
  BY <1>10 DEF vars, cursor, CursorInv, CursorSound, Slashes, AfterSlash
<1> QED BY <1>1, <1>2, <1>3, <1>4, <1>5, <1>6, <1>7, <1>8, <1>9, <1>10, ServeInv DEF Next, Extract

(* For paths of any length every segment is counted once, the cursor stays *)
(* between segments, and no slice is out of bounds but that of an empty    *)
(* path (CursorInner, action.rs:185-240).                                  *)
THEOREM CursorBounds == Spec => []CursorSound
<1>1. Init => CursorInv
  BY DEF Init, CursorInv, CursorSound, Served
<1>2. CursorInv => CursorSound
  BY DEF CursorInv
<1> QED BY <1>1, <1>2, CursorStep, PTL DEF Spec

-----------------------------------------------------------------------------
(* parse_path.                                                             *)

(* Until it ends, the parser has taken every segment it has seen.          *)
ParseInv ==
  /\ literal \in Seq(LiteralSegments)
  /\ pc = "parse" =>
       /\ at \in 1 .. Len(literal) + 1
       /\ components = SubSeq(literal, 1, at - 1)
       /\ \A i \in 1 .. at - 1 : literal[i] \in Components /\ literal[i].kind # "remains"
  /\ LiteralIsParsed

LEMMA KindsDiffer ==
  /\ Empty \notin Components /\ Malformed \notin Components /\ Empty # Malformed
  /\ \A c \in LiteralSegments : c.kind \in {"static", "param", "remains"} => c \in Components
  /\ \A c \in LiteralSegments : c.kind = "empty" => c = Empty
  /\ \A c \in LiteralSegments : c.kind = "malformed" => c = Malformed
  /\ Empty.kind = "empty" /\ Malformed.kind = "malformed"
<1>1. \A c \in Components : c.kind \in {"static", "param", "remains"}
  BY DEF Components, Static, SingleParam, CatchAllParam
<1>2. Empty.kind = "empty" /\ Malformed.kind = "malformed"
  BY DEF Empty, Malformed
<1> QED BY <1>1, <1>2 DEF LiteralSegments

(* Of a literal without an empty end nothing is trimmed.                   *)
LEMMA TrimmedFacts ==
  ASSUME literal \in Seq(LiteralSegments)
  PROVE  /\ Trimmed \in Seq(LiteralSegments)
         /\ Trimmed = literal \/ Trimmed = SubSeq(literal, 1, Len(literal) - 1)
         /\ \A i \in DOMAIN literal :
              i # Len(literal) \/ literal[i] # Empty => i \in DOMAIN Trimmed /\ Trimmed[i] = literal[i]
<1>1. CASE literal # <<>> /\ Last(literal) = Empty
  <2>1. Len(literal) \in Nat \ {0}
    BY <1>1
  <2>2. Trimmed = SubSeq(literal, 1, Len(literal) - 1)
    BY <1>1 DEF Trimmed, Front
  <2>3. literal[Len(literal)] = Empty
    BY <1>1 DEF Last
  <2> QED BY <2>1, <2>2, <2>3
<1>2. CASE ~(literal # <<>> /\ Last(literal) = Empty)
  <2>1. Trimmed = literal
    BY <1>2 DEF Trimmed
  <2> QED BY <2>1
<1> QED BY <1>1, <1>2

LEMMA ParseStep == ParseInv /\ [Next]_vars => ParseInv'
<1> SUFFICES ASSUME ParseInv, [Next]_vars PROVE ParseInv'
  OBVIOUS
<1> DEFINE n == Len(literal)
<1>0. literal \in Seq(LiteralSegments) /\ n \in Nat
  BY DEF ParseInv
<1>1. ASSUME UNCHANGED <<literal, components>>, pc # "parse", pc # "rejected", pc' # "parse", pc' # "rejected"
      PROVE  ParseInv'
  BY <1>1 DEF ParseInv, LiteralIsParsed, Accepted, Trimmed
<1>2. CASE ParseEmpty
  <2>1. /\ pc = "parse" /\ at \in 1 .. n /\ literal[at] = Empty
        /\ literal' = literal /\ components' = components
        /\ pc' = IF at = n THEN "idle" ELSE "rejected"
    BY <1>0, <1>2, KindsDiffer DEF ParseInv, ParseEmpty, ParseNext, Parse, AtEnd
  <2>2. CASE at = n
    <3>1. Trimmed = SubSeq(literal, 1, n - 1)
      BY <1>0, <2>1, <2>2 DEF Trimmed, Last, Front
    <3>2. components = Trimmed /\ \A i \in DOMAIN Trimmed : Trimmed[i] = literal[i] /\ i \in 1 .. at - 1
      BY <1>0, <2>1, <2>2, <3>1 DEF ParseInv
    <3>3. Accepted
      BY <2>1, <3>2 DEF Accepted, ParseInv
    <3>4. Accepted' /\ Trimmed' = Trimmed
      BY <2>1, <3>3 DEF Accepted, Trimmed
    <3> QED BY <1>0, <2>1, <2>2, <3>2, <3>4 DEF ParseInv, LiteralIsParsed
  <2>3. CASE at # n
    <3>1. at \in DOMAIN Trimmed /\ Trimmed[at] = Empty
      BY <1>0, <2>1, <2>3, TrimmedFacts
    <3>2. ~Accepted
      BY <3>1, KindsDiffer DEF Accepted
    <3>3. ~Accepted'
      BY <2>1, <3>2 DEF Accepted, Trimmed
    <3> QED BY <1>0, <2>1, <2>3, <3>3 DEF ParseInv, LiteralIsParsed
  <2> QED BY <2>2, <2>3
<1>3. CASE ParseMalformed
  <2>1. /\ pc = "parse" /\ at \in 1 .. n /\ literal[at] = Malformed
        /\ literal' = literal /\ pc' = "rejected"
    BY <1>0, <1>3, KindsDiffer DEF ParseInv, ParseMalformed, ParseNext, Parse
  <2>2. at \in DOMAIN Trimmed /\ Trimmed[at] = Malformed
    BY <1>0, <2>1, TrimmedFacts, KindsDiffer
  <2>3. ~Accepted
    BY <2>2, KindsDiffer DEF Accepted
  <2>4. ~Accepted'
    BY <2>1, <2>3 DEF Accepted, Trimmed
  <2> QED BY <1>0, <2>1, <2>4 DEF ParseInv, LiteralIsParsed
<1>4. CASE ParseSegment
  <2>1. /\ pc = "parse" /\ at \in 1 .. n /\ literal[at] \in Components /\ literal[at].kind # "remains"
        /\ literal' = literal /\ pc' = "parse" /\ at' = at + 1
        /\ components' = Append(components, literal[at])
    BY <1>0, <1>4, KindsDiffer DEF ParseInv, ParseSegment, ParseNext, Parse
  <2>2. components' = SubSeq(literal, 1, at)
    BY <1>0, <2>1 DEF ParseInv
  <2>3. \A i \in 1 .. at : literal[i] \in Components /\ literal[i].kind # "remains"
    BY <1>0, <2>1 DEF ParseInv
  <2> QED BY <1>0, <2>1, <2>2, <2>3 DEF ParseInv, LiteralIsParsed
<1>5. CASE ParseCatchAll
  <2>1. /\ pc = "parse" /\ at \in 1 .. n /\ literal[at] \in Components /\ literal[at].kind = "remains"
        /\ literal' = literal /\ pc' = IF at = n THEN "idle" ELSE "rejected"
        /\ components' = Append(components, literal[at])
    BY <1>0, <1>5, KindsDiffer DEF ParseInv, ParseCatchAll, CatchAll, ParseNext, Parse, AtEnd
  <2>2. CASE at = n
    <3>1. Trimmed = literal
      BY <1>0, <2>1, <2>2, KindsDiffer DEF Trimmed, Last
    <3>2. components' = literal
      BY <1>0, <2>1, <2>2 DEF ParseInv
    <3>3. Accepted
      BY <1>0, <2>1, <2>2, <3>1 DEF Accepted, ParseInv
    <3>4. Accepted' /\ Trimmed' = Trimmed
      BY <2>1, <3>3 DEF Accepted, Trimmed
    <3> QED BY <1>0, <2>1, <2>2, <3>1, <3>2, <3>4 DEF ParseInv, LiteralIsParsed
  <2>3. CASE at # n
    <3>1. at \in DOMAIN Trimmed /\ Trimmed[at] = literal[at]
      BY <1>0, <2>1, <2>3, TrimmedFacts
    <3>2. ~Accepted
      BY <2>1, <2>3, <3>1 DEF Accepted
    <3>3. ~Accepted'
      BY <2>1, <3>2 DEF Accepted, Trimmed
    <3> QED BY <1>0, <2>1, <2>3, <3>3 DEF ParseInv, LiteralIsParsed
  <2> QED BY <2>2, <2>3
<1>6. CASE ParseEnd
  <2>1. /\ pc = "parse" /\ at = n + 1 /\ literal' = literal
        /\ components' = components /\ pc' = "idle"
    BY <1>0, <1>6 DEF ParseInv, ParseEnd, Parse
  <2>2. \A i \in 1 .. n : literal[i] \in Components /\ literal[i].kind # "remains"
    BY <1>0, <2>1 DEF ParseInv
  <2>3. Trimmed = literal
    BY <1>0, <2>2, KindsDiffer DEF Trimmed, Last
  <2>4. components = literal
    BY <1>0, <2>1 DEF ParseInv
  <2>5. Accepted
    BY <1>0, <2>2, <2>3 DEF Accepted
  <2>6. Accepted' /\ Trimmed' = Trimmed
    BY <2>1, <2>5 DEF Accepted, Trimmed
  <2> QED BY <1>0, <2>1, <2>3, <2>4, <2>6 DEF ParseInv, LiteralIsParsed
<1>7. CASE Extract \/ Release
  BY <1>1, <1>7 DEF Extract, Panic, ExtractStatic, ExtractParam, MatchEos, ConvertRest, Drain,
                    Extracted, Release, Running, GoOn, Fail
<1>8. ASSUME NEW p \in Paths, NEW chain \in Chains, Serve(p, chain) PROVE ParseInv'
  BY <1>1, <1>8 DEF Serve
<1>9. CASE UNCHANGED vars
  BY <1>9 DEF vars, ParseInv, LiteralIsParsed, Accepted, Trimmed
<1> QED BY <1>2, <1>3, <1>4, <1>5, <1>6, <1>7, <1>8, <1>9 DEF Next, Compile

(* For literals of any length the parser takes exactly those that the      *)
(* rules of path! allow, and leaves nothing of them out (macros lib.rs).   *)
THEOREM LiteralsParsed == Spec => []LiteralIsParsed
<1>1. Init => ParseInv
  BY LiteralsAssumption DEF Init, ParseInv, LiteralIsParsed
<1>2. ParseInv => LiteralIsParsed
  BY DEF ParseInv
<1> QED BY <1>1, <1>2, ParseStep, PTL DEF Spec

-----------------------------------------------------------------------------
(* The extraction.                                                         *)

Chars == PathChars \cup {" "}
Elements == Endpoints \cup Components

Passed(n) == \A i \in 1 .. n : Result(i) = 200

(* Before a component runs, the cursor has counted the segments that the   *)
(* ones before it have consumed.                                           *)
ExtractInv ==
  /\ values \in Seq(Seq(Chars))
  /\ pc \in {"extract", "drain", "done"} => program \in Seq(Elements)
  /\ pc = "extract" /\ path # <<>> =>
       /\ at \in 1 .. Len(program) + 1
       /\ popped = Consumed(at) /\ Passed(at - 1) /\ ValuesOf(at - 1)
  /\ pc = "drain" /\ path # <<>> =>
       /\ at \in 1 .. Len(program) /\ program[at].kind = "remains"
       /\ Passed(at - 1) /\ outcome = Result(at) /\ outcome \in {200, 400}
       /\ ValuesOf(IF outcome = 200 THEN at ELSE at - 1)
  /\ ExtractsSegments

(* The k-th slash is where k slashes have been counted.                    *)
LEMMA SlashIs ==
  ASSUME path \in Seq(PathChars), NEW p \in Slashes(Len(path))
  PROVE  SlashAt(Cardinality(Slashes(p))) = p
<1> DEFINE k == Cardinality(Slashes(p))
<1>1. \A q \in Slashes(Len(path)) : q \in Nat /\ q >= 1 /\ path[q] = "/"
  BY DEF Slashes
<1>2. ASSUME NEW q \in Slashes(Len(path)), NEW r \in Slashes(Len(path)), q < r
      PROVE  Cardinality(Slashes(q)) < Cardinality(Slashes(r))
  <2>1. IsFiniteSet(Slashes(q)) /\ IsFiniteSet(Slashes(r)) /\ Cardinality(Slashes(q)) \in Nat
        /\ Cardinality(Slashes(r)) \in Nat
    BY <1>1, SlashesFinite
  <2>2. r \notin Slashes(q) /\ Slashes(q) \cup {r} \subseteq Slashes(r)
    BY <1>1, <1>2 DEF Slashes
  <2>3. Cardinality(Slashes(q) \cup {r}) = Cardinality(Slashes(q)) + 1
    BY <2>1, <2>2, FS_AddElement
  <2>4. Cardinality(Slashes(q) \cup {r}) <= Cardinality(Slashes(r))
    BY <2>1, <2>2, FS_Subset
  <2> QED BY <2>1, <2>3, <2>4
<1>3. ASSUME NEW q \in Slashes(Len(path)), Cardinality(Slashes(q)) = k PROVE q = p
  <2>1. ~(q < p) /\ ~(p < q)
    <3>1. Cardinality(Slashes(p)) \in Nat
      BY <1>1, SlashesFinite
    <3> QED BY <1>2, <1>3, <3>1
  <2> QED BY <1>1, <2>1
<1> HIDE DEF k
<1>4. p \in Slashes(Len(path)) /\ Cardinality(Slashes(p)) = k
  BY DEF k
<1>5. SlashAt(k) = p
  BY <1>3, <1>4, Zenon DEF SlashAt
<1> QED BY <1>5 DEF k

(* The cursor stands where the segment begins that it has not counted, or  *)
(* at the end when it has counted them all.                                *)
LEMMA CursorBehind ==
  ASSUME CursorInv, pc \in Served, path # <<>>
  PROVE  /\ pos < Len(path) => popped \in Nat /\ popped < NumSegments /\ SlashAt(popped + 1) = pos
         /\ pos = Len(path) => popped = NumSegments
         /\ pos \in 1 .. Len(path) /\ Len(path) \in Nat /\ NumSegments \in Int
<1>1. /\ path \in Seq(PathChars) /\ pos \in 1 .. Len(path) /\ Len(path) \in Nat
      /\ popped = Cardinality(Slashes(pos)) - AfterSlash
  BY DEF CursorInv, CursorSound
<1> DEFINE n == Len(path)
<1>2. IsFiniteSet(Slashes(n)) /\ Cardinality(Slashes(n)) \in Nat
      /\ IsFiniteSet(Slashes(pos)) /\ Cardinality(Slashes(pos)) \in Nat
  BY <1>1, SlashesFinite
<1>3. NumSegments = Cardinality(Slashes(n)) - (IF path[n] = "/" THEN 1 ELSE 0)
  BY DEF NumSegments, Last
<1>4. ASSUME pos < n PROVE popped \in Nat /\ popped < NumSegments /\ SlashAt(popped + 1) = pos
  <2>1. path[pos] = "/" /\ popped = Cardinality(Slashes(pos)) - 1
    BY <1>4, BehindSlash
  <2>2. pos \in Slashes(n) /\ pos \in Slashes(pos) /\ Slashes(pos) \subseteq Slashes(n)
    BY <1>1, <2>1 DEF Slashes
  <2>3. SlashAt(popped + 1) = pos
    <3>1. popped + 1 = Cardinality(Slashes(pos))
      BY <1>2, <2>1
    <3> QED BY <1>1, <2>2, <3>1, SlashIs
  <2>4. Cardinality(Slashes(pos)) # 0
    BY <1>2, <2>2, FS_EmptySet
  <2>5. CASE path[n] = "/"
    <3>1. n \notin Slashes(pos) /\ Slashes(pos) \cup {n} \subseteq Slashes(n)
      BY <1>1, <1>4, <2>2, <2>5 DEF Slashes
    <3>2. Cardinality(Slashes(pos) \cup {n}) = Cardinality(Slashes(pos)) + 1
      BY <1>2, <3>1, FS_AddElement
    <3>3. Cardinality(Slashes(pos) \cup {n}) <= Cardinality(Slashes(n))
      BY <1>2, <3>1, FS_Subset
    <3> HIDE DEF n
    <3> QED BY <1>2, <1>3, <2>1, <2>3, <2>4, <2>5, <3>2, <3>3
  <2>6. CASE path[n] # "/"
    <3>1. Cardinality(Slashes(pos)) <= Cardinality(Slashes(n))
      BY <1>2, <2>2, FS_Subset
    <3> HIDE DEF n
    <3> QED BY <1>2, <1>3, <2>1, <2>3, <2>4, <2>6, <3>1
  <2> QED BY <2>5, <2>6
<1>5. ASSUME pos = n PROVE popped = NumSegments
  BY <1>1, <1>3, <1>5 DEF AfterSlash
<1> QED BY <1>1, <1>2, <1>3, <1>4, <1>5

LEMMA NextIsSegment ==
  ASSUME CursorInv, pc \in Served, pos < Len(path)
  PROVE  NextSegment = SegmentOf(popped + 1) /\ NextSegment \in Seq(PathChars)
<1> DEFINE n == Len(path)
           q == pos + Offset + 1
<1>1. /\ path # <<>> /\ path \in Seq(PathChars) /\ pos \in 1 .. n /\ n \in Nat
      /\ popped = Cardinality(Slashes(pos)) - 1
  BY BehindSlash DEF CursorInv
<1>2. popped \in Nat /\ SlashAt(popped + 1) = pos
  BY <1>1, CursorBehind
<1>3. IsFiniteSet(Slashes(n)) /\ Cardinality(Slashes(n)) \in Nat /\ Cardinality(Slashes(pos)) \in Nat
  BY <1>1, SlashesFinite
<1>4. CASE Offsets # {}
  <2>0. /\ Offset \in Nat /\ q \in pos + 1 .. n /\ path[q] = "/"
        /\ Cardinality(Slashes(q)) = Cardinality(Slashes(pos)) + 1
    BY <1>4, NextSlash
  <2>1. /\ Offset \in Nat /\ q \in pos + 1 .. n /\ path[q] = "/"
        /\ Cardinality(Slashes(q)) = popped + 2
    <3> HIDE DEF n, q
    <3> QED BY <1>1, <1>3, <2>0
  <2>2. q \in Slashes(n) /\ Slashes(q) \subseteq Slashes(n)
    BY <1>1, <2>1 DEF Slashes
  <2>3. SlashAt(popped + 2) = q
    BY <1>1, <2>1, <2>2, SlashIs
  <2>4. popped + 1 < Cardinality(Slashes(n))
    <3>1. Cardinality(Slashes(q)) <= Cardinality(Slashes(n))
      BY <1>3, <2>2, FS_Subset
    <3> QED BY <1>2, <1>3, <2>1, <3>1
  <2>5. NextSegment = SubSeq(path, pos + 1, pos + Offset)
    BY <1>4 DEF NextSegment
  <2>6. popped + 1 + 1 = popped + 2 /\ q - 1 = pos + Offset
    BY <1>1, <1>2, <2>1
  <2>7. SegmentOf(popped + 1) = SubSeq(path, pos + 1, pos + Offset)
    BY <1>2, <2>3, <2>4, <2>6 DEF SegmentOf
  <2>8. SubSeq(path, pos + 1, pos + Offset) \in Seq(PathChars)
    BY <1>1, <2>1
  <2> QED BY <2>5, <2>7, <2>8
<1>5. CASE Offsets = {}
  <2>1. Cardinality(Slashes(n)) = popped + 1
    BY <1>1, <1>3, <1>5, NextSlash
  <2>2. ~(popped + 1 < Cardinality(Slashes(n)))
    BY <1>2, <2>1
  <2>3. NextSegment = SubSeq(path, pos + 1, n)
    BY <1>5 DEF NextSegment, Rest
  <2>4. SegmentOf(popped + 1) = SubSeq(path, pos + 1, n)
    BY <1>2, <2>2 DEF SegmentOf
  <2>5. SubSeq(path, pos + 1, n) \in Seq(PathChars)
    BY <1>1
  <2> QED BY <2>3, <2>4, <2>5
<1> QED BY <1>4, <1>5

LEMMA RestIsBehind ==
  ASSUME CursorInv, pc \in Served, path # <<>>
  PROVE  Rest = Behind(popped) /\ Rest \in Seq(PathChars)
<1>1. pos \in 1 .. Len(path) /\ Len(path) \in Nat /\ path \in Seq(PathChars)
  BY CursorBehind DEF CursorInv
<1>2. CASE pos < Len(path)
  BY <1>1, <1>2, CursorBehind DEF Rest, Behind
<1>3. CASE pos = Len(path)
  <2>1. popped = NumSegments /\ NumSegments \in Int
    BY <1>3, CursorBehind
  <2>2. Rest = <<>>
    BY <1>1, <1>3 DEF Rest
  <2> QED BY <2>1, <2>2 DEF Behind
<1> QED BY <1>1, <1>2, <1>3

(* What depends on the program and the path alone.                         *)
LEMMA Same ==
  ASSUME UNCHANGED <<program, path>>
  PROVE  /\ \A n : Consumed(n)' = Consumed(n)
         /\ \A n : Result(n)' = Result(n)
         /\ \A n : Text(n)' = Text(n)
         /\ \A n : Behind(n)' = Behind(n)
         /\ \A n : Params(n)' = Params(n)
         /\ \A n : Passed(n)' = Passed(n)
<1>1. \A n : Slashes(n)' = Slashes(n)
  BY DEF Slashes
<1>2. NumSegments' = NumSegments
  BY <1>1 DEF NumSegments
<1>3. \A n : SlashAt(n)' = SlashAt(n)
  BY <1>1 DEF SlashAt
<1>4. \A n : Behind(n)' = Behind(n)
  BY <1>2, <1>3 DEF Behind
<1>5. \A n : SegmentOf(n)' = SegmentOf(n)
  BY <1>1, <1>3 DEF SegmentOf
<1>6. \A n : Consumed(n)' = Consumed(n)
  BY <1>2 DEF Consumed
<1>7. \A n : Text(n)' = Text(n)
  BY <1>4, <1>5, <1>6 DEF Text
<1>8. ASSUME NEW n PROVE Result(n)' = Result(n)
  <2>1. /\ Consumed(n)' = Consumed(n) /\ Text(n)' = Text(n) /\ NumSegments' = NumSegments
        /\ program'[n] = program[n]
    BY <1>2, <1>6, <1>7
  <2> QED BY <2>1 DEF Result
<1>9. \A n : Params(n)' = Params(n)
  BY DEF Params
<1>10. \A n : Passed(n)' = Passed(n)
  BY <1>8 DEF Passed
<1> QED BY <1>4, <1>6, <1>7, <1>8, <1>9, <1>10

LEMMA ElementKinds ==
  ASSUME NEW c \in Elements
  PROVE  /\ c.kind \in {"static", "segment", "eos", "param", "remains"}
         /\ c.kind \in {"static", "segment"} => c.text \in Texts
BY DEF Elements, Endpoints, Components, Static, SingleParam, CatchAllParam, Segment, Eos

LEMMA ConsumedNext ==
  ASSUME program \in Seq(Elements), NEW i \in 1 .. Len(program)
  PROVE  /\ program[i].kind = "remains" => Consumed(i + 1) = NumSegments
         /\ program[i].kind = "eos" => Consumed(i + 1) = Consumed(i)
         /\ program[i].kind \in {"static", "segment", "param"} /\ Consumed(i) # NumSegments =>
              Consumed(i + 1) = Consumed(i) + 1
<1> DEFINE E(n) == \E j \in 1 .. n - 1 : program[j].kind = "remains"
           C(n) == {j \in 1 .. n - 1 : program[j].kind # "eos"}
<1>1. Consumed(i) = (IF E(i) THEN NumSegments ELSE Cardinality(C(i)))
      /\ Consumed(i + 1) = (IF E(i + 1) THEN NumSegments ELSE Cardinality(C(i + 1)))
  BY DEF Consumed
<1>2. 1 .. i + 1 - 1 = (1 .. i - 1) \cup {i} /\ i \notin 1 .. i - 1
  OBVIOUS
<1>3. E(i + 1) <=> E(i) \/ program[i].kind = "remains"
  BY <1>2
<1>4. C(i + 1) = IF program[i].kind = "eos" THEN C(i) ELSE C(i) \cup {i}
  BY <1>2
<1>5. i \notin C(i)
  BY <1>2
<1>6. IsFiniteSet(C(i))
  <2>1. IsFiniteSet(1 .. i - 1)
    BY FS_Interval
  <2> QED BY <2>1, FS_Subset
<1> HIDE DEF E, C
<1>7. Cardinality(C(i) \cup {i}) = Cardinality(C(i)) + 1
  BY <1>5, <1>6, FS_AddElement
<1> QED BY <1>1, <1>3, <1>4, <1>7

LEMMA ConsumedNone == Consumed(1) = 0
<1>1. 1 .. 1 - 1 = {}
  OBVIOUS
<1>2. {j \in {} : program[j].kind # "eos"} = {}
  OBVIOUS
<1> QED BY <1>1, <1>2, FS_EmptySet DEF Consumed

LEMMA ParamsFinite ==
  ASSUME NEW n \in Int
  PROVE  IsFiniteSet(Params(n)) /\ Cardinality(Params(n)) \in Nat
<1>1. Params(n) \in SUBSET (1 .. n)
  BY DEF Params
<1>2. IsFiniteSet(1 .. n)
  BY FS_Interval
<1> QED BY <1>1, <1>2, FS_Subset, FS_CardinalityType

LEMMA ParamsNext ==
  ASSUME NEW i \in Nat \ {0}
  PROVE  /\ program[i].kind \in {"param", "remains"} =>
              /\ Params(i) = Params(i - 1) \cup {i}
              /\ Cardinality(Params(i)) = Cardinality(Params(i - 1)) + 1
         /\ program[i].kind \notin {"param", "remains"} => Params(i) = Params(i - 1)
         /\ Cardinality(Params(i - 1)) \in Nat
         /\ \A j \in Params(i - 1) : Cardinality(Params(j)) \in 1 .. Cardinality(Params(i - 1))
<1>1. 1 .. i = (1 .. i - 1) \cup {i} /\ i \notin 1 .. i - 1
  OBVIOUS
<1>2. IF program[i].kind \in {"param", "remains"} THEN Params(i) = Params(i - 1) \cup {i}
      ELSE Params(i) = Params(i - 1)
  BY <1>1 DEF Params
<1>3. i \notin Params(i - 1)
  BY <1>1 DEF Params
<1>4. IsFiniteSet(Params(i - 1)) /\ Cardinality(Params(i - 1)) \in Nat
  BY ParamsFinite
<1>5. Cardinality(Params(i - 1) \cup {i}) = Cardinality(Params(i - 1)) + 1
  BY <1>3, <1>4, FS_AddElement
<1>6. ASSUME NEW j \in Params(i - 1) PROVE Cardinality(Params(j)) \in 1 .. Cardinality(Params(i - 1))
  <2>1. j \in 1 .. i - 1 /\ j \in Params(j)
    BY <1>6 DEF Params
  <2>2. Params(j) \subseteq Params(i - 1)
    BY <2>1 DEF Params
  <2>3. IsFiniteSet(Params(j)) /\ Cardinality(Params(j)) \in Nat
    BY <2>1, ParamsFinite
  <2>4. Cardinality(Params(j)) <= Cardinality(Params(i - 1))
    BY <1>4, <2>2, FS_Subset
  <2>5. Cardinality(Params(j)) # 0
    BY <2>1, <2>3, FS_EmptySet
  <2> QED BY <1>4, <2>3, <2>4, <2>5
<1> QED BY <1>2, <1>4, <1>5, <1>6

(* One more value for one more parameter.                                  *)
LEMMA ValuesNext ==
  ASSUME UNCHANGED <<program, path>>, NEW i \in Nat \ {0}, NEW V, values \in Seq(V),
         ValuesOf(i - 1)
  PROVE  /\ program[i].kind \notin {"param", "remains"} /\ values' = values => ValuesOf(i)'
         /\ /\ program[i].kind \in {"param", "remains"}
            /\ Decoded(Text(i)) \in V /\ values' = Append(values, Decoded(Text(i)))
            => ValuesOf(i)'
         /\ values' = values => ValuesOf(i - 1)'
<1>1. /\ Len(values) = Cardinality(Params(i - 1))
      /\ \A j \in Params(i - 1) : values[Cardinality(Params(j))] = Decoded(Text(j))
  BY DEF ValuesOf
<1>2. ASSUME NEW n PROVE
        ValuesOf(n)' <=> /\ Len(values') = Cardinality(Params(n))
                         /\ \A j \in Params(n) : values'[Cardinality(Params(j))] = Decoded(Text(j))
  BY Same DEF ValuesOf
<1>3. ASSUME program[i].kind \in {"param", "remains"}, Decoded(Text(i)) \in V,
             values' = Append(values, Decoded(Text(i)))
      PROVE  ValuesOf(i)'
  <2>1. Params(i) = Params(i - 1) \cup {i} /\ Cardinality(Params(i)) = Len(values) + 1
    BY <1>1, <1>3, ParamsNext
  <2>2. ASSUME NEW j \in Params(i - 1) PROVE values'[Cardinality(Params(j))] = Decoded(Text(j))
    <3>1. Cardinality(Params(j)) \in 1 .. Len(values)
      BY <1>1, ParamsNext
    <3> QED BY <1>1, <1>3, <3>1
  <2>3. values'[Cardinality(Params(i))] = Decoded(Text(i)) /\ Len(values') = Cardinality(Params(i))
    BY <1>3, <2>1
  <2> QED BY <1>2, <2>1, <2>2, <2>3
<1>4. ASSUME program[i].kind \notin {"param", "remains"}, values' = values PROVE ValuesOf(i)'
  <2>1. Params(i) = Params(i - 1)
    BY <1>4, ParamsNext
  <2> QED BY <1>1, <1>2, <1>4, <2>1
<1>5. ASSUME values' = values PROVE ValuesOf(i - 1)'
  BY <1>1, <1>2, <1>5
<1> QED BY <1>3, <1>4, <1>5

LEMMA FunctionIsSeq ==
  ASSUME NEW T, NEW n \in Nat, NEW f \in [1 .. n -> T]
  PROVE  f \in Seq(T) /\ Len(f) = n
OBVIOUS

LEMMA SameSeq ==
  ASSUME NEW S, NEW T, NEW s \in Seq(S), NEW t \in Seq(T), Len(s) = Len(t),
         \A i \in 1 .. Len(s) : s[i] = t[i]
  PROVE  s = t
OBVIOUS

LEMMA DecodedChars ==
  ASSUME NEW s \in Seq(PathChars)
  PROVE  /\ Decoded(s) \in Seq(Chars) /\ Len(Decoded(s)) = Len(s)
         /\ \A i \in 1 .. Len(s) : Decoded(s)[i] = DecodedChar(s[i])
<1>1. DOMAIN s = 1 .. Len(s) /\ \A i \in 1 .. Len(s) : s[i] \in PathChars
  OBVIOUS
<1>2. \A i \in 1 .. Len(s) : Decoded(s)[i] = DecodedChar(s[i])
  BY <1>1 DEF Decoded
<1>3. \A i \in 1 .. Len(s) : Decoded(s)[i] \in Chars
  BY <1>1, <1>2 DEF Chars, DecodedChar, PathChars
<1>4. Decoded(s) = [i \in DOMAIN s |-> Decoded(s)[i]]
  BY DEF Decoded
<1>5. Decoded(s) \in [1 .. Len(s) -> Chars] /\ Len(s) \in Nat
  <2> DEFINE d == Decoded(s)
  <2>1. d = [i \in 1 .. Len(s) |-> d[i]] /\ \A i \in 1 .. Len(s) : d[i] \in Chars
    BY <1>1, <1>3, <1>4
  <2> HIDE DEF d
  <2>2. d \in [1 .. Len(s) -> Chars] /\ Len(s) \in Nat
    BY <2>1
  <2> QED BY <2>2 DEF d
<1>6. Decoded(s) \in Seq(Chars) /\ Len(Decoded(s)) = Len(s)
  BY <1>5, FunctionIsSeq
<1> QED BY <1>2, <1>6

(* A segment has the characters of the encoded text when it stands for the *)
(* text without a needless escape.                                         *)
LEMMA EncodedMatches ==
  ASSUME NEW t \in Texts, NEW s \in Seq(PathChars)
  PROVE  PercentEncode(t) = s <=> Decoded(s) = t /\ Canonical(s)
<1> DEFINE A == {" ", "a"}
           E == {"%20", "a"}
<1>1. /\ Decoded(s) \in Seq(Chars) /\ Len(Decoded(s)) = Len(s)
      /\ \A i \in 1 .. Len(s) : Decoded(s)[i] = DecodedChar(s[i])
  BY DecodedChars
<1>2. t \in Seq(A)
  <2>1. <<"a">> \in Seq(A) /\ <<" ", "a">> \in Seq(A)
    OBVIOUS
  <2> QED BY <2>1 DEF Texts
<1>3. \A c : c \in A <=> c = " " \/ c = "a"
  OBVIOUS
<1>4. "%20" \in E /\ "a" \in E
  OBVIOUS
<1> HIDE DEF A, E
<1>5. /\ PercentEncode(t) \in Seq(E) /\ Len(PercentEncode(t)) = Len(t)
      /\ \A i \in 1 .. Len(t) : PercentEncode(t)[i] = IF t[i] = " " THEN "%20" ELSE t[i]
  <2>1. DOMAIN t = 1 .. Len(t) /\ \A i \in 1 .. Len(t) : t[i] \in A
    BY <1>2
  <2>2. \A i \in 1 .. Len(t) : PercentEncode(t)[i] = IF t[i] = " " THEN "%20" ELSE t[i]
    BY <2>1 DEF PercentEncode
  <2>3. ASSUME NEW i \in 1 .. Len(t) PROVE PercentEncode(t)[i] \in E
    <3>1. PercentEncode(t)[i] = IF t[i] = " " THEN "%20" ELSE "a"
      BY <1>3, <2>1, <2>2
    <3> QED BY <1>4, <3>1
  <2>4. PercentEncode(t) = [i \in DOMAIN t |-> PercentEncode(t)[i]]
    BY DEF PercentEncode
  <2>5. PercentEncode(t) \in [1 .. Len(t) -> E] /\ Len(t) \in Nat
    <3> DEFINE e == PercentEncode(t)
    <3>1. e = [i \in 1 .. Len(t) |-> e[i]] /\ \A i \in 1 .. Len(t) : e[i] \in E
      BY <2>1, <2>3, <2>4
    <3> HIDE DEF e
    <3>2. e \in [1 .. Len(t) -> E] /\ Len(t) \in Nat
      BY <1>2, <3>1
    <3> QED BY <3>2 DEF e
  <2>6. PercentEncode(t) \in Seq(E) /\ Len(PercentEncode(t)) = Len(t)
    BY <2>5, FunctionIsSeq
  <2> QED BY <2>2, <2>6
<1>6. ASSUME PercentEncode(t) = s PROVE Decoded(s) = t /\ Canonical(s)
  <2>0. DOMAIN s = 1 .. Len(s) /\ Len(s) = Len(t)
    <3>1. DOMAIN s = 1 .. Len(s)
      OBVIOUS
    <3> QED BY <1>5, <1>6, <3>1
  <2>1. Len(t) = Len(Decoded(s)) /\ DOMAIN s = 1 .. Len(t)
    BY <1>1, <2>0
  <2>2. ASSUME NEW i \in 1 .. Len(t)
        PROVE  Decoded(s)[i] = t[i] /\ s[i] # "%61"
    <3>0. t[i] \in A
      BY <1>2
    <3>1. t[i] = " " \/ t[i] = "a"
      BY <1>3, <3>0
    <3>2. s[i] = IF t[i] = " " THEN "%20" ELSE t[i]
      BY <1>5, <1>6
    <3>3. Decoded(s)[i] = DecodedChar(s[i])
      BY <1>1, <2>1
    <3> QED BY <3>1, <3>2, <3>3 DEF DecodedChar
  <2>3. Canonical(s)
    BY <2>1, <2>2 DEF Canonical, Range
  <2> QED BY <1>1, <1>2, <2>1, <2>2, <2>3, SameSeq
<1>7. ASSUME Decoded(s) = t, Canonical(s) PROVE PercentEncode(t) = s
  <2>1. Len(PercentEncode(t)) = Len(s)
    BY <1>1, <1>5, <1>7
  <2>2. ASSUME NEW i \in 1 .. Len(s) PROVE PercentEncode(t)[i] = s[i]
    <3>1. s[i] \in PathChars /\ " " \notin PathChars
      BY DEF PathChars
    <3>2. PercentEncode(t)[i] = IF DecodedChar(s[i]) = " " THEN "%20" ELSE DecodedChar(s[i])
      BY <1>1, <1>5, <1>7
    <3>3. s[i] # "%61"
      BY <1>7 DEF Canonical, Range
    <3> QED BY <3>1, <3>2, <3>3 DEF DecodedChar
  <2> QED BY <1>5, <2>1, <2>2, SameSeq
<1> QED BY <1>6, <1>7

LEMMA MatchesExpected ==
  ASSUME NEW c \in Elements, c.kind \in {"static", "segment"}, NEW s \in Seq(PathChars)
  PROVE  s = Expected(c) <=> Matches(c, s)
<1>1. c.text \in Texts
  BY ElementKinds
<1> QED BY <1>1, EncodedMatches DEF Expected, Matches

(* A component that matches, and one that does not.                        *)
LEMMA GoneOn ==
  ASSUME UNCHANGED <<program, path>>, program \in Seq(Elements), values' \in Seq(Seq(Chars)),
         pc' = "extract", NEW i \in 1 .. Len(program), at' = i + 1, popped' = Consumed(i + 1),
         Passed(i - 1), Result(i) = 200, ValuesOf(i)'
  PROVE  ExtractInv'
<1>1. Passed(i)
  BY DEF Passed
<1>2. /\ (at \in 1 .. Len(program) + 1)'
      /\ (popped = Consumed(at))' /\ Passed(at - 1)' /\ ValuesOf(at - 1)'
  <2>1. at' - 1 = i
    OBVIOUS
  <2> QED BY <1>1, <2>1, Same
<1> QED BY <1>2 DEF ExtractInv, ExtractsSegments

LEMMA Failed ==
  ASSUME UNCHANGED <<program, path>>, program \in Seq(Elements), values' \in Seq(Seq(Chars)),
         pc' = "done", NEW i \in 1 .. Len(program), outcome' = Result(i),
         Passed(i - 1), Result(i) # 200
  PROVE  ExtractInv'
<1>1. i \in Failing /\ \A j \in Failing : i <= j
  <2>1. ASSUME NEW j \in Failing PROVE i <= j
    <3>1. j \in 1 .. Len(program) /\ j \notin 1 .. i - 1
      BY DEF Failing, Passed
    <3> QED BY <3>1
  <2> QED BY <2>1 DEF Failing
<1>2. Failing \subseteq Nat
  BY DEF Failing
<1>3. (CHOOSE j \in Failing : \A k \in Failing : j <= k) = i
  <2>1. \A j \in Failing : (\A k \in Failing : j <= k) => j = i
    BY <1>1, <1>2
  <2> QED BY <1>1, <2>1, Zenon
<1>4. Failing' = Failing
  BY Same DEF Failing
<1>5. ExtractsSegments'
  BY <1>1, <1>3, <1>4, Same DEF ExtractsSegments
<1> QED BY <1>5 DEF ExtractInv

(* The component that runs next, where the cursor stands.                  *)
LEMMA AtElement ==
  ASSUME CursorInv, ExtractInv, pc = "extract", at <= Len(program), pos <= Len(path)
  PROVE  /\ path # <<>> /\ program \in Seq(Elements)
         /\ at \in 1 .. Len(program) /\ program[at] \in Elements
         /\ Passed(at - 1) /\ ValuesOf(at - 1) /\ popped = Consumed(at)
         /\ NextIsNone => ~(Consumed(at) < NumSegments)
         /\ ~NextIsNone => /\ Consumed(at) < NumSegments /\ Consumed(at) # NumSegments
                           /\ pos < Len(path)
                           /\ NextSegment = SegmentOf(Consumed(at) + 1)
                           /\ NextSegment \in Seq(PathChars)
         /\ Rest = Behind(Consumed(at)) /\ Rest \in Seq(PathChars)
<1>1. pos \in Nat /\ pos # 0 /\ path \in Seq(PathChars)
  BY DEF CursorInv, Served
<1>2. path # <<>>
  BY <1>1
<1>3. /\ program \in Seq(Elements) /\ at \in 1 .. Len(program)
      /\ Passed(at - 1) /\ ValuesOf(at - 1) /\ popped = Consumed(at)
  BY <1>2 DEF ExtractInv
<1>4. pc \in Served
  BY DEF Served
<1>5. /\ pos < Len(path) => popped \in Nat /\ popped < NumSegments
      /\ pos = Len(path) => popped = NumSegments
      /\ pos \in 1 .. Len(path) /\ Len(path) \in Nat /\ NumSegments \in Int
  BY <1>2, <1>4, CursorBehind
<1>6. pos < Len(path) => NextSegment = SegmentOf(popped + 1) /\ NextSegment \in Seq(PathChars)
  BY <1>4, NextIsSegment
<1>7. Rest = Behind(popped) /\ Rest \in Seq(PathChars)
  BY <1>2, <1>4, RestIsBehind
<1>8. NextIsNone => ~(Consumed(at) < NumSegments)
  BY <1>3, <1>5 DEF NextIsNone
<1>9. ASSUME ~NextIsNone PROVE pos < Len(path) /\ Consumed(at) < NumSegments /\ Consumed(at) # NumSegments
  <2>1. pos < Len(path)
    BY <1>5, <1>9 DEF NextIsNone
  <2> QED BY <1>3, <1>5, <2>1
<1>10. program[at] \in Elements
  BY <1>3
<1> QED BY <1>2, <1>3, <1>6, <1>7, <1>8, <1>9, <1>10

LEMMA StaticStep ==
  ASSUME CursorInv, ExtractInv, ExtractStatic
  PROVE  ExtractInv'
<1>1. PICK i : i = at
  OBVIOUS
<1>2. /\ pc = "extract" /\ at <= Len(program) /\ pos <= Len(path)
      /\ program[i].kind \in {"static", "segment"}
  BY <1>1 DEF ExtractStatic, Running, Current
<1>3. /\ program \in Seq(Elements) /\ i \in 1 .. Len(program) /\ program[i] \in Elements
      /\ Passed(i - 1) /\ ValuesOf(i - 1) /\ popped = Consumed(i)
  BY <1>1, <1>2, AtElement
<1>4. UNCHANGED <<program, path, values>> /\ values \in Seq(Seq(Chars))
  BY DEF ExtractStatic, Advance, GoOn, Fail, cursor, ExtractInv
<1>5. Result(i) = IF Consumed(i) < NumSegments /\ Matches(program[i], Text(i)) THEN 200 ELSE 404
  BY <1>2 DEF Result
<1>6. CASE NextIsNone
  <2>1. Result(i) = 404
    BY <1>1, <1>2, <1>5, <1>6, AtElement
  <2>2. pc' = "done" /\ outcome' = 404
    BY <1>6 DEF ExtractStatic, Fail
  <2> QED BY <1>3, <1>4, <2>1, <2>2, Failed
<1>7. CASE ~NextIsNone
  <2>1. /\ Consumed(i) < NumSegments /\ Consumed(i) # NumSegments
        /\ NextSegment = SegmentOf(Consumed(i) + 1) /\ NextSegment \in Seq(PathChars)
    BY <1>1, <1>2, <1>7, AtElement
  <2>2. Text(i) = NextSegment
    BY <1>2, <2>1 DEF Text
  <2>3. popped' = Consumed(i + 1)
    <3>1. popped' = popped + 1
      BY <1>7 DEF ExtractStatic, Advance
    <3> QED BY <1>2, <1>3, <2>1, <3>1, ConsumedNext
  <2>4. NextSegment = Expected(program[i]) <=> Matches(program[i], NextSegment)
    BY <1>2, <1>3, <2>1, MatchesExpected
  <2>5. CASE NextSegment = Expected(program[i])
    <3>1. pc' = "extract" /\ at' = i + 1
      BY <1>1, <1>7, <2>5 DEF ExtractStatic, GoOn, Current
    <3>2. Result(i) = 200
      BY <1>5, <2>1, <2>2, <2>4, <2>5
    <3>3. ValuesOf(i)'
      <4>1. i \in Nat \ {0} /\ program[i].kind \notin {"param", "remains"}
        BY <1>2, <1>3
      <4> QED BY <1>3, <1>4, <4>1, ValuesNext
    <3> QED BY <1>3, <1>4, <2>3, <3>1, <3>2, <3>3, GoneOn
  <2>6. CASE NextSegment # Expected(program[i])
    <3>1. pc' = "done" /\ outcome' = 404
      BY <1>1, <1>7, <2>6 DEF ExtractStatic, Fail, Current
    <3>2. Result(i) = 404
      BY <1>5, <2>1, <2>2, <2>4, <2>6
    <3> QED BY <1>3, <1>4, <3>1, <3>2, Failed
  <2> QED BY <2>5, <2>6
<1> QED BY <1>6, <1>7

LEMMA ParamStep ==
  ASSUME CursorInv, ExtractInv, ExtractParam
  PROVE  ExtractInv'
<1>1. PICK i : i = at
  OBVIOUS
<1>2. /\ pc = "extract" /\ at <= Len(program) /\ pos <= Len(path)
      /\ program[i].kind = "param"
  BY <1>1 DEF ExtractParam, Running, Current
<1>3. /\ program \in Seq(Elements) /\ i \in 1 .. Len(program) /\ program[i] \in Elements
      /\ Passed(i - 1) /\ ValuesOf(i - 1) /\ popped = Consumed(i)
  BY <1>1, <1>2, AtElement
<1>4. UNCHANGED <<program, path>> /\ values \in Seq(Seq(Chars))
  BY DEF ExtractParam, Advance, cursor, ExtractInv
<1>5. Result(i) = IF ~(Consumed(i) < NumSegments) THEN 404
                  ELSE IF Converts(program[i].type, Text(i)) THEN 200 ELSE 400
  BY <1>2 DEF Result
<1>6. CASE NextIsNone
  <2>1. Result(i) = 404
    BY <1>1, <1>2, <1>5, <1>6, AtElement
  <2>2. pc' = "done" /\ outcome' = 404 /\ values' = values
    BY <1>6 DEF ExtractParam, Fail
  <2> QED BY <1>3, <1>4, <2>1, <2>2, Failed
<1>7. CASE ~NextIsNone
  <2>1. /\ Consumed(i) < NumSegments /\ Consumed(i) # NumSegments
        /\ NextSegment = SegmentOf(Consumed(i) + 1) /\ NextSegment \in Seq(PathChars)
    BY <1>1, <1>2, <1>7, AtElement
  <2>2. Text(i) = NextSegment
    BY <1>2, <2>1 DEF Text
  <2>3. popped' = Consumed(i + 1)
    <3>1. popped' = popped + 1
      BY <1>7 DEF ExtractParam, Advance
    <3> QED BY <1>2, <1>3, <2>1, <3>1, ConsumedNext
  <2>4. Decoded(NextSegment) \in Seq(Chars)
    BY <2>1, DecodedChars
  <2>5. CASE Converts(program[i].type, NextSegment)
    <3>1. pc' = "extract" /\ at' = i + 1 /\ values' = Append(values, Decoded(NextSegment))
      BY <1>1, <1>7, <2>5 DEF ExtractParam, GoOn, Current
    <3>2. Result(i) = 200
      BY <1>5, <2>1, <2>2, <2>5
    <3>3. ValuesOf(i)'
      BY <1>2, <1>3, <1>4, <2>2, <2>4, <3>1, ValuesNext
    <3>4. values' \in Seq(Seq(Chars))
      BY <1>4, <2>4, <3>1
    <3> QED BY <1>3, <1>4, <2>3, <3>1, <3>2, <3>3, <3>4, GoneOn
  <2>6. CASE ~Converts(program[i].type, NextSegment)
    <3>1. pc' = "done" /\ outcome' = 400 /\ values' = values
      BY <1>1, <1>7, <2>6 DEF ExtractParam, Fail, Current
    <3>2. Result(i) = 400
      BY <1>5, <2>1, <2>2, <2>6
    <3> QED BY <1>3, <1>4, <3>1, <3>2, Failed
  <2> QED BY <2>5, <2>6
<1> QED BY <1>6, <1>7

LEMMA EosStep ==
  ASSUME CursorInv, ExtractInv, MatchEos
  PROVE  ExtractInv'
<1>1. PICK i : i = at
  OBVIOUS
<1>2. /\ pc = "extract" /\ at <= Len(program) /\ pos <= Len(path)
      /\ program[i].kind = "eos"
  BY <1>1 DEF MatchEos, Running, Current
<1>3. /\ program \in Seq(Elements) /\ i \in 1 .. Len(program) /\ program[i] \in Elements
      /\ Passed(i - 1) /\ ValuesOf(i - 1) /\ popped = Consumed(i)
  BY <1>1, <1>2, AtElement
<1>4. UNCHANGED <<program, path, values>> /\ values \in Seq(Seq(Chars))
  BY DEF MatchEos, Advance, Fail, cursor, ExtractInv
<1>5. Result(i) = IF Consumed(i) < NumSegments THEN 404 ELSE 200
  BY <1>2 DEF Result
<1>6. CASE NextIsNone
  <2>1. Result(i) = 200
    BY <1>1, <1>2, <1>5, <1>6, AtElement
  <2>2. pc' = "extract" /\ at' = i + 1 /\ popped' = popped
    BY <1>1, <1>6 DEF MatchEos, GoOn, cursor
  <2>3. popped' = Consumed(i + 1)
    BY <1>2, <1>3, <2>2, ConsumedNext
  <2>4. ValuesOf(i)'
    <3>1. i \in Nat \ {0} /\ program[i].kind \notin {"param", "remains"}
      BY <1>2, <1>3
    <3> QED BY <1>3, <1>4, <3>1, ValuesNext
  <2> QED BY <1>3, <1>4, <2>1, <2>2, <2>3, <2>4, GoneOn
<1>7. CASE ~NextIsNone
  <2>1. Result(i) = 404
    BY <1>1, <1>2, <1>5, <1>7, AtElement
  <2>2. pc' = "done" /\ outcome' = 404
    BY <1>7 DEF MatchEos, Fail
  <2> QED BY <1>3, <1>4, <2>1, <2>2, Failed
<1> QED BY <1>6, <1>7

(* What remains is converted before the cursor is drained.                 *)
LEMMA ConvertStep ==
  ASSUME CursorInv, ExtractInv, ConvertRest
  PROVE  ExtractInv'
<1>1. PICK i : i = at
  OBVIOUS
<1>2. /\ pc = "extract" /\ at <= Len(program) /\ pos <= Len(path)
      /\ program[i].kind = "remains" /\ pc' = "drain" /\ at' = i
  BY <1>1 DEF ConvertRest, Running, Current
<1>3. /\ program \in Seq(Elements) /\ i \in 1 .. Len(program) /\ program[i] \in Elements
      /\ Passed(i - 1) /\ ValuesOf(i - 1)
      /\ Rest = Behind(Consumed(i)) /\ Rest \in Seq(PathChars)
  BY <1>1, <1>2, AtElement
<1>4. UNCHANGED <<program, path>> /\ values \in Seq(Seq(Chars))
  BY DEF ConvertRest, cursor, ExtractInv
<1>5. Text(i) = Rest
  BY <1>2, <1>3 DEF Text
<1>6. Result(i) = IF Converts(program[i].type, Rest) THEN 200 ELSE 400
  BY <1>2, <1>5 DEF Result
<1>7. Decoded(Rest) \in Seq(Chars)
  BY <1>3, DecodedChars
<1>8. IF Converts(program[i].type, Rest)
      THEN values' = Append(values, Decoded(Rest)) /\ outcome' = 200
      ELSE values' = values /\ outcome' = 400
  BY <1>1 DEF ConvertRest, Current
<1>9. values' \in Seq(Seq(Chars)) /\ outcome' = Result(i) /\ outcome' \in {200, 400}
  <2>1. Append(values, Decoded(Rest)) \in Seq(Seq(Chars))
    BY <1>4, <1>7
  <2> QED BY <1>4, <1>6, <1>8, <2>1
<1>10. IF outcome' = 200 THEN ValuesOf(i)' ELSE ValuesOf(i - 1)'
  BY <1>2, <1>3, <1>4, <1>5, <1>7, <1>8, ValuesNext
<1>11. ValuesOf(IF outcome = 200 THEN at ELSE at - 1)'
  BY <1>2, <1>9, <1>10
<1>12. /\ (at \in 1 .. Len(program))' /\ (program[at].kind = "remains")'
       /\ Passed(at - 1)' /\ (outcome = Result(at))'
  BY <1>2, <1>3, <1>4, <1>9, Same
<1> QED BY <1>2, <1>3, <1>4, <1>9, <1>11, <1>12 DEF ExtractInv, ExtractsSegments

LEMMA DrainStep ==
  ASSUME CursorInv, ExtractInv, Drain
  PROVE  ExtractInv'
<1>1. PICK i : i = at
  OBVIOUS
<1>2. pc = "drain" /\ path # <<>> /\ pc \in Served
  BY DEF Drain, CursorInv, Served
<1>3. /\ program \in Seq(Elements) /\ i \in 1 .. Len(program) /\ program[i].kind = "remains"
      /\ Passed(i - 1) /\ outcome = Result(i) /\ outcome \in {200, 400}
      /\ values \in Seq(Seq(Chars))
  BY <1>1, <1>2 DEF ExtractInv
<1>4. ValuesOf(IF outcome = 200 THEN i ELSE i - 1)
  BY <1>1, <1>2 DEF ExtractInv
<1>5. UNCHANGED <<program, path, values>>
  BY DEF Drain, Advance, GoOn, Fail, cursor
<1>6. ASSUME NEW n PROVE ValuesOf(n)' <=> ValuesOf(n)
  BY <1>5, Same DEF ValuesOf
<1>7. CASE ~NextIsNone
  <2>1. pc' = "drain" /\ at' = i /\ outcome' = outcome
    BY <1>1, <1>2, <1>7 DEF Drain
  <2>2. ValuesOf(IF outcome = 200 THEN at ELSE at - 1)'
    BY <1>4, <1>6, <2>1
  <2>3. /\ (at \in 1 .. Len(program))' /\ (program[at].kind = "remains")'
        /\ Passed(at - 1)' /\ (outcome = Result(at))' /\ outcome' \in {200, 400}
    BY <1>3, <1>5, <2>1, Same
  <2> QED BY <1>3, <1>5, <2>1, <2>2, <2>3 DEF ExtractInv, ExtractsSegments
<1>8. CASE NextIsNone /\ outcome = 200
  <2>1. pc' = "extract" /\ at' = i + 1 /\ popped' = popped
    BY <1>1, <1>8 DEF Drain, GoOn, cursor
  <2>2. popped = NumSegments
    BY <1>2, <1>8, CursorBehind DEF NextIsNone
  <2>3. popped' = Consumed(i + 1)
    BY <1>3, <2>1, <2>2, ConsumedNext
  <2>4. ValuesOf(i)'
    BY <1>4, <1>6, <1>8
  <2> QED BY <1>3, <1>5, <1>8, <2>1, <2>3, <2>4, GoneOn
<1>9. CASE NextIsNone /\ outcome # 200
  <2>1. pc' = "done" /\ outcome' = 400
    BY <1>9 DEF Drain, Fail
  <2> QED BY <1>3, <1>5, <1>9, <2>1, Failed
<1> QED BY <1>7, <1>8, <1>9

LEMMA ExtractedStep ==
  ASSUME CursorInv, ExtractInv, Extracted
  PROVE  ExtractInv'
<1>1. /\ pc = "extract" /\ pc \in Served /\ pc' = "done" /\ outcome' = 200
      /\ UNCHANGED <<program, path, pos, popped, values>>
      /\ program \in Seq(Elements) /\ values \in Seq(Seq(Chars))
  BY DEF Extracted, Served, ExtractInv, cursor
<1>2. ASSUME path # <<>>
      PROVE  Failing' = {} /\ ValuesOf(Len(program))' /\ (Rest = Behind(Consumed(Len(program) + 1)))'
  <2>1. /\ Len(program) \in Nat /\ at = Len(program) + 1 /\ at - 1 = Len(program)
        /\ popped = Consumed(at) /\ Passed(at - 1) /\ ValuesOf(at - 1)
    <3>1. Len(program) \in Nat
      BY <1>1
    <3>2. /\ at \in 1 .. Len(program) + 1 /\ at > Len(program)
          /\ popped = Consumed(at) /\ Passed(at - 1) /\ ValuesOf(at - 1)
      BY <1>1, <1>2 DEF ExtractInv, Extracted
    <3> QED BY <3>1, <3>2
  <2>2. Failing = {}
    BY <1>1, <2>1 DEF Failing, Passed
  <2>3. Failing' = Failing
    BY <1>1, Same DEF Failing
  <2>4. Rest = Behind(popped)
    BY <1>1, <1>2, RestIsBehind
  <2>5. Rest' = Rest
    BY <1>1 DEF Rest
  <2>6. ValuesOf(Len(program))' <=> ValuesOf(Len(program))
    BY <1>1, Same DEF ValuesOf
  <2> QED BY <1>1, <2>1, <2>2, <2>3, <2>4, <2>5, <2>6, Same
<1>3. ExtractsSegments'
  BY <1>1, <1>2 DEF ExtractsSegments
<1> QED BY <1>1, <1>3 DEF ExtractInv

(* The components of an accepted literal and the endpoints behind them.    *)
LEMMA ServeStep ==
  ASSUME ParseInv, ExtractInv, NEW p \in Paths, NEW chain \in Chains, Serve(p, chain)
  PROVE  ExtractInv'
<1>1. /\ pc = "idle" /\ pc' = "extract" /\ at' = 1 /\ popped' = 0 /\ values' = <<>>
      /\ program' = components \o chain
  BY DEF Serve
<1>2. components \in Seq(Components)
  <2>1. Accepted /\ components = Trimmed
    BY <1>1 DEF ParseInv, LiteralIsParsed
  <2>2. Trimmed \in Seq(LiteralSegments)
    BY TrimmedFacts DEF ParseInv
  <2>3. \A i \in 1 .. Len(Trimmed) : Trimmed[i] \in Components
    BY <2>1, <2>2 DEF Accepted
  <2> QED BY <2>1, <2>2, <2>3
<1>3. program' \in Seq(Elements)
  <2>1. components \in Seq(Elements) /\ chain \in Seq(Elements)
    BY <1>2, ChainsAssumption DEF Elements
  <2> QED BY <1>1, <2>1
<1>4. (Consumed(1) = 0)'
  BY ConsumedNone, PTL
<1>5. Passed(0)' /\ Params(0)' = {}
  BY DEF Passed, Params
<1>6. ValuesOf(0)'
  BY <1>1, <1>5, FS_EmptySet DEF ValuesOf
<1>7. at' - 1 = 0 /\ at' \in 1 .. Len(program') + 1
  BY <1>1, <1>3
<1>8. (popped = Consumed(at))' /\ Passed(at - 1)' /\ ValuesOf(at - 1)'
  BY <1>1, <1>4, <1>5, <1>6, <1>7
<1> QED BY <1>1, <1>3, <1>7, <1>8 DEF ExtractInv, ExtractsSegments

LEMMA ExtractStep == CursorInv /\ ParseInv /\ ExtractInv /\ [Next]_vars => ExtractInv'
<1> SUFFICES ASSUME CursorInv, ParseInv, ExtractInv, [Next]_vars PROVE ExtractInv'
  OBVIOUS
<1>1. CASE Compile
  BY <1>1 DEF Compile, ParseEmpty, ParseMalformed, ParseSegment, ParseCatchAll, CatchAll, ParseEnd,
              ParseNext, Parse, ExtractInv, ExtractsSegments
<1>2. CASE Panic
  BY <1>2 DEF Panic, ExtractInv, ExtractsSegments
<1>3. CASE Release
  BY <1>3 DEF Release, ExtractInv, ExtractsSegments
<1>4. CASE UNCHANGED vars
  <2>1. UNCHANGED <<program, path>> /\ UNCHANGED <<pos, popped, pc, at, values, outcome>>
    BY <1>4 DEF vars, cursor
  <2>2. Failing' = Failing
    BY <2>1, Same DEF Failing
  <2>3. Rest' = Rest
    BY <2>1 DEF Rest
  <2>4. \A n : ValuesOf(n)' <=> ValuesOf(n)
    BY <2>1, Same DEF ValuesOf
  <2>5. ExtractsSegments'
    BY <2>1, <2>2, <2>3, <2>4, Same DEF ExtractInv, ExtractsSegments
  <2> QED BY <2>1, <2>4, <2>5, Same DEF ExtractInv
<1> QED BY <1>1, <1>2, <1>3, <1>4, StaticStep, ParamStep, EosStep, ConvertStep, DrainStep,
           ExtractedStep, ServeStep DEF Next, Extract

(* For paths, literals and chains of any length the extraction is what its *)
(* parts say of the segments of the path (macros lib.rs:103, syntax.rs).   *)
THEOREM SegmentsExtracted == Spec => []ExtractsSegments
<1>1. Init => CursorInv
  BY DEF Init, CursorInv, CursorSound, Served
<1>2. Init => ParseInv
  BY LiteralsAssumption DEF Init, ParseInv, LiteralIsParsed
<1>3. Init => ExtractInv
  BY DEF Init, ExtractInv, ExtractsSegments
<1>4. ExtractInv => ExtractsSegments
  BY DEF ExtractInv
<1> QED BY <1>1, <1>2, <1>3, <1>4, CursorStep, ParseStep, ExtractStep, PTL DEF Spec
=============================================================================
