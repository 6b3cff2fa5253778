------------------------- MODULE SchemaRegistryProofs -------------------------
(***************************************************************************)
(* Proofs about SchemaRegistry, for every number of requests, whatever     *)
(* schemas they bring, and for each of the three compatibility modes.      *)
(***************************************************************************)
EXTENDS SchemaRegistry, TLAPS

-------------------------------------------------------------------------------
(* The compatibility rules.                                                *)

\* What BACKWARD and FULL keep from one version to the next, whatever
\* additionalProperties is.
ShapeKept(old, new) == new.required = old.required /\ PropertiesKept(old, new)

LEMMA ShapeTransitive ==
  ASSUME NEW a \in Schemas, NEW b \in Schemas, NEW c \in Schemas,
         ShapeKept(a, b), ShapeKept(b, c)
  PROVE  ShapeKept(a, c)
BY DEF ShapeKept, PropertiesKept, Schemas

LEMMA CompatibleKeepsShape ==
  ASSUME NEW a \in Schemas, NEW b \in Schemas, NEW mode \in {"BACKWARD", "FULL"},
         Compatible(a, b, mode)
  PROVE  ShapeKept(a, b)
BY DEF Compatible, BackwardCompatible, ShapeKept

\* BACKWARD, FORWARD and FULL are transitive among schemas whose
\* additionalProperties is true or false: checking a candidate against the
\* latest version only is as good as checking it against all of them.
THEOREM CompatibilityIsTransitive ==
  ASSUME NEW a \in Schemas, NEW b \in Schemas, NEW c \in Schemas, NEW mode \in Modes,
         b.additional # "schema",
         Compatible(a, b, mode), Compatible(b, c, mode)
  PROVE  Compatible(a, c, mode)
<1>1. ASSUME NEW x \in Schemas, NEW y \in Schemas, NEW z \in Schemas,
             y.additional # "schema", BackwardCompatible(x, y), BackwardCompatible(y, z)
      PROVE  BackwardCompatible(x, z)
  <2>1. y.additional \in {"open", "closed"}
    BY <1>1 DEF Schemas
  <2>2. ~Tightened(x, z)
    BY <1>1, <2>1 DEF BackwardCompatible, Tightened
  <2>3. z.required = x.required
    BY <1>1 DEF BackwardCompatible
  <2>4. PropertiesKept(x, z)
    BY <1>1 DEF BackwardCompatible, PropertiesKept, Schemas
  <2> QED
    BY <2>2, <2>3, <2>4 DEF BackwardCompatible
<1>2. CASE mode = "BACKWARD"
  BY <1>1, <1>2 DEF Compatible
<1>3. CASE mode = "FORWARD"
  BY <1>1, <1>3 DEF Compatible, ForwardCompatible
<1>4. CASE mode = "FULL"
  BY <1>1, <1>4 DEF Compatible, ForwardCompatible
<1> QED
  BY <1>2, <1>3, <1>4 DEF Modes

\* The promise of BACKWARD, where it holds: every document a closed schema
\* accepts is accepted by a schema of the same shape.
LEMMA ClosedReaders ==
  ASSUME NEW a \in Schemas, NEW b \in Schemas, NEW doc \in Documents,
         a.additional = "closed", ShapeKept(a, b), Accepts(a, doc)
  PROVE  Accepts(b, doc)
<1>1. \A f \in b.required : doc[f] # Absent
  BY DEF ShapeKept, Accepts
<1>2. ASSUME NEW f \in Fields, doc[f] # Absent
      PROVE  b.properties[f] # Absent /\ b.properties[f] \in {doc[f], Untyped}
  <2>1. a.properties[f] # Absent /\ a.properties[f] \in {doc[f], Untyped}
    BY <1>2 DEF Accepts
  <2> QED
    BY <2>1 DEF ShapeKept, PropertiesKept
<1> QED
  BY <1>1, <1>2 DEF Accepts

-------------------------------------------------------------------------------
(* Type correctness.                                                       *)

LEMMA InitType == Init => TypeOK
BY RegistryAssumption DEF Init, TypeOK, Waiting, First

LEMMA NextType == TypeOK /\ [Next]_vars => TypeOK'
<1> SUFFICES ASSUME TypeOK, [Next]_vars
             PROVE  TypeOK'
    OBVIOUS
<1> USE RegistryAssumption DEF TypeOK, Waiting
<1>1. ASSUME NEW r \in Requests, EnsureSubject(r)
      PROVE  TypeOK'
  BY <1>1 DEF EnsureSubject, Call, Goto
<1>2. ASSUME NEW r \in Requests, ReadLatest(r)
      PROVE  TypeOK'
  BY <1>2 DEF ReadLatest, Goto
<1>3. ASSUME NEW r \in Requests, Evaluate(r)
      PROVE  TypeOK'
  BY <1>3 DEF Evaluate, Call, Goto
<1>4. ASSUME NEW r \in Requests, RecordCheck(r)
      PROVE  TypeOK'
  <2>1. <<r, base[r], Passes(r)>> \in Requests \X Nat \X BOOLEAN
    <3>1. Passes(r) \in BOOLEAN
      BY DEF Passes
    <3>2. base[r] \in Nat
      OBVIOUS
    <3> QED
      BY <3>1, <3>2
  <2> QED
    BY <1>4, <2>1 DEF RecordCheck, AfterCheck, Call, Goto
<1>5. ASSUME NEW r \in Requests, RegisterVersion(r)
      PROVE  TypeOK'
  <2>1. CASE NextVersion(r) \in DOMAIN rows
    BY <1>5, <2>1 DEF RegisterVersion, Goto
  <2>2. CASE NextVersion(r) \notin DOMAIN rows
    <3>1. /\ rows' = [v \in DOMAIN rows \cup {base[r] + 1} |->
                        IF v = base[r] + 1 THEN Candidate[r] ELSE rows[v]]
          /\ UNCHANGED <<subject, checks, base, failures>>
          /\ step' = [step EXCEPT ![r] = "201"]
      BY <1>5, <2>2 DEF RegisterVersion, Goto, NextVersion
    <3>2. base[r] \in Nat /\ 1 .. base[r] \subseteq DOMAIN rows
      BY Z3
    <3>3. DOMAIN rows' = DOMAIN rows \cup {base[r] + 1}
      BY <3>1
    <3>4. \A v \in DOMAIN rows' : 1 .. v \subseteq DOMAIN rows'
      BY <3>2, <3>3
    <3>5. DOMAIN rows' \subseteq Nat \ {0}
      BY <3>2, <3>3
    <3>6. rows' \in [DOMAIN rows' -> Schemas]
      BY <3>1, <3>3
    <3> QED
      BY <3>1, <3>3, <3>4, <3>5, <3>6
  <2> QED
    BY <2>1, <2>2
<1>6. ASSUME NEW r \in Requests, Fail(r)
      PROVE  TypeOK'
  BY <1>6 DEF Fail, Goto
<1>7. ASSUME NEW r \in Requests, Retry(r)
      PROVE  TypeOK'
  BY <1>7 DEF Retry, Call, Goto, First
<1>8. CASE UNCHANGED vars
  BY <1>8 DEF vars
<1> QED
  BY <1>1, <1>2, <1>3, <1>4, <1>5, <1>6, <1>7, <1>8 DEF Next

\* Every row is a schema, and the versions are numbered from 1 without a gap.
THEOREM VersionsWellNumbered == Spec => []TypeOK
BY InitType, NextType, PTL DEF Spec

-------------------------------------------------------------------------------
(* Requests and rows.                                                      *)

\* From its check to its insert, a registration has a candidate that passed
\* against the version before the one it will insert, and the check is on record.
RequestInv ==
    \A r \in Requests :
       /\ r \notin DryRuns /\ step[r] \in {"latest", "evaluate", "record", "insert"} =>
             subject = Mode
       /\ step[r] = "insert" => r \notin DryRuns /\ Passes(r) /\ <<r, base[r], TRUE>> \in checks

\* Compatibility with all earlier versions: of shape, and altogether.
ShapeInv ==
    Mode \in {"BACKWARD", "FULL"} =>
       \A i, j \in DOMAIN rows : i < j => ShapeKept(rows[i], rows[j])

HistoryInv ==
    RequestInv /\ ShapeInv /\ HistoryCompatible /\ ChecksAreAgainstPredecessor

LEMMA InitHistory == Init => HistoryInv
BY DEF Init, First, HistoryInv, RequestInv, ShapeInv, HistoryCompatible,
       ChecksAreAgainstPredecessor

\* A step leaves the rows alone, or one request appends its candidate.
LEMMA RowsGrow ==
  ASSUME TypeOK, [Next]_vars
  PROVE  \/ rows' = rows
         \/ \E r \in Requests :
               /\ step[r] = "insert"
               /\ base[r] \in Nat
               /\ base[r] + 1 \notin DOMAIN rows
               /\ DOMAIN rows = 1 .. base[r]
               /\ rows' = [v \in 1 .. base[r] + 1 |->
                              IF v = base[r] + 1 THEN Candidate[r] ELSE rows[v]]
               /\ UNCHANGED <<subject, checks>>
<1>1. ASSUME NEW r \in Requests, RegisterVersion(r), rows' # rows
      PROVE  /\ step[r] = "insert"
             /\ base[r] \in Nat
             /\ base[r] + 1 \notin DOMAIN rows
             /\ DOMAIN rows = 1 .. base[r]
             /\ rows' = [v \in 1 .. base[r] + 1 |->
                            IF v = base[r] + 1 THEN Candidate[r] ELSE rows[v]]
             /\ UNCHANGED <<subject, checks>>
  <2>1. /\ step[r] = "insert"
        /\ base[r] + 1 \notin DOMAIN rows
        /\ rows' = [v \in DOMAIN rows \cup {base[r] + 1} |->
                       IF v = base[r] + 1 THEN Candidate[r] ELSE rows[v]]
        /\ UNCHANGED <<subject, checks>>
    BY <1>1 DEF RegisterVersion, NextVersion
  <2>2. base[r] \in DOMAIN rows \cup {0} /\ base[r] \in Nat
    BY DEF TypeOK
  <2>3. ASSUME NEW v \in DOMAIN rows
        PROVE  v \in 1 .. base[r]
    <3>1. v \in Nat \ {0} /\ 1 .. v \subseteq DOMAIN rows
      BY DEF TypeOK
    <3>2. base[r] + 1 \notin 1 .. v
      BY <2>1, <3>1
    <3> QED
      BY <2>2, <3>1, <3>2
  <2>4. 1 .. base[r] \subseteq DOMAIN rows
    BY <2>2 DEF TypeOK
  <2>5. DOMAIN rows = 1 .. base[r]
    BY <2>3, <2>4
  <2>6. DOMAIN rows \cup {base[r] + 1} = 1 .. base[r] + 1
    BY <2>2, <2>5
  <2> QED
    BY <2>1, <2>2, <2>5, <2>6
<1>2. ASSUME NEW r \in Requests,
             \/ EnsureSubject(r) \/ ReadLatest(r) \/ Evaluate(r) \/ RecordCheck(r)
             \/ Fail(r) \/ Retry(r)
      PROVE  rows' = rows
  BY <1>2 DEF EnsureSubject, ReadLatest, Evaluate, RecordCheck, Fail, Retry
<1>3. CASE UNCHANGED vars
  BY <1>3 DEF vars
<1> QED
  BY <1>1, <1>2, <1>3 DEF Next

LEMMA NextRequest == TypeOK /\ RequestInv /\ [Next]_vars => RequestInv'
<1> SUFFICES ASSUME TypeOK, RequestInv, [Next]_vars, NEW q \in Requests
             PROVE  /\ q \notin DryRuns /\ step'[q] \in {"latest", "evaluate", "record", "insert"} =>
                          subject' = Mode
                    /\ step'[q] = "insert" =>
                          q \notin DryRuns /\ Passes(q)' /\ <<q, base'[q], TRUE>> \in checks'
    BY DEF RequestInv
<1> DEFINE GoodRequest ==
             /\ q \notin DryRuns /\ step'[q] \in {"latest", "evaluate", "record", "insert"} =>
                   subject' = Mode
             /\ step'[q] = "insert" =>
                   q \notin DryRuns /\ Passes(q)' /\ <<q, base'[q], TRUE>> \in checks'
<1> USE RegistryAssumption
\* A row once read stays as it is, so a passed check stays passed.
<1>1. ASSUME Passes(q), subject' = subject, base'[q] = base[q]
      PROVE  Passes(q)'
  <2>1. CASE base[q] = 0
    BY <1>1, <2>1 DEF Passes
  <2>2. CASE base[q] # 0
    <3>1. base[q] \in DOMAIN rows
      BY <2>2 DEF TypeOK
    <3>2. rows'[base[q]] = rows[base[q]]
      BY <3>1, RowsGrow
    <3>3. Compatible(rows[base[q]], Candidate[q], subject)
      BY <1>1, <2>2 DEF Passes
    <3> QED
      BY <1>1, <3>2, <3>3 DEF Passes
  <2> QED
    BY <2>1, <2>2
<1>2. ASSUME UNCHANGED subject, checks \subseteq checks', base'[q] = base[q], step'[q] = step[q]
      PROVE  GoodRequest
  BY <1>1, <1>2 DEF RequestInv
<1>3. ASSUME NEW r \in Requests, r # q, Next,
             \/ ReadLatest(r) \/ Evaluate(r) \/ RecordCheck(r) \/ RegisterVersion(r)
             \/ Fail(r) \/ Retry(r)
      PROVE  /\ UNCHANGED subject /\ checks \subseteq checks'
             /\ base'[q] = base[q] /\ step'[q] = step[q]
  BY <1>3 DEF ReadLatest, Evaluate, RecordCheck, RegisterVersion, Fail, Retry, Call, Goto, TypeOK
<1>4. ASSUME NEW r \in Requests, EnsureSubject(r)
      PROVE  /\ subject' = Mode /\ UNCHANGED <<rows, checks, base>>
             /\ r # q => step'[q] = step[q]
             /\ r = q => step'[q] = "latest"
  BY <1>4 DEF EnsureSubject, Call, Goto, TypeOK
<1>5. ASSUME NEW r \in Requests, EnsureSubject(r)
      PROVE  GoodRequest
  <2>1. step'[q] = "insert" => step[q] = "insert" /\ subject = Mode
    BY <1>4, <1>5 DEF RequestInv
  <2> QED
    BY <1>1, <1>4, <1>5, <2>1 DEF RequestInv
<1>6. ASSUME ReadLatest(q) \/ Evaluate(q) \/ RegisterVersion(q) \/ Fail(q) \/ Retry(q)
      PROVE  GoodRequest
  BY <1>6 DEF ReadLatest, Evaluate, RegisterVersion, Fail, Retry, First, Call, Goto, TypeOK,
              RequestInv
<1>7. ASSUME RecordCheck(q)
      PROVE  GoodRequest
  <2>1. /\ step[q] = "record" /\ UNCHANGED <<subject, rows, base>>
        /\ step'[q] = "insert" => q \notin DryRuns /\ Passes(q)
        /\ <<q, base[q], Passes(q)>> \in checks'
    BY <1>7 DEF RecordCheck, AfterCheck, Call, Goto, TypeOK
  <2>2. Passes(q) => Passes(q) = TRUE
    BY DEF Passes
  <2> QED
    BY <1>1, <2>1, <2>2 DEF RequestInv
<1>8. CASE UNCHANGED vars
  BY <1>2, <1>8 DEF vars
<1> QED
  BY <1>2, <1>3, <1>5, <1>6, <1>7, <1>8 DEF Next

\* The step that matters: a request appends its candidate behind the row it
\* was checked against.
LEMMA NextHistory == TypeOK /\ HistoryInv /\ [Next]_vars => HistoryInv'
<1> SUFFICES ASSUME TypeOK, HistoryInv, [Next]_vars
             PROVE  HistoryInv'
    OBVIOUS
<1> USE RegistryAssumption
<1>1. RequestInv'
  BY NextRequest DEF HistoryInv
<1>2. TypeOK'
  BY NextType
<1>3. CASE rows' = rows
  <2>1. checks \subseteq checks'
    BY DEF Next, vars, EnsureSubject, ReadLatest, Evaluate, RecordCheck, RegisterVersion,
           Fail, Retry
  <2> QED
    BY <1>1, <1>3, <2>1
       DEF HistoryInv, ShapeInv, HistoryCompatible, ChecksAreAgainstPredecessor
<1>4. ASSUME NEW r \in Requests, NEW b \in Nat, NEW new \in Schemas,
             b = base[r], new = Candidate[r],
             step[r] = "insert",
             DOMAIN rows = 1 .. b,
             rows' = [v \in 1 .. b + 1 |-> IF v = b + 1 THEN new ELSE rows[v]],
             UNCHANGED <<subject, checks>>
      PROVE  HistoryInv'
  <2>1. /\ DOMAIN rows' = 1 .. b + 1
        /\ rows'[b + 1] = new
        /\ \A v \in 1 .. b : rows'[v] = rows[v] /\ rows[v] \in Schemas
    BY <1>4 DEF TypeOK
  <2>2. b > 0 => Compatible(rows[b], new, Mode)
    <3>1. Passes(r) /\ subject = Mode
      BY <1>4 DEF HistoryInv, RequestInv
    <3> QED
      BY <1>4, <3>1 DEF Passes
  <2>3. ShapeInv'
    <3> SUFFICES ASSUME Mode \in {"BACKWARD", "FULL"},
                        NEW i \in 1 .. b + 1, NEW j \in 1 .. b + 1, i < j
                 PROVE  ShapeKept(rows'[i], rows'[j])
      BY <2>1 DEF ShapeInv
    <3>1. CASE j \in 1 .. b
      <4>1. i \in 1 .. b
        BY <3>1
      <4> QED
        BY <1>4, <2>1, <3>1, <4>1 DEF HistoryInv, ShapeInv
    <3>2. CASE j = b + 1
      <4>1. i \in 1 .. b /\ b \in 1 .. b
        BY <3>2
      <4>2. ShapeKept(rows[b], new)
        BY <2>1, <2>2, <4>1, CompatibleKeepsShape
      <4>3. CASE i = b
        BY <2>1, <3>2, <4>1, <4>2, <4>3
      <4>4. CASE i < b
        <5>1. ShapeKept(rows[i], rows[b])
          BY <1>4, <4>1, <4>4 DEF HistoryInv, ShapeInv
        <5>2. rows[i] \in Schemas /\ rows[b] \in Schemas
          BY <2>1, <4>1
        <5>3. ShapeKept(rows[i], new)
          BY <4>2, <5>1, <5>2, ShapeTransitive
        <5> QED
          BY <2>1, <3>2, <4>1, <5>3
      <4> QED
        BY <4>1, <4>3, <4>4
    <3> QED
      BY <3>1, <3>2
  <2>4. HistoryCompatible'
    <3> SUFFICES ASSUME NEW i \in 1 .. b + 1, NEW j \in 1 .. b + 1, i < j,
                        \A k \in i .. j : rows'[k].additional # "schema"
                 PROVE  Compatible(rows'[i], rows'[j], Mode)
      BY <2>1 DEF HistoryCompatible
    <3>1. CASE j \in 1 .. b
      <4>1. i \in 1 .. b /\ i .. j \subseteq 1 .. b
        BY <3>1
      <4>2. \A k \in i .. j : rows[k].additional # "schema"
        BY <2>1, <4>1
      <4> QED
        BY <1>4, <2>1, <3>1, <4>1, <4>2 DEF HistoryInv, HistoryCompatible
    <3>2. CASE j = b + 1
      <4>1. i \in 1 .. b /\ b \in 1 .. b /\ b \in i .. j /\ i .. b \subseteq 1 .. b
            /\ i .. b \subseteq i .. j
        BY <3>2
      <4>2. Compatible(rows[b], new, Mode) /\ rows[b].additional # "schema"
        BY <2>1, <2>2, <4>1
      <4>3. CASE i = b
        BY <2>1, <3>2, <4>1, <4>2, <4>3
      <4>4. CASE i < b
        <5>1. \A k \in i .. b : rows[k].additional # "schema"
          BY <2>1, <4>1
        <5>2. Compatible(rows[i], rows[b], Mode)
          BY <1>4, <4>1, <4>4, <5>1 DEF HistoryInv, HistoryCompatible
        <5>3. rows[i] \in Schemas /\ rows[b] \in Schemas
          BY <2>1, <4>1
        <5>4. Compatible(rows[i], new, Mode)
          BY <4>2, <5>2, <5>3, CompatibilityIsTransitive
        <5> QED
          BY <2>1, <3>2, <4>1, <5>4
      <4> QED
        BY <4>1, <4>3, <4>4
    <3> QED
      BY <3>1, <3>2
  <2>5. ChecksAreAgainstPredecessor'
    <3>1. ASSUME NEW v \in 1 .. b + 1
          PROVE  \E q \in Requests \ DryRuns : Candidate[q] = rows'[v] /\ <<q, v - 1, TRUE>> \in checks'
      <4>1. CASE v = b + 1
        <5>1. r \in Requests \ DryRuns /\ <<r, b, TRUE>> \in checks
          BY <1>4 DEF HistoryInv, RequestInv
        <5>2. v - 1 = b
          BY <4>1
        <5> QED
          BY <1>4, <2>1, <4>1, <5>1, <5>2
      <4>2. CASE v \in 1 .. b
        <5>1. v \in DOMAIN rows /\ rows'[v] = rows[v] /\ checks' = checks
          BY <1>4, <2>1, <4>2
        <5>2. PICK q \in Requests \ DryRuns : Candidate[q] = rows[v] /\ <<q, v - 1, TRUE>> \in checks
          BY <5>1 DEF HistoryInv, ChecksAreAgainstPredecessor
        <5> QED
          BY <5>1, <5>2
      <4>3. v = b + 1 \/ v \in 1 .. b
        BY <1>4, <3>1
      <4> QED
        BY <4>1, <4>2, <4>3
    <3> QED
      BY <2>1, <3>1 DEF ChecksAreAgainstPredecessor
  <2> QED
    BY <1>1, <2>3, <2>4, <2>5 DEF HistoryInv
<1>5. \A r \in Requests : Candidate[r] \in Schemas
  OBVIOUS
<1> QED
  BY <1>3, <1>4, <1>5, RowsGrow

\* Whatever requests race, every version is compatible with all earlier ones.
THEOREM HistoryStaysCompatible == Spec => []HistoryCompatible
<1>1. HistoryInv => HistoryCompatible
  BY DEF HistoryInv
<1> QED
  BY <1>1, InitType, NextType, InitHistory, NextHistory, PTL DEF Spec

\* No version is there that was not checked against the one before it.
THEOREM EveryVersionWasChecked == Spec => []ChecksAreAgainstPredecessor
<1>1. HistoryInv => ChecksAreAgainstPredecessor
  BY DEF HistoryInv
<1> QED
  BY <1>1, InitType, NextType, InitHistory, NextHistory, PTL DEF Spec

\* Under BACKWARD and FULL, the data of a closed version is readable for ever.
THEOREM ClosedDataIsSafe == Spec => []ClosedDataStaysReadable
<1>1. TypeOK /\ HistoryInv => ClosedDataStaysReadable
  <2> SUFFICES ASSUME TypeOK, HistoryInv, Mode \in {"BACKWARD", "FULL"},
                      NEW i \in DOMAIN rows, NEW j \in DOMAIN rows, i < j,
                      rows[i].additional = "closed",
                      NEW doc \in Documents, Accepts(rows[i], doc)
               PROVE  Accepts(rows[j], doc)
    BY DEF ClosedDataStaysReadable
  <2>1. rows[i] \in Schemas /\ rows[j] \in Schemas
    BY DEF TypeOK
  <2>2. ShapeKept(rows[i], rows[j])
    BY DEF HistoryInv, ShapeInv
  <2> QED
    BY <2>1, <2>2, ClosedReaders
<1> QED
  BY <1>1, InitType, NextType, InitHistory, NextHistory, PTL DEF Spec

\* A version never changes and never goes away.
THEOREM VersionsStay == Spec => VersionsImmutable
<1>1. TypeOK /\ [Next]_vars =>
         [\A v \in DOMAIN rows : v \in DOMAIN rows' /\ rows'[v] = rows[v]]_vars
  BY RowsGrow
<1> QED
  BY <1>1, InitType, NextType, PTL DEF Spec, VersionsImmutable
===============================================================================
