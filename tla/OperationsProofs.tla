---------------------------- MODULE OperationsProofs ---------------------------
(***************************************************************************)
(* Proofs about what runs beside the services, one part per module: the    *)
(* identity provider's keys, the restore drill, the quality checks, the    *)
(* console's gauges and the batch DAG.  The parts share no variable, and   *)
(* no part uses a lemma of another.                                        *)
(***************************************************************************)
EXTENDS SigningKeys, BackupDrill, DataQuality, OpsSignals, BatchJobs, FiniteSetTheorems, TLAPS

-------------------------------------------------------------------------------
(* The keys: for any number of threads and keys, any life of the cache and *)
(* any duration of a call.                                                 *)

\* The steps of a call after it found a key set in the cache or stored one.
Holding == {"stamp", "lookup", "return"}

Calls ==
    [step : {"idle", "fetch", "store"} \cup Holding, kid : Kids, got : SUBSET Kids,
     since : Nat, lookups : Nat]

\* Types; a call in progress is no older than CallTime.
KeysType ==
    /\ clock \in Nat /\ fetchedAt \in Nat /\ fetchedAt <= clock
    /\ published \in SUBSET Kids /\ trusted \in SUBSET Kids
    /\ keys \in {NoKeys} \cup SUBSET Kids
    /\ withdrawn \in [Kids -> Nat] /\ \A k \in Kids : withdrawn[k] <= clock
    /\ thread \in [Threads -> Calls]
    /\ \A th \in Threads : thread[th].step # "idle" =>
          thread[th].since <= clock /\ clock <= thread[th].since + CallTime
    /\ \A th \in Threads : thread[th].step \in Holding => keys # NoKeys

\* A withdrawn key that the client still holds.
Lingers(k) == keys # NoKeys /\ k \in keys /\ k \notin published

\* A call that still carries a withdrawn key read the provider before the
\* withdrawal; so it stores the key within CallTime of it.  Whoever stored
\* before that call stamps within two CallTimes, and whoever finds the
\* cache fresh then began its call in time.
KeysInv ==
    \A k \in Kids :
      /\ \A th \in Threads :
            thread[th].step = "store" /\ k \in thread[th].got /\ k \notin published =>
                thread[th].since <= withdrawn[k]
      /\ Lingers(k) =>
            /\ fetchedAt <= withdrawn[k] + 2 * CallTime
            /\ \A th \in Threads :
                  /\ thread[th].step = "stamp" => thread[th].since <= withdrawn[k] + CallTime
                  /\ thread[th].step \in Holding =>
                        thread[th].since <= withdrawn[k] + CacheSeconds + 2 * CallTime
      /\ k \in trusted /\ k \notin published =>
            clock <= withdrawn[k] + CacheSeconds + 3 * CallTime

LEMMA WaitingIsCall == Waiting \in Calls
BY KeysAssumption DEF Waiting, Calls

LEMMA InitKeys == KeysInit => KeysType /\ KeysInv
<1> SUFFICES ASSUME KeysInit PROVE KeysType /\ KeysInv
  OBVIOUS
<1>1. \A th \in Threads : thread[th] = Waiting
  BY DEF KeysInit
<1>2. Waiting.step = "idle"
  BY DEF Waiting
<1>3. KeysType
  BY <1>1, <1>2, WaitingIsCall DEF KeysInit, KeysType, Holding
<1>4. KeysInv
  BY <1>1, <1>2 DEF KeysInit, KeysInv, Lingers, Holding
<1> QED
  BY <1>3, <1>4

LEMMA NextKeysType == KeysType /\ [KeysNext]_keysVars => KeysType'
<1> SUFFICES ASSUME KeysType, [KeysNext]_keysVars PROVE KeysType'
  OBVIOUS
<1> USE KeysAssumption, WaitingIsCall
<1>0. Waiting.step = "idle"
  BY DEF Waiting
<1>1. ASSUME NEW th \in Threads, NEW k \in Kids, GetKey(th, k)
      PROVE  KeysType'
  <2>1. PICK s \in {"fetch", "lookup"} :
           /\ s = "lookup" => keys # NoKeys
           /\ thread' = [thread EXCEPT ![th] = [Waiting EXCEPT !.step = s, !.kid = k, !.since = clock]]
    BY <1>1 DEF GetKey, CacheIsStale
  <2>2. PICK new \in Calls :
           /\ new.step = s /\ new.since = clock
           /\ thread' = [thread EXCEPT ![th] = new]
    BY <2>1 DEF Calls, Holding, KeysType
  <2>3. UNCHANGED <<clock, published, rotations, withdrawn, keys, fetchedAt, trusted>>
    BY <1>1 DEF GetKey
  <2>4. \A o \in Threads : thread'[o] = IF o = th THEN new ELSE thread[o]
    BY <2>2 DEF KeysType
  <2>5. clock <= clock + CallTime
    BY DEF KeysType
  <2> QED
    BY <2>1, <2>2, <2>3, <2>4, <2>5 DEF KeysType, Holding
<1>2. ASSUME NEW th \in Threads, FetchKeys(th)
      PROVE  KeysType'
  BY <1>0, <1>2 DEF FetchKeys, Raise, KeysType, Calls, Holding
<1>3. ASSUME NEW th \in Threads, StoreKeys(th)
      PROVE  KeysType'
  BY <1>3 DEF StoreKeys, KeysType, Calls, Holding
<1>4. ASSUME NEW th \in Threads, StampKeys(th)
      PROVE  KeysType'
  BY <1>4 DEF StampKeys, Move, KeysType, Calls, Holding
<1>5. ASSUME NEW th \in Threads, Lookup(th)
      PROVE  KeysType'
  BY <1>0, <1>5 DEF Lookup, Move, Raise, KeysType, Calls, Holding
<1>6. ASSUME NEW th \in Threads, ReturnKey(th)
      PROVE  KeysType'
  BY <1>0, <1>6 DEF ReturnKey, Raise, KeysType, Calls, Holding
<1>7. ASSUME NEW k \in Kids, Rotate(k)
      PROVE  KeysType'
  BY <1>7 DEF Rotate, KeysType
<1>8. ASSUME Pass
      PROVE  KeysType'
  <2>1. clock' = clock + 1 /\ UNCHANGED <<published, withdrawn, keys, fetchedAt, thread>> /\ trusted' = {}
    BY <1>8 DEF Pass
  <2>2. \A th \in Threads : thread[th].step # "idle" =>
           thread[th].since <= clock' /\ clock' <= thread[th].since + CallTime
    BY <1>8, <2>1 DEF Pass, KeysType, Calls
  <2>3. fetchedAt <= clock' /\ \A k \in Kids : withdrawn[k] <= clock'
    BY <2>1 DEF KeysType
  <2> QED
    BY <2>1, <2>2, <2>3 DEF KeysType
<1>9. CASE UNCHANGED keysVars
  BY <1>9 DEF keysVars, KeysType
<1> QED
  BY <1>1, <1>2, <1>3, <1>4, <1>5, <1>6, <1>7, <1>8, <1>9 DEF KeysNext

LEMMA NextKeys == KeysType /\ KeysInv /\ [KeysNext]_keysVars => KeysInv'
<1> SUFFICES ASSUME KeysType, KeysInv, [KeysNext]_keysVars PROVE KeysInv'
  OBVIOUS
<1> USE KeysAssumption
<1>0. Waiting.step = "idle" /\ Waiting \in Calls
  BY WaitingIsCall DEF Waiting
<1>1. ASSUME NEW th \in Threads, NEW k \in Kids, GetKey(th, k)
      PROVE  KeysInv'
  <2>1. PICK s \in {"fetch", "lookup"} :
           /\ s = "lookup" => clock - fetchedAt <= CacheSeconds
           /\ thread' = [thread EXCEPT ![th] = [Waiting EXCEPT !.step = s, !.kid = k, !.since = clock]]
    <3>1. CASE CacheIsStale
      BY <1>1, <3>1 DEF GetKey
    <3>2. CASE ~CacheIsStale
      <4>1. clock - fetchedAt <= CacheSeconds
        BY <3>2 DEF CacheIsStale, KeysType
      <4>2. thread' = [thread EXCEPT ![th] = [Waiting EXCEPT !.step = "lookup", !.kid = k, !.since = clock]]
        BY <1>1, <3>2 DEF GetKey
      <4> QED
        BY <4>1, <4>2
    <3> QED
      BY <3>1, <3>2
  <2>2. thread'[th].step = s /\ thread'[th].since = clock
    BY <1>0, <2>1 DEF KeysType, Calls
  <2>3. \A o \in Threads : o # th => thread'[o] = thread[o]
    BY <2>1 DEF KeysType
  <2>4. UNCHANGED <<clock, published, rotations, withdrawn, keys, fetchedAt, trusted>>
    BY <1>1 DEF GetKey
  <2>5. ASSUME NEW c \in Kids, Lingers(c), s = "lookup"
        PROVE  clock <= withdrawn[c] + CacheSeconds + 2 * CallTime
    <3>1. fetchedAt <= withdrawn[c] + 2 * CallTime
      BY <2>5 DEF KeysInv
    <3> QED
      BY <2>1, <2>5, <3>1 DEF KeysType
  <2>6. \A c \in Kids : Lingers(c)' = Lingers(c)
    BY <2>4 DEF Lingers
  <2> QED
    BY <2>1, <2>2, <2>3, <2>4, <2>5, <2>6 DEF KeysInv, Holding
<1>2. ASSUME NEW th \in Threads, FetchKeys(th)
      PROVE  KeysInv'
  <2>1. UNCHANGED <<clock, published, rotations, withdrawn, keys, fetchedAt, trusted>>
    BY <1>2 DEF FetchKeys
  <2>2. \A o \in Threads : o # th => thread'[o] = thread[o]
    BY <1>2 DEF FetchKeys, Raise, KeysType
  <2>3. \/ thread'[th].step = "store" /\ thread'[th].got = published
        \/ thread'[th].step = "idle"
    BY <1>0, <1>2 DEF FetchKeys, Raise, KeysType, Calls
  <2>4. \A c \in Kids : Lingers(c)' = Lingers(c)
    BY <2>1 DEF Lingers
  <2> QED
    BY <2>1, <2>2, <2>3, <2>4 DEF KeysInv, Holding
\* The store: the key set changes, and with it which keys linger.
<1>3. ASSUME NEW th \in Threads, StoreKeys(th)
      PROVE  KeysInv'
  <2>1. /\ thread[th].step = "store" /\ keys' = thread[th].got
        /\ UNCHANGED <<clock, published, rotations, withdrawn, fetchedAt, trusted>>
    BY <1>3 DEF StoreKeys
  <2>2. /\ thread'[th].step = "stamp" /\ thread'[th].since = thread[th].since
        /\ thread'[th].got = {}
        /\ \A o \in Threads : o # th => thread'[o] = thread[o]
    BY <1>3 DEF StoreKeys, KeysType, Calls
  <2>3. ASSUME NEW c \in Kids, Lingers(c)'
        PROVE  /\ thread[th].since <= withdrawn[c] /\ clock <= withdrawn[c] + CallTime
               /\ withdrawn[c] \in Nat
    <3>1. c \in thread[th].got /\ c \notin published
      BY <2>1, <2>3 DEF Lingers
    <3>2. thread[th].since <= withdrawn[c]
      BY <2>1, <3>1 DEF KeysInv
    <3>3. clock <= thread[th].since + CallTime /\ thread[th].since \in Nat
      BY <2>1 DEF KeysType, Calls
    <3> QED
      BY <3>2, <3>3 DEF KeysType
  <2>4. ASSUME NEW c \in Kids, Lingers(c)'
        PROVE  /\ fetchedAt' <= withdrawn'[c] + 2 * CallTime
               /\ \A o \in Threads :
                     /\ thread'[o].step = "stamp" => thread'[o].since <= withdrawn'[c] + CallTime
                     /\ thread'[o].step \in Holding =>
                           thread'[o].since <= withdrawn'[c] + CacheSeconds + 2 * CallTime
    <3>1. fetchedAt <= clock /\ fetchedAt \in Nat /\ clock \in Nat
      BY DEF KeysType
    <3>2. ASSUME NEW o \in Threads, thread'[o].step \in Holding
          PROVE  thread'[o].since \in Nat /\ thread'[o].since <= clock
      BY <2>1, <2>2, <3>2 DEF KeysType, Calls, Holding
    <3>3. \A o \in Threads : thread'[o].step = "stamp" => thread'[o].step \in Holding
      BY DEF Holding
    <3> QED
      BY <2>1, <2>3, <2>4, <3>1, <3>2, <3>3
  <2> QED
    BY <2>1, <2>2, <2>4 DEF KeysInv
<1>4. ASSUME NEW th \in Threads, StampKeys(th)
      PROVE  KeysInv'
  <2>1. /\ thread[th].step = "stamp" /\ fetchedAt' = clock
        /\ UNCHANGED <<clock, published, rotations, withdrawn, keys, trusted>>
    BY <1>4 DEF StampKeys
  <2>2. /\ thread'[th].step = "lookup" /\ thread'[th].since = thread[th].since
        /\ \A o \in Threads : o # th => thread'[o] = thread[o]
    BY <1>4 DEF StampKeys, Move, KeysType, Calls
  <2>3. clock <= thread[th].since + CallTime /\ thread[th].since \in Nat /\ clock \in Nat
    BY <2>1 DEF KeysType, Calls
  <2>4. ASSUME NEW c \in Kids, Lingers(c)
        PROVE  /\ clock <= withdrawn[c] + 2 * CallTime
               /\ thread[th].since <= withdrawn[c] + CacheSeconds + 2 * CallTime
    <3>1. thread[th].since <= withdrawn[c] + CallTime /\ withdrawn[c] \in Nat
      BY <2>1, <2>4 DEF KeysInv, KeysType
    <3> QED
      BY <2>3, <3>1
  <2>5. \A c \in Kids : Lingers(c)' = Lingers(c)
    BY <2>1 DEF Lingers
  <2> QED
    BY <2>1, <2>2, <2>4, <2>5 DEF KeysInv, Holding
<1>5. ASSUME NEW th \in Threads, Lookup(th)
      PROVE  KeysInv'
  <2>1. /\ thread[th].step = "lookup"
        /\ UNCHANGED <<clock, published, rotations, withdrawn, keys, fetchedAt, trusted>>
    BY <1>5 DEF Lookup
  <2>2. \A o \in Threads : o # th => thread'[o] = thread[o]
    BY <1>5 DEF Lookup, Move, Raise, KeysType
  <2>3. \/ thread'[th].step \in {"idle", "fetch"}
        \/ thread'[th].step \in {"lookup", "return"} /\ thread'[th].since = thread[th].since
    BY <1>0, <1>5 DEF Lookup, Move, Raise, KeysType, Calls
  <2>4. \A c \in Kids : Lingers(c)' = Lingers(c)
    BY <2>1 DEF Lingers
  <2> QED
    BY <2>1, <2>2, <2>3, <2>4 DEF KeysInv, Holding
<1>6. ASSUME NEW th \in Threads, ReturnKey(th)
      PROVE  KeysInv'
  <2>1. /\ thread[th].step = "return"
        /\ UNCHANGED <<clock, published, rotations, withdrawn, keys, fetchedAt>>
        /\ trusted' \subseteq keys
    BY <1>6 DEF ReturnKey
  <2>2. /\ thread'[th].step = "idle"
        /\ \A o \in Threads : o # th => thread'[o] = thread[o]
    BY <1>0, <1>6 DEF ReturnKey, Raise, KeysType
  <2>3. /\ keys # NoKeys /\ thread[th].since \in Nat
        /\ clock <= thread[th].since + CallTime /\ clock \in Nat
    BY <2>1 DEF KeysType, Calls, Holding
  <2>4. ASSUME NEW c \in Kids, c \in trusted', c \notin published
        PROVE  clock <= withdrawn[c] + CacheSeconds + 3 * CallTime
    <3>1. Lingers(c)
      BY <2>1, <2>3, <2>4 DEF Lingers
    <3>2. thread[th].since <= withdrawn[c] + CacheSeconds + 2 * CallTime /\ withdrawn[c] \in Nat
      BY <2>1, <3>1 DEF KeysInv, KeysType, Holding
    <3> QED
      BY <2>3, <3>2
  <2>5. \A c \in Kids : Lingers(c)' = Lingers(c)
    BY <2>1 DEF Lingers
  <2> QED
    BY <2>1, <2>2, <2>4, <2>5 DEF KeysInv, Holding
<1>7. ASSUME NEW k \in Kids, Rotate(k)
      PROVE  KeysInv'
  <2>1. UNCHANGED <<clock, keys, fetchedAt, thread, trusted>>
    BY <1>7 DEF Rotate
  <2>2. ASSUME NEW c \in Kids, c \notin published'
        PROVE  \/ c \notin published /\ withdrawn'[c] = withdrawn[c]
               \/ withdrawn'[c] = clock
    BY <1>7, <2>2 DEF Rotate, KeysType
  <2>3. \A th \in Threads : thread[th].step # "idle" => thread[th].since \in Nat /\ thread[th].since <= clock
    BY DEF KeysType, Calls
  <2>4. clock \in Nat /\ fetchedAt <= clock /\ fetchedAt \in Nat
    BY DEF KeysType
  <2>5. ASSUME NEW c \in Kids, withdrawn'[c] = clock
        PROVE  /\ \A th \in Threads : thread[th].step # "idle" =>
                     /\ thread[th].since <= withdrawn'[c]
                     /\ thread[th].since <= withdrawn'[c] + CallTime
                     /\ thread[th].since <= withdrawn'[c] + CacheSeconds + 2 * CallTime
               /\ fetchedAt <= withdrawn'[c] + 2 * CallTime
               /\ clock <= withdrawn'[c] + CacheSeconds + 3 * CallTime
    BY <2>3, <2>4, <2>5
  <2> QED
    BY <2>1, <2>2, <2>5 DEF KeysInv, Lingers, Holding
<1>8. ASSUME Pass
      PROVE  KeysInv'
  <2>1. UNCHANGED <<published, withdrawn, keys, fetchedAt, thread>> /\ trusted' = {}
    BY <1>8 DEF Pass
  <2> QED
    BY <2>1 DEF KeysInv, Lingers
<1>9. CASE UNCHANGED keysVars
  BY <1>9 DEF keysVars, KeysInv, Lingers
<1> QED
  BY <1>1, <1>2, <1>3, <1>4, <1>5, <1>6, <1>7, <1>8, <1>9 DEF KeysNext

\* However many threads refresh the unlocked cache over each other, a withdrawn
\* key verifies tokens no longer than the cache lives and three calls take.
THEOREM WithdrawnKeysExpire == KeysSpec => []WithdrawnKeyExpires
<1>1. KeysType /\ KeysInv => WithdrawnKeyExpires
  BY DEF KeysType, KeysInv, WithdrawnKeyExpires
<1> QED
  BY <1>1, InitKeys, NextKeysType, NextKeys, PTL DEF KeysSpec

-------------------------------------------------------------------------------
(* The restore drill: nobody else touches the files and the database of a  *)
(* drill that has its second for itself.                                   *)

DrillSteps ==
    {"idle", "backup", "dumping", "counting", "creating", "restoring", "verifying", "finally", "ended"}
Contents == [TableSet -> SUBSET Rows]

DrillRecords ==
    [step : DrillSteps, db : Names \cup {Nothing}, name : Names \cup {Nothing}, snapshot : Contents,
     counts : Seq(Nat), expected : Seq(Nat) \cup {Nothing}, restored : Contents \cup {Nothing},
     verdict : {"passed", "failed", Nothing}, since : Nat]

DrillTypeOK ==
    /\ source \in Contents
    /\ dumps \in [Names -> Contents \cup {Nothing}]
    /\ manifests \in [Names -> Seq(Nat) \cup {Nothing}]
    /\ scratch \in [Names -> Contents \cup {Nothing}]
    /\ second \in Names /\ written \in Nat
    /\ drill \in [Drills -> DrillRecords]

Dumped(d) == d.step \notin {"idle", "backup"} /\ d.name # Nothing

\* Names are given once, and a verdict ends a drill.
RecordIsSound(d, now) ==
    /\ d.step = "idle" => d.db = Nothing
    /\ d.step \notin {"idle", "ended"} => d.db \in Names
    /\ d.step \in {"idle", "backup"} => d.name = Nothing
    /\ d.step \in {"idle", "backup", "dumping"} => d.counts = <<>>
    /\ d.name # Nothing => d.db # Nothing
    /\ d.step \notin {"idle", "backup", "ended"} => d.name \in Names
    /\ d.verdict = "passed" => Dumped(d) /\ d.step \in {"finally", "ended"}
    /\ Dumped(d) => d.since <= now

\* The counts of a snapshot.
CountsOf(counts, snapshot) ==
    \A k \in DOMAIN BackedUp : counts[k] = Cardinality(snapshot[BackedUp[k]])

\* What holds, up to its verdict, of a drill that no write and no other drill
\* disturbed: dump, counts and manifest are of its snapshot, and a table that
\* was not restored is empty.
DrillIsSound(d, dump, manifest, db) ==
    /\ d.step \in {"counting", "creating", "restoring"} => dump = d.snapshot
    /\ d.step = "counting" =>
          \A k \in DOMAIN BackedUp : k <= Len(d.counts) =>
              d.counts[k] = Cardinality(d.snapshot[BackedUp[k]])
    /\ d.step \in {"creating", "restoring"} => CountsOf(manifest, d.snapshot)
    /\ d.step = "restoring" => db = Empty
    /\ d.step = "verifying" =>
          /\ CountsOf(d.expected, d.snapshot)
          /\ \A t \in TableSet : db[t] = d.snapshot[t] \/ db[t] = {}
    /\ d.verdict = "passed" => d.restored = d.snapshot

AloneAs(i, d) == \A k \in Drills \ {i} : drill[k].db # d.db /\ drill[k].name # d.name
Quiet(i) == Dumped(drill[i]) /\ written = drill[i].since /\ Alone(i)

QuietIsSound(i) ==
    Quiet(i) =>
        /\ source = drill[i].snapshot
        /\ DrillIsSound(drill[i], dumps[drill[i].name], manifests[drill[i].name], scratch[drill[i].db])

DrillInv ==
    DrillTypeOK /\ \A i \in Drills : RecordIsSound(drill[i], written) /\ QuietIsSound(i)

LEMMA EmptyIsContents == Empty \in Contents
BY DEF Empty, Contents

LEMMA RowCounts ==
    ASSUME NEW db \in Contents, NEW t \in TableSet
    PROVE  Cardinality(db[t]) \in Nat /\ (Cardinality(db[t]) = 0 <=> db[t] = {})
<1>1. db[t] \subseteq Rows
    BY DEF Contents
<1>2. IsFiniteSet(db[t])
    BY <1>1, FS_Subset, DrillAssumption
<1> QED BY <1>2, FS_CardinalityType, FS_EmptySet

LEMMA TablesAreBackedUp ==
    /\ DOMAIN BackedUp = 1..Len(BackedUp) /\ Len(BackedUp) \in Nat
    /\ \A k \in DOMAIN BackedUp : BackedUp[k] \in TableSet
    /\ \A t \in TableSet : \E k \in DOMAIN BackedUp : BackedUp[k] = t
<1>1. BackedUp \in Seq(TableSet)
    BY DrillAssumption
<1> QED BY <1>1 DEF TableSet

LEMMA DrillInvInitially == DrillInit => DrillInv
<1> SUFFICES ASSUME DrillInit PROVE DrillInv
    OBVIOUS
<1>1. 0 \in Names /\ <<>> \in Seq(Nat) /\ 0 \in Nat
    BY DrillAssumption DEF Names
<1>2. Ready \in DrillRecords
    BY <1>1, EmptyIsContents DEF Ready, DrillRecords, DrillSteps
<1>3. DrillTypeOK
    BY <1>1, <1>2 DEF DrillInit, DrillTypeOK, Contents
<1>4. RecordIsSound(Ready, 0) /\ ~Dumped(Ready)
    BY DrillAssumption DEF Ready, RecordIsSound, Dumped
<1> QED BY <1>3, <1>4 DEF DrillInit, DrillInv, QuietIsSound, Quiet

-------------------------------------------------------------------------------
\* One drill moves: it may name its database and its dump, once, and it writes
\* nowhere else.
LEMMA DrillGoesOn ==
    ASSUME DrillInv, NEW i \in Drills, NEW new \in DrillRecords,
           drill' = [drill EXCEPT ![i] = new], UNCHANGED <<source, second, written>>,
           drill[i].db \in {new.db, Nothing}, drill[i].name \in {new.name, Nothing},
           dumps' \in [Names -> Contents \cup {Nothing}],
           manifests' \in [Names -> Seq(Nat) \cup {Nothing}],
           scratch' \in [Names -> Contents \cup {Nothing}],
           \A n \in Names : n # new.name => dumps'[n] = dumps[n] /\ manifests'[n] = manifests[n],
           \A n \in Names : n # new.db => scratch'[n] = scratch[n],
           RecordIsSound(new, written),
           Dumped(new) /\ written = new.since /\ AloneAs(i, new) =>
               /\ source = new.snapshot
               /\ DrillIsSound(new, dumps'[new.name], manifests'[new.name], scratch'[new.db])
    PROVE  DrillInv'
<1>1. DrillTypeOK'
    BY DEF DrillInv, DrillTypeOK
<1>2. drill'[i] = new /\ \A k \in Drills \ {i} : drill'[k] = drill[k]
    BY DEF DrillInv, DrillTypeOK
<1>3. \A k \in Drills : RecordIsSound(drill'[k], written')
    BY <1>2 DEF DrillInv
<1>4. QuietIsSound(i)'
    <2> SUFFICES ASSUME Quiet(i)'
                 PROVE  /\ source = new.snapshot
                        /\ DrillIsSound(new, dumps'[new.name], manifests'[new.name], scratch'[new.db])
        BY <1>2 DEF QuietIsSound
    <2>1. Dumped(new) /\ written = new.since /\ Alone(i)'
        BY <1>2 DEF Quiet
    <2>2. AloneAs(i, new)
        BY <1>2, <2>1 DEF Alone, AloneAs
    <2> QED BY <2>1, <2>2
<1>5. ASSUME NEW k \in Drills \ {i} PROVE QuietIsSound(k)'
    <2> SUFFICES ASSUME Quiet(k)'
                 PROVE  /\ source = drill[k].snapshot
                        /\ DrillIsSound(drill[k], dumps'[drill[k].name], manifests'[drill[k].name], scratch'[drill[k].db])
        BY <1>2 DEF QuietIsSound
    <2>1. Dumped(drill[k]) /\ written = drill[k].since /\ Alone(k)'
        BY <1>2 DEF Quiet
    <2>2. drill[k].name \in Names /\ drill[k].db \in Names
        BY <2>1 DEF Dumped, DrillInv, DrillTypeOK, DrillRecords, RecordIsSound
    <2>3. drill[k].name # new.name /\ drill[k].db # new.db
        BY <1>2, <2>1 DEF Alone
    <2>4. Alone(k)
        <3>1. Nothing \notin Names
            BY DrillAssumption DEF Names
        <3>2. \A j \in Drills \ {k} : j # i => drill[k].db # drill[j].db /\ drill[k].name # drill[j].name
            BY <1>2, <2>1 DEF Alone
        <3>3. drill[k].db # drill[i].db /\ drill[k].name # drill[i].name
            BY <2>2, <2>3, <3>1
        <3> QED BY <3>2, <3>3 DEF Alone
    <2> QED BY <2>1, <2>2, <2>3, <2>4 DEF DrillInv, QuietIsSound, Quiet
<1> QED BY <1>1, <1>3, <1>4, <1>5 DEF DrillInv

LEMMA NextOfDrill ==
    ASSUME DrillInv, NEW i \in Drills
    PROVE  /\ drill[i] \in DrillRecords /\ RecordIsSound(drill[i], written)
           /\ Dumped(drill[i]) /\ written = drill[i].since /\ AloneAs(i, drill[i]) =>
                  /\ source = drill[i].snapshot
                  /\ DrillIsSound(drill[i], dumps[drill[i].name], manifests[drill[i].name], scratch[drill[i].db])
           /\ source \in Contents /\ second \in Names /\ written \in Nat
           /\ dumps \in [Names -> Contents \cup {Nothing}]
           /\ manifests \in [Names -> Seq(Nat) \cup {Nothing}]
           /\ scratch \in [Names -> Contents \cup {Nothing}]
BY DEF DrillInv, DrillTypeOK, QuietIsSound, Quiet, Alone, AloneAs

\* What a goto leaves: the drill stands elsewhere and nothing else changed.
Moved(d, new, step) ==
    /\ new \in DrillRecords /\ new.step = step /\ new.db = d.db /\ new.name = d.name
    /\ new.snapshot = d.snapshot /\ new.counts = d.counts /\ new.expected = d.expected
    /\ new.restored = d.restored /\ new.verdict = d.verdict /\ new.since = d.since

LEMMA GotoKeeps ==
    ASSUME NEW d \in DrillRecords, NEW step \in DrillSteps
    PROVE  Moved(d, [d EXCEPT !.step = step], step)
BY DEF DrillRecords, Moved

\* A drill that fails says nothing new.
LEMMA DrillEnds ==
    ASSUME DrillInv, NEW i \in Drills, NEW step \in {"finally", "ended"},
           drill' = [drill EXCEPT ![i].step = step], UNCHANGED <<source, second, written>>,
           drill[i].step \notin {"idle"}, step = "finally" => drill[i].step \notin {"idle", "backup", "ended"},
           dumps' \in [Names -> Contents \cup {Nothing}],
           manifests' \in [Names -> Seq(Nat) \cup {Nothing}],
           scratch' \in [Names -> Contents \cup {Nothing}],
           \A n \in Names : n # drill[i].name => dumps'[n] = dumps[n] /\ manifests'[n] = manifests[n],
           \A n \in Names : n # drill[i].db => scratch'[n] = scratch[n]
    PROVE  DrillInv'
<1> DEFINE d == drill[i]
           new == [d EXCEPT !.step = step]
<1>1. drill' = [drill EXCEPT ![i] = new]
    OBVIOUS
<1>2. /\ d \in DrillRecords /\ RecordIsSound(d, written)
      /\ Dumped(d) /\ written = d.since /\ AloneAs(i, d) =>
              /\ source = d.snapshot
              /\ DrillIsSound(d, dumps[d.name], manifests[d.name], scratch[d.db])
    BY NextOfDrill
<1>3. Moved(d, new, step)
    <2>1. step \in DrillSteps
        BY DEF DrillSteps
    <2> QED BY ONLY <1>2, <2>1, GotoKeeps
<1> HIDE DEF new
<1>4. RecordIsSound(new, written) /\ (Dumped(new) => Dumped(d))
    BY <1>2, <1>3 DEF RecordIsSound, Dumped, Moved
<1>5. new \in DrillRecords /\ d.db = new.db /\ d.name = new.name
    BY <1>3 DEF Moved
<1>6. ASSUME Dumped(new) /\ written = new.since /\ AloneAs(i, new)
      PROVE  /\ source = new.snapshot
             /\ DrillIsSound(new, dumps'[new.name], manifests'[new.name], scratch'[new.db])
    <2>1. Dumped(d) /\ written = d.since /\ AloneAs(i, d)
        BY <1>3, <1>4, <1>6 DEF Moved, AloneAs
    <2>2. source = d.snapshot /\ (d.verdict = "passed" => d.restored = d.snapshot)
        BY <1>2, <2>1 DEF DrillIsSound
    <2> QED BY <1>3, <2>2 DEF Moved, DrillIsSound
<1> QED
    BY <1>1, <1>4, <1>5, <1>6, DrillGoesOn

LEMMA DrillInvIsKept == DrillInv /\ [DrillNext]_drillVars => DrillInv'
<1> SUFFICES ASSUME DrillInv, [DrillNext]_drillVars PROVE DrillInv'
    OBVIOUS
<1>1. ASSUME NEW i \in Drills, BeginDrill(i) PROVE DrillInv'
    <2> DEFINE d == drill[i]
               new == [d EXCEPT !.step = "backup", !.db = second]
    <2>1. /\ d.step = "idle" /\ drill' = [drill EXCEPT ![i] = new]
          /\ UNCHANGED <<source, dumps, manifests, scratch, second, written>>
        BY <1>1 DEF BeginDrill, At
    <2>2. d \in DrillRecords /\ RecordIsSound(d, written) /\ second \in Names
        BY NextOfDrill
    <2>3. /\ new \in DrillRecords /\ new.step = "backup" /\ new.db = second /\ new.name = d.name
          /\ new.verdict = d.verdict /\ new.counts = d.counts
        BY <2>2 DEF DrillRecords, DrillSteps
    <2> HIDE DEF new
    <2>4. RecordIsSound(new, written) /\ ~Dumped(new)
        BY <2>1, <2>2, <2>3 DEF RecordIsSound, Dumped
    <2>5. d.db = Nothing
        BY <2>1, <2>2 DEF RecordIsSound
    <2> QED BY <2>1, <2>3, <2>4, <2>5, NextOfDrill, DrillGoesOn
<1>2. ASSUME NEW i \in Drills, StartDump(i) PROVE DrillInv'
    <2> DEFINE d == drill[i]
               new == [d EXCEPT !.step = "dumping", !.name = second, !.snapshot = source, !.since = written]
    <2>1. /\ d.step = "backup" /\ drill' = [drill EXCEPT ![i] = new]
          /\ dumps' = [dumps EXCEPT ![second] = Empty]
          /\ UNCHANGED <<source, manifests, scratch, second, written>>
        BY <1>2 DEF StartDump, At
    <2>2. d \in DrillRecords /\ RecordIsSound(d, written) /\ second \in Names /\ source \in Contents /\ written \in Nat
        BY NextOfDrill
    <2>3. /\ new \in DrillRecords /\ new.step = "dumping" /\ new.db = d.db /\ new.name = second
          /\ new.verdict = d.verdict /\ new.counts = d.counts /\ new.snapshot = source /\ new.since = written
        BY <2>2 DEF DrillRecords, DrillSteps
    <2> HIDE DEF new
    <2>4. d.name = Nothing /\ d.db \in Names /\ d.verdict # "passed"
        BY <2>1, <2>2 DEF RecordIsSound, Dumped
    <2>5. RecordIsSound(new, written)
        <3>1. d.counts = <<>> /\ written <= written
            BY <2>1, <2>2 DEF RecordIsSound
        <3>2. d.db # Nothing /\ second # Nothing
            BY <2>2, <2>4, DrillAssumption DEF Names
        <3> QED BY <2>2, <2>3, <2>4, <3>1, <3>2 DEF RecordIsSound
    <2>6. source = new.snapshot /\ DrillIsSound(new, dumps'[new.name], manifests'[new.name], scratch'[new.db])
        BY <2>3, <2>4 DEF DrillIsSound
    <2>7. dumps' \in [Names -> Contents \cup {Nothing}] /\ \A n \in Names : n # second => dumps'[n] = dumps[n]
        BY <2>1, EmptyIsContents, NextOfDrill
    <2> QED BY <2>1, <2>3, <2>4, <2>5, <2>6, <2>7, NextOfDrill, DrillGoesOn
<1>3. ASSUME NEW i \in Drills, EndDump(i) PROVE DrillInv'
    <2> DEFINE d == drill[i]
               new == [d EXCEPT !.step = "counting"]
               dump == IF Spoiled(i) THEN Empty ELSE d.snapshot
    <2>1. /\ d.step = "dumping" /\ drill' = [drill EXCEPT ![i] = new]
          /\ dumps' = [dumps EXCEPT ![d.name] = dump]
          /\ UNCHANGED <<source, manifests, scratch, second, written>>
        BY <1>3 DEF EndDump, At, Goto
    <2>2. d \in DrillRecords /\ RecordIsSound(d, written)
        BY NextOfDrill
    <2>3. Moved(d, new, "counting")
        BY <2>2, GotoKeeps DEF DrillSteps
    <2> HIDE DEF new
    <2>4. RecordIsSound(new, written) /\ Dumped(d) /\ d.name \in Names /\ d.verdict # "passed"
        BY <2>1, <2>2, <2>3, DrillAssumption DEF RecordIsSound, Dumped, Moved, Names
    <2>5. dump \in Contents /\ (AloneAs(i, d) => dump = d.snapshot)
        BY <2>2, EmptyIsContents DEF DrillRecords, Spoiled, AloneAs
    <2> HIDE DEF dump
    <2>6. dumps' \in [Names -> Contents \cup {Nothing}] /\ dumps'[d.name] = dump
          /\ \A n \in Names : n # d.name => dumps'[n] = dumps[n]
        BY <2>1, <2>4, <2>5, NextOfDrill
    <2>7. d.counts = <<>>
        BY <2>1, <2>2 DEF RecordIsSound
    <2>8. ASSUME written = new.since, AloneAs(i, new)
          PROVE  /\ source = new.snapshot
                 /\ DrillIsSound(new, dumps'[new.name], manifests'[new.name], scratch'[new.db])
        <3>1. source = d.snapshot /\ AloneAs(i, d)
            BY <2>3, <2>4, <2>8, NextOfDrill DEF Moved, AloneAs
        <3>2. dumps'[new.name] = new.snapshot
            BY <2>3, <2>5, <2>6, <3>1 DEF Moved
        <3>3. \A k \in DOMAIN BackedUp : ~(k <= Len(new.counts))
            BY <2>3, <2>7, TablesAreBackedUp DEF Moved
        <3> QED BY <2>3, <2>4, <3>1, <3>2, <3>3 DEF Moved, DrillIsSound
    <2> QED BY <2>1, <2>3, <2>4, <2>6, <2>8, NextOfDrill, DrillGoesOn DEF Moved
<1>4. ASSUME NEW i \in Drills, DumpFails(i) PROVE DrillInv'
    <2>1. /\ drill[i].step = "dumping" /\ drill' = [drill EXCEPT ![i].step = "ended"]
          /\ dumps' = [dumps EXCEPT ![drill[i].name] = Nothing]
          /\ UNCHANGED <<source, manifests, scratch, second, written>>
        BY <1>4 DEF DumpFails, At, Goto, Raised
    <2>2. dumps' \in [Names -> Contents \cup {Nothing}] /\ \A n \in Names : n # drill[i].name => dumps'[n] = dumps[n]
        BY <2>1, NextOfDrill
    <2> QED BY <2>1, <2>2, NextOfDrill, DrillEnds
<1>5. ASSUME NEW i \in Drills, CountTable(i) PROVE DrillInv'
    <2> DEFINE d == drill[i]
               n == Len(d.counts) + 1
               count == Cardinality(source[BackedUp[n]])
               counts == Append(d.counts, count)
               new == [d EXCEPT !.counts = counts]
    <2>1. /\ d.step = "counting" /\ n - 1 < Len(BackedUp) /\ drill' = [drill EXCEPT ![i] = new]
          /\ UNCHANGED <<source, dumps, manifests, scratch, second, written>>
        BY <1>5 DEF CountTable, At
    <2>2. d \in DrillRecords /\ RecordIsSound(d, written) /\ d.counts \in Seq(Nat) /\ source \in Contents
        BY NextOfDrill DEF DrillRecords
    <2>3. n \in DOMAIN BackedUp
        BY <2>1, <2>2, TablesAreBackedUp
    <2>4. count \in Nat
        BY <2>2, <2>3, TablesAreBackedUp, RowCounts
    <2> HIDE DEF count
    <2>5. /\ counts \in Seq(Nat) /\ Len(counts) = n /\ counts[n] = count
          /\ \A k \in 1..(n - 1) : counts[k] = d.counts[k]
        BY <2>2, <2>4
    <2> HIDE DEF counts
    <2>6. /\ new \in DrillRecords /\ new.step = "counting" /\ new.db = d.db /\ new.name = d.name
          /\ new.verdict = d.verdict /\ new.counts = counts /\ new.snapshot = d.snapshot /\ new.since = d.since
        BY <2>1, <2>2, <2>5 DEF DrillRecords
    <2> HIDE DEF new
    <2>7. RecordIsSound(new, written) /\ Dumped(d) /\ d.name \in Names /\ d.verdict # "passed"
        BY <2>1, <2>2, <2>6, DrillAssumption DEF RecordIsSound, Dumped, Names
    <2>8. ASSUME written = new.since, AloneAs(i, new)
          PROVE  /\ source = new.snapshot
                 /\ DrillIsSound(new, dumps'[new.name], manifests'[new.name], scratch'[new.db])
        <3>1. /\ source = d.snapshot
              /\ DrillIsSound(d, dumps[d.name], manifests[d.name], scratch[d.db])
            BY <2>6, <2>7, <2>8, NextOfDrill DEF AloneAs
        <3>2. ASSUME NEW k \in DOMAIN BackedUp, k <= n
              PROVE  counts[k] = Cardinality(d.snapshot[BackedUp[k]])
            <4>1. CASE k = n
                BY <2>5, <3>1, <4>1 DEF count
            <4>2. CASE k # n
                <5>1. k \in 1..(n - 1) /\ k <= Len(d.counts)
                    BY <2>2, <3>2, <4>2, TablesAreBackedUp
                <5> QED BY <2>1, <2>5, <3>1, <5>1 DEF DrillIsSound
            <4> QED BY <4>1, <4>2
        <3>3. dumps'[new.name] = new.snapshot
            BY <2>1, <2>6, <3>1 DEF DrillIsSound
        <3> QED BY <2>5, <2>6, <2>7, <3>1, <3>2, <3>3 DEF DrillIsSound
    <2> QED BY <2>1, <2>6, <2>7, <2>8, NextOfDrill, DrillGoesOn
<1>6. ASSUME NEW i \in Drills, WriteManifest(i) PROVE DrillInv'
    <2> DEFINE d == drill[i]
               new == [d EXCEPT !.step = "creating"]
    <2>1. /\ d.step = "counting" /\ Len(d.counts) = Len(BackedUp)
          /\ UNCHANGED <<source, dumps, scratch, second, written>>
        BY <1>6 DEF WriteManifest, At
    <2>2. d \in DrillRecords /\ RecordIsSound(d, written) /\ d.counts \in Seq(Nat)
        BY NextOfDrill DEF DrillRecords
    <2>3. CASE dumps[d.name] = Nothing
        <3>1. drill' = [drill EXCEPT ![i].step = "ended"] /\ UNCHANGED manifests
            BY <1>6, <2>1, <2>3 DEF WriteManifest, Raised, At, Goto
        <3> QED BY <2>1, <3>1, NextOfDrill, DrillEnds
    <2>4. CASE dumps[d.name] # Nothing
        <3>1. drill' = [drill EXCEPT ![i] = new] /\ manifests' = [manifests EXCEPT ![d.name] = d.counts]
            BY <1>6, <2>4 DEF WriteManifest, Goto
        <3>2. Moved(d, new, "creating")
            BY <2>2, GotoKeeps DEF DrillSteps
        <3> HIDE DEF new
        <3>3. RecordIsSound(new, written) /\ Dumped(d) /\ d.name \in Names /\ d.verdict # "passed"
            BY <2>1, <2>2, <3>2, DrillAssumption DEF RecordIsSound, Dumped, Moved, Names
        <3>4. manifests' \in [Names -> Seq(Nat) \cup {Nothing}] /\ manifests'[d.name] = d.counts
              /\ \A n \in Names : n # d.name => manifests'[n] = manifests[n]
            BY <2>2, <3>1, <3>3, NextOfDrill
        <3>5. ASSUME written = new.since, AloneAs(i, new)
              PROVE  /\ source = new.snapshot
                     /\ DrillIsSound(new, dumps'[new.name], manifests'[new.name], scratch'[new.db])
            <4>1. /\ source = d.snapshot
                  /\ DrillIsSound(d, dumps[d.name], manifests[d.name], scratch[d.db])
                BY <3>2, <3>3, <3>5, NextOfDrill DEF AloneAs, Moved
            <4>2. CountsOf(d.counts, d.snapshot)
                BY <2>1, <4>1, TablesAreBackedUp DEF DrillIsSound, CountsOf
            <4> QED BY <2>1, <3>2, <3>3, <3>4, <4>1, <4>2 DEF DrillIsSound, Moved
        <3> QED BY <2>1, <3>1, <3>2, <3>3, <3>4, <3>5, NextOfDrill, DrillGoesOn DEF Moved
    <2> QED BY <2>3, <2>4
<1>7. ASSUME NEW i \in Drills, CreateScratch(i) PROVE DrillInv'
    <2> DEFINE d == drill[i]
               new == [d EXCEPT !.step = "restoring"]
    <2>1. d.step = "creating" /\ UNCHANGED <<source, dumps, manifests, second, written>>
        BY <1>7 DEF CreateScratch, At
    <2>2. d \in DrillRecords /\ RecordIsSound(d, written)
        BY NextOfDrill
    <2>3. CASE scratch[d.db] # Nothing /\ Connected(d.db)
        <3>1. drill' = [drill EXCEPT ![i].step = "ended"] /\ UNCHANGED scratch
            BY <1>7, <2>1, <2>3 DEF CreateScratch, Raised, At, Goto
        <3> QED BY <2>1, <3>1, NextOfDrill, DrillEnds
    <2>4. CASE ~(scratch[d.db] # Nothing /\ Connected(d.db))
        <3>1. drill' = [drill EXCEPT ![i] = new] /\ scratch' = [scratch EXCEPT ![d.db] = Empty]
            BY <1>7, <2>4 DEF CreateScratch, Goto
        <3>2. Moved(d, new, "restoring")
            BY <2>2, GotoKeeps DEF DrillSteps
        <3> HIDE DEF new
        <3>3. RecordIsSound(new, written) /\ Dumped(d) /\ d.db \in Names /\ d.verdict # "passed"
            BY <2>1, <2>2, <3>2, DrillAssumption DEF RecordIsSound, Dumped, Moved, Names
        <3>4. scratch' \in [Names -> Contents \cup {Nothing}] /\ scratch'[d.db] = Empty
              /\ \A n \in Names : n # d.db => scratch'[n] = scratch[n]
            BY <3>1, <3>3, EmptyIsContents, NextOfDrill
        <3>5. ASSUME written = new.since, AloneAs(i, new)
              PROVE  /\ source = new.snapshot
                     /\ DrillIsSound(new, dumps'[new.name], manifests'[new.name], scratch'[new.db])
            <4>1. /\ source = d.snapshot
                  /\ DrillIsSound(d, dumps[d.name], manifests[d.name], scratch[d.db])
                BY <3>2, <3>3, <3>5, NextOfDrill DEF AloneAs, Moved
            <4> QED BY <2>1, <3>2, <3>3, <3>4, <4>1 DEF DrillIsSound, Moved
        <3> QED BY <2>1, <3>1, <3>2, <3>3, <3>4, <3>5, NextOfDrill, DrillGoesOn DEF Moved
    <2> QED BY <2>3, <2>4
<1>8. ASSUME NEW i \in Drills, Restore(i) PROVE DrillInv'
    <2> DEFINE d == drill[i]
               n == d.name
               new == [d EXCEPT !.step = "verifying", !.expected = manifests[n]]
    <2>1. d.step = "restoring" /\ UNCHANGED <<source, dumps, manifests, second, written>>
        BY <1>8 DEF Restore, At
    <2>2. d \in DrillRecords /\ RecordIsSound(d, written)
        BY NextOfDrill
    <2>3. CASE manifests[n] = Nothing \/ dumps[n] = Nothing \/ scratch[d.db] = Nothing
        <3>1. drill' = [drill EXCEPT ![i].step = "finally"] /\ UNCHANGED scratch
            BY <1>8, <2>1, <2>3 DEF Restore, Raised, At, Goto
        <3> QED BY <2>1, <3>1, NextOfDrill, DrillEnds
    <2>4. CASE ~(manifests[n] = Nothing \/ dumps[n] = Nothing \/ scratch[d.db] = Nothing)
        <3>1. PICK done \in SUBSET TableSet :
                scratch' = [scratch EXCEPT ![d.db] =
                    [t \in TableSet |-> IF t \in done THEN dumps[n][t] ELSE scratch[d.db][t]]]
            BY <1>8, <2>4 DEF Restore
        <3>2. drill' = [drill EXCEPT ![i] = new]
            BY <1>8, <2>4 DEF Restore
        <3>3. /\ Dumped(d) /\ n \in Names /\ d.db \in Names /\ d.verdict # "passed"
              /\ d.since <= written /\ d.name # Nothing /\ d.db # Nothing
            BY <2>1, <2>2, DrillAssumption DEF RecordIsSound, Dumped, Names
        <3>4. manifests[n] \in Seq(Nat) /\ dumps[n] \in Contents /\ scratch[d.db] \in Contents
            BY <2>4, <3>3, NextOfDrill
        <3>5. /\ new \in DrillRecords /\ new.step = "verifying" /\ new.db = d.db /\ new.name = d.name
              /\ new.verdict = d.verdict /\ new.snapshot = d.snapshot /\ new.since = d.since
              /\ new.expected = manifests[n]
            BY <2>2, <3>4 DEF DrillRecords, DrillSteps
        <3> HIDE DEF new
        <3> DEFINE db == [t \in TableSet |-> IF t \in done THEN dumps[n][t] ELSE scratch[d.db][t]]
        <3>6. db \in Contents
            BY <3>4 DEF Contents
        <3>7. scratch' \in [Names -> Contents \cup {Nothing}] /\ scratch'[d.db] = db
              /\ \A m \in Names : m # d.db => scratch'[m] = scratch[m]
            BY <3>1, <3>3, <3>6, NextOfDrill
        <3>8. \A t \in TableSet : db[t] = dumps[n][t] \/ db[t] = scratch[d.db][t]
            OBVIOUS
        <3> HIDE DEF db
        <3>9. RecordIsSound(new, written)
            BY <2>2, <3>3, <3>5 DEF RecordIsSound, Dumped
        <3>10. ASSUME written = new.since, AloneAs(i, new)
              PROVE  /\ source = new.snapshot
                     /\ DrillIsSound(new, dumps'[new.name], manifests'[new.name], scratch'[new.db])
            <4>1. /\ source = d.snapshot
                  /\ DrillIsSound(d, dumps[d.name], manifests[d.name], scratch[d.db])
                BY <3>3, <3>5, <3>10, NextOfDrill DEF AloneAs
            <4>2. dumps[n] = d.snapshot /\ CountsOf(manifests[n], d.snapshot) /\ scratch[d.db] = Empty
                BY <2>1, <4>1 DEF DrillIsSound
            <4>3. \A t \in TableSet : db[t] = d.snapshot[t] \/ db[t] = {}
                BY <3>8, <4>2 DEF Empty
            <4> QED BY <3>3, <3>5, <3>7, <4>1, <4>2, <4>3 DEF DrillIsSound
        <3> QED BY <2>1, <3>2, <3>5, <3>7, <3>9, <3>10, NextOfDrill, DrillGoesOn
    <2> QED BY <2>3, <2>4
<1>9. ASSUME NEW i \in Drills, Verify(i) PROVE DrillInv'
    <2> DEFINE d == drill[i]
               db == scratch[d.db]
               verdict == IF CountsMatch(i) THEN "passed" ELSE "failed"
               new == [d EXCEPT !.step = "finally", !.restored = db, !.verdict = verdict]
    <2>1. d.step = "verifying" /\ UNCHANGED <<source, dumps, manifests, scratch, second, written>>
        BY <1>9 DEF Verify, At
    <2>2. d \in DrillRecords /\ RecordIsSound(d, written)
        BY NextOfDrill
    <2>3. CASE db = Nothing
        <3>1. drill' = [drill EXCEPT ![i].step = "finally"]
            BY <1>9, <2>1, <2>3 DEF Verify, Raised, At, Goto
        <3> QED BY <2>1, <3>1, NextOfDrill, DrillEnds
    <2>4. CASE db # Nothing
        <3>1. drill' = [drill EXCEPT ![i] = new]
            BY <1>9, <2>4 DEF Verify
        <3>2. verdict \in {"passed", "failed"} /\ (verdict = "passed" => CountsOf(d.expected, db))
            BY DEF CountsMatch, CountsOf
        <3> HIDE DEF verdict
        <3>3. Dumped(d) /\ d.db \in Names /\ d.name \in Names /\ d.since <= written /\ d.db # Nothing
            BY <2>1, <2>2, DrillAssumption DEF RecordIsSound, Dumped, Names
        <3>4. db \in Contents
            BY <2>4, <3>3, NextOfDrill
        <3> HIDE DEF db
        <3>5. /\ new \in DrillRecords /\ new.step = "finally" /\ new.db = d.db /\ new.name = d.name
              /\ new.verdict = verdict /\ new.snapshot = d.snapshot /\ new.since = d.since
              /\ new.restored = db
            BY <2>2, <3>2, <3>4 DEF DrillRecords, DrillSteps
        <3> HIDE DEF new
        <3>6. RecordIsSound(new, written)
            BY <2>2, <3>3, <3>5 DEF RecordIsSound, Dumped
        <3>7. ASSUME written = new.since, AloneAs(i, new)
              PROVE  /\ source = new.snapshot
                     /\ DrillIsSound(new, dumps'[new.name], manifests'[new.name], scratch'[new.db])
            <4>1. /\ source = d.snapshot
                  /\ DrillIsSound(d, dumps[d.name], manifests[d.name], scratch[d.db])
                BY <3>3, <3>5, <3>7, NextOfDrill DEF AloneAs
            <4>2. CountsOf(d.expected, d.snapshot) /\ \A t \in TableSet : db[t] = d.snapshot[t] \/ db[t] = {}
                BY <2>1, <4>1 DEF DrillIsSound, db
            <4>3. d.snapshot \in Contents
                BY <2>2 DEF DrillRecords
            <4>4. ASSUME verdict = "passed" PROVE db = d.snapshot
                <5>1. ASSUME NEW t \in TableSet PROVE db[t] = d.snapshot[t]
                    <6>1. PICK k \in DOMAIN BackedUp : BackedUp[k] = t
                        BY TablesAreBackedUp
                    <6>2. Cardinality(db[t]) = Cardinality(d.snapshot[t])
                        BY <3>2, <4>2, <4>4, <6>1 DEF CountsOf
                    <6> QED BY <3>4, <4>2, <4>3, <6>2, RowCounts
                <5> QED BY <3>4, <4>3, <5>1 DEF Contents
            <4> QED BY <3>5, <4>1, <4>4 DEF DrillIsSound
        <3> QED BY <2>1, <3>1, <3>5, <3>6, <3>7, NextOfDrill, DrillGoesOn
    <2> QED BY <2>3, <2>4
<1>10. ASSUME NEW i \in Drills, Finally(i) PROVE DrillInv'
    <2>1. /\ drill[i].step = "finally" /\ drill' = [drill EXCEPT ![i].step = "ended"]
          /\ scratch' = IF i \in Keep THEN scratch ELSE [scratch EXCEPT ![drill[i].db] = Nothing]
          /\ UNCHANGED <<source, dumps, manifests, second, written>>
        BY <1>10 DEF Finally, At, Goto
    <2>2. /\ scratch' \in [Names -> Contents \cup {Nothing}]
          /\ \A n \in Names : n # drill[i].db => scratch'[n] = scratch[n]
        BY <2>1, NextOfDrill
    <2> QED BY <2>1, <2>2, NextOfDrill, DrillEnds
<1>11. ASSUME NEW i \in Drills, QueryFails(i) PROVE DrillInv'
    <2>1. PICK step \in {"finally", "ended"} :
            drill' = [drill EXCEPT ![i].step = step] /\ (step = "finally" => drill[i].step = "verifying")
        BY <1>11 DEF QueryFails, Raised, At, Goto
    <2>2. /\ drill[i].step \in {"backup", "counting", "creating", "verifying"}
          /\ UNCHANGED <<source, dumps, manifests, scratch, second, written>>
        BY <1>11 DEF QueryFails
    <2> QED BY <2>1, <2>2, NextOfDrill, DrillEnds
<1>12. ASSUME NEW i \in Drills, DrillDies(i) PROVE DrillInv'
    <2> DEFINE d == drill[i]
               new == [d EXCEPT !.step = "ended", !.verdict = Nothing]
    <2>1. /\ d.step \notin {"idle", "ended"} /\ drill' = [drill EXCEPT ![i] = new]
          /\ UNCHANGED <<source, dumps, manifests, scratch, second, written>>
        BY <1>12 DEF DrillDies
    <2>2. d \in DrillRecords /\ RecordIsSound(d, written)
        BY NextOfDrill
    <2>3. /\ new \in DrillRecords /\ new.step = "ended" /\ new.db = d.db /\ new.name = d.name
          /\ new.verdict = Nothing /\ new.snapshot = d.snapshot /\ new.since = d.since
        BY <2>2 DEF DrillRecords, DrillSteps
    <2> HIDE DEF new
    <2>4. RecordIsSound(new, written) /\ (Dumped(new) => Dumped(d)) /\ new.verdict # "passed"
        BY <2>1, <2>2, <2>3, DrillAssumption DEF RecordIsSound, Dumped
    <2>5. ASSUME Dumped(new), written = new.since, AloneAs(i, new)
          PROVE  /\ source = new.snapshot
                 /\ DrillIsSound(new, dumps'[new.name], manifests'[new.name], scratch'[new.db])
        <3>1. source = d.snapshot
            BY <2>3, <2>4, <2>5, NextOfDrill DEF AloneAs
        <3> QED BY <2>3, <2>4, <3>1 DEF DrillIsSound
    <2> QED BY <2>1, <2>3, <2>4, <2>5, NextOfDrill, DrillGoesOn
<1>13. ASSUME NEW t \in TableSet, NEW r \in Rows, Write(t, r) PROVE DrillInv'
    <2> USE <1>13 DEF Write
    <2>1. source' \in Contents
        BY DEF DrillInv, DrillTypeOK, Contents
    <2>2. DrillTypeOK'
        BY <2>1 DEF DrillInv, DrillTypeOK
    <2>3. \A i \in Drills : RecordIsSound(drill[i], written') /\ ~Quiet(i)'
        BY DEF DrillInv, DrillTypeOK, RecordIsSound, DrillRecords, Quiet
    <2> QED BY <2>2, <2>3 DEF DrillInv, QuietIsSound
<1>14. CASE NextSecond
    <2> USE <1>14 DEF NextSecond
    <2>1. DrillTypeOK'
        BY DrillAssumption DEF DrillInv, DrillTypeOK, Names
    <2>2. \A i \in Drills : RecordIsSound(drill[i], written) /\ QuietIsSound(i)'
        BY DEF DrillInv, QuietIsSound, Quiet, Alone
    <2> QED BY <2>1, <2>2 DEF DrillInv
<1>15. CASE UNCHANGED drillVars
    BY <1>15 DEF drillVars, DrillInv, DrillTypeOK, QuietIsSound, Quiet, Alone
<1> QED
    BY <1>1, <1>2, <1>3, <1>4, <1>5, <1>6, <1>7, <1>8, <1>9, <1>10, <1>11, <1>12, <1>13, <1>14, <1>15
    DEF DrillNext

\* For any tables, rows, drills, seconds, writes and faults: "passed" is said of
\* the content that was dumped.
THEOREM PassedDrillsRestored == DrillSpec => []PassedMeansRestored
<1>1. DrillInv => PassedMeansRestored
    BY DEF DrillInv, RecordIsSound, QuietIsSound, Quiet, DrillIsSound, PassedMeansRestored
<1> QED BY DrillInvInitially, DrillInvIsKept, <1>1, PTL DEF DrillSpec

-------------------------------------------------------------------------------
(* Data quality: a pass of a run owns its rows.                            *)

QualityStates == {"passed", "failed", "warning"}
Scores == {NoScore} \cup {QualityScore(statuses) : statuses \in Seq(QualityStates)}

QualityRuns ==
    [step : {"idle", "next", "checking", "saving", "ended"}, left : Seq(Tenants), tenant : Tenants \cup {Head(Active)},
     statuses : Seq(QualityStates), saved : Nat]

QualityTypeOK ==
    /\ run \in [Runs -> QualityRuns]
    /\ scores \in [Tenants -> [1..MaxDay -> Scores]]

\* The row of run r for check n when it stands at k.
RowOf(r, k, n) ==
    [run |-> r, pass |-> Len(k.left), tenant |-> k.tenant, check |-> n, status |-> k.statuses[n]]

\* A run has rows of the tenants that it has been at; of one that it still
\* checks it has none, and of one that it saves those that it has counted.
RowsArePast(r, k, rows) ==
    \A s \in rows : s.run = r =>
        /\ s.pass \in Nat
        /\ k.step # "idle" /\ s.pass >= Len(k.left)
        /\ k.step = "checking" => s.pass > Len(k.left)

SavedRowsAreThere(r, k, rows) ==
    k.step = "saving" =>
        /\ Len(k.statuses) = Len(QualityChecks)
        /\ k.saved \in 0..Len(QualityChecks)
        /\ \A n \in 1..k.saved : RowOf(r, k, n) \in rows
        /\ \A s \in rows : s.run = r /\ s.pass = Len(k.left) =>
              s.check \in 1..k.saved /\ s = RowOf(r, k, s.check)

ChecksAreCounted(k) ==
    k.step = "checking" => Len(k.statuses) < Len(QualityChecks) /\ k.saved = 0

RunIsSound(r, k, rows) ==
    RowsArePast(r, k, rows) /\ SavedRowsAreThere(r, k, rows) /\ ChecksAreCounted(k)

QualityInv ==
    QualityTypeOK /\ ScoreHasItsResults /\ \A r \in Runs : RunIsSound(r, run[r], results)

LEMMA ChecksAreEight == DOMAIN QualityChecks = 1..Len(QualityChecks) /\ Len(QualityChecks) = 8
BY DEF QualityChecks, Check

LEMMA StatusIsKnown ==
    ASSUME NEW check, NEW db PROVE StatusOf(check, db) \in QualityStates
BY DEF StatusOf, PassedIf, QualityStates

LEMMA AskedIsSequence == Active \in Seq(Tenants) /\ \A r \in Runs : Asked[r] \in Seq(Tenants)
<1>1. Range(Active) \subseteq Tenants /\ \A r \in Runs : Range(Asked[r]) \subseteq Tenants
    BY DEF Tenants
<1>2. \A S : S \subseteq Tenants => Seq(S) \subseteq Seq(Tenants)
    OBVIOUS
<1> QED BY <1>1, <1>2, QualityAssumption

LEMMA TheRowOfACheck ==
    ASSUME NEW rows, NEW row \in rows, \A s \in rows : s.check = row.check => s = row
    PROVE  (CHOOSE s \in rows : s.check = row.check) = row
<1> DEFINE c == CHOOSE s \in rows : s.check = row.check
<1>1. c \in rows /\ c.check = row.check
    OBVIOUS
<1> QED BY <1>1

LEMMA SequenceIsFunction ==
    ASSUME NEW S, NEW q \in Seq(S) PROVE q = [n \in 1..Len(q) |-> q[n]]
OBVIOUS

LEMMA QualityInvInitially == QualityInit => QualityInv
<1> SUFFICES ASSUME QualityInit PROVE QualityInv
    OBVIOUS
<1>1. <<>> \in Seq(Tenants) /\ <<>> \in Seq(QualityStates) /\ NoScore \in Scores
    BY DEF Scores
<1>2. QualityTypeOK
    BY <1>1 DEF QualityInit, QualityTypeOK, QualityRuns
<1>3. ScoreHasItsResults
    BY DEF QualityInit, ScoreHasItsResults
<1>4. \A r \in Runs : RunIsSound(r, run[r], results)
    BY DEF QualityInit, RunIsSound, RowsArePast, SavedRowsAreThere, ChecksAreCounted
<1> QED BY <1>2, <1>3, <1>4 DEF QualityInv

\* A step that stores no row and no score keeps the account of the scores.
LEMMA ScoresStay ==
    ASSUME ScoreHasItsResults, UNCHANGED <<results, scores>> PROVE ScoreHasItsResults'
<1>1. \A k, q : PassRows(k, q)' = PassRows(k, q)
    BY DEF PassRows
<1> QED BY <1>1 DEF ScoreHasItsResults

\* One run moves to a sound record and stores nothing.
LEMMA RunGoesOn ==
    ASSUME QualityInv, UNCHANGED <<results, scores>>, NEW r \in Runs, NEW new \in QualityRuns,
           run' = [run EXCEPT ![r] = new], RunIsSound(r, new, results)
    PROVE  QualityInv'
<1> USE DEF QualityInv
<1>1. QualityTypeOK'
    BY DEF QualityTypeOK
<1>2. \A k \in Runs : RunIsSound(k, run'[k], results')
    BY DEF QualityTypeOK
<1> QED BY <1>1, <1>2, ScoresStay

LEMMA QualityInvIsKept == QualityInv /\ [QualityNext]_qualityVars => QualityInv'
<1> SUFFICES ASSUME QualityInv, [QualityNext]_qualityVars PROVE QualityInv'
    OBVIOUS
<1>0. \A r \in Runs : run[r] \in QualityRuns /\ RunIsSound(r, run[r], results)
    BY DEF QualityInv, QualityTypeOK
<1>1. ASSUME NEW r \in Runs, StartRun(r) PROVE QualityInv'
    <2> DEFINE asked == IF Asked[r] = <<>> THEN Active ELSE Asked[r]
               new == [run[r] EXCEPT !.step = "next", !.left = asked]
    <2>1. /\ run[r].step = "idle" /\ UNCHANGED <<results, scores>>
          /\ run' = [run EXCEPT ![r] = new]
        BY <1>1 DEF StartRun
    <2>2. asked \in Seq(Tenants)
        BY AskedIsSequence
    <2> HIDE DEF asked
    <2>3. new \in QualityRuns /\ new.step = "next"
        BY <1>0, <2>2 DEF QualityRuns
    <2> HIDE DEF new
    <2>4. RunIsSound(r, new, results)
        BY <1>0, <2>1, <2>3 DEF RunIsSound, RowsArePast, SavedRowsAreThere, ChecksAreCounted
    <2> QED BY <2>1, <2>3, <2>4, RunGoesOn
<1>2. ASSUME NEW r \in Runs, NextTenant(r), run[r].left = <<>> PROVE QualityInv'
    <2> DEFINE new == [run[r] EXCEPT !.step = "ended"]
    <2>1. /\ run[r].step = "next" /\ UNCHANGED <<results, scores>>
          /\ run' = [run EXCEPT ![r] = new]
        BY <1>2 DEF NextTenant
    <2>2. new \in QualityRuns /\ new.step = "ended" /\ new.left = run[r].left
        BY <1>0 DEF QualityRuns
    <2> HIDE DEF new
    <2>3. RunIsSound(r, new, results)
        BY <1>0, <2>1, <2>2 DEF RunIsSound, RowsArePast, SavedRowsAreThere, ChecksAreCounted
    <2> QED BY <2>1, <2>2, <2>3, RunGoesOn
<1>3. ASSUME NEW r \in Runs, NextTenant(r), run[r].left # <<>> PROVE QualityInv'
    <2> DEFINE new == [step |-> "checking", left |-> Tail(run[r].left), tenant |-> Head(run[r].left),
                       statuses |-> <<>>, saved |-> 0]
    <2>1. /\ run[r].step = "next" /\ UNCHANGED <<results, scores>>
          /\ run' = [run EXCEPT ![r] = new]
        BY <1>3 DEF NextTenant
    <2>2. run[r].left \in Seq(Tenants)
        BY <1>0 DEF QualityRuns
    <2>3. /\ Tail(run[r].left) \in Seq(Tenants) /\ Head(run[r].left) \in Tenants
          /\ Len(Tail(run[r].left)) = Len(run[r].left) - 1
        BY <1>3, <2>2
    <2>4. new \in QualityRuns
        BY <2>3 DEF QualityRuns
    <2>5. /\ new.step = "checking" /\ new.statuses = <<>> /\ new.saved = 0
          /\ Len(new.left) = Len(run[r].left) - 1
        BY <2>3
    <2> HIDE DEF new
    <2>6. RunIsSound(r, new, results)
        BY <1>0, <2>1, <2>2, <2>5, ChecksAreEight DEF RunIsSound, RowsArePast, SavedRowsAreThere, ChecksAreCounted
    <2> QED BY <2>1, <2>4, <2>6, RunGoesOn
<1>4. ASSUME NEW r \in Runs, RunCheck(r) PROVE QualityInv'
    <2> DEFINE status == StatusOf(QualityChecks[Len(run[r].statuses) + 1], database[run[r].tenant])
               statuses == Append(run[r].statuses, status)
               step == IF Len(statuses) < Len(QualityChecks) THEN "checking"
                       ELSE IF r \in DryRuns THEN "next" ELSE "saving"
               new == [run[r] EXCEPT !.statuses = statuses, !.step = step]
    <2>1. /\ run[r].step = "checking" /\ UNCHANGED <<results, scores>>
          /\ run' = [run EXCEPT ![r] = new]
        BY <1>4 DEF RunCheck
    <2>2. run[r].statuses \in Seq(QualityStates) /\ status \in QualityStates
        BY <1>0, StatusIsKnown DEF QualityRuns
    <2> HIDE DEF status
    <2>3. statuses \in Seq(QualityStates) /\ Len(statuses) = Len(run[r].statuses) + 1
        BY <2>2
    <2> HIDE DEF statuses
    <2>4. step \in {"checking", "next", "saving"} /\ (step = "checking" => Len(statuses) < Len(QualityChecks))
          /\ (step = "saving" => ~(Len(statuses) < Len(QualityChecks)))
        OBVIOUS
    <2> HIDE DEF step
    <2>5. new \in QualityRuns
        BY <1>0, <2>3, <2>4 DEF QualityRuns
    <2>6. new.step = step /\ new.statuses = statuses /\ new.left = run[r].left /\ new.saved = run[r].saved
        BY <1>0 DEF QualityRuns
    <2> HIDE DEF new
    <2>7. Len(run[r].statuses) < Len(QualityChecks) /\ new.saved = 0 /\ Len(run[r].statuses) \in Nat
        BY <1>0, <2>1, <2>2, <2>6 DEF RunIsSound, ChecksAreCounted
    <2>8. Len(new.left) \in Nat /\ \A s \in results : s.run = r => s.pass \in Nat /\ s.pass > Len(new.left)
        BY <1>0, <2>1, <2>6 DEF RunIsSound, RowsArePast, QualityRuns
    <2>9. RowsArePast(r, new, results)
        BY <2>4, <2>6, <2>8 DEF RowsArePast
    <2>10. SavedRowsAreThere(r, new, results)
        <3> SUFFICES ASSUME new.step = "saving" PROVE SavedRowsAreThere(r, new, results)
            BY DEF SavedRowsAreThere
        <3>1. Len(new.statuses) = Len(QualityChecks)
            <4>1. Len(QualityChecks) = 8
                BY ChecksAreEight
            <4>2. ~(Len(statuses) < 8) /\ Len(run[r].statuses) < 8
                BY <2>4, <2>6, <2>7, <4>1
            <4>3. Len(statuses) = Len(run[r].statuses) + 1 /\ Len(run[r].statuses) \in Nat
                BY <2>3, <2>7
            <4>4. \A a \in Nat : a < 8 /\ ~(a + 1 < 8) => a + 1 = 8
                OBVIOUS
            <4> QED BY ONLY <2>6, <4>1, <4>2, <4>3, <4>4
        <3>2. ~ \E s \in results : s.run = r /\ s.pass = Len(new.left)
            BY <2>8
        <3>3. 0 \in 0..Len(QualityChecks) /\ 1..0 = {}
            BY ChecksAreEight
        <3> QED BY <2>7, <3>1, <3>2, <3>3 DEF SavedRowsAreThere
    <2>11. ChecksAreCounted(new)
        BY <2>4, <2>6, <2>7 DEF ChecksAreCounted
    <2> QED BY <2>1, <2>5, <2>9, <2>10, <2>11, RunGoesOn DEF RunIsSound
<1>5. ASSUME NEW r \in Runs, InsertResult(r) PROVE QualityInv'
    <2> DEFINE k == run[r]
               n == k.saved + 1
               p == Len(k.left)
               row == RowOf(r, k, n)
               new == [k EXCEPT !.saved = n]
    <2>1. /\ k.step = "saving" /\ n <= Len(QualityChecks) /\ UNCHANGED scores
          /\ results' = results \cup {row}
          /\ run' = [run EXCEPT ![r] = new]
        BY <1>5 DEF InsertResult, ResultRow, RowOf
    <2>2. /\ new.saved = n /\ new.step = k.step /\ new.left = k.left /\ new.tenant = k.tenant
          /\ new.statuses = k.statuses /\ new \in QualityRuns
        <3>1. k \in QualityRuns /\ n \in Nat
            BY <1>0 DEF QualityRuns
        <3> HIDE DEF k, n
        <3> QED BY <3>1 DEF QualityRuns
    <2>3. n \in 1..Len(QualityChecks) /\ p \in Nat /\ k.saved = n - 1
        <3>1. k.saved \in Nat /\ k.left \in Seq(Tenants)
            BY <1>0 DEF QualityRuns
        <3>2. Len(QualityChecks) = 8 /\ Len(k.left) \in Nat
            BY <3>1, ChecksAreEight
        <3>3. n <= 8
            BY <2>1, <3>2
        <3>4. \A a \in Nat : a + 1 <= 8 => a + 1 \in 1..8 /\ a = (a + 1) - 1
            OBVIOUS
        <3> QED BY ONLY <3>1, <3>2, <3>3, <3>4
    <2>4. row.run = r /\ row.pass = p /\ row.check = n
        BY DEF RowOf
    <2>5. \A m : RowOf(r, new, m) = RowOf(r, k, m)
        BY <2>2 DEF RowOf
    <2> HIDE DEF new
    <2>6. /\ Len(k.statuses) = Len(QualityChecks)
          /\ \A m \in 1..(n - 1) : RowOf(r, k, m) \in results
          /\ \A s \in results : s.run = r /\ s.pass = p => s.check \in 1..(n - 1) /\ s = RowOf(r, k, s.check)
        BY <1>0, <2>1, <2>3 DEF RunIsSound, SavedRowsAreThere
    <2>7. \A s \in results : s.run = r => s.pass \in Nat /\ s.pass >= p
        BY <1>0 DEF RunIsSound, RowsArePast
    <2>8. row = RowOf(r, k, n)
        OBVIOUS
    <2> HIDE DEF row
    <2>9. RowsArePast(r, new, results')
        BY <2>1, <2>2, <2>3, <2>4, <2>7 DEF RowsArePast
    <2>10. SavedRowsAreThere(r, new, results')
        <3>1. \A m \in 1..n : RowOf(r, new, m) \in results'
            <4> SUFFICES ASSUME NEW m \in 1..n PROVE RowOf(r, k, m) \in results'
                BY <2>5
            <4>1. m \in 1..(n - 1) \/ m = n
                BY <2>3
            <4> QED BY <2>1, <2>6, <2>8, <4>1
        <3>2. \A s \in results' : s.run = r /\ s.pass = p => s.check \in 1..n /\ s = RowOf(r, new, s.check)
            <4> SUFFICES ASSUME NEW s \in results', s.run = r, s.pass = p
                         PROVE  s.check \in 1..n /\ s = RowOf(r, k, s.check)
                BY <2>5
            <4>1. CASE s = row
                BY <2>3, <2>4, <2>8, <4>1
            <4>2. CASE s \in results
                BY <2>3, <2>6, <4>2
            <4> QED BY <2>1, <4>1, <4>2
        <3> QED BY <2>2, <2>3, <2>6, <3>1, <3>2, ChecksAreEight DEF SavedRowsAreThere
    <2>11. ChecksAreCounted(new)
        BY <2>1, <2>2 DEF ChecksAreCounted
    <2>12. \A j \in Runs : j # r => RunIsSound(j, run[j], results')
        BY <1>0, <2>1, <2>4 DEF RunIsSound, RowsArePast, SavedRowsAreThere
    <2>13. \A j \in Runs : run'[j] = IF j = r THEN new ELSE run[j]
        BY <2>1 DEF QualityInv, QualityTypeOK
    <2>14. \A j \in Runs : RunIsSound(j, run'[j], results')
        BY <2>9, <2>10, <2>11, <2>12, <2>13 DEF RunIsSound
    <2>15. QualityTypeOK'
        BY <2>1, <2>2 DEF QualityInv, QualityTypeOK
    <2>16. ScoreHasItsResults'
        <3> SUFFICES ASSUME NEW t \in Tenants, NEW d \in 1..MaxDay, scores[t][d] # NoScore
                     PROVE  \E s \in results' :
                                /\ {other.check : other \in PassRows(s.run, s.pass)'} = DOMAIN QualityChecks
                                /\ \A other \in PassRows(s.run, s.pass)' : other.tenant = t
                                /\ scores[t][d] = QualityScore(StoredStatuses(PassRows(s.run, s.pass)'))
            BY <2>1 DEF ScoreHasItsResults
        <3>1. PICK s \in results :
                /\ {other.check : other \in PassRows(s.run, s.pass)} = DOMAIN QualityChecks
                /\ \A other \in PassRows(s.run, s.pass) : other.tenant = t
                /\ scores[t][d] = QualityScore(StoredStatuses(PassRows(s.run, s.pass)))
            BY DEF QualityInv, ScoreHasItsResults
        <3>2. ~(s.run = r /\ s.pass = p)
            <4> SUFFICES ASSUME s.run = r, s.pass = p PROVE FALSE
                OBVIOUS
            <4>1. n \in {other.check : other \in PassRows(s.run, s.pass)}
                BY <2>3, <3>1, ChecksAreEight
            <4>2. PICK other \in results : other.run = r /\ other.pass = p /\ other.check = n
                BY <4>1 DEF PassRows
            <4> QED BY <2>3, <2>6, <4>2
        <3>3. PassRows(s.run, s.pass)' = PassRows(s.run, s.pass)
            BY <2>1, <2>4, <3>2 DEF PassRows
        <3> QED BY <2>1, <3>1, <3>3
    <2> QED BY <2>14, <2>15, <2>16 DEF QualityInv
<1>6. ASSUME NEW r \in Runs, UpsertScore(r) PROVE QualityInv'
    <2> DEFINE k == run[r]
               p == Len(k.left)
               new == [k EXCEPT !.step = "next"]
    <2>1. /\ k.step = "saving" /\ k.saved = Len(QualityChecks) /\ UNCHANGED results
          /\ scores' = [scores EXCEPT ![k.tenant][today] = QualityScore(k.statuses)]
          /\ run' = [run EXCEPT ![r] = new]
        BY <1>6 DEF UpsertScore, ScoreIsDue
    <2>2. new \in QualityRuns /\ new.step = "next" /\ new.left = k.left
        BY <1>0 DEF QualityRuns
    <2> HIDE DEF new
    <2>3. k.statuses \in Seq(QualityStates) /\ QualityScore(k.statuses) \in Scores
        BY <1>0 DEF QualityRuns, Scores
    <2>4. QualityTypeOK'
        BY <2>1, <2>2, <2>3 DEF QualityInv, QualityTypeOK
    <2>5. RunIsSound(r, new, results)
        BY <1>0, <2>1, <2>2 DEF RunIsSound, RowsArePast, SavedRowsAreThere, ChecksAreCounted
    <2>6. \A j \in Runs : RunIsSound(j, run'[j], results')
        BY <1>0, <2>1, <2>5 DEF QualityInv, QualityTypeOK
    <2>7. /\ Len(k.statuses) = Len(QualityChecks)
          /\ \A n \in DOMAIN QualityChecks : RowOf(r, k, n) \in results
          /\ \A s \in results : s.run = r /\ s.pass = p =>
                s.check \in DOMAIN QualityChecks /\ s = RowOf(r, k, s.check)
        BY <1>0, <2>1, ChecksAreEight DEF RunIsSound, SavedRowsAreThere
    <2>8. \A n : /\ RowOf(r, k, n).run = r /\ RowOf(r, k, n).pass = p /\ RowOf(r, k, n).check = n
                 /\ RowOf(r, k, n).tenant = k.tenant /\ RowOf(r, k, n).status = k.statuses[n]
        BY DEF RowOf
    <2>9. \A n \in DOMAIN QualityChecks : RowOf(r, k, n) \in PassRows(r, p)
        BY <2>7, <2>8 DEF PassRows
    <2>10. \A s \in PassRows(r, p) : s.check \in DOMAIN QualityChecks /\ s = RowOf(r, k, s.check)
        BY <2>7 DEF PassRows
    <2>11. {s.check : s \in PassRows(r, p)} = DOMAIN QualityChecks
        BY <2>8, <2>9, <2>10
    <2>12. \A s \in PassRows(r, p) : s.tenant = k.tenant
        BY <2>8, <2>10
    <2>13. StoredStatuses(PassRows(r, p)) = k.statuses
        <3>1. ASSUME NEW n \in DOMAIN QualityChecks
              PROVE  (CHOOSE s \in PassRows(r, p) : s.check = n).status = k.statuses[n]
            <4>1. RowOf(r, k, n) \in PassRows(r, p) /\ RowOf(r, k, n).check = n
                BY <2>8, <2>9
            <4>2. \A s \in PassRows(r, p) : s.check = n => s = RowOf(r, k, n)
                BY <2>10
            <4>3. (CHOOSE s \in PassRows(r, p) : s.check = n) = RowOf(r, k, n)
                BY <4>1, <4>2, TheRowOfACheck
            <4> QED BY <2>8, <4>3
        <3>2. k.statuses = [n \in DOMAIN QualityChecks |-> k.statuses[n]]
            BY <2>3, <2>7, ChecksAreEight, SequenceIsFunction
        <3> QED BY <3>1, <3>2 DEF StoredStatuses
    <2>14. PICK last \in results : last.run = r /\ last.pass = p
        BY <2>7, <2>8, ChecksAreEight
    <2>15. \A j, q : PassRows(j, q)' = PassRows(j, q)
        BY <2>1 DEF PassRows
    <2>16. ASSUME NEW t \in Tenants, NEW d \in 1..MaxDay, scores'[t][d] # NoScore
           PROVE  \E s \in results :
                    /\ {other.check : other \in PassRows(s.run, s.pass)} = DOMAIN QualityChecks
                    /\ \A other \in PassRows(s.run, s.pass) : other.tenant = t
                    /\ scores'[t][d] = QualityScore(StoredStatuses(PassRows(s.run, s.pass)))
        <3>1. CASE t = k.tenant /\ d = today
            <4>1. scores'[t][d] = QualityScore(k.statuses)
                BY <2>1, <3>1 DEF QualityInv, QualityTypeOK
            <4> QED BY <2>11, <2>12, <2>13, <2>14, <3>1, <4>1
        <3>2. CASE ~(t = k.tenant /\ d = today)
            <4>1. scores \in [Tenants -> [1..MaxDay -> Scores]]
                BY DEF QualityInv, QualityTypeOK
            <4>2. scores'[t] = IF t = k.tenant THEN [scores[t] EXCEPT ![today] = QualityScore(k.statuses)] ELSE scores[t]
                BY <2>1, <4>1
            <4>3. scores'[t][d] = scores[t][d]
                <5>1. scores[t] \in [1..MaxDay -> Scores]
                    BY <4>1
                <5> DEFINE row == scores[t]
                <5> HIDE DEF row
                <5>2. \A x : d # today => [row EXCEPT ![today] = x][d] = row[d]
                    BY <5>1 DEF row
                <5>3. CASE t = k.tenant
                    <6>1. d # today
                        BY <3>2, <5>3
                    <6>2. scores'[t] = [row EXCEPT ![today] = QualityScore(k.statuses)]
                        BY <4>2, <5>3 DEF row
                    <6> QED BY <5>2, <6>1, <6>2 DEF row
                <5>4. CASE t # k.tenant
                    BY <4>2, <5>4
                <5> QED BY <5>3, <5>4
            <4>4. scores[t][d] # NoScore
                BY <2>16, <4>3
            <4>5. PICK s \in results :
                    /\ {other.check : other \in PassRows(s.run, s.pass)} = DOMAIN QualityChecks
                    /\ \A other \in PassRows(s.run, s.pass) : other.tenant = t
                    /\ scores[t][d] = QualityScore(StoredStatuses(PassRows(s.run, s.pass)))
                BY <4>4 DEF QualityInv, ScoreHasItsResults
            <4> QED BY ONLY <4>3, <4>5
        <3> QED BY <3>1, <3>2
    <2>17. ScoreHasItsResults'
        BY <2>1, <2>15, <2>16 DEF ScoreHasItsResults
    <2> QED BY <2>4, <2>6, <2>17 DEF QualityInv
<1>7. ASSUME NEW r \in Runs, RunStops(r) PROVE QualityInv'
    <2> DEFINE new == [run[r] EXCEPT !.step = "ended"]
    <2>1. /\ run[r].step \in {"next", "checking", "saving"} /\ UNCHANGED <<results, scores>>
          /\ run' = [run EXCEPT ![r] = new]
        BY <1>7 DEF RunStops
    <2>2. new \in QualityRuns /\ new.step = "ended" /\ new.left = run[r].left
        BY <1>0 DEF QualityRuns
    <2> HIDE DEF new
    <2>3. RunIsSound(r, new, results)
        BY <1>0, <2>1, <2>2 DEF RunIsSound, RowsArePast, SavedRowsAreThere, ChecksAreCounted
    <2> QED BY <2>1, <2>2, <2>3, RunGoesOn
<1>8. CASE UNCHANGED <<results, scores, run>>
    BY <1>8, ScoresStay DEF QualityInv, QualityTypeOK
<1> QED
    BY <1>1, <1>2, <1>3, <1>4, <1>5, <1>6, <1>7, <1>8 DEF QualityNext, TablesChange, Midnight, qualityVars

\* For any tenants, options, tables, runs and stops: a score on record is that
\* of one complete pass over its tenant.
THEOREM ScoresAreExplained == QualitySpec => []ScoreHasItsResults
<1>1. QualityInv => ScoreHasItsResults
    BY DEF QualityInv
<1> QED BY QualityInvInitially, QualityInvIsKept, <1>1, PTL DEF QualitySpec

-------------------------------------------------------------------------------
(* The console: a scrape that is alone sets its gauges to what it saw.     *)

Verdicts == {"passed", "failed"}
ReconciliationRecords ==
    [step : {"idle", "checking", "persisting", "ended"}, left : Seq(Seq(Verdicts)), results : Seq(Verdicts),
     failed : BOOLEAN, lastFailure : Nat, status : {"none", "refused", "passed", "failed", "error"}]
ScrapeFields == {"step", "query", "got", "failed", "alone", "before", "ended", "response"}

\* The query that reads each gauge.
Place == [exercise |-> 1, failures |-> 2, checks |-> 2, checkpoint |-> 3, late |-> 4, daily |-> 5, windows |-> 6]

SignalsTypeOK ==
    /\ tick \in Nat /\ IsFiniteSet(audit)
    /\ reconciliation \in [Reconciliations -> ReconciliationRecords]
    /\ DOMAIN scrape = Scrapes
    /\ \A sc \in Scrapes : DOMAIN scrape[sc] = ScrapeFields

\* A reconciliation that failed has a row of its last failure, or is about to.
FailureIsOnRecord(k, rows) ==
    LET hasRow == \E row \in rows : row.status = "failed" /\ row.tick = k.lastFailure
    IN /\ k.step = "idle" => ~k.failed
       /\ k.step = "checking" /\ k.failed => hasRow
       /\ k.step = "persisting" /\ k.failed => hasRow \/ \E n \in 1..Len(k.results) : k.results[n] = "failed"
       /\ k.status = "failed" => k.step = "ended" /\ hasRow

IsUnderWay(s) == s.step \in {"query", "set"}

\* What a scrape has set or given up, and what it has read and not yet set.
Done(s, g) == Place[g] < s.query /\ Place[g] < FirstServing
AskedFor(s, g) ==
    \/ s.step = "set" /\ Place[g] = s.query
    \/ s.query = FirstServing + 1 /\ Place[g] = FirstServing
    \/ s.step = "set" /\ s.query = FirstServing + 1 /\ Place[g] >= FirstServing

ScrapeIsWellFormed(s, rs) ==
    /\ s.step = "idle" => s.query = 1
    /\ IsUnderWay(s) => s.query \in 1..6 /\ (s.step = "set" => s.query # FirstServing)
    /\ s.step \in {"idle", "query", "set"} => \A g \in Gauges : ~AskedFor(s, g) => s.got[g] = Absent
    /\ s.step # "idle" => \A r \in s.before : r \in Reconciliations /\ rs[r].status = "failed"

\* The failure of r no longer counts.
IsLate(r, rs, now) == rs[r].lastFailure < now - DayLookback

ScrapeIsSound(s, see, registry, rs, now) ==
    /\ IsUnderWay(s) =>
        /\ \A g \in Gauges : AskedFor(s, g) => s.got[g] \in see[g]
        /\ \A g \in Gauges : Done(s, g) /\ g \notin s.failed => Absent \in see[g] \/ registry[g] \in see[g]
        /\ Done(s, "failures") /\ "failures" \notin s.failed =>
              \A r \in s.before : IsLate(r, rs, now) \/ registry["failures"] > 0
        /\ AskedFor(s, "failures") =>
              s.got["failures"] # Absent /\ \A r \in s.before : IsLate(r, rs, now) \/ s.got["failures"] > 0
    /\ s.step = "ended" =>
        /\ \A g \in Gauges \ s.failed : Absent \in see[g] \/ s.response[g] \in see[g]
        /\ \A r \in s.before : "failures" \in s.failed \/ IsLate(r, rs, s.ended) \/ s.response["failures"] > 0

\* One that is alone is the only one under way.
AloneIsAlone ==
    \A sc \in Scrapes, k \in Scrapes :
        IsUnderWay(scrape[sc]) /\ scrape[sc].alone /\ IsUnderWay(scrape[k]) => k = sc

SeenIsCurrent == \A sc \in Scrapes, g \in Gauges : IsUnderWay(scrape[sc]) => Shown[g] \in seen[sc][g]

SignalsInv ==
    /\ SignalsTypeOK /\ AloneIsAlone /\ SeenIsCurrent
    /\ \A r \in Reconciliations : FailureIsOnRecord(reconciliation[r], audit)
    /\ \A sc \in Scrapes :
        /\ ScrapeIsWellFormed(scrape[sc], reconciliation)
        /\ scrape[sc].alone => ScrapeIsSound(scrape[sc], seen[sc], gauges, reconciliation, tick)

LEMMA Places ==
    /\ \A g \in Gauges : Place[g] \in 1..6
    /\ \A q \in 1..6, g \in Gauges : g \in Queries[q] <=> Place[g] = q
    /\ \A g \in Gauges : g \in {"daily", "windows"} <=> Place[g] >= FirstServing
    /\ "failures" \in Gauges /\ Place["failures"] = 2 /\ FirstServing = 5
    /\ \A q \in 1..4, g \in Gauges : g \in Queries[q] => Place[g] < FirstServing
BY DEF Place, Gauges, Queries, FirstServing

LEMMA SignalsInvInitially == SignalsInit => SignalsInv
<1> SUFFICES ASSUME SignalsInit PROVE SignalsInv
    OBVIOUS
<1>1. IsFiniteSet(audit)
    BY FS_EmptySet DEF SignalsInit
<1>2. \A r \in Reconciliations :
        reconciliation[r] = [step |-> "idle", left |-> <<>>, results |-> <<>>, failed |-> FALSE, lastFailure |-> 0, status |-> "none"]
    BY DEF SignalsInit
<1>3. SignalsTypeOK
    BY <1>1, <1>2 DEF SignalsInit, SignalsTypeOK, ReconciliationRecords, ScrapeFields
<1>4. \A r \in Reconciliations : FailureIsOnRecord(reconciliation[r], audit)
    BY <1>2 DEF FailureIsOnRecord
<1>5. \A sc \in Scrapes : scrape[sc].step = "idle" /\ scrape[sc].query = 1 /\ \A g \in Gauges : scrape[sc].got[g] = Absent
    BY DEF SignalsInit
<1> QED
    BY <1>3, <1>4, <1>5 DEF SignalsInv, AloneIsAlone, SeenIsCurrent, ScrapeIsWellFormed, ScrapeIsSound, IsUnderWay

-------------------------------------------------------------------------------
\* The console counts a failure that is on record and not too old.
LEMMA FailuresAreShown ==
    ASSUME SignalsTypeOK
    PROVE  /\ Shown["failures"] \in Nat
           /\ \A k \in ReconciliationRecords :
                /\ \E row \in audit : row.status = "failed" /\ row.tick = k.lastFailure
                /\ ~(k.lastFailure < tick - DayLookback)
                => Shown["failures"] > 0
<1> DEFINE rows == {row \in {other \in audit : other.status = "failed"} : row.tick >= tick - DayLookback}
<1>1. Shown["failures"] = Cardinality(rows)
    BY DEF Shown, Since
<1>2. IsFiniteSet(rows)
    BY FS_Subset DEF SignalsTypeOK
<1>3. ASSUME NEW k \in ReconciliationRecords, NEW row \in audit, row.status = "failed", row.tick = k.lastFailure,
             ~(k.lastFailure < tick - DayLookback)
      PROVE  row \in rows
    BY <1>3, SignalsAssumption DEF SignalsTypeOK, ReconciliationRecords
<1>4. Cardinality(rows) \in Nat /\ (rows # {} => Cardinality(rows) > 0)
    BY <1>2, FS_CardinalityType, FS_EmptySet
<1> HIDE DEF rows
<1> QED BY <1>1, <1>3, <1>4

\* What a scrape saw only grows, and it sees what the tables say in the end.
LEMMA SeenGrows ==
    ASSUME Watch, NEW sc \in Scrapes, NEW g \in Gauges
    PROVE  /\ seen[sc][g] \subseteq seen'[sc][g]
           /\ IsUnderWay(scrape'[sc]) => Shown[g]' \in seen'[sc][g]
BY DEF Watch, UnderWay, IsUnderWay

LEMMA SoundStays ==
    ASSUME NEW s, NEW see, NEW see2, NEW registry, NEW rs, NEW rs2, NEW now \in Nat, NEW now2 \in Nat, now <= now2,
           \A g \in Gauges : see[g] \subseteq see2[g],
           \A r \in s.before : s.step # "idle" => rs2[r].lastFailure = rs[r].lastFailure /\ rs[r].lastFailure \in Nat,
           ScrapeIsSound(s, see, registry, rs, now)
    PROVE  ScrapeIsSound(s, see2, registry, rs2, now2)
<1>1. \A r \in s.before : s.step # "idle" /\ IsLate(r, rs, now) => IsLate(r, rs2, now2)
    BY SignalsAssumption DEF IsLate
<1>2. \A r \in s.before : s.step # "idle" /\ IsLate(r, rs, s.ended) => IsLate(r, rs2, s.ended)
    BY DEF IsLate
<1> QED BY <1>1, <1>2 DEF ScrapeIsSound, IsUnderWay

\* A step of the tables.
LEMMA TablesGoOn ==
    ASSUME SignalsInv, Watch, UNCHANGED <<gauges, scrape>>, tick' \in Nat, tick <= tick', IsFiniteSet(audit'),
           reconciliation' \in [Reconciliations -> ReconciliationRecords],
           \A r \in Reconciliations : FailureIsOnRecord(reconciliation'[r], audit'),
           \A r \in Reconciliations : reconciliation[r].status = "failed" =>
               reconciliation'[r].status = "failed" /\ reconciliation'[r].lastFailure = reconciliation[r].lastFailure
    PROVE  SignalsInv'
<1> USE DEF SignalsInv
<1>1. SignalsTypeOK'
    BY DEF SignalsTypeOK
<1>2. AloneIsAlone'
    BY DEF AloneIsAlone
<1>3. SeenIsCurrent'
    BY SeenGrows DEF SeenIsCurrent
<1>4. ASSUME NEW sc \in Scrapes
      PROVE  /\ ScrapeIsWellFormed(scrape[sc], reconciliation')
             /\ scrape[sc].alone => ScrapeIsSound(scrape[sc], seen'[sc], gauges, reconciliation', tick')
    <2>1. ScrapeIsWellFormed(scrape[sc], reconciliation')
        BY DEF ScrapeIsWellFormed
    <2>2. \A r \in scrape[sc].before : scrape[sc].step # "idle" =>
            /\ reconciliation'[r].lastFailure = reconciliation[r].lastFailure
            /\ reconciliation[r].lastFailure \in Nat
        BY DEF ScrapeIsWellFormed, SignalsTypeOK, ReconciliationRecords
    <2>3. \A g \in Gauges : seen[sc][g] \subseteq seen'[sc][g]
        BY SeenGrows
    <2>4. tick \in Nat
        BY DEF SignalsTypeOK
    <2> QED BY <2>1, <2>2, <2>3, <2>4, SoundStays
<1> QED BY <1>1, <1>2, <1>3, <1>4

\* A step of one scrape that is under way.
LEMMA ScrapeGoesOn ==
    ASSUME SignalsInv, Watch, NEW sc \in Scrapes, IsUnderWay(scrape[sc]), NEW new, DOMAIN new = ScrapeFields,
           scrape' = [scrape EXCEPT ![sc] = new], UNCHANGED <<tick, tableVars, reconciliation>>,
           new.alone = scrape[sc].alone, ScrapeIsWellFormed(new, reconciliation),
           new.step \in {"query", "set", "ended"},
           new.alone => ScrapeIsSound(new, seen[sc], gauges', reconciliation, tick)
    PROVE  SignalsInv'
<1> USE DEF SignalsInv
<1>1. /\ scrape'[sc] = new /\ \A k \in Scrapes : k # sc => scrape'[k] = scrape[k]
      /\ DOMAIN scrape' = Scrapes
    BY DEF SignalsTypeOK
<1>2. SignalsTypeOK'
    BY <1>1 DEF SignalsTypeOK, tableVars
<1>3. AloneIsAlone'
    BY <1>1 DEF AloneIsAlone
<1>4. SeenIsCurrent'
    BY SeenGrows DEF SeenIsCurrent
<1>5. \A r \in Reconciliations : FailureIsOnRecord(reconciliation'[r], audit')
    BY DEF tableVars
<1>6. tick \in Nat /\ tick <= tick
    BY DEF SignalsTypeOK
<1>7. \A k \in Scrapes, g \in Gauges : seen[k][g] \subseteq seen'[k][g]
    BY SeenGrows
<1>8. \A k \in Scrapes : \A r \in scrape'[k].before : scrape'[k].step # "idle" => reconciliation[r].lastFailure \in Nat
    BY <1>1 DEF ScrapeIsWellFormed, SignalsTypeOK, ReconciliationRecords
<1>9. ASSUME NEW k \in Scrapes
      PROVE  /\ ScrapeIsWellFormed(scrape'[k], reconciliation')
             /\ scrape'[k].alone => ScrapeIsSound(scrape'[k], seen'[k], gauges', reconciliation', tick')
    <2>1. ScrapeIsWellFormed(scrape'[k], reconciliation')
        BY <1>1
    <2>2. ASSUME scrape'[k].alone PROVE ScrapeIsSound(scrape'[k], seen[k], gauges', reconciliation, tick)
        <3>1. CASE k = sc
            BY <1>1, <2>2, <3>1
        <3>2. CASE k # sc
            <4>1. ScrapeIsSound(scrape[k], seen[k], gauges, reconciliation, tick)
                BY <1>1, <2>2, <3>2
            <4>2. ~IsUnderWay(scrape[k])
                BY <1>1, <2>2, <3>2 DEF AloneIsAlone
            <4> QED BY <1>1, <3>2, <4>1, <4>2 DEF ScrapeIsSound
        <3> QED BY <3>1, <3>2
    <2>3. ASSUME scrape'[k].alone PROVE ScrapeIsSound(scrape'[k], seen'[k], gauges', reconciliation', tick')
        <3>1. \A g \in Gauges : seen[k][g] \subseteq seen'[k][g]
            BY <1>7
        <3>2. \A r \in scrape'[k].before : scrape'[k].step # "idle" =>
                reconciliation[r].lastFailure = reconciliation[r].lastFailure /\ reconciliation[r].lastFailure \in Nat
            BY <1>8
        <3>3. ScrapeIsSound(scrape'[k], seen'[k], gauges', reconciliation, tick)
            BY <1>6, <2>2, <2>3, <3>1, <3>2, SoundStays
        <3> QED BY <3>3
    <2> QED BY <2>1, <2>3
<1> QED BY <1>2, <1>3, <1>4, <1>5, <1>9

\* One refresh is over, its samples set or given up: the next query, or the answer.
GoesOnWith(s, new, registry, now) ==
    /\ new.before = s.before /\ new.alone = s.alone
    /\ IF s.query < FirstServing
       THEN new.step = "query" /\ new.query = s.query + 1 /\ new.got = [g \in Gauges |-> Absent]
       ELSE new.step = "ended" /\ new.ended = now /\ new.response = registry

LEMMA NextIsWellFormed ==
    ASSUME NEW s, NEW new, NEW registry, NEW rs, NEW now, IsUnderWay(s), ScrapeIsWellFormed(s, rs),
           s.query = FirstServing => s.step = "query", s.step = "query" \/ s.query # FirstServing,
           GoesOnWith(s, new, registry, now)
    PROVE  ScrapeIsWellFormed(new, rs)
<1>1. /\ s.query \in 1..6
      /\ \A r \in new.before : r \in Reconciliations /\ rs[r].status = "failed"
    BY DEF ScrapeIsWellFormed, GoesOnWith, IsUnderWay
<1>2. CASE s.query < FirstServing
    BY <1>1, <1>2 DEF ScrapeIsWellFormed, GoesOnWith, IsUnderWay, FirstServing
<1>3. CASE ~(s.query < FirstServing)
    BY <1>1, <1>3 DEF ScrapeIsWellFormed, GoesOnWith, IsUnderWay
<1> QED BY <1>2, <1>3

\* What it set is what it saw; what it did not ask for keeps its sample.
LEMMA SetIsSound ==
    ASSUME NEW s, NEW new, NEW see, NEW registry, NEW registry2, NEW rs, NEW now,
           s.step = "set", ScrapeIsWellFormed(s, rs), ScrapeIsSound(s, see, registry, rs, now),
           registry2 = [g \in Gauges |-> IF s.got[g] = Absent THEN registry[g] ELSE s.got[g]],
           new.failed = s.failed, GoesOnWith(s, new, registry2, now)
    PROVE  ScrapeIsSound(new, see, registry2, rs, now)
<1>1. IsUnderWay(s) /\ s.query \in 1..6 /\ s.query # FirstServing /\ new.before = s.before
    BY DEF IsUnderWay, ScrapeIsWellFormed, GoesOnWith
<1>2. \A g \in Gauges : AskedFor(s, g) =>
        (Absent \in see[g] \/ registry2[g] \in see[g]) /\ (s.got[g] # Absent => registry2[g] = s.got[g])
    BY <1>1 DEF ScrapeIsSound
<1>3. \A g \in Gauges : ~AskedFor(s, g) => registry2[g] = registry[g]
    BY <1>1 DEF ScrapeIsWellFormed
<1>4. \A g \in Gauges : Done(s, g) => ~AskedFor(s, g)
    BY <1>1, Places DEF Done, AskedFor
<1>5. \A g \in Gauges : (Done(s, g) \/ AskedFor(s, g)) /\ g \notin s.failed => Absent \in see[g] \/ registry2[g] \in see[g]
    BY <1>1, <1>2, <1>3, <1>4 DEF ScrapeIsSound
<1>6. (Done(s, "failures") \/ AskedFor(s, "failures")) /\ "failures" \notin s.failed =>
        \A r \in s.before : IsLate(r, rs, now) \/ registry2["failures"] > 0
    BY <1>1, <1>2, <1>3, <1>4, Places DEF ScrapeIsSound
<1>7. CASE s.query < FirstServing
    <2>1. new.step = "query" /\ new.query = s.query + 1
        BY <1>7 DEF GoesOnWith
    <2>2. \A g \in Gauges : ~AskedFor(new, g) /\ (Done(new, g) => Done(s, g) \/ AskedFor(s, g))
        BY <1>1, <1>7, <2>1, Places DEF AskedFor, Done
    <2> QED BY <1>1, <1>5, <1>6, <2>1, <2>2, Places DEF ScrapeIsSound
<1>8. CASE ~(s.query < FirstServing)
    <2>1. new.step = "ended" /\ new.ended = now /\ new.response = registry2
        BY <1>8 DEF GoesOnWith
    <2>2. \A g \in Gauges : Done(s, g) \/ AskedFor(s, g)
        BY <1>1, <1>8, Places DEF AskedFor, Done
    <2> QED BY <1>1, <1>5, <1>6, <2>1, <2>2, Places DEF ScrapeIsSound, IsUnderWay
<1> QED BY <1>7, <1>8

LEMMA FailureIsSound ==
    ASSUME NEW s, NEW new, NEW see, NEW registry, NEW rs, NEW now,
           s.step = "query", ScrapeIsWellFormed(s, rs), ScrapeIsSound(s, see, registry, rs, now),
           new.failed = s.failed \cup RefreshOf(s.query), GoesOnWith(s, new, registry, now)
    PROVE  ScrapeIsSound(new, see, registry, rs, now)
<1>1. IsUnderWay(s) /\ s.query \in 1..6 /\ new.before = s.before /\ s.failed \subseteq new.failed
    BY DEF IsUnderWay, ScrapeIsWellFormed, GoesOnWith
<1>2. CASE s.query < FirstServing
    <2>1. new.step = "query" /\ new.query = s.query + 1
        BY <1>2 DEF GoesOnWith
    <2>2. \A g \in Gauges : Place[g] = s.query => g \in new.failed
        BY <1>1, <1>2, Places DEF RefreshOf
    <2>3. \A g \in Gauges : ~AskedFor(new, g) /\ (Done(new, g) /\ g \notin new.failed => Done(s, g))
        BY <1>1, <1>2, <2>1, <2>2, Places DEF AskedFor, Done
    <2> QED BY <1>1, <2>1, <2>3, Places DEF ScrapeIsSound
<1>3. CASE ~(s.query < FirstServing)
    <2>1. new.step = "ended" /\ new.ended = now /\ new.response = registry
        BY <1>3 DEF GoesOnWith
    <2>2. \A g \in Gauges : g \notin new.failed => Done(s, g) /\ g \notin s.failed
        BY <1>1, <1>3, Places DEF Done, RefreshOf
    <2> QED BY <1>1, <2>1, <2>2, Places DEF ScrapeIsSound, IsUnderWay
<1> QED BY <1>2, <1>3

\* The answer to a query is what the tables say.
LEMMA QueryIsSound ==
    ASSUME SignalsInv, Watch, NEW sc \in Scrapes, QueryTables(sc)
    PROVE  SignalsInv'
<1> DEFINE s == scrape[sc]
           q == s.query
           got == [g \in Gauges |-> IF g \in Queries[q] THEN Shown[g] ELSE s.got[g]]
           step == IF q = FirstServing THEN "query" ELSE "set"
           place == IF q = FirstServing THEN q + 1 ELSE q
           new == [s EXCEPT !.got = got, !.step = step, !.query = place]
<1>1. s.step = "query" /\ UNCHANGED <<tick, tableVars, gauges, reconciliation>>
    BY DEF QueryTables
<1>2. DOMAIN s = ScrapeFields /\ ScrapeIsWellFormed(s, reconciliation) /\ DOMAIN scrape = Scrapes
    BY DEF SignalsInv, SignalsTypeOK
<1>3. scrape' = [scrape EXCEPT ![sc] = new]
    BY <1>2 DEF QueryTables
<1>4. /\ DOMAIN new = ScrapeFields /\ new.got = got /\ new.step = step /\ new.query = place
      /\ new.before = s.before /\ new.alone = s.alone /\ new.failed = s.failed
    BY <1>2 DEF ScrapeFields
<1> HIDE DEF new
<1>5. q \in 1..6 /\ IsUnderWay(s) /\ step \in {"query", "set"} /\ IsUnderWay(new)
    BY <1>1, <1>2, <1>4 DEF ScrapeIsWellFormed, IsUnderWay
<1>6. \A g \in Gauges : /\ g \in Queries[q] => got[g] = Shown[g]
                        /\ g \notin Queries[q] => got[g] = s.got[g]
    OBVIOUS
<1>7. \A g \in Gauges : /\ AskedFor(new, g) => Place[g] = q \/ AskedFor(s, g)
                        /\ AskedFor(s, g) \/ Place[g] = q => AskedFor(new, g)
                        /\ Done(new, g) <=> Done(s, g)
    BY <1>1, <1>4, <1>5, Places DEF AskedFor, Done
<1> HIDE DEF got
<1>8. ScrapeIsWellFormed(new, reconciliation)
    <2>1. \A g \in Gauges : ~AskedFor(new, g) => new.got[g] = Absent
        BY <1>1, <1>2, <1>4, <1>5, <1>6, <1>7, Places DEF ScrapeIsWellFormed
    <2>2. \A r \in new.before : r \in Reconciliations /\ reconciliation[r].status = "failed"
        BY <1>1, <1>2, <1>4 DEF ScrapeIsWellFormed
    <2>3. new.query \in 1..6 /\ (new.step = "set" => new.query # FirstServing) /\ new.step # "idle"
        BY <1>4, <1>5, Places
    <2> QED BY <2>1, <2>2, <2>3 DEF ScrapeIsWellFormed
<1>9. ASSUME new.alone PROVE ScrapeIsSound(new, seen[sc], gauges, reconciliation, tick)
    <2>1. ScrapeIsSound(s, seen[sc], gauges, reconciliation, tick)
        BY <1>4, <1>9 DEF SignalsInv
    <2>2. \A g \in Gauges : Shown[g] \in seen[sc][g]
        BY <1>5 DEF SignalsInv, SeenIsCurrent
    <2>3. \A g \in Gauges : AskedFor(new, g) => new.got[g] \in seen[sc][g]
        BY <1>4, <1>5, <1>6, <1>7, <2>1, <2>2, Places DEF ScrapeIsSound
    <2>4. ASSUME AskedFor(new, "failures")
          PROVE  /\ new.got["failures"] # Absent
                 /\ \A r \in s.before : IsLate(r, reconciliation, tick) \/ new.got["failures"] > 0
        <3>1. SignalsTypeOK /\ \A r \in Reconciliations :
                reconciliation[r] \in ReconciliationRecords /\ FailureIsOnRecord(reconciliation[r], audit)
            BY DEF SignalsInv, SignalsTypeOK
        <3>2. new.got["failures"] = Shown["failures"]
            BY <1>1, <1>4, <1>5, <1>6, <1>7, <2>4, Places DEF AskedFor
        <3>3. \A r \in s.before : r \in Reconciliations /\ reconciliation[r].status = "failed"
            BY <1>1, <1>2 DEF ScrapeIsWellFormed
        <3>4. \A r \in s.before : \E row \in audit : row.status = "failed" /\ row.tick = reconciliation[r].lastFailure
            BY <3>1, <3>3 DEF FailureIsOnRecord
        <3> QED BY <3>1, <3>2, <3>3, <3>4, FailuresAreShown, SignalsAssumption DEF IsLate
    <2> QED BY <1>4, <1>5, <1>7, <2>1, <2>3, <2>4, Places DEF ScrapeIsSound, IsUnderWay
<1> QED BY <1>1, <1>3, <1>4, <1>5, <1>8, <1>9, ScrapeGoesOn

\* A scrape that starts while another is under way leaves neither alone.
LEMMA ScrapeStarts ==
    ASSUME SignalsInv, Watch, NEW sc \in Scrapes, StartScrape(sc)
    PROVE  SignalsInv'
<1> DEFINE failures == {r \in Reconciliations : reconciliation[r].status = "failed"}
           new == [scrape[sc] EXCEPT !.step = "query", !.alone = UnderWay = {}, !.before = failures]
           other(k) == IF k \in UnderWay THEN [scrape[k] EXCEPT !.alone = FALSE] ELSE scrape[k]
<1>1. /\ scrape[sc].step = "idle" /\ UNCHANGED <<tick, tableVars, gauges, reconciliation>>
      /\ scrape' = [k \in Scrapes |-> IF k = sc THEN new ELSE other(k)]
    BY DEF StartScrape
<1>2. \A k \in Scrapes : DOMAIN scrape[k] = ScrapeFields /\ ScrapeIsWellFormed(scrape[k], reconciliation)
    BY DEF SignalsInv, SignalsTypeOK
<1>3. /\ DOMAIN new = ScrapeFields /\ new.step = "query" /\ new.before = failures
      /\ new.alone => UnderWay = {}
      /\ new.query = scrape[sc].query /\ new.got = scrape[sc].got
    BY <1>2 DEF ScrapeFields
<1>4. ASSUME NEW k \in Scrapes
      PROVE  /\ DOMAIN other(k) = ScrapeFields /\ other(k).step = scrape[k].step /\ other(k).query = scrape[k].query
             /\ other(k).got = scrape[k].got /\ other(k).before = scrape[k].before
             /\ other(k).alone => k \notin UnderWay /\ other(k) = scrape[k]
    <2>1. DOMAIN scrape[k] = ScrapeFields
        BY <1>2
    <2> QED BY <2>1 DEF ScrapeFields
<1> HIDE DEF new, other
<1>5. scrape'[sc] = new /\ (\A k \in Scrapes : k # sc => scrape'[k] = other(k)) /\ DOMAIN scrape' = Scrapes
    BY <1>1
<1>6. SignalsTypeOK'
    BY <1>1, <1>3, <1>4, <1>5 DEF SignalsInv, SignalsTypeOK, tableVars
<1>7. AloneIsAlone'
    <2>1. ASSUME NEW k \in Scrapes, NEW j \in Scrapes, IsUnderWay(scrape'[k]), scrape'[k].alone, IsUnderWay(scrape'[j])
          PROVE  j = k
        <3>1. CASE k = sc
            <4>1. UnderWay = {}
                BY <1>3, <1>5, <2>1, <3>1
            <4>2. j # sc => IsUnderWay(scrape[j])
                BY <1>4, <1>5, <2>1 DEF IsUnderWay
            <4> QED BY <3>1, <4>1, <4>2 DEF UnderWay, IsUnderWay
        <3>2. CASE k # sc
            BY <1>4, <1>5, <2>1, <3>2 DEF UnderWay, IsUnderWay
        <3> QED BY <3>1, <3>2
    <2> QED BY <2>1 DEF AloneIsAlone
<1>8. SeenIsCurrent'
    BY SeenGrows DEF SeenIsCurrent
<1>9. \A r \in Reconciliations : FailureIsOnRecord(reconciliation'[r], audit')
    BY <1>1 DEF SignalsInv, tableVars
<1>10. ScrapeIsWellFormed(new, reconciliation)
    <2>1. \A g \in Gauges : ~AskedFor(new, g) /\ ~AskedFor(scrape[sc], g)
        BY <1>1, <1>2, <1>3, Places DEF AskedFor, ScrapeIsWellFormed
    <2> QED BY <1>1, <1>2, <1>3, <2>1 DEF ScrapeIsWellFormed, IsUnderWay
<1>11. ScrapeIsSound(new, seen'[sc], gauges, reconciliation, tick)
    <2>1. \A g \in Gauges : ~AskedFor(new, g) /\ ~Done(new, g)
        BY <1>1, <1>2, <1>3, Places DEF AskedFor, Done, ScrapeIsWellFormed
    <2> QED BY <1>3, <2>1, Places DEF ScrapeIsSound
<1>12. ASSUME NEW k \in Scrapes, k # sc
       PROVE  /\ ScrapeIsWellFormed(other(k), reconciliation)
              /\ other(k).alone => ScrapeIsSound(other(k), seen'[k], gauges, reconciliation, tick)
    <2>1. ScrapeIsWellFormed(other(k), reconciliation)
        BY <1>2, <1>4 DEF ScrapeIsWellFormed, AskedFor, IsUnderWay
    <2>2. ASSUME other(k).alone PROVE ScrapeIsSound(other(k), seen'[k], gauges, reconciliation, tick)
        <3>1. other(k) = scrape[k] /\ ~IsUnderWay(scrape[k]) /\ ScrapeIsSound(scrape[k], seen[k], gauges, reconciliation, tick)
            BY <1>4, <2>2 DEF SignalsInv, UnderWay, IsUnderWay
        <3>2. \A g \in Gauges : seen[k][g] \subseteq seen'[k][g]
            BY SeenGrows
        <3> QED BY <3>1, <3>2 DEF ScrapeIsSound
    <2> QED BY <2>1, <2>2
<1> QED BY <1>1, <1>5, <1>6, <1>7, <1>8, <1>9, <1>10, <1>11, <1>12 DEF SignalsInv

-------------------------------------------------------------------------------
LEMMA SignalsInvIsKept == SignalsInv /\ [SignalsNext]_signalVars => SignalsInv'
<1> SUFFICES ASSUME SignalsInv, [SignalsNext]_signalVars PROVE SignalsInv'
    OBVIOUS
<1>0. /\ tick \in Nat /\ tick <= tick /\ IsFiniteSet(audit)
      /\ reconciliation \in [Reconciliations -> ReconciliationRecords]
      /\ \A r \in Reconciliations :
            reconciliation[r] \in ReconciliationRecords /\ FailureIsOnRecord(reconciliation[r], audit)
    BY DEF SignalsInv, SignalsTypeOK
<1>1. ASSUME Watch, NEW r \in Reconciliations, NEW new \in ReconciliationRecords, FailureIsOnRecord(new, audit),
             reconciliation' = [reconciliation EXCEPT ![r] = new], reconciliation[r].step # "ended",
             UNCHANGED <<tick, tableVars, gauges, scrape>>
      PROVE  SignalsInv'
    <2>1. reconciliation' \in [Reconciliations -> ReconciliationRecords]
        BY <1>0, <1>1
    <2>2. \A q \in Reconciliations : FailureIsOnRecord(reconciliation'[q], audit')
        BY <1>0, <1>1 DEF tableVars
    <2>3. \A q \in Reconciliations : reconciliation[q].status = "failed" =>
               reconciliation'[q].status = "failed" /\ reconciliation'[q].lastFailure = reconciliation[q].lastFailure
        BY <1>0, <1>1 DEF FailureIsOnRecord
    <2> QED BY <1>0, <1>1, <2>1, <2>2, <2>3, TablesGoOn DEF tableVars
<1>2. ASSUME Watch, NEW r \in Reconciliations, StartReconciliation(r) PROVE SignalsInv'
    <2> DEFINE k == reconciliation[r]
               new == IF ~Plan[r].valid THEN [k EXCEPT !.step = "ended", !.status = "refused"]
                      ELSE IF Plan[r].dry THEN [k EXCEPT !.step = "ended", !.status = "passed"]
                      ELSE [k EXCEPT !.step = "checking", !.left = Plan[r].found]
    <2>1. k.step = "idle" /\ reconciliation' = [reconciliation EXCEPT ![r] = new] /\ UNCHANGED <<tick, tableVars, gauges, scrape>>
        BY <1>2 DEF StartReconciliation, Begun
    <2>2. k \in ReconciliationRecords /\ FailureIsOnRecord(k, audit) /\ Plan[r].found \in Seq(Seq(Verdicts))
        BY <1>0, SignalsAssumption DEF Verdicts
    <2> HIDE DEF k
    <2>3. new \in ReconciliationRecords
        BY <2>2 DEF ReconciliationRecords
    <2>4. ~new.failed /\ new.step \in {"ended", "checking"} /\ (new.status = "failed" => k.status = "failed")
        BY <2>1, <2>2 DEF ReconciliationRecords, FailureIsOnRecord
    <2> HIDE DEF new
    <2>5. FailureIsOnRecord(new, audit)
        BY <2>1, <2>2, <2>4 DEF FailureIsOnRecord
    <2> QED BY <1>1, <1>2, <2>1, <2>3, <2>5 DEF k
<1>3. ASSUME Watch, NEW r \in Reconciliations, RunCheckQuery(r) PROVE SignalsInv'
    <2> DEFINE k == reconciliation[r]
               found == Head(k.left)
               anyFailed == k.failed \/ "failed" \in Range(found)
               new == [k EXCEPT !.step = "persisting", !.left = Tail(@), !.results = found, !.failed = anyFailed]
    <2>1. /\ k.step = "checking" /\ k.left # <<>> /\ reconciliation' = [reconciliation EXCEPT ![r] = new]
          /\ UNCHANGED <<tick, tableVars, gauges, scrape>>
        BY <1>3 DEF RunCheckQuery
    <2>2. k \in ReconciliationRecords /\ FailureIsOnRecord(k, audit)
        BY <1>0
    <2> HIDE DEF k
    <2>3. k.left \in Seq(Seq(Verdicts))
        BY <2>2 DEF ReconciliationRecords
    <2>4. found \in Seq(Verdicts) /\ Tail(k.left) \in Seq(Seq(Verdicts))
        BY <2>1, <2>3
    <2> HIDE DEF found
    <2>5. "failed" \in Range(found) => \E n \in 1..Len(found) : found[n] = "failed"
        BY <2>4 DEF Range
    <2>6. anyFailed \in BOOLEAN /\ (anyFailed => k.failed \/ "failed" \in Range(found))
        BY <2>2 DEF ReconciliationRecords
    <2> HIDE DEF anyFailed
    <2>7. /\ new \in ReconciliationRecords /\ new.step = "persisting" /\ new.results = found /\ new.failed = anyFailed
          /\ new.lastFailure = k.lastFailure /\ new.status = k.status
        BY <2>2, <2>4, <2>6 DEF ReconciliationRecords
    <2> HIDE DEF new
    <2>8. FailureIsOnRecord(new, audit)
        BY <2>1, <2>2, <2>5, <2>6, <2>7 DEF FailureIsOnRecord
    <2> QED BY <1>1, <1>3, <2>1, <2>7, <2>8 DEF k
<1>4. ASSUME Watch, NEW r \in Reconciliations, PersistVerdict(r) PROVE SignalsInv'
    <2> DEFINE k == reconciliation[r]
               verdict == Head(k.results)
               failure == IF verdict = "failed" THEN tick ELSE k.lastFailure
               row == [row |-> Cardinality(audit), status |-> verdict, tick |-> tick]
               new == [k EXCEPT !.results = Tail(@), !.lastFailure = failure]
    <2>1. /\ k.step = "persisting" /\ k.results # <<>> /\ reconciliation' = [reconciliation EXCEPT ![r] = new]
          /\ audit' = audit \cup {row} /\ UNCHANGED <<tick, gauges, scrape>>
        BY <1>4 DEF PersistVerdict
    <2>2. k \in ReconciliationRecords /\ FailureIsOnRecord(k, audit)
        BY <1>0
    <2> HIDE DEF k
    <2>3. k.results \in Seq(Verdicts) /\ k.lastFailure \in Nat
        BY <2>2 DEF ReconciliationRecords
    <2>4. /\ Tail(k.results) \in Seq(Verdicts) /\ verdict = k.results[1]
          /\ Len(Tail(k.results)) = Len(k.results) - 1 /\ Len(k.results) \in Nat
          /\ \A n \in 1..(Len(k.results) - 1) : Tail(k.results)[n] = k.results[n + 1]
        BY <2>1, <2>3
    <2>5. row.status = verdict /\ row.tick = tick
        OBVIOUS
    <2> HIDE DEF verdict, row
    <2>6. failure \in Nat /\ (verdict = "failed" => failure = tick) /\ (verdict # "failed" => failure = k.lastFailure)
        BY <1>0, <2>3
    <2> HIDE DEF failure
    <2>7. /\ new \in ReconciliationRecords /\ new.step = "persisting" /\ new.results = Tail(k.results)
          /\ new.failed = k.failed /\ new.lastFailure = failure /\ new.status = k.status
        BY <2>1, <2>2, <2>4, <2>6 DEF ReconciliationRecords
    <2> HIDE DEF new
    <2>8. FailureIsOnRecord(new, audit')
        <3>1. CASE verdict = "failed"
            <4>1. \E x \in audit' : x.status = "failed" /\ x.tick = new.lastFailure
                BY <2>1, <2>5, <2>6, <2>7, <3>1
            <4> QED BY <2>1, <2>2, <2>7, <4>1 DEF FailureIsOnRecord
        <3>2. CASE verdict # "failed"
            <4>1. ASSUME NEW n \in 1..Len(k.results), k.results[n] = "failed"
                  PROVE  \E m \in 1..Len(new.results) : new.results[m] = "failed"
                <5>1. n # 1 /\ n - 1 \in 1..(Len(k.results) - 1) /\ (n - 1) + 1 = n
                    BY <2>4, <3>2, <4>1
                <5>2. Tail(k.results)[n - 1] = "failed"
                    BY <2>4, <4>1, <5>1
                <5> QED BY <2>4, <2>7, <5>1, <5>2
            <4>2. new.lastFailure = k.lastFailure /\ audit \subseteq audit'
                BY <2>1, <2>6, <2>7, <3>2
            <4> QED BY <2>1, <2>2, <2>7, <4>1, <4>2 DEF FailureIsOnRecord
        <3> QED BY <3>1, <3>2
    <2>9. \A q \in Reconciliations : q # r => FailureIsOnRecord(reconciliation[q], audit')
        BY <1>0, <2>1 DEF FailureIsOnRecord
    <2>10. IsFiniteSet(audit')
        BY <1>0, <2>1, FS_AddElement
    <2>11. /\ reconciliation' \in [Reconciliations -> ReconciliationRecords]
           /\ \A q \in Reconciliations : reconciliation'[q] = IF q = r THEN new ELSE reconciliation[q]
        BY <1>0, <2>1, <2>7
    <2>12. \A q \in Reconciliations : FailureIsOnRecord(reconciliation'[q], audit')
        BY <2>8, <2>9, <2>11
    <2>13. \A q \in Reconciliations : reconciliation[q].status = "failed" =>
               reconciliation'[q].status = "failed" /\ reconciliation'[q].lastFailure = reconciliation[q].lastFailure
        BY <2>1, <2>2, <2>11 DEF FailureIsOnRecord, k
    <2> QED BY <1>0, <1>4, <2>1, <2>10, <2>11, <2>12, <2>13, TablesGoOn
<1>5. ASSUME Watch, NEW r \in Reconciliations, EndCheck(r) PROVE SignalsInv'
    <2> DEFINE k == reconciliation[r]
               new == [k EXCEPT !.step = "checking"]
    <2>1. /\ k.step = "persisting" /\ k.results = <<>> /\ reconciliation' = [reconciliation EXCEPT ![r] = new]
          /\ UNCHANGED <<tick, tableVars, gauges, scrape>>
        BY <1>5 DEF EndCheck
    <2>2. k \in ReconciliationRecords /\ FailureIsOnRecord(k, audit)
        BY <1>0
    <2> HIDE DEF k
    <2>3. /\ new \in ReconciliationRecords /\ new.step = "checking" /\ new.failed = k.failed
          /\ new.lastFailure = k.lastFailure /\ new.status = k.status
        BY <2>2 DEF ReconciliationRecords
    <2> HIDE DEF new
    <2>4. Len(k.results) = 0
        BY <2>1
    <2>5. FailureIsOnRecord(new, audit)
        BY <2>1, <2>2, <2>3, <2>4 DEF FailureIsOnRecord
    <2> QED BY <1>1, <1>5, <2>1, <2>3, <2>5 DEF k
<1>6. ASSUME Watch, NEW r \in Reconciliations, NEW s \in {"passed", "failed", "error"},
             reconciliation[r].step \in {"checking", "persisting"},
             s = "failed" => reconciliation[r].step = "checking" /\ reconciliation[r].failed,
             reconciliation' = [reconciliation EXCEPT ![r].step = "ended", ![r].status = s],
             UNCHANGED <<tick, tableVars, gauges, scrape>>
      PROVE  SignalsInv'
    <2> DEFINE k == reconciliation[r]
               new == [k EXCEPT !.step = "ended", !.status = s]
    <2>1. reconciliation' = [reconciliation EXCEPT ![r] = new]
        BY <1>6
    <2>2. k \in ReconciliationRecords /\ FailureIsOnRecord(k, audit)
        BY <1>0
    <2>3. k.step \in {"checking", "persisting"} /\ (s = "failed" => k.step = "checking" /\ k.failed)
        BY <1>6
    <2> HIDE DEF k
    <2>4. /\ new \in ReconciliationRecords /\ new.step = "ended" /\ new.lastFailure = k.lastFailure /\ new.status = s
        BY <1>6, <2>2 DEF ReconciliationRecords
    <2> HIDE DEF new
    <2>5. FailureIsOnRecord(new, audit)
        BY <2>2, <2>3, <2>4 DEF FailureIsOnRecord
    <2> QED BY <1>1, <1>6, <2>1, <2>4, <2>5 DEF k
<1>7. ASSUME Watch, NEW r \in Reconciliations, Report(r) PROVE SignalsInv'
    BY <1>6, <1>7 DEF Report
<1>8. ASSUME Watch, NEW r \in Reconciliations, ReconciliationStops(r) PROVE SignalsInv'
    BY <1>6, <1>8 DEF ReconciliationStops
<1>9. ASSUME Watch, UNCHANGED <<audit, gauges, scrape, reconciliation>>, tick' \in {tick, tick + 1} PROVE SignalsInv'
    <2>1. tick' \in Nat /\ tick <= tick' /\ IsFiniteSet(audit')
        BY <1>0, <1>9
    <2> QED BY <1>0, <1>9, <2>1, TablesGoOn
<1>10. ASSUME Watch, NEW x \in Exercises, StartExercise(x) \/ EndExercise(x) \/ PersistOutcome(x) PROVE SignalsInv'
    BY <1>9, <1>10 DEF StartExercise, EndExercise, PersistOutcome, tableVars
<1>11. ASSUME Watch, (\E table \in DOMAIN lastRow : RowWritten(table)) \/ LateEventStored \/ Tick PROVE SignalsInv'
    BY <1>9, <1>11 DEF RowWritten, LateEventStored, Tick, tableVars
<1>12. ASSUME Watch, NEW sc \in Scrapes, StartScrape(sc) PROVE SignalsInv'
    BY <1>12, ScrapeStarts
<1>13. ASSUME Watch, NEW sc \in Scrapes, QueryTables(sc) PROVE SignalsInv'
    BY <1>13, QueryIsSound
<1>14. ASSUME Watch, NEW sc \in Scrapes, SetGauges(sc) PROVE SignalsInv'
    <2> DEFINE s == scrape[sc]
               new == After(sc, gauges')
    <2>1. /\ s.step = "set" /\ scrape' = [scrape EXCEPT ![sc] = new] /\ UNCHANGED <<tick, tableVars, reconciliation>>
          /\ gauges' = [g \in Gauges |-> IF s.got[g] = Absent THEN gauges[g] ELSE s.got[g]]
        BY <1>14 DEF SetGauges
    <2>2. DOMAIN s = ScrapeFields /\ ScrapeIsWellFormed(s, reconciliation)
        BY DEF SignalsInv, SignalsTypeOK
    <2>3. /\ DOMAIN new = ScrapeFields /\ new.failed = s.failed /\ GoesOnWith(s, new, gauges', tick)
          /\ new.step \in {"query", "ended"}
        BY <2>2 DEF After, GoesOnWith, ScrapeFields
    <2> HIDE DEF new
    <2>4. IsUnderWay(s) /\ new.alone = s.alone /\ s.query # FirstServing
        BY <2>1, <2>2, <2>3 DEF IsUnderWay, GoesOnWith, ScrapeIsWellFormed
    <2>5. ScrapeIsWellFormed(new, reconciliation)
        BY <2>2, <2>3, <2>4, NextIsWellFormed
    <2>6. new.alone => ScrapeIsSound(new, seen[sc], gauges', reconciliation, tick)
        BY <2>1, <2>2, <2>3, <2>4, SetIsSound DEF SignalsInv
    <2> QED BY <1>14, <2>1, <2>3, <2>4, <2>5, <2>6, ScrapeGoesOn
<1>15. ASSUME Watch, NEW sc \in Scrapes, RefreshFails(sc) PROVE SignalsInv'
    <2> DEFINE s == scrape[sc]
               new == [AfterFailure(sc) EXCEPT !.failed = @ \cup RefreshOf(s.query)]
    <2>1. /\ s.step = "query" /\ scrape' = [scrape EXCEPT ![sc] = new]
          /\ UNCHANGED <<tick, tableVars, gauges, reconciliation>>
        BY <1>15 DEF RefreshFails
    <2>2. DOMAIN s = ScrapeFields /\ ScrapeIsWellFormed(s, reconciliation)
        BY DEF SignalsInv, SignalsTypeOK
    <2>3. /\ DOMAIN new = ScrapeFields /\ new.failed = s.failed \cup RefreshOf(s.query)
          /\ GoesOnWith(s, new, gauges, tick) /\ new.step \in {"query", "ended"}
        BY <2>2 DEF AfterFailure, After, GoesOnWith, ScrapeFields
    <2> HIDE DEF new
    <2>4. IsUnderWay(s) /\ new.alone = s.alone
        BY <2>1, <2>3 DEF IsUnderWay, GoesOnWith
    <2>5. ScrapeIsWellFormed(new, reconciliation)
        BY <2>1, <2>2, <2>3, <2>4, NextIsWellFormed
    <2>6. new.alone => ScrapeIsSound(new, seen[sc], gauges, reconciliation, tick)
        BY <2>1, <2>2, <2>3, <2>4, FailureIsSound DEF SignalsInv
    <2> QED BY <1>15, <2>1, <2>3, <2>4, <2>5, <2>6, ScrapeGoesOn
<1>16. CASE UNCHANGED signalVars
    <2>1. UNCHANGED <<tick, audit, runRows, lateRows, lastRow, gauges, scrape, reconciliation, seen>>
        BY <1>16 DEF signalVars, tableVars
    <2>2. Shown' = Shown
        BY <2>1 DEF Shown, LastExercise, LateCount, Since
    <2> QED
        BY <2>1, <2>2 DEF SignalsInv, SignalsTypeOK, AloneIsAlone, SeenIsCurrent
<1>17. CASE SignalsNext
    <2>1. SignalStep /\ Watch
        BY <1>17 DEF SignalsNext
    <2>2. CASE \E r \in Reconciliations :
                \/ StartReconciliation(r) \/ RunCheckQuery(r) \/ PersistVerdict(r) \/ EndCheck(r) \/ Report(r)
                \/ ReconciliationStops(r)
        BY <1>2, <1>3, <1>4, <1>5, <1>7, <1>8, <2>1, <2>2
    <2>3. CASE \E sc \in Scrapes : StartScrape(sc) \/ QueryTables(sc) \/ SetGauges(sc) \/ RefreshFails(sc)
        BY <1>12, <1>13, <1>14, <1>15, <2>1, <2>3
    <2> QED BY <1>10, <1>11, <2>1, <2>2, <2>3 DEF SignalStep
<1> QED BY <1>16, <1>17

\* What a scrape that met no other shows is what the tables said while it ran,
\* and no failed reconciliation is missing from it.
THEOREM ScrapesShowTables == SignalsSpec => []ScrapeShowsTables
<1>1. SignalsInv => ScrapeShowsTables
    BY DEF SignalsInv, ScrapeShowsTables, ScrapeIsSound, IsLate
<1> QED BY <1>1, SignalsInvInitially, SignalsInvIsKept, PTL DEF SignalsSpec

-------------------------------------------------------------------------------
(* The batch DAG: while a run is the sole one, nobody else runs a job.     *)

Ended == {"none", "success", "failed"}
Underway == {"list", "clear", "read", "write"}
Files == [by : DagRuns, events : SUBSET RawEvents]
TaskRecords ==
    [state : Ended \cup Underway, listed : SUBSET Files, read : SUBSET RawEvents, left : SUBSET SUBSET RawEvents]
BatchRecords ==
    [runs : SUBSET DagRuns, rows : SUBSET RawEvents, slots : Nat, inserts : Nat, failures : Nat]

BatchTypeOK ==
    /\ batch \in BatchRecords
    /\ raw \subseteq RawEvents
    /\ output \in [SparkJobs -> SUBSET Files]
    /\ task \in [DagRuns -> [Tasks -> TaskRecords]]
    /\ sole \subseteq batch.runs

Normalization == "event_normalization"
Compaction == "lakehouse_compaction"

\* The jobs that run are the sole run's.
SoleRunsAlone ==
    \A d \in sole, e \in batch.runs, t \in SparkJobs : task[e][t].state \in Underway => e = d

\* A job of the sole run that stands at k: what it has cleared and written.
JobIsSound(d, t, k, files) ==
    /\ k.state = "read" => files = {}
    /\ k.state = "write" => {file.events : file \in files} \cup k.left = Pieces(t, k.read)
    /\ k.state = "success" => {file.events : file \in files} = Pieces(t, k.read)
    /\ k.state \in {"write", "success"} => \A file \in files : file.by = d

\* Its compaction lists what its normalization wrote, and finds it again.
CompactionIsSound(k, normalization, files) ==
    /\ k.state # "none" => normalization.state = "success"
    /\ k.state \in {"clear", "read"} => k.listed = files
    /\ k.state \in {"write", "success"} => k.read = normalization.read

SoleIsSound(d) ==
    /\ \A t \in SparkJobs : JobIsSound(d, t, task[d][t], output[t])
    /\ CompactionIsSound(task[d][Compaction], task[d][Normalization], output[Normalization])

BatchInv == BatchTypeOK /\ SoleRunsAlone /\ \A d \in sole : SoleIsSound(d)

LEMMA JobsAreTasks ==
    /\ SparkJobs \subseteq Tasks /\ Compaction \in SparkJobs /\ Normalization \in SparkJobs
    /\ Compaction # Normalization
    /\ Normalization \in Upstream[Compaction]
BY DEF SparkJobs, Tasks, Upstream, Compaction, Normalization

\* The pieces of a set of events are that set again.
LEMMA PiecesAreWhole ==
    ASSUME NEW t, NEW es PROVE UNION Pieces(t, es) = es /\ Pieces(t, es) \subseteq SUBSET es
BY DEF Pieces

LEMMA BatchInvInitially == BatchInit => BatchInv
<1> SUFFICES ASSUME BatchInit PROVE BatchInv
    OBVIOUS
<1>1. NotRun \in TaskRecords
    BY DEF NotRun, TaskRecords, Ended
<1>2. batch \in BatchRecords
    BY BatchAssumption DEF BatchInit, BatchRecords
<1>3. BatchTypeOK
    BY <1>1, <1>2 DEF BatchInit, BatchTypeOK, BatchRecords
<1> QED BY <1>3 DEF BatchInit, BatchInv, SoleRunsAlone

-------------------------------------------------------------------------------
\* One job that runs goes on, and writes its own output at most.
LEMMA JobGoesOn ==
    ASSUME BatchInv, NEW d \in batch.runs, NEW t \in SparkJobs, task[d][t].state \in Underway,
           NEW new \in TaskRecords, new.state # "none", task' = [task EXCEPT ![d][t] = new],
           NEW files \in SUBSET Files, output' = [output EXCEPT ![t] = files],
           UNCHANGED <<raw, sole>>, batch' \in BatchRecords, batch'.runs = batch.runs,
           d \in sole =>
               /\ JobIsSound(d, t, new, files)
               /\ t = Compaction => CompactionIsSound(new, task[d][Normalization], output[Normalization])
    PROVE  BatchInv'
<1> USE DEF BatchInv
<1>1. d \in DagRuns /\ t \in Tasks
    BY JobsAreTasks DEF BatchTypeOK, BatchRecords
<1>2. BatchTypeOK'
    BY <1>1 DEF BatchTypeOK
<1>3. /\ \A e \in DagRuns, u \in Tasks : task'[e][u] = IF e = d /\ u = t THEN new ELSE task[e][u]
      /\ \A u \in SparkJobs : output'[u] = IF u = t THEN files ELSE output[u]
    BY <1>1 DEF BatchTypeOK
<1>4. \A e \in sole : e = d /\ e \in DagRuns
    BY DEF SoleRunsAlone, BatchTypeOK, BatchRecords
<1>5. SoleRunsAlone'
    <2> SUFFICES ASSUME NEW a \in sole, NEW e \in batch.runs, NEW u \in SparkJobs, task'[e][u].state \in Underway
                 PROVE  e = a
        BY DEF SoleRunsAlone
    <2>1. e \in DagRuns /\ u \in Tasks
        BY JobsAreTasks DEF BatchTypeOK, BatchRecords
    <2> QED BY <1>3, <1>4, <2>1 DEF SoleRunsAlone
<1>6. ASSUME d \in sole PROVE SoleIsSound(d)'
    <2>1. SoleIsSound(d)
        BY <1>6
    <2>2. \A u \in SparkJobs : JobIsSound(d, u, task'[d][u], output'[u])
        BY <1>1, <1>3, <1>6, <2>1, JobsAreTasks DEF SoleIsSound
    <2>3. CompactionIsSound(task'[d][Compaction], task'[d][Normalization], output'[Normalization])
        <3>1. CASE t = Compaction
            BY <1>1, <1>3, <1>6, <3>1, JobsAreTasks
        <3>2. CASE t = Normalization
            <4>1. task[d][Compaction].state = "none"
                BY <2>1, <3>2 DEF SoleIsSound, CompactionIsSound, Underway
            <4> QED BY <1>1, <1>3, <3>2, <4>1, JobsAreTasks DEF CompactionIsSound
        <3>3. CASE t \notin {Compaction, Normalization}
            BY <1>1, <1>3, <2>1, <3>3, JobsAreTasks DEF SoleIsSound
        <3> QED BY <3>1, <3>2, <3>3
    <2> QED BY <2>2, <2>3 DEF SoleIsSound
<1> QED BY <1>2, <1>4, <1>5, <1>6

LEMMA BatchInvIsKept == BatchInv /\ [BatchNext]_batchVars => BatchInv'
<1> SUFFICES ASSUME BatchInv, [BatchNext]_batchVars PROVE BatchInv'
    OBVIOUS
<1>0. ASSUME NEW d \in batch.runs, NEW t \in SparkJobs
      PROVE  /\ task[d][t] \in TaskRecords /\ output[t] \in SUBSET Files
             /\ d \in DagRuns /\ t \in Tasks /\ batch \in BatchRecords /\ raw \subseteq RawEvents
             /\ output = [output EXCEPT ![t] = output[t]]
             /\ d \in sole => JobIsSound(d, t, task[d][t], output[t])
             /\ d \in sole => CompactionIsSound(task[d][Compaction], task[d][Normalization], output[Normalization])
    BY <1>0, JobsAreTasks DEF BatchInv, BatchTypeOK, BatchRecords, SoleIsSound
<1>1. ASSUME NEW d \in batch.runs, NEW t \in Tasks, RunPlainTask(d, t) PROVE BatchInv'
    <2>1. PICK s \in {"success", "failed"} : task' = [task EXCEPT ![d][t].state = s]
        BY <1>1 DEF RunPlainTask, Becomes
    <2>2. t \notin SparkJobs /\ UNCHANGED <<raw, output, sole>>
        BY <1>1 DEF RunPlainTask
    <2>3. batch' \in BatchRecords /\ batch'.runs = batch.runs
        BY <1>1 DEF RunPlainTask, TaskFault, BatchInv, BatchTypeOK, BatchRecords
    <2>4. d \in DagRuns /\ task[d][t] \in TaskRecords
        BY DEF BatchInv, BatchTypeOK, BatchRecords
    <2>5. [task[d][t] EXCEPT !.state = s] \in TaskRecords
        BY <2>4 DEF TaskRecords, Ended
    <2>6. BatchTypeOK'
        BY <2>1, <2>2, <2>3, <2>4, <2>5 DEF BatchInv, BatchTypeOK
    <2>7. \A e \in DagRuns, u \in SparkJobs : task'[e][u] = task[e][u]
        BY <2>1, <2>2, <2>4, JobsAreTasks DEF BatchInv, BatchTypeOK
    <2>8. batch.runs \subseteq DagRuns /\ sole \subseteq DagRuns
        BY DEF BatchInv, BatchTypeOK, BatchRecords
    <2>9. SoleRunsAlone'
        BY <2>2, <2>3, <2>7, <2>8 DEF BatchInv, SoleRunsAlone
    <2>10. \A e \in sole : SoleIsSound(e)'
        BY <2>2, <2>7, <2>8, JobsAreTasks DEF BatchInv, SoleIsSound
    <2> QED BY <2>2, <2>6, <2>9, <2>10 DEF BatchInv
<1>2. ASSUME NEW d \in batch.runs, NEW t \in SparkJobs, StartJob(d, t) PROVE BatchInv'
    <2> DEFINE begun == IF t = Compaction THEN "list" ELSE "clear"
               new == [task[d][t] EXCEPT !.state = begun]
    <2>1. /\ task' = [task EXCEPT ![d][t] = new] /\ UNCHANGED <<raw, output, batch>>
          /\ task[d][t].state = "none" /\ \A u \in Upstream[t] : task[d][u].state = "success"
        BY <1>2 DEF StartJob, Becomes, Compaction, Triggered, TaskState
    <2>2. new \in TaskRecords /\ new.state = begun
        BY <1>0 DEF TaskRecords, Underway
    <2>3. begun \in {"list", "clear"} /\ (t = Compaction => begun = "list")
        OBVIOUS
    <2> HIDE DEF new, begun
    <2>4. \A e \in DagRuns, u \in Tasks : task'[e][u] = IF e = d /\ u = t THEN new ELSE task[e][u]
        BY <1>0, <2>1 DEF BatchInv, BatchTypeOK
    <2>5. /\ sole' \subseteq {d}
          /\ d \in sole' =>
                /\ \A e \in batch.runs, u \in SparkJobs : task[e][u].state \in Underway => e = d
                /\ d \in sole \/ \A u \in SparkJobs : task[d][u].state = "none"
        <3>1. sole' = IF /\ \A x \in JobsRunning : x[1] = d
                         /\ d \in sole \/ \A u \in SparkJobs : task[d][u].state = "none"
                      THEN {d} ELSE {}
            BY <1>2 DEF StartJob, TaskState
        <3>2. ASSUME NEW e \in batch.runs, NEW u \in SparkJobs, task[e][u].state \in Underway
              PROVE  <<e, u>> \in JobsRunning /\ <<e, u>>[1] = e
            BY <3>2 DEF JobsRunning, TaskState, Underway
        <3> QED BY <3>1, <3>2
    <2>6. BatchTypeOK'
        BY <1>0, <2>1, <2>2, <2>5 DEF BatchInv, BatchTypeOK
    <2>7. batch.runs \subseteq DagRuns
        BY <1>0 DEF BatchRecords
    <2>8. SoleRunsAlone'
        <3> SUFFICES ASSUME NEW a \in sole', NEW e \in batch.runs, NEW u \in SparkJobs, task'[e][u].state \in Underway
                     PROVE  e = a
            BY <2>1 DEF SoleRunsAlone
        <3>1. a = d
            BY <2>5
        <3>2. e # d => task'[e][u] = task[e][u]
            BY <2>4, <2>7, JobsAreTasks
        <3> QED BY <2>5, <3>1, <3>2
    <2>9. ASSUME d \in sole' PROVE SoleIsSound(d)'
        <3>1. ASSUME NEW u \in SparkJobs PROVE JobIsSound(d, u, task'[d][u], output[u])
            <4>1. CASE u = t
                BY <1>0, <2>2, <2>3, <2>4, <4>1 DEF JobIsSound
            <4>2. CASE u # t
                <5>1. task'[d][u] = task[d][u]
                    BY <1>0, <2>4, <4>2
                <5>2. CASE d \in sole
                    BY <1>0, <5>1, <5>2
                <5>3. CASE task[d][u].state = "none"
                    BY <5>1, <5>3 DEF JobIsSound
                <5> QED BY <2>5, <2>9, <5>2, <5>3
            <4> QED BY <4>1, <4>2
        <3>2. CompactionIsSound(task'[d][Compaction], task'[d][Normalization], output[Normalization])
            <4>1. CASE t = Compaction
                <5>1. task'[d][Normalization].state = "success"
                    BY <1>0, <2>1, <2>4, <4>1, JobsAreTasks
                <5>2. task'[d][Compaction].state = "list"
                    BY <1>0, <2>2, <2>3, <2>4, <4>1
                <5> QED BY <5>1, <5>2 DEF CompactionIsSound
            <4>2. CASE t # Compaction
                <5>1. task'[d][Compaction] = task[d][Compaction]
                    BY <1>0, <2>4, <4>2, JobsAreTasks
                <5>2. CASE task[d][Compaction].state = "none"
                    BY <5>1, <5>2 DEF CompactionIsSound
                <5>3. CASE task[d][Compaction].state # "none"
                    <6>1. d \in sole
                        BY <2>5, <2>9, <5>3, JobsAreTasks
                    <6>2. CompactionIsSound(task[d][Compaction], task[d][Normalization], output[Normalization])
                        BY <1>0, <6>1
                    <6>3. t # Normalization
                        BY <2>1, <5>3, <6>2 DEF CompactionIsSound
                    <6>4. task'[d][Normalization] = task[d][Normalization]
                        BY <1>0, <2>4, <6>3, JobsAreTasks
                    <6> QED BY <5>1, <6>2, <6>4
                <5> QED BY <5>2, <5>3
            <4> QED BY <4>1, <4>2
        <3> QED BY <2>1, <3>1, <3>2 DEF SoleIsSound
    <2> QED BY <2>5, <2>6, <2>8, <2>9 DEF BatchInv
<1>3. ASSUME NEW d \in batch.runs, ListInput(d) PROVE BatchInv'
    <2> DEFINE t == Compaction
               listed == output[Normalization]
               state == IF listed = {} THEN "failed" ELSE "clear"
               new == [task[d][t] EXCEPT !.state = state, !.listed = listed]
    <2>1. /\ task[d][t].state = "list" /\ task' = [task EXCEPT ![d][t] = new]
          /\ UNCHANGED <<raw, output, sole, batch>>
        BY <1>3 DEF ListInput, TaskState, Compaction, Normalization
    <2>2. state \in {"failed", "clear"} /\ t \in SparkJobs /\ listed \in SUBSET Files
        BY <1>0, JobsAreTasks
    <2> HIDE DEF state
    <2>3. new \in TaskRecords /\ new.state = state /\ new.listed = listed
        <3>1. task[d][t] \in TaskRecords
            BY <1>0, <2>2
        <3> HIDE DEF listed, t
        <3> QED BY <2>2, <3>1 DEF TaskRecords, Ended, Underway
    <2> HIDE DEF new
    <2>4. JobIsSound(d, t, new, output[t])
        BY <2>2, <2>3 DEF JobIsSound
    <2>5. d \in sole => CompactionIsSound(new, task[d][Normalization], output[Normalization])
        BY <1>0, <2>1, <2>2, <2>3 DEF CompactionIsSound
    <2>6. output' = [output EXCEPT ![t] = output[t]] /\ output[t] \in SUBSET Files
        BY <1>0, <2>1, <2>2
    <2>7. task[d][t].state \in Underway /\ new.state # "none" /\ batch' \in BatchRecords
        BY <1>0, <2>1, <2>2, <2>3 DEF Underway
    <2> HIDE DEF t
    <2> QED BY <2>1, <2>2, <2>3, <2>4, <2>5, <2>6, <2>7, JobGoesOn
<1>4. ASSUME NEW d \in batch.runs, NEW t \in SparkJobs, ClearOutput(d, t) PROVE BatchInv'
    <2> DEFINE new == [task[d][t] EXCEPT !.state = "read"]
    <2>1. /\ task[d][t].state = "clear" /\ task' = [task EXCEPT ![d][t] = new]
          /\ output' = [output EXCEPT ![t] = {}]
          /\ UNCHANGED <<raw, sole, batch>>
        BY <1>4 DEF ClearOutput, TaskState, Becomes
    <2>2. new \in TaskRecords /\ new.state = "read" /\ new.listed = task[d][t].listed
        BY <1>0 DEF TaskRecords, Ended, Underway
    <2> HIDE DEF new
    <2>3. JobIsSound(d, t, new, {})
        BY <2>2 DEF JobIsSound
    <2>4. d \in sole /\ t = Compaction => CompactionIsSound(new, task[d][Normalization], output[Normalization])
        BY <1>0, <2>1, <2>2 DEF CompactionIsSound
    <2>5. task[d][t].state \in Underway /\ new.state # "none" /\ batch' \in BatchRecords /\ {} \in SUBSET Files
        BY <1>0, <2>1, <2>2 DEF Underway
    <2> QED BY <2>1, <2>2, <2>3, <2>4, <2>5, JobGoesOn
<1>5. ASSUME NEW d \in batch.runs, NEW t \in SparkJobs, ReadInput(d, t) PROVE BatchInv'
    <2>1. task[d][t].state = "read" /\ UNCHANGED <<raw, output, sole, batch>>
        BY <1>5 DEF ReadInput, TaskState
    <2>2. task[d][t].state \in Underway /\ batch' \in BatchRecords /\ output' = [output EXCEPT ![t] = output[t]]
        BY <1>0, <2>1 DEF Underway
    <2>3. CASE task[d][t].listed \subseteq output["event_normalization"]
        <3> DEFINE rows == InputOf(d, t)
                   pieces == Pieces(t, rows)
                   new == [task[d][t] EXCEPT !.state = "write", !.read = rows, !.left = pieces]
        <3>1. task' = [task EXCEPT ![d][t] = new]
            <4>1. task' = [task EXCEPT ![d][t].state = "write", ![d][t].read = rows, ![d][t].left = pieces]
                BY <1>5, <2>3 DEF ReadInput
            <4> HIDE DEF rows, pieces
            <4> QED BY <4>1
        <3>2. rows \subseteq RawEvents
            <4>1. Compacted(task[d][t].listed) \subseteq RawEvents
                BY <1>0 DEF Compacted, TaskRecords, Files
            <4>2. \A es : es \subseteq RawEvents => Recent(es) \subseteq RawEvents
                BY DEF Recent
            <4> QED BY <1>0, <4>1, <4>2 DEF InputOf, NormalizationInput, RevenueInput, SessionInput, SparkJobs
        <3>3. d \in sole /\ t = Compaction => rows = task[d][Normalization].read
            <4> SUFFICES ASSUME d \in sole, t = Compaction PROVE rows = task[d][Normalization].read
                OBVIOUS
            <4> DEFINE files == output[Normalization]
            <4>1. CompactionIsSound(task[d][Compaction], task[d][Normalization], files)
                BY <1>0
            <4>2. task[d][Compaction].listed = files /\ task[d][Normalization].state = "success"
                BY <2>1, <4>1 DEF CompactionIsSound
            <4>3. {file.events : file \in files} = Pieces(Normalization, task[d][Normalization].read)
                BY <1>0, <4>2, JobsAreTasks DEF JobIsSound
            <4>4. UNION {file.events : file \in files} = task[d][Normalization].read
                BY <4>3, PiecesAreWhole
            <4> QED BY <4>2, <4>4 DEF InputOf, Compacted, Compaction
        <3> HIDE DEF rows
        <3>4. pieces \in SUBSET SUBSET RawEvents
            BY <3>2, PiecesAreWhole
        <3>5. pieces = Pieces(t, rows)
            OBVIOUS
        <3> HIDE DEF pieces
        <3>6. new \in TaskRecords /\ new.state = "write" /\ new.read = rows /\ new.left = pieces
            BY <1>0, <3>2, <3>4 DEF TaskRecords, Underway
        <3> HIDE DEF new
        <3>7. d \in sole => JobIsSound(d, t, new, output[t])
            <4> SUFFICES ASSUME d \in sole PROVE JobIsSound(d, t, new, output[t])
                OBVIOUS
            <4>1. output[t] = {}
                BY <1>0, <2>1 DEF JobIsSound
            <4> QED BY <3>5, <3>6, <4>1 DEF JobIsSound
        <3>8. d \in sole /\ t = Compaction => CompactionIsSound(new, task[d][Normalization], output[Normalization])
            BY <1>0, <2>1, <3>3, <3>6 DEF CompactionIsSound
        <3> QED BY <1>0, <2>1, <2>2, <3>1, <3>6, <3>7, <3>8, JobGoesOn
    <2>4. CASE ~(task[d][t].listed \subseteq output["event_normalization"])
        <3> DEFINE new == [task[d][t] EXCEPT !.state = "failed"]
        <3>1. task' = [task EXCEPT ![d][t] = new]
            BY <1>5, <2>4 DEF ReadInput, Becomes
        <3>2. new \in TaskRecords /\ new.state = "failed"
            BY <1>0 DEF TaskRecords, Ended
        <3> HIDE DEF new
        <3>3. JobIsSound(d, t, new, output[t])
            BY <3>2 DEF JobIsSound
        <3>4. d \in sole /\ t = Compaction => CompactionIsSound(new, task[d][Normalization], output[Normalization])
            BY <1>0, <2>1, <3>2 DEF CompactionIsSound
        <3> QED BY <1>0, <2>1, <2>2, <3>1, <3>2, <3>3, <3>4, JobGoesOn
    <2> QED BY <2>3, <2>4
<1>6. ASSUME NEW d \in batch.runs, NEW t \in SparkJobs, WritePiece(d, t) PROVE BatchInv'
    <2>1. task[d][t].state = "write" /\ UNCHANGED <<raw, sole, batch>>
        BY <1>6 DEF WritePiece, TaskState
    <2>2. PICK piece \in task[d][t].left :
            /\ output' = [output EXCEPT ![t] = @ \cup {[by |-> d, events |-> piece]}]
            /\ task' = [task EXCEPT ![d][t].left = @ \ {piece}]
        BY <1>6 DEF WritePiece
    <2> DEFINE file == [by |-> d, events |-> piece]
               files == output[t] \cup {file}
               new == [task[d][t] EXCEPT !.left = @ \ {piece}]
    <2>3. output' = [output EXCEPT ![t] = files] /\ task' = [task EXCEPT ![d][t] = new]
        BY <2>2
    <2>4. piece \subseteq RawEvents
        BY <1>0 DEF TaskRecords
    <2>5. files \in SUBSET Files
        BY <1>0, <2>4 DEF Files
    <2>6. new \in TaskRecords /\ new.state = "write" /\ new.read = task[d][t].read /\ new.left = task[d][t].left \ {piece}
        BY <1>0, <2>1 DEF TaskRecords
    <2> HIDE DEF new
    <2>7. d \in sole => JobIsSound(d, t, new, files)
        <3> SUFFICES ASSUME d \in sole PROVE JobIsSound(d, t, new, files)
            OBVIOUS
        <3>1. JobIsSound(d, t, task[d][t], output[t])
            BY <1>0
        <3>2. {f.events : f \in files} = {f.events : f \in output[t]} \cup {piece}
            <4>1. file \in files /\ file.events = piece /\ output[t] \subseteq files
                OBVIOUS
            <4>2. \A f \in files : f \in output[t] \/ f = file
                OBVIOUS
            <4> HIDE DEF files, file
            <4> QED BY <4>1, <4>2
        <3>3. \A f \in files : f.by = d
            BY <2>1, <3>1 DEF JobIsSound
        <3> HIDE DEF files
        <3> QED BY <2>1, <2>2, <2>6, <3>1, <3>2, <3>3 DEF JobIsSound
    <2>8. d \in sole /\ t = Compaction => CompactionIsSound(new, task[d][Normalization], output[Normalization])
        BY <1>0, <2>1, <2>6 DEF CompactionIsSound
    <2>9. task[d][t].state \in Underway /\ new.state # "none" /\ batch' \in BatchRecords
        BY <1>0, <2>1, <2>6 DEF Underway
    <2> HIDE DEF files
    <2> QED BY <2>1, <2>3, <2>5, <2>6, <2>7, <2>8, <2>9, JobGoesOn
<1>7. ASSUME NEW d \in batch.runs, NEW t \in SparkJobs, EndJob(d, t) PROVE BatchInv'
    <2> DEFINE new == [task[d][t] EXCEPT !.state = "success"]
    <2>1. /\ task[d][t].state = "write" /\ task[d][t].left = {} /\ task' = [task EXCEPT ![d][t] = new]
          /\ UNCHANGED <<raw, output, sole, batch>>
        BY <1>7 DEF EndJob, TaskState, Becomes
    <2>2. new \in TaskRecords /\ new.state = "success" /\ new.read = task[d][t].read
        BY <1>0 DEF TaskRecords, Ended
    <2> HIDE DEF new
    <2>3. d \in sole => JobIsSound(d, t, new, output[t])
        BY <1>0, <2>1, <2>2 DEF JobIsSound
    <2>4. d \in sole /\ t = Compaction => CompactionIsSound(new, task[d][Normalization], output[Normalization])
        BY <1>0, <2>1, <2>2 DEF CompactionIsSound
    <2>5. task[d][t].state \in Underway /\ new.state # "none" /\ batch' \in BatchRecords
        BY <1>0, <2>1, <2>2 DEF Underway
    <2>6. output' = [output EXCEPT ![t] = output[t]]
        BY <1>0, <2>1
    <2> QED BY <1>0, <2>1, <2>2, <2>3, <2>4, <2>5, <2>6, JobGoesOn
<1>8. ASSUME NEW d \in batch.runs, NEW t \in SparkJobs, JobFails(d, t) PROVE BatchInv'
    <2> DEFINE new == [task[d][t] EXCEPT !.state = "failed"]
    <2>1. /\ task[d][t].state \in Underway /\ task' = [task EXCEPT ![d][t] = new]
          /\ UNCHANGED <<raw, output, sole>>
        BY <1>8 DEF JobFails, TaskState, Becomes, Underway
    <2>2. new \in TaskRecords /\ new.state = "failed"
        BY <1>0 DEF TaskRecords, Ended
    <2> HIDE DEF new
    <2>3. JobIsSound(d, t, new, output[t])
        BY <2>2 DEF JobIsSound
    <2>4. d \in sole /\ t = Compaction => CompactionIsSound(new, task[d][Normalization], output[Normalization])
        BY <1>0, <2>1, <2>2 DEF CompactionIsSound, Underway
    <2>5. batch' \in BatchRecords /\ batch'.runs = batch.runs
        BY <1>0, <1>8 DEF JobFails, TaskFault, BatchRecords
    <2>6. output' = [output EXCEPT ![t] = output[t]]
        BY <1>0, <2>1
    <2> QED BY <1>0, <2>1, <2>2, <2>3, <2>4, <2>5, <2>6, JobGoesOn
<1>9. ASSUME NEW e \in RawEvents, InsertRaw(e) PROVE BatchInv'
    <2> USE <1>9 DEF InsertRaw
    <2>1. BatchTypeOK' /\ batch'.runs = batch.runs
        BY DEF BatchInv, BatchTypeOK, BatchRecords
    <2> QED BY <2>1 DEF BatchInv, SoleRunsAlone, SoleIsSound
<1>10. CASE UNCHANGED batchVars
    BY <1>10 DEF batchVars, BatchInv, BatchTypeOK, SoleRunsAlone, SoleIsSound
<1> QED
    BY <1>1, <1>2, <1>3, <1>4, <1>5, <1>6, <1>7, <1>8, <1>9, <1>10 DEF BatchNext

\* For any rows, runs and slots, whatever fails: an undisturbed run leaves whole
\* outputs.
THEOREM UndisturbedOutputsAreWhole == BatchSpec => []BatchOutputsAreWhole
<1>1. BatchInv => BatchOutputsAreWhole
    <2> SUFFICES ASSUME BatchInv, NEW d \in sole, NEW t \in SparkJobs, task[d][t].state = "success"
                 PROVE  LET from == IF t = "lakehouse_compaction" THEN "event_normalization" ELSE t
                        IN /\ {piece.events : piece \in output[t]} = Pieces(t, task[d][from].read)
                           /\ \A piece \in output[t] : piece.by = d
        BY DEF BatchOutputsAreWhole, TaskState
    <2>1. /\ {piece.events : piece \in output[t]} = Pieces(t, task[d][t].read)
          /\ \A piece \in output[t] : piece.by = d
        BY DEF BatchInv, SoleIsSound, JobIsSound
    <2>2. t = "lakehouse_compaction" => task[d][t].read = task[d]["event_normalization"].read
        BY DEF BatchInv, SoleIsSound, CompactionIsSound, Compaction, Normalization
    <2> QED BY <2>1, <2>2
<1> QED BY BatchInvInitially, BatchInvIsKept, <1>1, PTL DEF BatchSpec
===============================================================================
