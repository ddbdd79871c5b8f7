----------------------------- MODULE TofuStore_proofs -----------------------------
(***************************************************************************)
(* Proofs about TofuStore: its types, and that trust survives restarts, for *)
(* every set of names and certificates, every validity and every bound on   *)
(* the clock.                                                              *)
(***************************************************************************)
EXTENDS TofuStore, TLAPS

-----------------------------------------------------------------------------

LEMMA InitType == Init => TypeOK
<1> SUFFICES ASSUME Init PROVE TypeOK
  OBVIOUS
<1>1. now \in 0..MaxTime
  BY TofuAssumption DEF Init
<1>2. files \in [Names -> File]
  BY DEF Init, File, Empty
<1> QED
  BY <1>1, <1>2 DEF Init, TypeOK

LEMMA NextType == TypeOK /\ [Next]_vars => TypeOK'
<1> SUFFICES ASSUME TypeOK, [Next]_vars PROVE TypeOK'
  OBVIOUS
<1> USE DEF TypeOK
<1>1. ASSUME NEW g \in Givens, Start(g) PROVE TypeOK'
  BY <1>1, TofuAssumption DEF Start, Whole, Parsed, File, Pieces, GivenAnew
<1>2. ASSUME NEW g \in Givens, StartEmpty(g) PROVE TypeOK'
  BY <1>2, TofuAssumption DEF StartEmpty
<1>3. CASE Crash
  BY <1>3 DEF Crash
<1>4. ASSUME NEW n \in Names, NEW c \in Certs, VerifyKnown(n, c) PROVE TypeOK'
  BY <1>4 DEF VerifyKnown
<1>5. ASSUME NEW n \in Names, NEW c \in Certs, VerifyNew(n, c) PROVE TypeOK'
  BY <1>5 DEF VerifyNew, Stores
<1>6. CASE CreateFails
  BY <1>6 DEF CreateFails, Accept, Storing, Stores
<1>7. CASE Create
  BY <1>7 DEF Create, Storing, Stores, Empty, File, Pieces
<1>8. ASSUME NEW p \in Pieces, Write(p) PROVE TypeOK'
  <2>1. storing \in Stores /\ storing.name \in Names /\ storing.cert \in Certs
    BY <1>8 DEF Write, Storing, Stores
  <2>2. files' \in [Names -> File]
    BY <1>8, <2>1 DEF Write, File, Pieces
  <2>3. unsaved' \in SUBSET Names
    BY <1>8, <2>1 DEF Write
  <2>4. storing' \in Stores \cup {None} /\ accepted' \in [Names -> SUBSET Certs]
    BY <1>8, <2>1 DEF Write, Accept, After, Stores, Pieces
  <2> QED
    BY <1>8, <2>2, <2>3, <2>4 DEF Write
<1>9. CASE Tick
  BY <1>9, TofuAssumption DEF Tick
<1>10. CASE SetClockBack
  BY <1>10, TofuAssumption DEF SetClockBack
<1>11. CASE UNCHANGED vars
  BY <1>11 DEF vars
<1> QED
  BY <1>1, <1>2, <1>3, <1>4, <1>5, <1>6, <1>7, <1>8, <1>9, <1>10, <1>11
  DEF Next

\* Every variable keeps its type.
THEOREM TypeCorrect == Spec => []TypeOK
  BY InitType, NextType, PTL DEF Spec

-----------------------------------------------------------------------------
(* The store *)

LEMMA InitStore == Init => StoreInv
  BY TofuAssumption
  DEF Init, StoreInv, StoringIsAhead, WrittenInOrder, PiecesAgree, BegunByNow,
      StoringNothingTrusted, SavedAgrees, Empty, Trusted, Pieces

\* With the clock going forward, what is trusted can only expire.
LEMMA TrustOnlyExpires ==
  ASSUME TypeOK, BegunByNow, Tick, ~setBack, NEW n \in Names
  PROVE  Trusted(n)' \subseteq Trusted(n)
  BY TofuAssumption DEF TypeOK, BegunByNow, Tick, Trusted, ValidAt

\* The files stay, and with them what a restart would restore.
LEMMA SameFilesRestore ==
  ASSUME UNCHANGED <<files, given>>, NEW n \in Names
  PROVE  Restored(n)' = Restored(n)
  BY DEF Restored, Whole, Parsed

\* Nothing is accepted and the clock stands still.
LEMMA SameTrust ==
  ASSUME UNCHANGED <<now, accepted>>, NEW n \in Names
  PROVE  Trusted(n)' = Trusted(n)
  BY DEF Trusted

\* Only the file being written can differ from what it was.
LEMMA OtherFilesRestore ==
  ASSUME TypeOK, Create \/ \E p \in Pieces : Write(p),
         NEW n \in Names, storing.name # n
  PROVE  Restored(n)' = Restored(n)
<1>1. files'[n] = files[n] /\ given' = given
  BY DEF TypeOK, Create, Write
<1> QED
  BY <1>1 DEF Restored, Whole, Parsed

LEMMA StartStore ==
  ASSUME TypeOK, StoreInv, NEW g \in Givens, Start(g), storing = None
  PROVE  StoreInv'
<1>1. UNCHANGED <<now, files, storing, accepted, setBack>> /\ running'
      /\ given' = g /\ unsaved' = unsaved \cup GivenAnew(g)
  BY DEF Start
<1>2. ASSUME NEW n \in Names PROVE map'[n] = Restored(n)'
  BY <1>1 DEF Start, Restored, Whole, Parsed
<1>3. ASSUME NEW n \in Names, n \notin unsaved'
      PROVE  Trusted(n) = {} \/ Restored(n)' = Restored(n)
  BY <1>1, <1>3 DEF GivenAnew, Restored, Whole, Parsed
<1>4. SavedAgrees'
  BY <1>1, <1>2, <1>3, SameTrust DEF StoreInv, SavedAgrees
<1> QED
  BY <1>1, <1>4
  DEF StoreInv, StoringIsAhead, WrittenInOrder, PiecesAgree, BegunByNow,
      StoringNothingTrusted

LEMMA StartEmptyStore ==
  ASSUME TypeOK, StoreInv, NEW g \in Givens, StartEmpty(g), storing = None
  PROVE  StoreInv'
  BY DEF StartEmpty, StoreInv, StoringIsAhead, WrittenInOrder, PiecesAgree,
         BegunByNow, StoringNothingTrusted, SavedAgrees

\* A name that was being stored when the program crashed has nothing trusted.
LEMMA CrashStore ==
  ASSUME TypeOK, StoreInv, Crash
  PROVE  StoreInv'
<1>1. UNCHANGED <<now, files, accepted, unsaved, setBack, given>>
      /\ ~running' /\ storing' = None
  BY DEF Crash
<1>2. SavedAgrees'
  BY <1>1, SameFilesRestore, SameTrust
  DEF StoreInv, SavedAgrees, StoringNothingTrusted
<1> QED
  BY <1>1, <1>2
  DEF StoreInv, StoringIsAhead, WrittenInOrder, PiecesAgree, BegunByNow,
      StoringNothingTrusted

LEMMA VerifyKnownStore ==
  ASSUME TypeOK, StoreInv, NEW n \in Names, NEW c \in Certs, VerifyKnown(n, c)
  PROVE  StoreInv'
<1>1. UNCHANGED <<now, map, files, storing, running, unsaved, setBack, given>>
      /\ storing = None /\ running /\ map[n] = c /\ NotBefore[c] <= now
  BY DEF VerifyKnown, Verifying, ValidAt
<1>2. accepted' = [accepted EXCEPT ![n] = @ \cup {c}]
  BY DEF VerifyKnown
<1>3. BegunByNow'
  BY <1>1, <1>2 DEF TypeOK, StoreInv, BegunByNow
<1>4. ASSUME NEW m \in Names PROVE Trusted(m)' \subseteq Trusted(m) \cup {map[m]}
  BY <1>1, <1>2 DEF TypeOK, Trusted, ValidAt
<1>5. SavedAgrees'
  BY <1>1, <1>4, SameFilesRestore DEF StoreInv, SavedAgrees
<1> QED
  BY <1>1, <1>3, <1>5
  DEF StoreInv, StoringIsAhead, WrittenInOrder, PiecesAgree,
      StoringNothingTrusted

\* The stored certificate has expired, and nothing else was trusted.
LEMMA VerifyNewStore ==
  ASSUME TypeOK, StoreInv, NEW n \in Names, NEW c \in Certs, VerifyNew(n, c)
  PROVE  StoreInv'
<1>1. UNCHANGED <<now, files, running, accepted, unsaved, setBack, given>>
      /\ storing = None /\ running /\ Replaceable(n) /\ NotBefore[c] <= now
  BY DEF VerifyNew, Verifying, ValidAt
<1>2. storing' = [name |-> n, cert |-> c, next |-> "create"] /\ storing' # None
  BY TofuAssumption DEF VerifyNew, Stores
<1>3. map' = [map EXCEPT ![n] = c]
  BY DEF VerifyNew
<1>4. StoringIsAhead' /\ WrittenInOrder'
  BY <1>1, <1>2, <1>3 DEF TypeOK, StoringIsAhead, WrittenInOrder
<1>5. StoringNothingTrusted'
  <2> SUFFICES ASSUME ~setBack, n \notin unsaved PROVE Trusted(n) = {}
    BY <1>1, <1>2, SameTrust DEF StoringNothingTrusted
  <2>1. Trusted(n) \subseteq {map[n]}
    BY <1>1 DEF StoreInv, SavedAgrees
  <2>2. \A d \in Trusted(n) : d \in Certs /\ ValidAt(d, now)
    BY DEF TypeOK, Trusted
  <2> QED
    BY <1>1, <2>1, <2>2, TofuAssumption DEF Replaceable
<1>6. SavedAgrees'
  BY <1>1, <1>2, <1>3, SameFilesRestore, SameTrust DEF TypeOK, StoreInv, SavedAgrees
<1> QED
  BY <1>1, <1>4, <1>5, <1>6 DEF StoreInv, PiecesAgree, BegunByNow

\* The file keeps what it had, so the name is given up.
LEMMA CreateFailsStore ==
  ASSUME TypeOK, StoreInv, CreateFails
  PROVE  StoreInv'
<1>1. UNCHANGED <<now, map, files, running, setBack, given>> /\ storing' = None
      /\ storing # None /\ unsaved' = unsaved \cup {storing.name}
  BY DEF CreateFails, Storing, Accept
<1>2. accepted' = [accepted EXCEPT ![storing.name] = @ \cup {storing.cert}]
      /\ storing.name \in Names /\ storing.cert \in Certs
  BY <1>1 DEF CreateFails, Accept, TypeOK, Stores
<1>3. BegunByNow'
  <2> SUFFICES ASSUME ~setBack PROVE NotBefore[storing.cert] <= now
    BY <1>1, <1>2 DEF TypeOK, StoreInv, BegunByNow
  <2> QED
    BY <1>1 DEF StoreInv, StoringIsAhead
<1>4. ASSUME NEW n \in Names, n # storing.name PROVE Trusted(n)' = Trusted(n)
  BY <1>1, <1>2, <1>4 DEF TypeOK, Trusted
<1>5. SavedAgrees'
  BY <1>1, <1>2, <1>4, SameFilesRestore DEF StoreInv, SavedAgrees
<1> QED
  BY <1>1, <1>3, <1>5
  DEF StoreInv, StoringIsAhead, WrittenInOrder, PiecesAgree,
      StoringNothingTrusted

LEMMA CreateStore ==
  ASSUME TypeOK, StoreInv, Create
  PROVE  StoreInv'
<1>1. UNCHANGED <<now, map, running, accepted, unsaved, setBack, given>>
      /\ storing \in Stores /\ storing.name \in Names
      /\ files' = [files EXCEPT ![storing.name] = Empty]
      /\ storing' = [storing EXCEPT !.next = "digest"]
  BY DEF Create, Storing, TypeOK, Stores
<1>2. /\ storing' # None /\ storing # None
      /\ storing'.name = storing.name /\ storing'.cert = storing.cert
      /\ storing'.next = "digest"
  BY <1>1, TofuAssumption DEF Stores, Pieces
<1>3. PiecesAgree'
  BY <1>1 DEF TypeOK, StoreInv, PiecesAgree, Empty
<1>4. StoringIsAhead' /\ WrittenInOrder'
  BY <1>1, <1>2 DEF TypeOK, StoreInv, StoringIsAhead, WrittenInOrder, Empty
<1>5. StoringNothingTrusted'
  BY <1>1, <1>2, SameTrust DEF StoreInv, StoringNothingTrusted
<1>6. SavedAgrees'
  BY <1>1, <1>2, SameTrust, OtherFilesRestore DEF StoreInv, SavedAgrees
<1> QED
  BY <1>1, <1>3, <1>4, <1>5, <1>6 DEF StoreInv, BegunByNow

\* The last piece makes the file whole, if no piece is missing.
LEMMA WriteStore ==
  ASSUME TypeOK, StoreInv, NEW p \in Pieces, Write(p)
  PROVE  StoreInv'
<1>1. UNCHANGED <<now, map, running, setBack, given>>
      /\ storing \in Stores /\ storing.name \in Names /\ storing.cert \in Certs
      /\ storing # None /\ storing.next = p /\ running
      /\ map[storing.name] = storing.cert
  BY DEF Write, Storing, TypeOK, Stores, StoreInv, StoringIsAhead
<1>2. PICK ok \in BOOLEAN :
        /\ files' = IF ok THEN [files EXCEPT ![storing.name][p] = storing.cert]
                          ELSE files
        /\ unsaved' = IF ok THEN unsaved ELSE unsaved \cup {storing.name}
  BY DEF Write
<1>3. \A q \in Pieces : files[storing.name][q] \in {None, storing.cert}
  BY <1>1 DEF StoreInv, StoringIsAhead, Pieces
<1>4. \A q \in Pieces : files'[storing.name][q] \in {None, storing.cert}
  BY <1>1, <1>2, <1>3 DEF TypeOK, File
<1>5. \A n \in Names : n # storing.name => files'[n] = files[n]
  BY <1>1, <1>2 DEF TypeOK
<1>6. PiecesAgree'
  BY <1>1, <1>4, <1>5 DEF StoreInv, PiecesAgree
<1>7. CASE p = "not_after"
  <2>1. storing' = None
        /\ accepted' = [accepted EXCEPT ![storing.name] = @ \cup {storing.cert}]
    BY <1>7 DEF Write, Accept
  <2>2. BegunByNow'
    BY <1>1, <2>1 DEF TypeOK, StoreInv, BegunByNow, StoringIsAhead
  <2>3. ASSUME NEW n \in Names, n # storing.name PROVE Trusted(n)' = Trusted(n)
    BY <1>1, <2>1, <2>3 DEF TypeOK, Trusted
  <2>4. ASSUME NEW n \in Names, n = storing.name, n \notin unsaved'
        PROVE  Restored(n)' = storing.cert
    <3>1. ok /\ storing.name \notin unsaved
      BY <1>2, <2>4
    <3>2. files'[storing.name] \in File
          /\ files'[storing.name]["not_after"] = storing.cert
          /\ \A q \in Pieces \ {"not_after"} :
               files'[storing.name][q] = files[storing.name][q]
      BY <1>1, <1>2, <1>7, <3>1 DEF TypeOK, File
    <3>3. \A q \in Pieces : files'[storing.name][q] = storing.cert
      BY <1>1, <1>7, <3>1, <3>2 DEF StoreInv, WrittenInOrder, Pieces
    <3> QED
      BY <1>1, <2>4, <3>3, TofuAssumption DEF Restored, Whole, Parsed, Pieces
  <2>5. ASSUME NEW n \in Names, n = storing.name, n \notin unsaved', ~setBack
        PROVE  Trusted(n)' \subseteq {storing.cert}
    <3>1. Trusted(n) = {}
      BY <1>1, <1>2, <2>5 DEF StoreInv, StoringNothingTrusted
    <3> QED
      BY <1>1, <2>1, <2>5, <3>1 DEF TypeOK, Trusted
  <2>6. SavedAgrees'
    <3> SUFFICES ASSUME NEW n \in Names, n \notin unsaved'
                 PROVE  /\ running => map[n] = Restored(n)'
                        /\ ~setBack => Trusted(n)' \subseteq {Restored(n)'}
      BY <1>1, <2>1 DEF SavedAgrees
    <3>1. CASE n = storing.name
      BY <1>1, <2>4, <2>5, <3>1
    <3>2. CASE n # storing.name
      BY <1>1, <1>2, <2>3, <3>2, OtherFilesRestore DEF StoreInv, SavedAgrees
    <3> QED
      BY <3>1, <3>2
  <2> QED
    BY <1>6, <2>1, <2>2, <2>6
    DEF StoreInv, StoringIsAhead, WrittenInOrder, StoringNothingTrusted
<1>8. CASE p # "not_after"
  <2>1. storing' = [storing EXCEPT !.next = After(p)] /\ UNCHANGED accepted
    BY <1>8 DEF Write
  <2>2. /\ storing'.name = storing.name /\ storing'.cert = storing.cert
        /\ storing'.next = After(p) /\ storing' # None
    BY <1>1, <2>1, TofuAssumption DEF Stores, After, Pieces
  <2>3. StoringIsAhead'
    BY <1>1, <1>4, <2>2 DEF StoreInv, StoringIsAhead
  <2>4. WrittenInOrder'
    <3> SUFFICES ASSUME storing.name \notin unsaved'
                 PROVE  /\ storing'.next \in {"not_before", "not_after"} =>
                             files'[storing.name]["digest"] = storing.cert
                        /\ storing'.next = "not_after" =>
                             files'[storing.name]["not_before"] = storing.cert
      BY <2>2 DEF WrittenInOrder
    <3>1. ok /\ storing.name \notin unsaved
      BY <1>2
    <3>2. files'[storing.name][p] = storing.cert
          /\ \A q \in Pieces \ {p} :
               files'[storing.name][q] = files[storing.name][q]
      BY <1>1, <1>2, <3>1 DEF TypeOK, File
    <3> QED
      BY <1>1, <1>8, <2>2, <3>1, <3>2
      DEF StoreInv, WrittenInOrder, After, Pieces
  <2>5. StoringNothingTrusted'
    BY <1>1, <1>2, <2>1, <2>2, SameTrust DEF StoreInv, StoringNothingTrusted
  <2>6. SavedAgrees'
    BY <1>1, <1>2, <2>1, <2>2, SameTrust, OtherFilesRestore
    DEF StoreInv, SavedAgrees
  <2> QED
    BY <1>1, <1>6, <2>1, <2>3, <2>4, <2>5, <2>6 DEF StoreInv, BegunByNow
<1> QED
  BY <1>7, <1>8

LEMMA TickStore ==
  ASSUME TypeOK, StoreInv, Tick
  PROVE  StoreInv'
<1>1. UNCHANGED <<map, files, storing, running, accepted, unsaved, setBack,
                  given>>
  BY DEF Tick
<1>2. BegunByNow'
  BY <1>1, TofuAssumption DEF Tick, TypeOK, StoreInv, BegunByNow
<1>3. StoringIsAhead'
  BY <1>1, TofuAssumption DEF Tick, TypeOK, Stores, StoreInv, StoringIsAhead
<1>4. ASSUME ~setBack, NEW n \in Names PROVE Trusted(n)' \subseteq Trusted(n)
  BY <1>4, TrustOnlyExpires DEF StoreInv
<1>5. StoringNothingTrusted'
  BY <1>1, <1>4 DEF TypeOK, Stores, StoreInv, StoringNothingTrusted
<1>6. SavedAgrees'
  BY <1>1, <1>4, SameFilesRestore DEF StoreInv, SavedAgrees
<1> QED
  BY <1>1, <1>2, <1>3, <1>5, <1>6 DEF StoreInv, WrittenInOrder, PiecesAgree

LEMMA SetClockBackStore ==
  ASSUME TypeOK, StoreInv, SetClockBack
  PROVE  StoreInv'
<1>1. UNCHANGED <<map, files, storing, running, accepted, unsaved, given>>
      /\ setBack'
  BY DEF SetClockBack
<1>2. SavedAgrees'
  BY <1>1, SameFilesRestore DEF StoreInv, SavedAgrees
<1> QED
  BY <1>1, <1>2
  DEF StoreInv, StoringIsAhead, WrittenInOrder, PiecesAgree, BegunByNow,
      StoringNothingTrusted

LEMMA NextStore == TypeOK /\ StoreInv /\ [Next]_vars => StoreInv'
<1> SUFFICES ASSUME TypeOK, StoreInv, [Next]_vars PROVE StoreInv'
  OBVIOUS
<1>1. ~running => storing = None
  BY DEF StoreInv, StoringIsAhead
<1>2. ASSUME NEW g \in Givens, Start(g) PROVE StoreInv'
  BY <1>1, <1>2, StartStore DEF Start
<1>3. ASSUME NEW g \in Givens, StartEmpty(g) PROVE StoreInv'
  BY <1>1, <1>3, StartEmptyStore DEF StartEmpty
<1>4. CASE UNCHANGED vars
  BY <1>4
  DEF vars, StoreInv, StoringIsAhead, WrittenInOrder, PiecesAgree, BegunByNow,
      StoringNothingTrusted, SavedAgrees, Trusted, Restored, Whole, Parsed
<1> QED
  BY <1>2, <1>3, <1>4, CrashStore, VerifyKnownStore, VerifyNewStore,
     CreateFailsStore, CreateStore, WriteStore, TickStore, SetClockBackStore
  DEF Next

-----------------------------------------------------------------------------

\* Whatever crashes, failed writes, expiries and clocks come between its steps,
\* the store is what a restart can restore (tofu.rs:148-241).
THEOREM StoreCorrect == Spec => []StoreInv
<1>1. TypeOK /\ StoreInv /\ [Next]_vars => (TypeOK /\ StoreInv)'
  BY NextType, NextStore
<1> QED
  BY <1>1, InitType, InitStore, PTL DEF Spec

\* No two certificates that are still valid are both accepted for one name, for
\* any names, certificates, validities and restarts (tofu.rs:256, 350-379).
THEOREM TrustSurvives == Spec => []OneCertPerName
<1>1. StoreInv => OneCertPerName
  <2> SUFFICES ASSUME StoreInv, ~setBack, NEW n \in Names \ unsaved
               PROVE  \A c, d \in Trusted(n) : c = d
    BY DEF OneCertPerName
  <2>1. CASE storing = None \/ storing.name # n
    BY <2>1 DEF StoreInv, SavedAgrees
  <2>2. CASE storing # None /\ storing.name = n
    BY <2>2 DEF StoreInv, StoringNothingTrusted
  <2> QED
    BY <2>1, <2>2
<1> QED
  BY <1>1, StoreCorrect, PTL

\* An entry of the directory is never put together from two certificates
\* (tofu.rs:224-226).
THEOREM EntriesAreGenuine == Spec => []FilesAreOfOneCert
<1>1. StoreInv => FilesAreOfOneCert
  BY DEF StoreInv, PiecesAgree, FilesAreOfOneCert, Whole
<1> QED
  BY <1>1, StoreCorrect, PTL
=============================================================================
