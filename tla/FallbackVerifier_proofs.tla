------------------------- MODULE FallbackVerifier_proofs -------------------------
(***************************************************************************)
(* Proofs about FallbackVerifier: it does to the store nothing that the    *)
(* verifier of TofuStore would not do on its own, so that its trust        *)
(* survives as well, and the default verifier has the first word.          *)
(***************************************************************************)
EXTENDS FallbackVerifier, TofuStore_proofs

\* Every step of the composition is one of the store's, or none.
LEMMA FallbackStep == [FallbackNext]_fallbackVars => [Next]_vars
  BY DEF FallbackNext, fallbackVars, Configure, FallBack, StoreGoesOn, Next, vars

\* A FallbackVerifier, whatever its default says from one start of the program
\* to the next, uses the store as trust on first use alone might.
THEOREM FallbackIsTofu == FallbackSpec => Spec
<1>1. FallbackInit => Init
  BY DEF FallbackInit
<1> QED
  BY <1>1, FallbackStep, PTL DEF FallbackSpec, Spec

\* Trust survives under a FallbackVerifier: of the certificates its fallback
\* accepted for a name only one is still valid.
THEOREM FallbackTrustSurvives == FallbackSpec => []OneCertPerName
  BY FallbackIsTofu, TrustSurvives, PTL

LEMMA RejectedStep ==
  ASSUME TypeOK, StoringIsRejected, [FallbackNext]_fallbackVars
  PROVE  StoringIsRejected'
<1>1. CASE Configure
  BY <1>1 DEF Configure, Start, StartEmpty, StoringIsRejected
<1>2. ASSUME NEW n \in Names, NEW c \in Certs, FallBack(n, c)
      PROVE  StoringIsRejected'
  <2>1. CASE VerifyKnown(n, c)
    BY <1>2, <2>1 DEF FallBack, VerifyKnown, StoringIsRejected
  <2>2. CASE VerifyNew(n, c)
    BY <1>2, <2>2 DEF FallBack, VerifyNew, Verifying, StoringIsRejected
  <2> QED
    BY <1>2, <2>1, <2>2 DEF FallBack
<1>3. CASE StoreGoesOn
  <2>1. storing' = None
        \/ /\ storing # None /\ running' = running /\ vouched' = vouched
           /\ storing'.name = storing.name /\ storing'.cert = storing.cert
        \/ UNCHANGED <<storing, running, vouched>>
    BY <1>3
    DEF StoreGoesOn, Crash, CreateFails, Create, Write, Accept, Tick, SetClockBack,
        Storing, TypeOK, Stores
  <2> QED
    BY <2>1 DEF StoringIsRejected
<1>4. CASE UNCHANGED fallbackVars
  BY <1>4 DEF fallbackVars, vars, StoringIsRejected
<1> QED
  BY <1>1, <1>2, <1>3, <1>4 DEF FallbackNext

\* Only a handshake, or the end of the write it began, adds to what is accepted.
LEMMA AcceptedWasRejected ==
  ASSUME TypeOK, StoringIsRejected, [FallbackNext]_fallbackVars,
         NEW n \in Names, NEW c \in accepted'[n] \ accepted[n]
  PROVE  <<n, c>> \notin vouched
<1>1. ASSUME NEW m \in Names, NEW d \in Certs, FallBack(m, d)
      PROVE  <<n, c>> \notin vouched
  <2>1. VerifyKnown(m, d)
    BY <1>1 DEF FallBack, VerifyNew
  <2> QED
    BY <1>1, <2>1 DEF FallBack, VerifyKnown, TypeOK
<1>2. CASE StoreGoesOn
  <2>1. Accept /\ storing # None
    BY <1>2
    DEF StoreGoesOn, Crash, CreateFails, Create, Write, Tick, SetClockBack, Storing
  <2> QED
    BY <2>1 DEF Accept, StoringIsRejected, TypeOK, Stores
<1> QED
  BY <1>1, <1>2
  DEF FallbackNext, fallbackVars, vars, Configure, Start, StartEmpty

\* What the default vouches for is never accepted on first use.
THEOREM DefaultHasFirstWord == FallbackSpec => DefaultComesFirst
<1>1. FallbackInit => StoringIsRejected
  BY DEF FallbackInit, Init, StoringIsRejected
<1>2. TypeOK /\ StoringIsRejected /\ [FallbackNext]_fallbackVars
        => StoringIsRejected'
  BY RejectedStep
<1>3. TypeOK /\ StoringIsRejected /\ [FallbackNext]_fallbackVars
        => [\A n \in Names : \A c \in accepted'[n] \ accepted[n] :
              <<n, c>> \notin vouched]_fallbackVars
  BY AcceptedWasRejected
<1> QED
  BY <1>1, <1>2, <1>3, FallbackIsTofu, TypeCorrect, PTL
  DEF FallbackSpec, DefaultComesFirst
=============================================================================
