----------------------------- MODULE FallbackVerifier -----------------------------
(***************************************************************************)
(* FallbackVerifier with trust on first use as its fallback: the store is  *)
(* only asked about certificates that the default verifier rejects.  What  *)
(* the default vouches for is up to the application, which may configure   *)
(* it differently every time the program starts, over the same directory.  *)
(***************************************************************************)
EXTENDS TofuStore

CONSTANT
    Verdicts  \* sets of server names with a certificate a default may vouch for

ASSUME FallbackAssumption == Verdicts \subseteq SUBSET (Names \X Certs)

VARIABLE
    vouched   \* the verdict of this run's default

fallbackVars == <<vars, vouched>>

FallbackInit == Init /\ vouched = {}

\* with_fallback_verifier, over a store from any of its constructors.
\* with_trust_on_first_use is the same with a default that rejects everything.
Configure ==
    /\ \E g \in Givens : Start(g) \/ StartEmpty(g)
    /\ vouched' \in Verdicts

\* Asks the fallback first.
FallBack_Slip(n, c) ==
    /\ VerifyKnown(n, c) \/ VerifyNew(n, c)
    /\ UNCHANGED vouched

\* or_else: a certificate the default accepts changes nothing.
FallBack(n, c) ==
    /\ <<n, c>> \notin vouched
    /\ VerifyKnown(n, c) \/ VerifyNew(n, c)
    /\ UNCHANGED vouched

\* What goes on without a handshake.
StoreGoesOn ==
    /\ \/ Crash \/ CreateFails \/ Create
       \/ \E p \in Pieces : Write(p)
       \/ Tick \/ SetClockBack
    /\ UNCHANGED vouched

FallbackNext ==
    \/ Configure
    \/ \E n \in Names, c \in Certs : FallBack(n, c)
    \/ StoreGoesOn

FallbackSpec == FallbackInit /\ [][FallbackNext]_fallbackVars

-----------------------------------------------------------------------------

\* Why it is so: a write under way is of a certificate that this run's default
\* has rejected, and no start may come between.
StoringIsRejected ==
    storing # None => running /\ <<storing.name, storing.cert>> \notin vouched

\* The default has the first word (crypto.rs:126, 140-150): what it vouches for
\* is never accepted on first use instead, and so never keeps a name's other
\* certificates out, not even when the store finishes writing steps after it
\* was asked.
DefaultComesFirst ==
    [][\A n \in Names : \A c \in accepted'[n] \ accepted[n] :
         <<n, c>> \notin vouched]_fallbackVars
=============================================================================
