------------------------------- MODULE MCTofuStore -------------------------------
(* TofuStore for TLC: a certificate that expires early, one that outlives it and *)
(* one that renews it, and a name whose certificate some starts are given.       *)
EXTENDS FallbackVerifier, TLC

CONSTANTS n1, n2, early, long, late

SubjectNames == (early :> {n1, n2}) @@ (long :> {n1, n2}) @@ (late :> {n1})

Begin == (early :> 0) @@ (long :> 0) @@ (late :> 2)

End == (early :> 1) @@ (long :> 2) @@ (late :> 2)

\* new and new_empty, and the same with certificates.
Provided == {(n1 :> None) @@ (n2 :> c) : c \in {None, early}}

\* No default at all, and one that knows a certificate the store may have pinned.
Defaults == {{}, {<<n1, long>>}}
=============================================================================
