---------------------------- MODULE MCIndexCache ----------------------------
(* A small instance of IndexCache for TLC.                                 *)
EXTENDS IndexCache, TLC

CONSTANTS lists, audit, k1, k2, w1, w2, f1, f2, c1, c2

\* Two keys in two buckets let a sweep be seen half done.
MCKindOf == k1 :> lists @@ k2 :> audit

\* A caller that fetches k1 over and over, and one that fetches either key: they
\* meet on k1, or the second finds the table of watches full.
MCFetchKeys == f1 :> {k1} @@ f2 :> {k1, k2}

\* After w1 both keys are swept, or k1 is patched; after w2 k1 is patched.
MCCallWrite == c1 :> w1 @@ c2 :> w2
MCSweeps == c1 :> {{k1, k2}} @@ c2 :> {}
MCPatches == c1 :> {k1} @@ c2 :> {k1}
=============================================================================
