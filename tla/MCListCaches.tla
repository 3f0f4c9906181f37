---------------------------- MODULE MCListCaches ----------------------------
(* Small instances of ListCaches for TLC: who reads which lists.           *)
EXTENDS ListCaches, TLC

CONSTANTS r1, r2, w1

\* A reader of lists that join both indexes, and a scan of one of them.
JoinAndScan == r1 :> {"enterprise", "search_corpus"} @@ r2 :> {"sp_index"}

\* Readers of every list, which meet at the gates.
Everything ==
    r1 :> {"enterprise", "search_corpus"}
    @@ r2 :> {"search_corpus", "apps_pairing", "credential_expirations", "mi"}
=============================================================================
