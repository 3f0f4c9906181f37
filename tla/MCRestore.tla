----------------------------- MODULE MCRestore -----------------------------
(* Two app registrations that name each other, in the shapes that matter.  *)
EXTENDS Restore

CONSTANTS A, B, Api, Outside

\* The apps pre-authorize each other; B's permissions name A; everything the
\* manifest can carry is in it, and approved.
Full == [apps |-> <<A, B>>, sps |-> {A, B}, auth |-> {B}, fics |-> {A}, owners |-> {B},
         consents |-> {A, B}, broad |-> {A}, groups |-> {A}, approved |-> {A, B},
         perms |-> [s \in {A, B} |-> IF s = A THEN {Api} ELSE {A}],
         pre |-> [s \in {A, B} |-> IF s = A THEN {B} ELSE {A, Outside}],
         secrets |-> [s \in {A, B} |-> IF s = A THEN <<"key", "key">> ELSE <<"old">>],
         ents |-> <<A, Outside>>, identities |-> 1, identityApproved |-> TRUE]

\* Nothing approved, the identity's grants neither; no secrets.
Unapproved == [Full EXCEPT !.approved = {}, !.consents = {A}, !.identityApproved = FALSE,
                           !.secrets = [s \in {A, B} |-> <<>>]]

\* A alone approved; two identities of the same name; B alone pre-authorizes.
Plain == [Full EXCEPT !.fics = {}, !.groups = {}, !.broad = {}, !.auth = {}, !.owners = {A},
                      !.approved = {A}, !.consents = {B}, !.identities = 2,
                      !.pre = [s \in {A, B} |-> IF s = A THEN {} ELSE {A}]]

MCManifests == {Full, Unapproved, Plain}
=============================================================================
