--------------------------- MODULE RestoreProofs ---------------------------
(***************************************************************************)
(* Proofs about Restore, for any backup, any number of runs and any amount *)
(* of trouble: nothing unapproved becomes standing access, an app somebody *)
(* else changed gets no write, and a run repeats nothing an earlier one    *)
(* did.                                                                    *)
(*                                                                         *)
(* BaseInv says which app of the tenant each thing the run remembers       *)
(* stands for; the three properties have an invariant of their own each.   *)
(***************************************************************************)
EXTENDS Restore, FiniteSetTheorems, TLAPS

\* Clients and APIs, by name or as an app of the tenant.
Names ==
    Nat \cup {Stranger} \cup
    UNION {UNION {m.perms[s] \cup m.pre[s] : s \in ToSet(m.apps)} : m \in Manifests}

Marks == {"settings", "owner", "fic", "principal"}

AppRecs ==
    [src : Apps, made : BOOLEAN, there : BOOLEAN, sp : BOOLEAN, perms : SUBSET Names,
     pre : SUBSET Names, auth : BOOLEAN, fic : BOOLEAN, owner : BOOLEAN,
     secrets : [Keys -> Nat], consent : SUBSET Names, role : BOOLEAN, group : BOOLEAN,
     marks : SUBSET Marks]

EntryRecs ==
    [src : Apps, id : Nat, adopted : BOOLEAN, left : [Keys -> Nat], pre : SUBSET Names,
     pending : BOOLEAN, warn : SUBSET {"sp"}]

Checking == {"owners", "fics", "principal"}

TypeInv ==
    /\ manifest \in Manifests
    /\ tenant \in Seq(AppRecs)
    /\ created \in Seq(EntryRecs)
    /\ pos \in Nat \ {0} /\ item \in Nat

\* The remap and the entries name apps that carry their source's tag.
RemapInv ==
    /\ remap = [s \in DOMAIN remap |-> remap[s]]
    /\ \A s \in DOMAIN remap :
         s \in Apps /\ remap[s] \in DOMAIN tenant /\ tenant[remap[s]].src = s

EntriesInv ==
    \A i \in DOMAIN created :
        /\ created[i].id \in DOMAIN tenant
        /\ tenant[created[i].id].src = created[i].src

\* Each source has at most one entry: Pass 1 makes it when it is there.
OrderInv ==
    /\ \A i, j \in DOMAIN created : created[i].src = created[j].src => i = j
    /\ at \in {"lookup", "create"} \cup Checking =>
         \A i \in DOMAIN created : \E j \in DOMAIN manifest.apps : j < pos /\ created[i].src = manifest.apps[j]
    /\ at = "ensure" =>
         \A i \in DOMAIN created : \E j \in DOMAIN manifest.apps : j <= pos /\ created[i].src = manifest.apps[j]

\* Where the run is, it is at an app, an entry or an enterprise app that exists.
PlaceInv ==
    /\ at \in {"create"} \cup Checking => pos <= Len(manifest.apps)
    /\ at \in Checking =>
         /\ hit = [id |-> hit.id, pre |-> hit.pre, secrets |-> hit.secrets]
         /\ hit.id \in DOMAIN tenant /\ tenant[hit.id].src = Source
         /\ hit.pre \in SUBSET Names /\ hit.secrets \in [Keys -> Nat]
    /\ at = "ensure" => Len(created) > 0
    /\ at = "classify" => created = <<>>
    /\ at = "wire" /\ item > 0 => pos <= Len(created)
    /\ at = "grant" => pos <= Len(created) /\ hit \in SUBSET Names
    /\ at \in {"settings", "role", "group"} => Ent \in DOMAIN remap

BaseInv == TypeInv /\ RemapInv /\ EntriesInv /\ OrderInv /\ PlaceInv

\* The approval gate is closed for whatever needs an approval it has not got.
ApprovalInv ==
    /\ at \notin {"idle", "classify", "done"} =>
         \A s \in Apps \ manifest.approved : RequiresApproval(s, FALSE) => s \in withheld
    /\ at = "grant" => Entry.src \notin withheld /\ Stranger \notin hit
    /\ NothingUnapproved

-----------------------------------------------------------------------------
(* Facts about the operators.                                              *)

\* What the backup holds.
LEMMA ManifestFacts ==
    ASSUME manifest \in Manifests
    PROVE  /\ manifest.apps \in Seq(Apps)
           /\ \A i \in DOMAIN manifest.apps : manifest.apps[i] \in Apps
           /\ \A i, j \in DOMAIN manifest.apps : manifest.apps[i] = manifest.apps[j] => i = j
           /\ \A s \in Apps : /\ manifest.secrets[s] \in Seq(Keys)
                              /\ manifest.perms[s] \subseteq Names /\ Stranger \notin manifest.perms[s]
                              /\ manifest.pre[s] \subseteq Names /\ Stranger \notin manifest.pre[s]
<1>1. /\ manifest.apps \in Seq(Apps)
      /\ \A i, j \in DOMAIN manifest.apps : manifest.apps[i] = manifest.apps[j] => i = j
  BY ManifestsAssumption DEF Apps
<1>2. \A s \in Apps : manifest.secrets[s] \in Seq(Keys)
  BY ManifestsAssumption DEF Apps
<1>3. \A i \in DOMAIN manifest.apps : manifest.apps[i] \in Apps
  BY DEF Apps, ToSet
<1>4. \A s \in Apps : Stranger \notin manifest.perms[s] /\ Stranger \notin manifest.pre[s]
  BY StrangerAssumption DEF Apps
<1>5. \A s \in Apps : manifest.perms[s] \cup manifest.pre[s] \subseteq Names
  BY DEF Apps, Names
<1> QED  BY <1>1, <1>2, <1>3, <1>4, <1>5

\* What a run writes is named by the backup or an app of the tenant.
LEMMA PlansAreNames ==
    ASSUME TypeInv, RemapInv, NEW s \in Apps
    PROVE  /\ remap_required_resource_access(s) \in SUBSET Names
           /\ Stranger \notin remap_required_resource_access(s)
           /\ plan_pre_authorized(s) \in SUBSET Names
           /\ Stranger \notin plan_pre_authorized(s)
<1>1. \A p \in DOMAIN remap : remap[p] \in Nat /\ remap[p] \in Names /\ remap[p] # Stranger
  <2>1. \A p \in DOMAIN remap : remap[p] \in Nat
    BY DEF TypeInv, RemapInv
  <2> QED  BY <2>1, StrangerAssumption DEF Names
<1>2. /\ manifest.perms[s] \subseteq Names /\ Stranger \notin manifest.perms[s]
      /\ manifest.pre[s] \subseteq Names /\ Stranger \notin manifest.pre[s]
  BY ManifestFacts DEF TypeInv
<1>3. remap_required_resource_access(s) \in SUBSET Names /\ Stranger \notin remap_required_resource_access(s)
  BY <1>1, <1>2 DEF remap_required_resource_access
<1>4. \A c \in manifest.pre[s] \ LeftOut(s) : c \in Apps => c \in DOMAIN remap
  BY DEF LeftOut
<1>5. plan_pre_authorized(s) \in SUBSET Names /\ Stranger \notin plan_pre_authorized(s)
  BY <1>1, <1>2, <1>4 DEF plan_pre_authorized
<1> QED  BY <1>3, <1>5

LEMMA NewAppFacts ==
    ASSUME NEW s \in Apps
    PROVE  /\ NewApp(s) \in AppRecs /\ NewApp(s).src = s /\ NewApp(s).made /\ NewApp(s).there
           /\ NewApp(s).consent = {} /\ ~ NewApp(s).fic /\ ~ NewApp(s).owner /\ ~ NewApp(s).group
           /\ \A k \in Keys : NewApp(s).secrets[k] = 0
           /\ NewApp(s).marks = {} /\ NewApp(s).pre = {}
BY DEF NewApp, AppRecs

\* A planted app.
Planted(s) == [NewApp(s) EXCEPT !.made = FALSE, !.marks = {"owner"}]

LEMMA PlantedFacts ==
    ASSUME NEW s \in Apps
    PROVE  /\ Planted(s) \in AppRecs /\ Planted(s).src = s /\ ~ Planted(s).made
           /\ Planted(s).consent = {} /\ ~ Planted(s).fic /\ ~ Planted(s).owner /\ ~ Planted(s).group
           /\ \A k \in Keys : Planted(s).secrets[k] = 0
BY DEF Planted, NewApp, AppRecs, Marks

-----------------------------------------------------------------------------
(* What the steps do to the tenant: apps are added, and keep their source. *)

TenantGrows ==
    /\ tenant' \in Seq(AppRecs)
    /\ Len(tenant') >= Len(tenant)
    /\ \A a \in DOMAIN tenant : a \in DOMAIN tenant' /\ tenant'[a].src = tenant[a].src

LEMMA EditGrows ==
    ASSUME TypeInv, NEW a \in DOMAIN tenant, NEW app \in AppRecs, app.src = tenant[a].src,
           tenant' = [tenant EXCEPT ![a] = app]
    PROVE  TenantGrows
<1> DEFINE R == AppRecs
<1>1. tenant \in Seq(R) /\ app \in R
  BY DEF TypeInv
<1> HIDE DEF R
<1>2. tenant' \in Seq(R) /\ Len(tenant') = Len(tenant) /\ DOMAIN tenant' = DOMAIN tenant
  BY <1>1
<1>3. \A b \in DOMAIN tenant : tenant'[b].src = tenant[b].src
  BY <1>1
<1> QED  BY <1>1, <1>2, <1>3 DEF TenantGrows, R

LEMMA AppendGrows ==
    ASSUME TypeInv, NEW app \in AppRecs, tenant' = Append(tenant, app)
    PROVE  /\ TenantGrows /\ Len(tenant') = Len(tenant) + 1 /\ tenant'[Len(tenant) + 1] = app
           /\ \A a \in DOMAIN tenant : tenant'[a] = tenant[a]
           /\ DOMAIN tenant' = DOMAIN tenant \cup {Len(tenant) + 1}
<1> DEFINE R == AppRecs
<1>1. tenant \in Seq(R) /\ app \in R
  BY DEF TypeInv
<1> HIDE DEF R
<1>2. /\ tenant' \in Seq(R) /\ Len(tenant') = Len(tenant) + 1 /\ tenant'[Len(tenant) + 1] = app
      /\ \A b \in DOMAIN tenant : b \in DOMAIN tenant' /\ tenant'[b] = tenant[b]
      /\ DOMAIN tenant' = DOMAIN tenant \cup {Len(tenant) + 1}
  BY <1>1
<1> QED  BY <1>1, <1>2 DEF TenantGrows, R

LEMMA SameGrows ==
    ASSUME TypeInv, tenant' = tenant
    PROVE  TenantGrows
BY DEF TypeInv, TenantGrows

\* The effect of Write and of Add on the app: nothing, or the change to an app
\* that is there.
WroteTo(a, change) ==
    \/ tenant' = tenant /\ touched' = touched
    \/ /\ tenant[a].there /\ tenant' = [tenant EXCEPT ![a] = change]
       /\ touched' = touched \cup {a}

LEMMA WriteEffect ==
    ASSUME NEW a, NEW o \in WriteAnswers(a), NEW change, Write(a, o, change)
    PROVE  WroteTo(a, change)
BY DEF Write, WroteTo, WriteAnswers, Landed

LEMMA AddEffect ==
    ASSUME TypeInv, NEW a \in DOMAIN tenant, NEW field \in {"fic", "owner", "role", "group"}, NEW noted,
           Add(a, field, noted)
    PROVE  WroteTo(a, [tenant[a] EXCEPT ![field] = TRUE])
<1>1. PICK o \in IF tenant[a][field] THEN {"plain"} ELSE WriteAnswers(a) :
        /\ touched' = IF Landed(o) THEN touched \cup {a} ELSE touched
        /\ tenant' = IF Landed(o) THEN [tenant EXCEPT ![a][field] = TRUE] ELSE tenant
  BY DEF Add
<1>2. CASE Landed(o)
  <2>1. tenant[a].there
    BY <1>1, <1>2 DEF Landed, WriteAnswers
  <2>2. tenant' = [tenant EXCEPT ![a] = [tenant[a] EXCEPT ![field] = TRUE]]
    BY <1>1, <1>2
  <2> QED  BY <1>1, <1>2, <2>1, <2>2 DEF WroteTo
<1>3. CASE ~ Landed(o)
  BY <1>1, <1>3 DEF WroteTo
<1> QED  BY <1>2, <1>3

LEMMA WroteGrows ==
    ASSUME TypeInv, NEW a \in DOMAIN tenant, NEW change \in AppRecs, change.src = tenant[a].src,
           WroteTo(a, change)
    PROVE  TenantGrows
BY EditGrows, SameGrows DEF WroteTo

\* y is the app x with at most the fields of F changed; nobody changes an app's
\* source or who made it, brings a deleted one back or removes a mark.
Alters(x, y, F) ==
    /\ y \in AppRecs /\ y.src = x.src /\ y.made = x.made
    /\ y.there => x.there
    /\ x.marks \subseteq y.marks
    /\ "there" \notin F => y.there = x.there
    /\ "sp" \notin F => y.sp = x.sp
    /\ "perms" \notin F => y.perms = x.perms
    /\ "pre" \notin F => y.pre = x.pre
    /\ "auth" \notin F => y.auth = x.auth
    /\ "fic" \notin F => y.fic = x.fic
    /\ "owner" \notin F => y.owner = x.owner
    /\ "secrets" \notin F => y.secrets = x.secrets
    /\ "consent" \notin F => y.consent = x.consent
    /\ "role" \notin F => y.role = x.role
    /\ "group" \notin F => y.group = x.group
    /\ "marks" \notin F => y.marks = x.marks

\* The changes the run and other people make.
LEMMA Edits ==
    ASSUME NEW x \in AppRecs
    PROVE  /\ Alters(x, [x EXCEPT !.sp = TRUE], {"sp"})
           /\ \A P \in SUBSET Names : Alters(x, [x EXCEPT !.perms = P], {"perms"})
           /\ \A P \in SUBSET Names : Alters(x, [x EXCEPT !.pre = P], {"pre"})
           /\ Alters(x, [x EXCEPT !.auth = TRUE], {"auth"})
           /\ Alters(x, [x EXCEPT !["fic"] = TRUE], {"fic"})
           /\ Alters(x, [x EXCEPT !["owner"] = TRUE], {"owner"})
           /\ Alters(x, [x EXCEPT !["role"] = TRUE], {"role"})
           /\ Alters(x, [x EXCEPT !["group"] = TRUE], {"group"})
           /\ \A m \in Marks : Alters(x, [x EXCEPT !.marks = @ \cup {m}], {"marks"})
           /\ Alters(x, [x EXCEPT !.pre = @ \cup {Stranger}], {"pre"})
           /\ Alters(x, [x EXCEPT !.perms = @ \cup {Stranger}], {"perms"})
           /\ Alters(x, [x EXCEPT !.there = FALSE, !.sp = FALSE], {"there", "sp"})
<1>1. Alters(x, [x EXCEPT !.sp = TRUE], {"sp"})
  BY DEF Alters, AppRecs
<1>2. ASSUME NEW P \in SUBSET Names PROVE Alters(x, [x EXCEPT !.perms = P], {"perms"})
  BY DEF Alters, AppRecs
<1>3. ASSUME NEW P \in SUBSET Names PROVE Alters(x, [x EXCEPT !.pre = P], {"pre"})
  BY DEF Alters, AppRecs
<1>4. Alters(x, [x EXCEPT !.auth = TRUE], {"auth"})
  BY DEF Alters, AppRecs
<1>5. /\ Alters(x, [x EXCEPT !["fic"] = TRUE], {"fic"})
      /\ Alters(x, [x EXCEPT !["owner"] = TRUE], {"owner"})
  BY DEF Alters, AppRecs
<1>6. /\ Alters(x, [x EXCEPT !["role"] = TRUE], {"role"})
      /\ Alters(x, [x EXCEPT !["group"] = TRUE], {"group"})
  BY DEF Alters, AppRecs
<1>7. ASSUME NEW m \in Marks PROVE Alters(x, [x EXCEPT !.marks = @ \cup {m}], {"marks"})
  <2>1. x.marks \cup {m} \in SUBSET Marks
    BY DEF AppRecs
  <2> QED  BY <2>1 DEF Alters, AppRecs
<1>8. Stranger \in Names /\ x.pre \cup {Stranger} \in SUBSET Names /\ x.perms \cup {Stranger} \in SUBSET Names
  <2>1. Stranger \in Names
    BY DEF Names
  <2> QED  BY <2>1 DEF AppRecs
<1>9. Alters(x, [x EXCEPT !.pre = @ \cup {Stranger}], {"pre"})
  BY <1>3, <1>8
<1>10. Alters(x, [x EXCEPT !.perms = @ \cup {Stranger}], {"perms"})
  BY <1>2, <1>8
<1>11. Alters(x, [x EXCEPT !.there = FALSE, !.sp = FALSE], {"there", "sp"})
  BY DEF Alters, AppRecs
<1> QED  BY <1>1, <1>2, <1>3, <1>4, <1>5, <1>6, <1>7, <1>9, <1>10, <1>11

\* One more secret of a name.
LEMMA SecretEdit ==
    ASSUME NEW x \in AppRecs, NEW k \in Keys
    PROVE  /\ Alters(x, [x EXCEPT !.secrets[k] = @ + 1], {"secrets"})
           /\ [x EXCEPT !.secrets[k] = @ + 1].secrets[k] = x.secrets[k] + 1
           /\ \A j \in Keys : j # k => [x EXCEPT !.secrets[k] = @ + 1].secrets[j] = x.secrets[j]
<1> DEFINE f == [x.secrets EXCEPT ![k] = @ + 1]
<1>1. f \in [Keys -> Nat] /\ f[k] = x.secrets[k] + 1 /\ \A j \in Keys : j # k => f[j] = x.secrets[j]
  BY DEF AppRecs
<1>2. [x EXCEPT !.secrets[k] = @ + 1] = [x EXCEPT !.secrets = f]
  BY DEF AppRecs
<1> HIDE DEF f
<1>3. [x EXCEPT !.secrets = f].secrets = f /\ Alters(x, [x EXCEPT !.secrets = f], {"secrets"})
  BY <1>1 DEF Alters, AppRecs
<1> QED  BY <1>1, <1>2, <1>3

\* A service principal and a consent.
LEMMA ConsentEdit ==
    ASSUME TypeInv, NEW a \in DOMAIN tenant, NEW g \in SUBSET Names
    PROVE  \E y : /\ [tenant EXCEPT ![a].sp = TRUE, ![a].consent = @ \cup g] = [tenant EXCEPT ![a] = y]
                  /\ Alters(tenant[a], y, {"sp", "consent"})
                  /\ y.consent = tenant[a].consent \cup g
<1> DEFINE x == tenant[a]
           y == [x EXCEPT !.sp = TRUE, !.consent = @ \cup g]
<1>1. x \in AppRecs
  BY DEF TypeInv
<1>2. x.consent \cup g \in SUBSET Names
  BY <1>1 DEF AppRecs
<1>3. Alters(x, y, {"sp", "consent"}) /\ y.consent = x.consent \cup g
  <2> HIDE DEF x
  <2> QED  BY <1>1, <1>2 DEF Alters, AppRecs
<1>4. [tenant EXCEPT ![a].sp = TRUE, ![a].consent = @ \cup g] = [tenant EXCEPT ![a] = y]
  OBVIOUS
<1> HIDE DEF y
<1> QED  BY <1>3, <1>4

\* At most one app of the tenant changes, and only in the fields of F.
OneAltered(a, F) ==
    /\ a \in DOMAIN tenant
    /\ tenant' = tenant \/ \E y : tenant' = [tenant EXCEPT ![a] = y] /\ Alters(tenant[a], y, F)

LEMMA AlteredGrows ==
    ASSUME TypeInv, NEW a, NEW F, OneAltered(a, F)
    PROVE  /\ TenantGrows /\ DOMAIN tenant' = DOMAIN tenant
           /\ \A b \in DOMAIN tenant : b # a => tenant'[b] = tenant[b]
           /\ \A b \in DOMAIN tenant : Alters(tenant[b], tenant'[b], F)
<1>1. \A b \in DOMAIN tenant : tenant[b] \in AppRecs
  BY DEF TypeInv
<1>2. \A b \in DOMAIN tenant : Alters(tenant[b], tenant[b], F)
  BY <1>1 DEF Alters
<1>3. CASE tenant' = tenant
  BY <1>2, <1>3, SameGrows
<1>4. ASSUME NEW y, tenant' = [tenant EXCEPT ![a] = y], Alters(tenant[a], y, F), a \in DOMAIN tenant
      PROVE  /\ TenantGrows /\ DOMAIN tenant' = DOMAIN tenant
             /\ \A b \in DOMAIN tenant : b # a => tenant'[b] = tenant[b]
             /\ \A b \in DOMAIN tenant : Alters(tenant[b], tenant'[b], F)
  <2>1. y \in AppRecs /\ y.src = tenant[a].src
    BY <1>4 DEF Alters
  <2>2. TenantGrows
    BY <1>4, <2>1, EditGrows
  <2>3. DOMAIN tenant' = DOMAIN tenant /\ \A b \in DOMAIN tenant : tenant'[b] = IF b = a THEN y ELSE tenant[b]
    BY <1>4
  <2>4. \A b \in DOMAIN tenant : Alters(tenant[b], tenant'[b], F)
    <3> TAKE b \in DOMAIN tenant
    <3>1. CASE b = a
      BY <1>4, <2>3, <3>1
    <3>2. CASE b # a
      BY <1>2, <2>3, <3>2
    <3> QED  BY <3>1, <3>2
  <2> QED  BY <2>2, <2>3, <2>4
<1> QED  BY <1>3, <1>4 DEF OneAltered

-----------------------------------------------------------------------------
(* The effect of every write.                                              *)

\* A write is counted as such only where the app is there.
Touches(a) ==
    touched' = touched \/ (tenant[a].there /\ touched' = touched \cup {a})

\* The entries keep what identifies them.
SameEntries ==
    /\ created' \in Seq(EntryRecs) /\ DOMAIN created' = DOMAIN created
    /\ \A i \in DOMAIN created :
         /\ created'[i].src = created[i].src /\ created'[i].id = created[i].id
         /\ created'[i].adopted = created[i].adopted
         /\ created'[i].pre = created[i].pre /\ created'[i].pending = created[i].pending

LEMMA SameEntriesStay ==
    ASSUME TypeInv, created' = created
    PROVE  SameEntries
BY DEF TypeInv, SameEntries

LEMMA WroteAlters ==
    ASSUME TypeInv, NEW a \in DOMAIN tenant, NEW y, NEW F, WroteTo(a, y), Alters(tenant[a], y, F)
    PROVE  OneAltered(a, F) /\ Touches(a)
BY DEF WroteTo, OneAltered, Touches

LEMMA EnsureEffect ==
    ASSUME TypeInv, EntriesInv, NEW i \in DOMAIN created, EnsurePrincipal(i)
    PROVE  /\ OneAltered(created[i].id, {"sp"}) /\ Touches(created[i].id)
           /\ SameEntries /\ \A j \in DOMAIN created : created'[j].left = created[j].left
<1> DEFINE a == created[i].id
<1>1. a \in DOMAIN tenant /\ tenant[a] \in AppRecs
  BY DEF EntriesInv, TypeInv
<1>2. PICK o \in WriteAnswers(a) :
        /\ Write(a, o, [tenant[a] EXCEPT !.sp = TRUE])
        /\ created' = IF o = "ok" THEN created ELSE [created EXCEPT ![i].warn = @ \cup {"sp"}]
  BY DEF EnsurePrincipal
<1>3. WroteTo(a, [tenant[a] EXCEPT !.sp = TRUE])
  BY <1>2, WriteEffect
<1>4. Alters(tenant[a], [tenant[a] EXCEPT !.sp = TRUE], {"sp"})
  BY <1>1, Edits
<1>5. OneAltered(a, {"sp"}) /\ Touches(a)
  BY <1>1, <1>3, <1>4, WroteAlters
<1>6. SameEntries /\ \A j \in DOMAIN created : created'[j].left = created[j].left
  <2> DEFINE e == [created[i] EXCEPT !.warn = @ \cup {"sp"}]
             R == EntryRecs
  <2>1. created \in Seq(EntryRecs) /\ created[i] \in EntryRecs
    BY DEF TypeInv
  <2>2. /\ e \in EntryRecs /\ e.src = created[i].src /\ e.id = created[i].id /\ e.left = created[i].left
        /\ e.adopted = created[i].adopted /\ e.pre = created[i].pre /\ e.pending = created[i].pending
    BY <2>1 DEF EntryRecs
  <2>3. created' = created \/ created' = [created EXCEPT ![i] = e]
    BY <1>2
  <2> HIDE DEF e
  <2>4. CASE created' = created
    BY <2>1, <2>4 DEF SameEntries
  <2>5. CASE created' = [created EXCEPT ![i] = e]
    <3>1. created \in Seq(R) /\ e \in R
      BY <2>1, <2>2
    <3> HIDE DEF R
    <3>2. created' \in Seq(R) /\ DOMAIN created' = DOMAIN created
      BY <2>5, <3>1
    <3>3. \A j \in DOMAIN created : created'[j] = IF j = i THEN e ELSE created[j]
      BY <2>5
    <3> QED  BY <2>2, <3>2, <3>3 DEF SameEntries, R
  <2> QED  BY <2>3, <2>4, <2>5
<1> QED  BY <1>5, <1>6

\* The entry being wired, and its app.
LEMMA EntryFacts ==
    ASSUME TypeInv, EntriesInv, pos <= Len(created)
    PROVE  /\ pos \in DOMAIN created /\ Entry \in EntryRecs /\ Entry.src \in Apps
           /\ Entry.id \in DOMAIN tenant /\ tenant[Entry.id] \in AppRecs
           /\ tenant[Entry.id].src = Entry.src
<1>1. pos \in DOMAIN created
  BY DEF TypeInv
<1>2. Entry \in EntryRecs
  BY <1>1 DEF TypeInv, Entry
<1>3. Entry.id \in DOMAIN tenant /\ tenant[Entry.id].src = Entry.src
  BY <1>1 DEF EntriesInv, Entry
<1>4. tenant[Entry.id] \in AppRecs
  BY <1>3 DEF TypeInv
<1> QED  BY <1>1, <1>2, <1>3, <1>4 DEF EntryRecs

LEMMA PatchEffect ==
    ASSUME BaseInv, PatchStep
    PROVE  OneAltered(Entry.id, {"perms", "pre", "auth"}) /\ Touches(Entry.id)
<1> DEFINE a == Entry.id
           x == tenant[a]
           P == Patched(a, Entry.src)
<1>1. Step \in {"perms", "expose", "auth"} /\ pos <= Len(created)
  BY DEF PatchStep, Wiring, BaseInv, PlaceInv
<1>2. a \in DOMAIN tenant /\ x \in AppRecs /\ Entry.src \in Apps
  BY <1>1, EntryFacts DEF BaseInv
<1>3. PICK o \in WriteAnswers(a) : Write(a, o, P[Step])
  BY DEF PatchStep
<1>4. WroteTo(a, P[Step])
  BY <1>3, WriteEffect
<1>5. /\ P["perms"] = [x EXCEPT !.perms = remap_required_resource_access(Entry.src)]
      /\ P["expose"] = [x EXCEPT !.pre = plan_pre_authorized(Entry.src)]
      /\ P["auth"] = [x EXCEPT !.auth = TRUE]
  BY DEF Patched
<1>6. /\ remap_required_resource_access(Entry.src) \in SUBSET Names
      /\ plan_pre_authorized(Entry.src) \in SUBSET Names
  BY <1>2, PlansAreNames DEF BaseInv
<1>7. \/ Alters(x, P[Step], {"perms"}) \/ Alters(x, P[Step], {"pre"}) \/ Alters(x, P[Step], {"auth"})
  <2> HIDE DEF a, x, P
  <2>1. CASE Step = "perms"
    <3>1. P[Step] = [x EXCEPT !.perms = remap_required_resource_access(Entry.src)]
      BY <1>5, <2>1
    <3> QED  BY <1>2, <1>6, <3>1, Edits
  <2>2. CASE Step = "expose"
    <3>1. P[Step] = [x EXCEPT !.pre = plan_pre_authorized(Entry.src)]
      BY <1>5, <2>2
    <3> QED  BY <1>2, <1>6, <3>1, Edits
  <2>3. CASE Step = "auth"
    <3>1. P[Step] = [x EXCEPT !.auth = TRUE]
      BY <1>5, <2>3
    <3> QED  BY <1>2, <3>1, Edits
  <2> QED  BY <1>1, <2>1, <2>2, <2>3
<1>8. Alters(x, P[Step], {"perms", "pre", "auth"})
  <2> HIDE DEF a, x, P
  <2> QED  BY <1>7 DEF Alters
<1> QED  BY <1>2, <1>4, <1>8, WroteAlters DEF BaseInv

\* What Add leaves of the app.
LEMMA AddAlters ==
    ASSUME TypeInv, NEW a \in DOMAIN tenant, NEW field \in {"fic", "owner", "role", "group"}, NEW noted,
           Add(a, field, noted)
    PROVE  OneAltered(a, {field}) /\ Touches(a)
<1>1. tenant[a] \in AppRecs
  BY DEF TypeInv
<1>2. WroteTo(a, [tenant[a] EXCEPT ![field] = TRUE])
  BY AddEffect
<1>3. Alters(tenant[a], [tenant[a] EXCEPT ![field] = TRUE], {field})
  BY <1>1, Edits
<1> QED  BY <1>2, <1>3, WroteAlters

LEMMA FicEffect ==
    ASSUME BaseInv, FicStep
    PROVE  OneAltered(Entry.id, {"fic"}) /\ Touches(Entry.id)
<1>1. pos <= Len(created)
  BY DEF FicStep, Wiring, BaseInv, PlaceInv
<1>2. Entry.id \in DOMAIN tenant
  BY <1>1, EntryFacts DEF BaseInv
<1>3. CASE Add(Entry.id, "fic", Warn("fic"))
  BY <1>2, <1>3, AddAlters DEF BaseInv
<1>4. CASE tenant' = tenant /\ touched' = touched
  BY <1>2, <1>4 DEF OneAltered, Touches
<1> QED  BY <1>3, <1>4 DEF FicStep

LEMMA OwnerEffect ==
    ASSUME BaseInv, OwnerStep
    PROVE  OneAltered(Entry.id, {"owner"}) /\ Touches(Entry.id)
<1>1. pos <= Len(created)
  BY DEF OwnerStep, Wiring, BaseInv, PlaceInv
<1>2. Entry.id \in DOMAIN tenant
  BY <1>1, EntryFacts DEF BaseInv
<1>3. CASE Add(Entry.id, "owner", Warn("owner"))
  BY <1>2, <1>3, AddAlters DEF BaseInv
<1>4. CASE tenant' = tenant /\ touched' = touched
  BY <1>2, <1>4 DEF OneAltered, Touches
<1> QED  BY <1>3, <1>4 DEF OwnerStep

\* The app of the enterprise app.
LEMMA EntFacts ==
    ASSUME TypeInv, RemapInv, Ent \in DOMAIN remap
    PROVE  EntApp \in DOMAIN tenant /\ tenant[EntApp].src = Ent /\ Ent \in Apps
BY DEF RemapInv, EntApp

LEMMA SettingsEffect ==
    ASSUME ApplySettings
    PROVE  tenant' = tenant /\ Touches(EntApp)
BY DEF ApplySettings, Touches, world

LEMMA RoleEffect ==
    ASSUME BaseInv, AssignRole
    PROVE  OneAltered(EntApp, {"role"}) /\ Touches(EntApp)
<1>1. EntApp \in DOMAIN tenant
  BY EntFacts DEF AssignRole, BaseInv, PlaceInv
<1>2. CASE Add(EntApp, "role", WarnEnt("role"))
  BY <1>1, <1>2, AddAlters DEF BaseInv
<1>3. CASE tenant' = tenant /\ touched' = touched
  BY <1>1, <1>3 DEF OneAltered, Touches
<1> QED  BY <1>2, <1>3 DEF AssignRole

LEMMA GroupEffect ==
    ASSUME BaseInv, JoinGroup
    PROVE  /\ OneAltered(EntApp, {"group"}) /\ Touches(EntApp)
           /\ tenant' # tenant => Ent \in manifest.approved
<1>1. EntApp \in DOMAIN tenant
  BY EntFacts DEF JoinGroup, BaseInv, PlaceInv
<1>2. CASE Ent \in manifest.groups /\ Ent \in manifest.approved /\ Add(EntApp, "group", WarnEnt("group"))
  BY <1>1, <1>2, AddAlters DEF BaseInv
<1>3. CASE tenant' = tenant /\ touched' = touched
  BY <1>1, <1>3 DEF OneAltered, Touches
<1> QED  BY <1>2, <1>3 DEF JoinGroup

\* A secret step: one that had expired, one the candidate held, or one more.
LEMMA SecretEffect ==
    ASSUME BaseInv, SecretStep
    PROVE  /\ Step \in Keys /\ pos \in DOMAIN created
           /\ OneAltered(Entry.id, {"secrets"}) /\ Touches(Entry.id) /\ SameEntries
           /\ \A j \in DOMAIN created : j # pos => created'[j] = created[j]
           /\ \/ Step = "old" /\ tenant' = tenant /\ created' = created
              \/ /\ Step # "old" /\ Entry.left[Step] > 0 /\ tenant' = tenant
                 /\ created'[pos].left = [Entry.left EXCEPT ![Step] = @ - 1]
              \/ /\ Step # "old" /\ Entry.left[Step] = 0 /\ created' = created
                 /\ \/ tenant' = tenant
                    \/ /\ tenant'[Entry.id].secrets[Step] = tenant[Entry.id].secrets[Step] + 1
                       /\ \A j \in Keys : j # Step =>
                            tenant'[Entry.id].secrets[j] = tenant[Entry.id].secrets[j]
<1> DEFINE a == Entry.id
           k == Step
<1>1. k \in Keys /\ pos <= Len(created)
  BY DEF SecretStep, Wiring, BaseInv, PlaceInv
<1>2. /\ pos \in DOMAIN created /\ Entry \in EntryRecs /\ a \in DOMAIN tenant /\ tenant[a] \in AppRecs
      /\ TypeInv
  BY <1>1, EntryFacts DEF BaseInv
<1>3. Entry.left \in [Keys -> Nat] /\ Entry.left[k] \in Nat
  BY <1>1, <1>2 DEF EntryRecs
<1>4. CASE k = "old"
  <2>1. tenant' = tenant /\ created' = created /\ touched' = touched
    BY <1>4 DEF SecretStep
  <2> QED  BY <1>1, <1>2, <1>4, <2>1, SameEntriesStay DEF OneAltered, Touches
<1>5. CASE k # "old" /\ Entry.left[k] > 0
  <2>1. tenant' = tenant /\ touched' = touched /\ created' = [created EXCEPT ![pos].left[k] = @ - 1]
    BY <1>5 DEF SecretStep
  <2> DEFINE f == [Entry.left EXCEPT ![k] = @ - 1]
             e == [Entry EXCEPT !.left = f]
             R == EntryRecs
  <2>2. f \in [Keys -> Nat]
    BY <1>1, <1>3, <1>5
  <2>3. created' = [created EXCEPT ![pos] = e]
    BY <2>1 DEF Entry
  <2>4. /\ e \in EntryRecs /\ e.src = Entry.src /\ e.id = Entry.id /\ e.left = f
        /\ e.adopted = Entry.adopted /\ e.pre = Entry.pre /\ e.pending = Entry.pending
    <3> HIDE DEF f
    <3> QED  BY <1>2, <2>2 DEF EntryRecs
  <2> HIDE DEF e
  <2>5. created \in Seq(R) /\ e \in R
    BY <2>4 DEF TypeInv, BaseInv
  <2> HIDE DEF R
  <2>6. created' \in Seq(R) /\ DOMAIN created' = DOMAIN created
    BY <1>2, <2>3, <2>5
  <2>7. \A j \in DOMAIN created : created'[j] = IF j = pos THEN e ELSE created[j]
    BY <2>3
  <2>8. SameEntries
    BY <2>4, <2>6, <2>7 DEF SameEntries, R, Entry
  <2>9. created'[pos].left = f
    BY <1>2, <2>4, <2>7
  <2> QED  BY <1>1, <1>2, <1>5, <2>1, <2>7, <2>8, <2>9 DEF OneAltered, Touches
<1>6. CASE k # "old" /\ ~ (Entry.left[k] > 0)
  <2>0. Entry.left[k] = 0
    BY <1>3, <1>6
  <2> DEFINE y == [tenant[a] EXCEPT !.secrets[k] = @ + 1]
  <2>1. created' = created /\ \E o \in WriteAnswers(a) : Write(a, o, y)
    BY <1>6 DEF SecretStep
  <2>2. WroteTo(a, y)
    BY <2>1, WriteEffect
  <2>3. /\ Alters(tenant[a], y, {"secrets"}) /\ y.secrets[k] = tenant[a].secrets[k] + 1
        /\ \A j \in Keys : j # k => y.secrets[j] = tenant[a].secrets[j]
    BY <1>1, <1>2, SecretEdit
  <2> HIDE DEF y
  <2>4. OneAltered(a, {"secrets"}) /\ Touches(a)
    BY <1>2, <2>2, <2>3, WroteAlters
  <2>5. tenant' = tenant \/ tenant'[a] = y
    BY <1>2, <2>2 DEF WroteTo
  <2> QED  BY <1>1, <1>2, <1>6, <2>0, <2>1, <2>3, <2>4, <2>5, SameEntriesStay
<1> QED  BY <1>4, <1>5, <1>6

\* A grant adds consents from the list that was compared.
LEMMA GrantEffect ==
    ASSUME BaseInv, Grant
    PROVE  /\ OneAltered(Entry.id, {"sp", "consent"}) /\ Touches(Entry.id)
           /\ tenant'[Entry.id].consent \subseteq tenant[Entry.id].consent \cup hit
<1> DEFINE a == Entry.id
<1>1. pos <= Len(created) /\ hit \in SUBSET Names
  BY DEF Grant, BaseInv, PlaceInv
<1>2. a \in DOMAIN tenant /\ TypeInv
  BY <1>1, EntryFacts DEF BaseInv
<1>3. PICK g \in SUBSET hit, ensured \in BOOLEAN :
        /\ ensured => tenant[a].there
        /\ touched' = IF ensured THEN touched \cup {a} ELSE touched
        /\ tenant' = IF ensured THEN [tenant EXCEPT ![a].sp = TRUE, ![a].consent = @ \cup g] ELSE tenant
  <2> DEFINE able == {p \in ListToGrant : Resolvable(p) \/ p = a}
  <2>1. PICK g \in SUBSET able, ensured \in BOOLEAN :
        /\ ensured => tenant[a].there
        /\ touched' = IF ensured THEN touched \cup {a} ELSE touched
        /\ tenant' = IF ensured THEN [tenant EXCEPT ![a].sp = TRUE, ![a].consent = @ \cup g] ELSE tenant
    BY DEF Grant
  <2>2. g \in SUBSET hit
    BY DEF ListToGrant
  <2> QED  BY <2>1, <2>2
<1>4. PICK y : /\ [tenant EXCEPT ![a].sp = TRUE, ![a].consent = @ \cup g] = [tenant EXCEPT ![a] = y]
               /\ Alters(tenant[a], y, {"sp", "consent"}) /\ y.consent = tenant[a].consent \cup g
  BY <1>1, <1>2, ConsentEdit
<1>5. tenant' = tenant \/ tenant' = [tenant EXCEPT ![a] = y]
  BY <1>3, <1>4
<1>6. tenant' = tenant \/ tenant'[a] = y
  BY <1>2, <1>5
<1> QED  BY <1>2, <1>3, <1>4, <1>5, <1>6 DEF OneAltered, Touches

\* What somebody else does to an app.
LEMMA DeleteEffect ==
    ASSUME TypeInv, NEW a \in DOMAIN tenant, Delete(a)
    PROVE  OneAltered(a, {"there", "sp"})
<1>1. tenant[a] \in AppRecs
  BY DEF TypeInv
<1> QED  BY <1>1, Edits DEF Delete, Change, OneAltered

LEMMA TamperEffect ==
    ASSUME TypeInv, NEW a \in DOMAIN tenant, Tamper(a)
    PROVE  OneAltered(a, {"marks", "pre", "perms"})
<1> DEFINE x == tenant[a]
           F == {"marks", "pre", "perms"}
<1>1. x \in AppRecs
  BY DEF TypeInv
<1>2. ASSUME NEW m \in Marks PROVE Alters(x, [x EXCEPT !.marks = @ \cup {m}], F)
  <2> DEFINE y == [x EXCEPT !.marks = @ \cup {m}]
  <2>1. Alters(x, y, {"marks"})
    BY <1>1, <1>2, Edits
  <2>2. Alters(x, y, F)
    <3> HIDE DEF x, y
    <3> QED  BY <2>1 DEF Alters
  <2> QED  BY <2>2
<1>3. Alters(x, [x EXCEPT !.pre = @ \cup {Stranger}], F)
  BY <1>1, Edits DEF Alters
<1>4. Alters(x, [x EXCEPT !.perms = @ \cup {Stranger}], F)
  BY <1>1, Edits DEF Alters
<1>5. CASE \E m \in Marks : Change(a, [x EXCEPT !.marks = @ \cup {m}])
  BY <1>2, <1>5 DEF Change, OneAltered
<1>6. CASE Change(a, [x EXCEPT !.pre = @ \cup {Stranger}])
  BY <1>3, <1>6 DEF Change, OneAltered
<1>7. CASE Change(a, [x EXCEPT !.perms = @ \cup {Stranger}])
  BY <1>4, <1>7 DEF Change, OneAltered
<1> QED  BY <1>5, <1>6, <1>7 DEF Tamper, Marks

-----------------------------------------------------------------------------
(* BaseInv is kept.                                                        *)

\* The remap keeps some of its apps.
RemapShrinks ==
    /\ remap' = [s \in DOMAIN remap' |-> remap'[s]]
    /\ DOMAIN remap' \subseteq DOMAIN remap
    /\ \A s \in DOMAIN remap' : remap'[s] = remap[s]

LEMMA SetsStay ==
    ASSUME manifest' = manifest
    PROVE  Apps' = Apps /\ AppRecs' = AppRecs /\ EntryRecs' = EntryRecs
BY DEF Apps, AppRecs, EntryRecs, Names

LEMMA RemapStays ==
    ASSUME RemapInv, remap' = remap
    PROVE  RemapShrinks
BY DEF RemapInv, RemapShrinks

LEMMA RemapWithout ==
    ASSUME NEW X, remap' = [s \in DOMAIN remap \ X |-> remap[s]]
    PROVE  RemapShrinks
BY DEF RemapShrinks

\* The tenant grows, the entries and the remap stay or shrink.
LEMMA PartsStay ==
    ASSUME BaseInv, manifest' = manifest, TenantGrows, SameEntries, RemapShrinks,
           pos' \in Nat \ {0}, item' \in Nat
    PROVE  /\ TypeInv' /\ RemapInv' /\ EntriesInv'
           /\ \A i, j \in DOMAIN created' : created'[i].src = created'[j].src => i = j
<1>1. TypeInv'
  BY SetsStay DEF BaseInv, TypeInv, TenantGrows, SameEntries
<1>2. RemapInv'
  BY SetsStay DEF BaseInv, RemapInv, RemapShrinks, TenantGrows
<1>3. EntriesInv'
  <2> SUFFICES ASSUME NEW i \in DOMAIN created'
               PROVE  created'[i].id \in DOMAIN tenant' /\ tenant'[created'[i].id].src = created'[i].src
    BY DEF EntriesInv
  <2>1. i \in DOMAIN created /\ created'[i].id = created[i].id /\ created'[i].src = created[i].src
    BY DEF SameEntries
  <2>2. created[i].id \in DOMAIN tenant /\ tenant[created[i].id].src = created[i].src
    BY <2>1 DEF BaseInv, EntriesInv
  <2> QED  BY <2>1, <2>2 DEF TenantGrows
<1>4. \A i, j \in DOMAIN created' : created'[i].src = created'[j].src => i = j
  BY DEF SameEntries, BaseInv, OrderInv
<1> QED  BY <1>1, <1>2, <1>3, <1>4

\* A step after Pass 1.
LEMMA LaterStep ==
    ASSUME BaseInv, manifest' = manifest, TenantGrows, SameEntries, RemapShrinks,
           pos' \in Nat \ {0}, item' \in Nat, PlaceInv',
           at' \notin {"lookup", "create", "ensure"} \cup Checking
    PROVE  BaseInv'
BY PartsStay DEF BaseInv, OrderInv

\* A step of Pass 1 that adds no entry.
LEMMA EarlyStep ==
    ASSUME BaseInv, manifest' = manifest, TenantGrows, SameEntries, RemapShrinks,
           item' = item, PlaceInv',
           \/ at \in {"lookup", "create"} \cup Checking /\ pos' \in {pos, pos + 1}
           \/ at = "ensure" /\ pos' = pos + 1,
           at' \in {"lookup", "create"} \cup Checking
    PROVE  BaseInv'
<1>0. pos \in Nat \ {0} /\ item \in Nat /\ pos' \in Nat \ {0} /\ item' \in Nat
  BY DEF BaseInv, TypeInv
<1>1. /\ TypeInv' /\ RemapInv' /\ EntriesInv'
      /\ \A i, j \in DOMAIN created' : created'[i].src = created'[j].src => i = j
  BY <1>0, PartsStay
<1>2. ASSUME NEW i \in DOMAIN created'
      PROVE  \E j \in DOMAIN manifest'.apps : j < pos' /\ created'[i].src = manifest'.apps[j]
  <2>1. i \in DOMAIN created /\ created'[i].src = created[i].src
    BY DEF SameEntries
  <2>2. PICK j \in DOMAIN manifest.apps : j < pos' /\ created[i].src = manifest.apps[j]
    <3>1. \A j \in DOMAIN manifest.apps : j \in Nat
      BY ManifestFacts DEF BaseInv, TypeInv
    <3>2. CASE at \in {"lookup", "create"} \cup Checking /\ pos' \in {pos, pos + 1}
      BY <1>0, <2>1, <3>1, <3>2 DEF BaseInv, OrderInv
    <3>3. CASE at = "ensure" /\ pos' = pos + 1
      BY <1>0, <2>1, <3>1, <3>3 DEF BaseInv, OrderInv
    <3> QED  BY <3>2, <3>3
  <2> QED  BY <2>1, <2>2
<1>3. OrderInv'
  BY <1>1, <1>2 DEF OrderInv, Checking
<1> QED  BY <1>1, <1>3 DEF BaseInv

\* A step around the runs.
LEMMA AroundStep ==
    ASSUME BaseInv, manifest' = manifest, TenantGrows, at' = at, locals' = locals
    PROVE  BaseInv'
<1>1. /\ pos' = pos /\ item' = item /\ remap' = remap /\ created' = created /\ hit' = hit
  BY DEF locals
<1>2. SameEntries /\ RemapShrinks /\ pos' \in Nat \ {0} /\ item' \in Nat
  BY <1>1, SameEntriesStay, RemapStays DEF BaseInv, TypeInv
<1>3. /\ TypeInv' /\ RemapInv' /\ EntriesInv'
  BY <1>2, PartsStay
<1>4. OrderInv'
  BY <1>1 DEF BaseInv, OrderInv
<1>5. PlaceInv'
  BY <1>1 DEF BaseInv, PlaceInv, TenantGrows, Source, Ent
<1> QED  BY <1>3, <1>4, <1>5 DEF BaseInv

\* The entry Pass 1 makes.
LEMMA KeepStep ==
    ASSUME BaseInv, manifest' = manifest, TenantGrows, item' = item,
           at \in {"create"} \cup Checking,
           NEW a \in DOMAIN tenant', tenant'[a].src = Source,
           NEW adopted \in BOOLEAN, NEW secrets \in [Keys -> Nat], NEW pre \in SUBSET Names,
           Keep(a, adopted, secrets, pre)
    PROVE  BaseInv'
<1> DEFINE e == [src |-> Source, id |-> a, adopted |-> adopted, left |-> secrets,
                 pre |-> pre, pending |-> pre # {}, warn |-> {}]
<1>0. /\ pos \in Nat \ {0} /\ item \in Nat /\ pos <= Len(manifest.apps)
      /\ manifest.apps \in Seq(Apps) /\ \A i \in DOMAIN manifest.apps : manifest.apps[i] \in Apps
      /\ \A i, j \in DOMAIN manifest.apps : manifest.apps[i] = manifest.apps[j] => i = j
  BY ManifestFacts DEF BaseInv, TypeInv, PlaceInv
<1>1. pos \in DOMAIN manifest.apps /\ Source \in Apps
  BY <1>0 DEF Source
<1>2. e \in EntryRecs /\ e.src = Source /\ e.id = a
  <2>1. a \in Nat
    BY DEF TenantGrows
  <2> QED  BY <1>1, <2>1 DEF EntryRecs
<1>3. created' = Append(created, e)
  BY DEF Keep
<1> HIDE DEF e
<1>4. /\ created' \in Seq(EntryRecs) /\ Len(created') = Len(created) + 1
      /\ DOMAIN created' = DOMAIN created \cup {Len(created) + 1}
      /\ created'[Len(created) + 1] = e /\ \A i \in DOMAIN created : created'[i] = created[i]
  <2> DEFINE R == EntryRecs
  <2>1. created \in Seq(R) /\ e \in R
    BY <1>2 DEF BaseInv, TypeInv
  <2> HIDE DEF R
  <2>2. /\ created' \in Seq(R) /\ Len(created') = Len(created) + 1
        /\ DOMAIN created' = DOMAIN created \cup {Len(created) + 1}
        /\ created'[Len(created) + 1] = e /\ \A i \in DOMAIN created : created'[i] = created[i]
    BY <1>3, <2>1
  <2> QED  BY <2>2 DEF R
<1>5. remap' = [s \in DOMAIN remap \cup {Source} |-> IF s = Source THEN a ELSE remap[s]]
  BY DEF Keep
<1>6. \/ at' = "ensure" /\ pos' = pos
      \/ at' = "lookup" /\ pos' = pos + 1
  BY DEF Keep, NextApp
<1>7. TypeInv'
  BY <1>0, <1>4, <1>6, SetsStay DEF BaseInv, TypeInv, TenantGrows
<1>8. RemapInv'
  <2>1. \A s \in DOMAIN remap' : s \in Apps /\ remap'[s] \in DOMAIN tenant' /\ tenant'[remap'[s]].src = s
    BY <1>1, <1>5 DEF BaseInv, RemapInv, TenantGrows
  <2>2. remap' = [s \in DOMAIN remap' |-> remap'[s]]
    BY <1>5
  <2> QED  BY <2>1, <2>2, SetsStay DEF RemapInv
<1>9. EntriesInv'
  BY <1>2, <1>4 DEF BaseInv, EntriesInv, TenantGrows
<1>10. ASSUME NEW i \in DOMAIN created
       PROVE  \E j \in DOMAIN manifest.apps : j < pos /\ created[i].src = manifest.apps[j]
  BY DEF BaseInv, OrderInv, Checking
<1>11. \A i \in DOMAIN created : created[i].src # Source
  BY <1>0, <1>1, <1>10 DEF Source
<1>12. \A i, j \in DOMAIN created' : created'[i].src = created'[j].src => i = j
  BY <1>2, <1>4, <1>11 DEF BaseInv, OrderInv
<1>13. \A i \in DOMAIN created' : \E j \in DOMAIN manifest.apps : j <= pos /\ created'[i].src = manifest.apps[j]
  <2> SUFFICES ASSUME NEW i \in DOMAIN created'
               PROVE  \E j \in DOMAIN manifest.apps : j <= pos /\ created'[i].src = manifest.apps[j]
    OBVIOUS
  <2>1. CASE i \in DOMAIN created
    <3>1. PICK j \in DOMAIN manifest.apps : j < pos /\ created[i].src = manifest.apps[j]
      BY <1>10, <2>1
    <3>2. j <= pos
      BY <1>0, <3>1
    <3> QED  BY <1>4, <2>1, <3>1, <3>2
  <2>2. CASE i = Len(created) + 1
    BY <1>0, <1>1, <1>2, <1>4, <2>2 DEF Source
  <2> QED  BY <1>4, <2>1, <2>2
<1>14. OrderInv'
  <2>1. \A j \in DOMAIN manifest.apps : j \in Nat
    BY <1>0
  <2>2. CASE at' = "ensure" /\ pos' = pos
    BY <1>12, <1>13, <2>2 DEF OrderInv, Checking
  <2>3. CASE at' = "lookup" /\ pos' = pos + 1
    <3>1. \A i \in DOMAIN created' : \E j \in DOMAIN manifest.apps : j < pos + 1 /\ created'[i].src = manifest.apps[j]
      BY <1>0, <1>13, <2>1
    <3> QED  BY <1>12, <2>3, <3>1 DEF OrderInv, Checking
  <2> QED  BY <1>6, <2>2, <2>3
<1>15. PlaceInv'
  <2>1. Len(created') > 0
    BY <1>4 DEF BaseInv, TypeInv
  <2> QED  BY <1>6, <2>1 DEF PlaceInv, Checking
<1> QED  BY <1>7, <1>8, <1>9, <1>14, <1>15 DEF BaseInv

\* What Vec::retain leaves.
LEMMA RetainEffect ==
    ASSUME TypeInv, NEW kept \in SUBSET (DOMAIN created), Retain(kept)
    PROVE  /\ created' \in Seq(EntryRecs)
           /\ \E index \in [DOMAIN created' -> kept] :
                /\ \A i, j \in DOMAIN created' : index[i] = index[j] => i = j
                /\ \A i \in DOMAIN created' : created'[i] = created[index[i]]
                /\ \A k \in kept : \E i \in DOMAIN created' : index[i] = k
<1> DEFINE n == Cardinality(kept)
<1>1. created \in Seq(EntryRecs) /\ DOMAIN created = 1..Len(created) /\ Len(created) \in Nat
  BY DEF TypeInv
<1>2. IsFiniteSet(kept)
  <2>1. IsFiniteSet(1..Len(created))
    BY <1>1, FS_Interval
  <2> QED  BY <1>1, <2>1, FS_Subset
<1>3. n \in Nat
  BY <1>2, FS_CardinalityType
<1> HIDE DEF n
<1>4. PICK index \in [1..n -> kept] :
        /\ ToSet(index) = kept
        /\ \A i, j \in DOMAIN index : i < j => index[i] < index[j]
        /\ created' = [i \in DOMAIN index |-> created[index[i]]]
  BY DEF Retain, n
<1>5. DOMAIN created' = 1..n /\ \A i \in 1..n : created'[i] = created[index[i]]
  BY <1>4
<1>6. \A i \in 1..n : index[i] \in kept /\ index[i] \in 1..Len(created) /\ created[index[i]] \in EntryRecs
  BY <1>1, <1>4
<1>7. created' \in Seq(EntryRecs)
  <2> DEFINE R == EntryRecs
  <2>1. created' \in [1..n -> R]
    BY <1>4, <1>5, <1>6
  <2> HIDE DEF R
  <2>2. created' \in Seq(R)
    BY <1>3, <2>1
  <2> QED  BY <2>2 DEF R
<1>8. \A i, j \in 1..n : index[i] = index[j] => i = j
  <2> SUFFICES ASSUME NEW i \in 1..n, NEW j \in 1..n, index[i] = index[j] PROVE i = j
    OBVIOUS
  <2>1. index[i] \in Nat /\ index[j] \in Nat /\ i \in Nat /\ j \in Nat
    BY <1>1, <1>3, <1>6
  <2>2. ~ (i < j) /\ ~ (j < i)
    BY <1>4, <2>1
  <2> QED  BY <2>1, <2>2
<1>9. \A k \in kept : \E i \in 1..n : index[i] = k
  BY <1>4 DEF ToSet
<1>10. index \in [DOMAIN created' -> kept]
  BY <1>4, <1>5
<1>11. /\ \A i, j \in DOMAIN created' : index[i] = index[j] => i = j
       /\ \A i \in DOMAIN created' : created'[i] = created[index[i]]
       /\ \A k \in kept : \E i \in DOMAIN created' : index[i] = k
  BY <1>5, <1>8, <1>9
<1> QED  BY <1>7, <1>10, <1>11

LEMMA RetainStep ==
    ASSUME BaseInv, manifest' = manifest, tenant' = tenant, remap' = remap, pos' = 1, item' = item,
           at' = "take", NEW kept \in SUBSET (DOMAIN created), Retain(kept)
    PROVE  BaseInv'
<1>1. /\ created' \in Seq(EntryRecs)
      /\ \E index \in [DOMAIN created' -> kept] :
           /\ \A i, j \in DOMAIN created' : index[i] = index[j] => i = j
           /\ \A i \in DOMAIN created' : created'[i] = created[index[i]]
  BY RetainEffect DEF BaseInv
<1>2. PICK index \in [DOMAIN created' -> kept] :
           /\ \A i, j \in DOMAIN created' : index[i] = index[j] => i = j
           /\ \A i \in DOMAIN created' : created'[i] = created[index[i]]
  BY <1>1
<1>3. \A i \in DOMAIN created' : index[i] \in DOMAIN created
  BY <1>2
<1>4. TypeInv'
  BY <1>1, SetsStay DEF BaseInv, TypeInv
<1>5. RemapInv'
  BY SetsStay DEF BaseInv, RemapInv
<1>6. EntriesInv'
  BY <1>2, <1>3 DEF BaseInv, EntriesInv
<1>7. \A i, j \in DOMAIN created' : created'[i].src = created'[j].src => i = j
  <2> SUFFICES ASSUME NEW i \in DOMAIN created', NEW j \in DOMAIN created', created'[i].src = created'[j].src
               PROVE  i = j
    OBVIOUS
  <2>1. index[i] = index[j]
    BY <1>2, <1>3 DEF BaseInv, OrderInv
  <2> QED  BY <1>2, <2>1
<1>8. OrderInv' /\ PlaceInv'
  BY <1>7 DEF OrderInv, PlaceInv, Checking
<1> QED  BY <1>4, <1>5, <1>6, <1>8 DEF BaseInv

LEMMA InitBase ==
    Init => BaseInv
BY DEF Init, BaseInv, TypeInv, RemapInv, EntriesInv, OrderInv, PlaceInv, Checking

\* The steps that read: the tenant, the entries and the remap stay.
LEMMA QuietFacts ==
    ASSUME BaseInv
    PROVE  /\ tenant' = tenant => TenantGrows
           /\ created' = created => SameEntries
           /\ remap' = remap => RemapShrinks
           /\ TypeInv /\ RemapInv /\ EntriesInv /\ pos \in Nat \ {0} /\ item \in Nat
BY SameGrows, SameEntriesStay, RemapStays DEF BaseInv, TypeInv

LEMMA BeginBase ==
    ASSUME BaseInv, Begin
    PROVE  BaseInv'
<1>1. /\ manifest' = manifest /\ tenant' = tenant /\ created' = <<>> /\ remap' = <<>>
      /\ pos' = 1 /\ item' = 0 /\ at' = "classify"
  BY DEF Begin, world
<1>2. TypeInv'
  BY <1>1, SetsStay DEF BaseInv, TypeInv
<1>3. RemapInv' /\ EntriesInv'
  BY <1>1 DEF RemapInv, EntriesInv
<1>4. OrderInv' /\ PlaceInv'
  BY <1>1 DEF OrderInv, PlaceInv, Checking
<1> QED  BY <1>2, <1>3, <1>4 DEF BaseInv

LEMMA ClassifyBase ==
    ASSUME BaseInv, Classify
    PROVE  BaseInv'
<1>1. /\ manifest' = manifest /\ tenant' = tenant /\ created' = created /\ remap' = remap
      /\ pos' = pos /\ item' = item /\ at' = "lookup" /\ created = <<>>
  BY DEF Classify, world, BaseInv, PlaceInv
<1>2. TypeInv' /\ RemapInv' /\ EntriesInv'
  BY <1>1, PartsStay, QuietFacts
<1>3. OrderInv' /\ PlaceInv'
  BY <1>1 DEF OrderInv, PlaceInv, Checking
<1> QED  BY <1>2, <1>3 DEF BaseInv

LEMMA EndLoopBase ==
    ASSUME BaseInv, EndLoop
    PROVE  BaseInv'
<1>1. /\ manifest' = manifest /\ tenant' = tenant /\ created' = created
      /\ pos' = 1 /\ item' = item /\ at' = "settle"
  BY DEF EndLoop, world
<1>2. remap' = remap \/ remap' = [s \in DOMAIN remap \ refused'.apps |-> remap[s]]
  BY DEF EndLoop
<1>3. RemapShrinks
  BY <1>2, QuietFacts, RemapWithout
<1>4. PlaceInv'
  BY <1>1 DEF PlaceInv, Checking
<1> QED  BY <1>1, <1>3, <1>4, QuietFacts, LaterStep DEF Checking

\* Refuse goes to the next app.
LEMMA RefuseStep ==
    ASSUME BaseInv, at \in {"lookup"} \cup Checking, manifest' = manifest, tenant' = tenant, item' = item,
           Refuse
    PROVE  BaseInv'
<1>1. created' = created /\ remap' = remap /\ at' = "lookup" /\ pos' = pos + 1
  BY DEF Refuse, NextApp
<1>2. PlaceInv'
  BY <1>1 DEF PlaceInv, Checking
<1> QED  BY <1>1, <1>2, QuietFacts, EarlyStep

LEMMA TaggedFacts ==
    ASSUME TypeInv, NEW s, NEW a \in Tagged(s)
    PROVE  /\ a \in DOMAIN tenant /\ tenant[a] \in AppRecs /\ tenant[a].src = s
           /\ tenant[a].pre \in SUBSET Names /\ tenant[a].secrets \in [Keys -> Nat]
<1>1. a \in DOMAIN tenant /\ tenant[a].src = s
  BY DEF Tagged
<1>2. tenant[a] \in AppRecs
  BY <1>1 DEF TypeInv
<1> QED  BY <1>1, <1>2 DEF AppRecs

LEMMA LookupBase ==
    ASSUME BaseInv, Lookup
    PROVE  BaseInv'
<1>1. /\ at = "lookup" /\ manifest' = manifest /\ tenant' = tenant /\ item' = item
      /\ pos <= Len(manifest.apps)
  BY DEF Lookup, world
<1>2. CASE Refuse
  BY <1>1, <1>2, RefuseStep
<1>3. CASE at' = "create" /\ UNCHANGED <<created, remap, pos, hit>>
  <2>1. PlaceInv'
    BY <1>1, <1>3 DEF PlaceInv, Checking
  <2> QED  BY <1>1, <1>3, <2>1, QuietFacts, EarlyStep
<1>4. ASSUME NEW a \in Tagged(Source), at' = "owners", UNCHANGED <<created, remap, pos>>,
             hit' = [id |-> a, pre |-> tenant[a].pre, secrets |-> LiveSecrets(a)]
      PROVE  BaseInv'
  <2>1. /\ a \in DOMAIN tenant /\ tenant[a].src = Source
        /\ tenant[a].pre \in SUBSET Names /\ tenant[a].secrets \in [Keys -> Nat]
    BY TaggedFacts DEF BaseInv
  <2>2. /\ hit' = [id |-> hit'.id, pre |-> hit'.pre, secrets |-> hit'.secrets]
        /\ hit'.id = a /\ hit'.pre = tenant[a].pre /\ hit'.secrets = tenant[a].secrets
    BY <1>4 DEF LiveSecrets
  <2>3. Source' = Source
    BY <1>1, <1>4 DEF Source
  <2>4. PlaceInv'
    BY <1>1, <1>4, <2>1, <2>2, <2>3 DEF PlaceInv, Checking
  <2> QED  BY <1>1, <1>4, <2>4, QuietFacts, EarlyStep DEF Checking
<1> QED  BY <1>2, <1>3, <1>4 DEF Lookup

\* The next check, of the same candidate.
LEMMA CheckStep ==
    ASSUME BaseInv, at \in Checking, at' \in Checking, manifest' = manifest, tenant' = tenant,
           UNCHANGED <<item, hit, created, remap, pos>>
    PROVE  BaseInv'
<1>1. PlaceInv'
  BY DEF BaseInv, PlaceInv, Checking, Source
<1> QED  BY <1>1, QuietFacts, EarlyStep

LEMMA OwnersBase ==
    ASSUME BaseInv, CheckOwners
    PROVE  BaseInv'
<1>1. at \in Checking /\ manifest' = manifest /\ tenant' = tenant /\ item' = item /\ hit' = hit
  BY DEF CheckOwners, world, Checking
<1>2. CASE Refuse
  BY <1>1, <1>2, RefuseStep
<1>3. CASE at' = "fics" /\ UNCHANGED <<report, created, remap, pos>>
  BY <1>1, <1>3, CheckStep DEF Checking
<1> QED  BY <1>2, <1>3 DEF CheckOwners

LEMMA FicsBase ==
    ASSUME BaseInv, CheckFics
    PROVE  BaseInv'
<1>1. at \in Checking /\ manifest' = manifest /\ tenant' = tenant /\ item' = item /\ hit' = hit
  BY DEF CheckFics, world, Checking
<1>2. CASE Refuse
  BY <1>1, <1>2, RefuseStep
<1>3. CASE at' = "principal" /\ UNCHANGED <<report, created, remap, pos>>
  BY <1>1, <1>3, CheckStep DEF Checking
<1> QED  BY <1>2, <1>3 DEF CheckFics

LEMMA PrincipalBase ==
    ASSUME BaseInv, CheckPrincipal
    PROVE  BaseInv'
<1>1. at \in Checking /\ manifest' = manifest /\ tenant' = tenant /\ item' = item /\ hit' = hit
  BY DEF CheckPrincipal, world, Checking
<1>2. CASE Refuse
  BY <1>1, <1>2, RefuseStep
<1>3. CASE Keep(hit.id, TRUE, hit.secrets, hit.pre)
  <2>1. /\ hit.id \in DOMAIN tenant' /\ tenant'[hit.id].src = Source
        /\ hit.pre \in SUBSET Names /\ hit.secrets \in [Keys -> Nat]
    BY <1>1 DEF BaseInv, PlaceInv
  <2> QED  BY <1>1, <1>3, <2>1, QuietFacts, KeepStep
<1> QED  BY <1>2, <1>3 DEF CheckPrincipal

\* The app Create adds.
LEMMA CreateEffect ==
    ASSUME BaseInv, Create
    PROVE  /\ Source \in Apps /\ pos \in DOMAIN manifest.apps /\ TenantGrows
           /\ \/ tenant' = tenant /\ touched' = touched
              \/ tenant' = Append(tenant, NewApp(Source)) /\ touched' = touched \cup {Len(tenant')}
           /\ \/ created' = created /\ remap' = remap /\ NextApp
              \/ /\ tenant' = Append(tenant, NewApp(Source))
                 /\ Keep(Len(tenant'), FALSE, [k \in Keys |-> 0], {})
<1>1. pos <= Len(manifest.apps) /\ TypeInv
  BY DEF Create, BaseInv, PlaceInv
<1>2. pos \in DOMAIN manifest.apps /\ Source \in Apps
  BY <1>1, ManifestFacts DEF TypeInv, Source
<1>3. NewApp(Source) \in AppRecs
  BY <1>2, NewAppFacts
<1>4. PICK o \in {"ok", "lost", "plain", "fatal"} :
         /\ IF Landed(o)
            THEN tenant' = Append(tenant, NewApp(Source)) /\ touched' = touched \cup {Len(tenant')}
            ELSE UNCHANGED <<tenant, touched>>
         /\ IF o = "ok"
            THEN Keep(Len(tenant'), FALSE, [k \in Keys |-> 0], {})
            ELSE NextApp /\ UNCHANGED <<created, remap>>
  BY DEF Create
<1>5. TenantGrows
  BY <1>1, <1>3, <1>4, SameGrows, AppendGrows
<1> QED  BY <1>2, <1>4, <1>5 DEF Landed

LEMMA CreateBase ==
    ASSUME BaseInv, Create
    PROVE  BaseInv'
<1>1. at = "create" /\ manifest' = manifest /\ item' = item
  BY DEF Create
<1>2. Source \in Apps /\ TenantGrows /\ TypeInv
  BY CreateEffect DEF BaseInv
<1>3. CASE created' = created /\ remap' = remap /\ NextApp
  <2>1. PlaceInv'
    BY <1>3 DEF NextApp, PlaceInv, Checking
  <2> QED  BY <1>1, <1>2, <1>3, <2>1, QuietFacts, EarlyStep DEF NextApp
<1>4. CASE /\ tenant' = Append(tenant, NewApp(Source))
           /\ Keep(Len(tenant'), FALSE, [k \in Keys |-> 0], {})
  <2>1. NewApp(Source) \in AppRecs /\ NewApp(Source).src = Source
    BY <1>2, NewAppFacts
  <2>2. Len(tenant') \in DOMAIN tenant' /\ tenant'[Len(tenant')].src = Source
    BY <1>2, <1>4, <2>1, AppendGrows
  <2>3. [k \in Keys |-> 0] \in [Keys -> Nat] /\ {} \in SUBSET Names
    OBVIOUS
  <2> QED  BY <1>1, <1>2, <1>4, <2>2, <2>3, KeepStep
<1> QED  BY <1>3, <1>4, CreateEffect

LEMMA EnsureBase ==
    ASSUME BaseInv, Ensure
    PROVE  BaseInv'
<1>1. /\ at = "ensure" /\ EnsurePrincipal(Len(created)) /\ manifest' = manifest /\ item' = item
      /\ remap' = remap /\ at' = "lookup" /\ pos' = pos + 1
  BY DEF Ensure, NextApp
<1>2. Len(created) \in DOMAIN created
  BY <1>1 DEF BaseInv, TypeInv, PlaceInv
<1>3. TenantGrows /\ SameEntries
  BY <1>1, <1>2, EnsureEffect, AlteredGrows DEF BaseInv
<1>4. PlaceInv'
  BY <1>1 DEF PlaceInv, Checking
<1> QED  BY <1>1, <1>3, <1>4, QuietFacts, EarlyStep

LEMMA JudgeBase ==
    ASSUME BaseInv, JudgePending
    PROVE  BaseInv'
<1>1. /\ manifest' = manifest /\ tenant' = tenant /\ created' = created
      /\ pos' = pos + 1 /\ item' = item /\ at' = "settle"
  BY DEF JudgePending, world
<1>2. remap' = remap \/ remap' = [s \in DOMAIN remap \ {created[pos].src} |-> remap[s]]
  BY DEF JudgePending
<1>3. RemapShrinks
  BY <1>2, QuietFacts, RemapWithout
<1>4. PlaceInv'
  BY <1>1 DEF PlaceInv, Checking
<1> QED  BY <1>1, <1>3, <1>4, QuietFacts, LaterStep DEF Checking

LEMMA EndRoundBase ==
    ASSUME BaseInv, EndRound
    PROVE  BaseInv'
<1>1. manifest' = manifest /\ tenant' = tenant /\ remap' = remap /\ pos' = 1 /\ item' = item
  BY DEF EndRound, world
<1>2. CASE at' = at /\ created' = created
  <2>1. at' = "settle"
    BY <1>2 DEF EndRound
  <2>2. PlaceInv'
    BY <2>1 DEF PlaceInv, Checking
  <2> QED  BY <1>1, <1>2, <2>1, <2>2, QuietFacts, LaterStep DEF Checking
<1>3. CASE at' = "take" /\ Retain({i \in DOMAIN created : created[i].src \notin refused.apps})
  BY <1>1, <1>3, RetainStep
<1> QED  BY <1>2, <1>3 DEF EndRound

LEMMA TakeEffect ==
    ASSUME BaseInv, TakePending
    PROVE  /\ pos \in DOMAIN created /\ SameEntries
           /\ OneAltered(created[pos].id, {"sp"}) /\ Touches(created[pos].id)
           /\ \A j \in DOMAIN created : created'[j].left = created[j].left
<1>1. pos \in DOMAIN created /\ created[pos].id \in DOMAIN tenant
  BY DEF TakePending, BaseInv, TypeInv, EntriesInv
<1>2. CASE EnsurePrincipal(pos)
  BY <1>1, <1>2, EnsureEffect DEF BaseInv
<1>3. CASE UNCHANGED <<tenant, created, touched>>
  BY <1>1, <1>3, QuietFacts DEF OneAltered, Touches
<1> QED  BY <1>2, <1>3 DEF TakePending

LEMMA TakeBase ==
    ASSUME BaseInv, TakePending
    PROVE  BaseInv'
<1>1. manifest' = manifest /\ item' = item /\ remap' = remap /\ at' = "take" /\ pos' = pos + 1
  BY DEF TakePending
<1>2. TenantGrows /\ SameEntries
  BY TakeEffect, AlteredGrows DEF BaseInv
<1>3. PlaceInv'
  BY <1>1 DEF PlaceInv, Checking
<1> QED  BY <1>1, <1>2, <1>3, QuietFacts, LaterStep DEF Checking

\* A step of Pass 2 that goes on to the next item of the entry.
LEMMA WireStep ==
    ASSUME BaseInv, at = "wire", item > 0, manifest' = manifest, remap' = remap, at' = at, pos' = pos,
           item' = item + 1, TenantGrows, SameEntries
    PROVE  BaseInv'
<1>1. Len(created') = Len(created)
  BY DEF SameEntries, BaseInv, TypeInv
<1>2. PlaceInv'
  BY <1>1 DEF BaseInv, PlaceInv, Checking
<1> QED  BY <1>2, QuietFacts, LaterStep DEF Checking

LEMMA Pass2Base ==
    ASSUME BaseInv, EndTake \/ Pass2
    PROVE  BaseInv'
<1>1. CASE EndTake
  <2>1. /\ manifest' = manifest /\ tenant' = tenant /\ created' = created /\ remap' = remap
        /\ pos' = 1 /\ item' = 0 /\ at' = "wire"
    BY <1>1 DEF EndTake, world
  <2>2. PlaceInv'
    BY <2>1 DEF PlaceInv, Checking
  <2> QED  BY <2>1, <2>2, QuietFacts, LaterStep DEF Checking
<1>2. CASE NextWire
  <2>1. manifest' = manifest /\ tenant' = tenant /\ created' = created /\ remap' = remap
    BY <1>2 DEF NextWire, world
  <2>2. CASE at' = "consent" /\ pos' = 1 /\ item' = item
    <3>1. PlaceInv'
      BY <2>2 DEF PlaceInv, Checking
    <3> QED  BY <2>1, <2>2, <3>1, QuietFacts, LaterStep DEF Checking
  <2>3. CASE at' = at /\ pos' = pos /\ item' = 1 /\ ~ (pos > Len(created))
    <3>1. at' = "wire" /\ pos' <= Len(created')
      BY <1>2, <2>1, <2>3 DEF NextWire, BaseInv, TypeInv
    <3>2. PlaceInv'
      BY <3>1 DEF PlaceInv, Checking
    <3> QED  BY <2>1, <2>3, <3>1, <3>2, QuietFacts, LaterStep DEF Checking
  <2> QED  BY <1>2, <2>2, <2>3 DEF NextWire
<1>3. CASE SkipStep
  <2>1. /\ at = "wire" /\ item > 0 /\ manifest' = manifest /\ tenant' = tenant /\ created' = created
        /\ remap' = remap /\ at' = at /\ pos' = pos /\ item' = item + 1
    BY <1>3 DEF SkipStep, Wiring, world
  <2> QED  BY <2>1, QuietFacts, WireStep
<1>4. CASE PatchStep
  <2>1. /\ at = "wire" /\ item > 0 /\ manifest' = manifest /\ created' = created
        /\ remap' = remap /\ at' = at /\ pos' = pos /\ item' = item + 1
    BY <1>4 DEF PatchStep, Wiring
  <2>2. TenantGrows
    BY <1>4, PatchEffect, AlteredGrows DEF BaseInv
  <2> QED  BY <2>1, <2>2, QuietFacts, WireStep
<1>5. CASE ReadStep
  <2>1. /\ at = "wire" /\ item > 0 /\ manifest' = manifest /\ tenant' = tenant /\ created' = created
        /\ remap' = remap /\ at' = at /\ pos' = pos /\ item' = item + 1
    BY <1>5 DEF ReadStep, Wiring, world
  <2> QED  BY <2>1, QuietFacts, WireStep
<1>6. CASE FicStep
  <2>1. /\ at = "wire" /\ item > 0 /\ manifest' = manifest /\ created' = created
        /\ remap' = remap /\ at' = at /\ pos' = pos /\ item' = item + 1
    BY <1>6 DEF FicStep, Wiring
  <2>2. TenantGrows
    BY <1>6, FicEffect, AlteredGrows DEF BaseInv
  <2> QED  BY <2>1, <2>2, QuietFacts, WireStep
<1>7. CASE OwnerStep
  <2>1. /\ at = "wire" /\ item > 0 /\ manifest' = manifest /\ created' = created
        /\ remap' = remap /\ at' = at /\ pos' = pos /\ item' = item + 1
    BY <1>7 DEF OwnerStep, Wiring
  <2>2. TenantGrows
    BY <1>7, OwnerEffect, AlteredGrows DEF BaseInv
  <2> QED  BY <2>1, <2>2, QuietFacts, WireStep
<1>8. CASE SecretStep
  <2>1. /\ at = "wire" /\ item > 0 /\ manifest' = manifest
        /\ remap' = remap /\ at' = at /\ pos' = pos /\ item' = item + 1
    BY <1>8 DEF SecretStep, Wiring
  <2>2. TenantGrows /\ SameEntries
    BY <1>8, SecretEffect, AlteredGrows DEF BaseInv
  <2> QED  BY <2>1, <2>2, QuietFacts, WireStep
<1>9. CASE EndWire
  <2>1. /\ manifest' = manifest /\ tenant' = tenant /\ created' = created
        /\ remap' = remap /\ at' = "wire" /\ pos' = pos + 1 /\ item' = 0
    BY <1>9 DEF EndWire, world
  <2>2. PlaceInv'
    BY <2>1 DEF PlaceInv, Checking
  <2> QED  BY <2>1, <2>2, QuietFacts, LaterStep DEF Checking
<1> QED  BY <1>1, <1>2, <1>3, <1>4, <1>5, <1>6, <1>7, <1>8, <1>9 DEF Pass2

LEMMA Pass3Base ==
    ASSUME BaseInv, Pass3
    PROVE  BaseInv'
<1>1. CASE NextConsent
  <2>1. manifest' = manifest /\ tenant' = tenant /\ created' = created /\ remap' = remap /\ item' = item
    BY <1>1 DEF NextConsent, world
  <2>2. at' \in {"ents", "consent"} /\ pos' \in {1, pos + 1}
    BY <1>1 DEF NextConsent
  <2>3. PlaceInv'
    BY <2>2 DEF PlaceInv, Checking
  <2> QED  BY <2>1, <2>2, <2>3, QuietFacts, LaterStep DEF Checking
<1>2. CASE Reread
  <2>1. /\ manifest' = manifest /\ tenant' = tenant /\ created' = created /\ remap' = remap /\ item' = item
        /\ pos <= Len(created) /\ at = "consent"
    BY <1>2 DEF Reread, world
  <2>2. /\ hit' = tenant[Entry.id].perms
        /\ \/ at' = "grant" /\ pos' = pos
           \/ at' = "consent" /\ pos' = pos + 1
    BY <1>2, <2>1 DEF Reread
  <2>3. hit' \in SUBSET Names
    BY <2>1, <2>2, EntryFacts DEF BaseInv, AppRecs
  <2>4. PlaceInv'
    BY <2>1, <2>2, <2>3 DEF PlaceInv, Checking
  <2> QED  BY <2>1, <2>2, <2>4, QuietFacts, LaterStep DEF Checking
<1>3. CASE Grant
  <2>1. /\ manifest' = manifest /\ created' = created /\ remap' = remap /\ item' = item
        /\ at' = "consent" /\ pos' = pos + 1
    BY <1>3 DEF Grant
  <2>2. TenantGrows
    BY <1>3, GrantEffect, AlteredGrows DEF BaseInv
  <2>3. PlaceInv'
    BY <2>1 DEF PlaceInv, Checking
  <2> QED  BY <2>1, <2>2, <2>3, QuietFacts, LaterStep DEF Checking
<1> QED  BY <1>1, <1>2, <1>3 DEF Pass3

LEMMA Pass4Base ==
    ASSUME BaseInv, Pass4
    PROVE  BaseInv'
<1>1. CASE NextEnt
  <2>1. /\ manifest' = manifest /\ tenant' = tenant /\ created' = created /\ remap' = remap /\ item' = item
        /\ at = "ents"
    BY <1>1 DEF NextEnt, world
  <2>2. \/ at' = "identities" /\ pos' = pos
        \/ at' = "ents" /\ pos' = pos + 1
        \/ at' = "settings" /\ pos' = pos /\ Ent \in DOMAIN remap
    BY <1>1 DEF NextEnt
  <2>3. pos' = pos => Ent' = Ent
    BY <2>1 DEF Ent
  <2>4. PlaceInv'
    BY <2>1, <2>2, <2>3 DEF PlaceInv, Checking
  <2> QED  BY <2>1, <2>2, <2>4, QuietFacts, LaterStep DEF Checking
<1>2. CASE AssignRole
  <2>1. /\ manifest' = manifest /\ created' = created /\ remap' = remap /\ item' = item
        /\ at' = "group" /\ pos' = pos /\ at = "role"
    BY <1>2 DEF AssignRole
  <2>2. TenantGrows
    BY <1>2, RoleEffect, AlteredGrows DEF BaseInv
  <2>3. PlaceInv'
    BY <2>1 DEF BaseInv, PlaceInv, Checking, Ent
  <2> QED  BY <2>1, <2>2, <2>3, QuietFacts, LaterStep DEF Checking
<1>3. CASE JoinGroup
  <2>1. /\ manifest' = manifest /\ created' = created /\ remap' = remap /\ item' = item
        /\ at' = "ents" /\ pos' = pos + 1
    BY <1>3 DEF JoinGroup
  <2>2. TenantGrows
    BY <1>3, GroupEffect, AlteredGrows DEF BaseInv
  <2>3. PlaceInv'
    BY <2>1 DEF PlaceInv, Checking
  <2> QED  BY <2>1, <2>2, <2>3, QuietFacts, LaterStep DEF Checking
<1>4. CASE ApplySettings
  <2>1. /\ manifest' = manifest /\ tenant' = tenant /\ created' = created /\ remap' = remap /\ item' = item
        /\ at' = "role" /\ pos' = pos /\ at = "settings"
    BY <1>4 DEF ApplySettings, world
  <2>2. PlaceInv'
    BY <2>1 DEF BaseInv, PlaceInv, Checking, Ent
  <2> QED  BY <2>1, <2>2, QuietFacts, LaterStep DEF Checking
<1> QED  BY <1>1, <1>2, <1>3, <1>4 DEF Pass4

LEMMA Pass5Base ==
    ASSUME BaseInv, Pass5 \/ Crash
    PROVE  BaseInv'
<1>1. /\ manifest' = manifest /\ tenant' = tenant /\ at' \in {"finish", "rebind", "done", "idle"}
      /\ pos' = pos /\ item' = item /\ created' = created /\ remap' = remap
  BY DEF Pass5, ListIdentities, Rebind, Finish, Crash, world, locals
<1>2. PlaceInv'
  BY <1>1 DEF PlaceInv, Checking
<1> QED  BY <1>1, <1>2, QuietFacts, LaterStep DEF Checking

\* What other people do, and Cancel.
Around ==
    \/ PressCancel
    \/ \E a \in DOMAIN tenant : Delete(a) \/ Tamper(a)
    \/ \E s \in Apps : Plant(s)

LEMMA AroundEffect ==
    ASSUME TypeInv, Around
    PROVE  /\ TenantGrows
           /\ manifest' = manifest /\ at' = at /\ locals' = locals /\ touched' = touched /\ dirty' = dirty
           /\ bound' = bound
<1>1. CASE PressCancel
  BY <1>1, SameGrows DEF PressCancel, history, world
<1>2. ASSUME NEW a \in DOMAIN tenant, Delete(a) \/ Tamper(a)
      PROVE  TenantGrows
  BY <1>2, DeleteEffect, TamperEffect, AlteredGrows
<1>3. ASSUME NEW s \in Apps, Plant(s)
      PROVE  TenantGrows
  BY <1>3, PlantedFacts, AppendGrows DEF Plant, Planted
<1>4. ASSUME NEW a \in DOMAIN tenant, NEW app, Change(a, app)
      PROVE  /\ manifest' = manifest /\ at' = at /\ locals' = locals /\ touched' = touched /\ dirty' = dirty
             /\ bound' = bound
  BY <1>4 DEF Change
<1>5. ASSUME NEW a \in DOMAIN tenant, Delete(a) \/ Tamper(a)
      PROVE  /\ manifest' = manifest /\ at' = at /\ locals' = locals /\ touched' = touched /\ dirty' = dirty
             /\ bound' = bound
  BY <1>4, <1>5 DEF Delete, Tamper
<1>6. ASSUME NEW s \in Apps, Plant(s)
      PROVE  /\ manifest' = manifest /\ at' = at /\ locals' = locals /\ touched' = touched /\ dirty' = dirty
             /\ bound' = bound
  BY <1>6 DEF Plant
<1> QED  BY <1>1, <1>2, <1>3, <1>5, <1>6 DEF Around

LEMMA StutterBase ==
    ASSUME BaseInv, UNCHANGED vars
    PROVE  BaseInv'
<1>1. manifest' = manifest /\ tenant' = tenant /\ at' = at /\ locals' = locals
  BY DEF vars, world
<1> QED  BY <1>1, QuietFacts, AroundStep

\* Every step of Next, once.
LEMMA NextCases ==
    ASSUME Next
    PROVE  \/ Begin \/ Classify \/ Pass1 \/ Pass2 \/ Pass3 \/ Pass4 \/ Pass5 \/ Crash \/ Around
BY DEF Next, Around

LEMMA NextBase ==
    ASSUME BaseInv, [Next]_vars
    PROVE  BaseInv'
<1>1. CASE Pass1
  BY <1>1, EndLoopBase, LookupBase, OwnersBase, FicsBase, PrincipalBase, CreateBase, EnsureBase, JudgeBase,
     EndRoundBase, TakeBase, Pass2Base DEF Pass1
<1>2. CASE Around
  BY <1>2, AroundEffect, AroundStep DEF BaseInv
<1> QED  BY <1>1, <1>2, NextCases, BeginBase, ClassifyBase, Pass2Base, Pass3Base, Pass4Base, Pass5Base, StutterBase

\* Whatever the run remembers of the tenant, its remap, its entries, the
\* candidate it reads and the app it writes to, carries the tag of the app of
\* the backup it stands for, through deletions, plants, crashes and re-runs.
THEOREM BaseInvariance ==
    Spec => []BaseInv
<1>1. Init => BaseInv
  BY InitBase
<1>2. BaseInv /\ [Next]_vars => BaseInv'
  BY NextBase
<1> QED  BY <1>1, <1>2, PTL DEF Spec

-----------------------------------------------------------------------------
(* The steps of wire_application.                                          *)

\* The steps before the secrets.
Before(c) ==
    LET fics == c.src \in manifest.fics \ withheld
        owners == c.src \in manifest.owners \ withheld
    IN  When(manifest.perms[c.src] # {}, <<"perms">>)
        \o When(manifest.pre[c.src] # {}, <<"expose">>)
        \o When(c.src \in manifest.auth, <<"auth">>)
        \o When(fics /\ c.adopted, <<"readfics">>) \o When(fics, <<"fic">>)
        \o When(owners /\ c.adopted, <<"readowners">>) \o When(owners, <<"owner">>)

\* What the steps before the secrets can be.
BeforeSteps(c) ==
    {"perms", "expose", "auth", "readfics", "readowners"}
      \cup {y \in {"fic"} : c.src \in manifest.fics \ withheld}
      \cup {y \in {"owner"} : c.src \in manifest.owners \ withheld}

LEMMA BeforeFacts ==
    ASSUME NEW c \in EntryRecs
    PROVE  Before(c) \in Seq(BeforeSteps(c)) /\ Steps(c) = Before(c) \o manifest.secrets[c.src]
<1> DEFINE fics == c.src \in manifest.fics \ withheld
           owners == c.src \in manifest.owners \ withheld
           w1 == When(manifest.perms[c.src] # {}, <<"perms">>)
           w2 == When(manifest.pre[c.src] # {}, <<"expose">>)
           w3 == When(c.src \in manifest.auth, <<"auth">>)
           w4 == When(fics /\ c.adopted, <<"readfics">>)
           w5 == When(fics, <<"fic">>)
           w6 == When(owners /\ c.adopted, <<"readowners">>)
           w7 == When(owners, <<"owner">>)
           B == BeforeSteps(c)
<1>1. w1 \in Seq(B)
  <2>1. CASE manifest.perms[c.src] # {}
    <3>1. w1 = <<"perms">> /\ "perms" \in B
      BY <2>1 DEF When, BeforeSteps
    <3> HIDE DEF w1, B
    <3> QED  BY <3>1
  <2>2. CASE ~ (manifest.perms[c.src] # {})
    <3>1. w1 = <<>>
      BY <2>2 DEF When
    <3> HIDE DEF w1, B
    <3> QED  BY <3>1
  <2> QED  BY <2>1, <2>2
<1>2. w2 \in Seq(B)
  <2>1. CASE manifest.pre[c.src] # {}
    <3>1. w2 = <<"expose">> /\ "expose" \in B
      BY <2>1 DEF When, BeforeSteps
    <3> HIDE DEF w2, B
    <3> QED  BY <3>1
  <2>2. CASE ~ (manifest.pre[c.src] # {})
    <3>1. w2 = <<>>
      BY <2>2 DEF When
    <3> HIDE DEF w2, B
    <3> QED  BY <3>1
  <2> QED  BY <2>1, <2>2
<1>3. w3 \in Seq(B)
  <2>1. CASE c.src \in manifest.auth
    <3>1. w3 = <<"auth">> /\ "auth" \in B
      BY <2>1 DEF When, BeforeSteps
    <3> HIDE DEF w3, B
    <3> QED  BY <3>1
  <2>2. CASE ~ (c.src \in manifest.auth)
    <3>1. w3 = <<>>
      BY <2>2 DEF When
    <3> HIDE DEF w3, B
    <3> QED  BY <3>1
  <2> QED  BY <2>1, <2>2
<1>4. w4 \in Seq(B)
  <2>1. CASE fics /\ c.adopted
    <3>1. w4 = <<"readfics">> /\ "readfics" \in B
      BY <2>1 DEF When, BeforeSteps
    <3> HIDE DEF w4, B
    <3> QED  BY <3>1
  <2>2. CASE ~ (fics /\ c.adopted)
    <3>1. w4 = <<>>
      BY <2>2 DEF When
    <3> HIDE DEF w4, B
    <3> QED  BY <3>1
  <2> QED  BY <2>1, <2>2
<1>5. w5 \in Seq(B)
  <2>1. CASE fics
    <3>1. w5 = <<"fic">> /\ "fic" \in B
      BY <2>1 DEF When, BeforeSteps
    <3> HIDE DEF w5, B
    <3> QED  BY <3>1
  <2>2. CASE ~ (fics)
    <3>1. w5 = <<>>
      BY <2>2 DEF When
    <3> HIDE DEF w5, B
    <3> QED  BY <3>1
  <2> QED  BY <2>1, <2>2
<1>6. w6 \in Seq(B)
  <2>1. CASE owners /\ c.adopted
    <3>1. w6 = <<"readowners">> /\ "readowners" \in B
      BY <2>1 DEF When, BeforeSteps
    <3> HIDE DEF w6, B
    <3> QED  BY <3>1
  <2>2. CASE ~ (owners /\ c.adopted)
    <3>1. w6 = <<>>
      BY <2>2 DEF When
    <3> HIDE DEF w6, B
    <3> QED  BY <3>1
  <2> QED  BY <2>1, <2>2
<1>7. w7 \in Seq(B)
  <2>1. CASE owners
    <3>1. w7 = <<"owner">> /\ "owner" \in B
      BY <2>1 DEF When, BeforeSteps
    <3> HIDE DEF w7, B
    <3> QED  BY <3>1
  <2>2. CASE ~ (owners)
    <3>1. w7 = <<>>
      BY <2>2 DEF When
    <3> HIDE DEF w7, B
    <3> QED  BY <3>1
  <2> QED  BY <2>1, <2>2
<1>8. /\ Before(c) = w1 \o w2 \o w3 \o w4 \o w5 \o w6 \o w7
      /\ Steps(c) = w1 \o w2 \o w3 \o w4 \o w5 \o w6 \o w7 \o manifest.secrets[c.src]
  BY DEF Before, Steps
<1> HIDE DEF w1, w2, w3, w4, w5, w6, w7, B
<1>9. w1 \o w2 \in Seq(B)
  BY <1>1, <1>2
<1>10. w1 \o w2 \o w3 \in Seq(B)
  BY <1>3, <1>9
<1>11. w1 \o w2 \o w3 \o w4 \in Seq(B)
  BY <1>4, <1>10
<1>12. w1 \o w2 \o w3 \o w4 \o w5 \in Seq(B)
  BY <1>5, <1>11
<1>13. w1 \o w2 \o w3 \o w4 \o w5 \o w6 \in Seq(B)
  BY <1>6, <1>12
<1>14. w1 \o w2 \o w3 \o w4 \o w5 \o w6 \o w7 \in Seq(B)
  BY <1>7, <1>13
<1> QED  BY <1>8, <1>14 DEF B

\* A step is one before the secrets or a secret, and the two are not confused.
LEMMA StepFacts ==
    ASSUME BaseInv, pos <= Len(created), item > 0, item <= Len(Steps(Entry))
    PROVE  /\ Before(Entry) \in Seq(BeforeSteps(Entry)) /\ Len(Before(Entry)) \in Nat
           /\ manifest.secrets[Entry.src] \in Seq(Keys)
           /\ Len(Steps(Entry)) = Len(Before(Entry)) + Len(manifest.secrets[Entry.src])
           /\ item <= Len(Before(Entry)) => Step \in BeforeSteps(Entry)
           /\ item > Len(Before(Entry)) =>
                /\ item - Len(Before(Entry)) \in DOMAIN manifest.secrets[Entry.src]
                /\ Step = manifest.secrets[Entry.src][item - Len(Before(Entry))]
                /\ Step \in Keys
<1> DEFINE b == Before(Entry)
           t == manifest.secrets[Entry.src]
           B == BeforeSteps(Entry)
<1>1. Entry \in EntryRecs /\ Entry.src \in Apps /\ item \in Nat
  BY EntryFacts DEF BaseInv, TypeInv
<1>2. t \in Seq(Keys)
  BY <1>1, ManifestFacts DEF BaseInv, TypeInv
<1>3. b \in Seq(B) /\ Steps(Entry) = b \o t
  BY <1>1, BeforeFacts
<1> HIDE DEF b, t, B
<1>4. Len(b \o t) = Len(b) + Len(t) /\ Len(b) \in Nat /\ Len(t) \in Nat
  BY <1>2, <1>3
<1>5. CASE item <= Len(b)
  <2>1. Step = b[item] /\ b[item] \in B
    BY <1>1, <1>2, <1>3, <1>4, <1>5 DEF Step
  <2> QED  BY <1>1, <1>2, <1>3, <1>4, <1>5, <2>1 DEF b, t, B
<1>6. CASE item > Len(b)
  <2>1. Step = t[item - Len(b)] /\ item - Len(b) \in DOMAIN t /\ t[item - Len(b)] \in Keys
    BY <1>1, <1>2, <1>3, <1>4, <1>6 DEF Step
  <2> QED  BY <1>1, <1>2, <1>3, <1>4, <1>6, <2>1 DEF b, t, B
<1> QED  BY <1>1, <1>4, <1>5, <1>6

\* A withheld app has no federated-credential and no owner step.
LEMMA WithheldSteps ==
    ASSUME BaseInv, Wiring({"fic"}) \/ Wiring({"owner"})
    PROVE  Entry.src \notin withheld
<1>1. pos <= Len(created) /\ item > 0 /\ item <= Len(Steps(Entry)) /\ Step \in {"fic", "owner"}
  BY DEF Wiring, BaseInv, PlaceInv
<1>2. item \in Nat /\ Len(Before(Entry)) \in Nat /\ Step \notin Keys
  BY <1>1, StepFacts DEF BaseInv, TypeInv, Keys
<1>3. Step \in BeforeSteps(Entry)
  BY <1>1, <1>2, StepFacts
<1> QED  BY <1>1, <1>3 DEF BeforeSteps

-----------------------------------------------------------------------------
(* NothingUnapproved.                                                      *)

\* A step that grants nothing.
Harmless ==
    \A a \in DOMAIN tenant' :
        \/ /\ a \in DOMAIN tenant /\ tenant'[a].src = tenant[a].src
           /\ tenant'[a].consent = tenant[a].consent /\ tenant'[a].fic = tenant[a].fic
           /\ tenant'[a].owner = tenant[a].owner /\ tenant'[a].group = tenant[a].group
        \/ /\ tenant'[a].consent = {} /\ ~ tenant'[a].fic
           /\ ~ tenant'[a].owner /\ ~ tenant'[a].group

LEMMA AlteredHarmless ==
    ASSUME TypeInv, NEW a, NEW F, OneAltered(a, F), F \cap {"consent", "fic", "owner", "group"} = {}
    PROVE  Harmless
<1>1. "consent" \notin F /\ "fic" \notin F /\ "owner" \notin F /\ "group" \notin F
  OBVIOUS
<1>2. DOMAIN tenant' = DOMAIN tenant /\ \A b \in DOMAIN tenant : Alters(tenant[b], tenant'[b], F)
  BY AlteredGrows
<1> QED  BY <1>1, <1>2 DEF Alters, Harmless

LEMMA SameHarmless ==
    ASSUME tenant' = tenant
    PROVE  Harmless
BY DEF Harmless

LEMMA AppendHarmless ==
    ASSUME TypeInv, NEW s \in Apps,
           tenant' = Append(tenant, NewApp(s)) \/ tenant' = Append(tenant, Planted(s))
    PROVE  Harmless
<1>1. CASE tenant' = Append(tenant, NewApp(s))
  <2>1. /\ \A a \in DOMAIN tenant : tenant'[a] = tenant[a]
        /\ DOMAIN tenant' = DOMAIN tenant \cup {Len(tenant) + 1} /\ tenant'[Len(tenant) + 1] = NewApp(s)
    BY <1>1, NewAppFacts, AppendGrows
  <2> QED  BY <2>1, NewAppFacts DEF Harmless
<1>2. CASE tenant' = Append(tenant, Planted(s))
  <2>1. /\ \A a \in DOMAIN tenant : tenant'[a] = tenant[a]
        /\ DOMAIN tenant' = DOMAIN tenant \cup {Len(tenant) + 1} /\ tenant'[Len(tenant) + 1] = Planted(s)
    BY <1>2, PlantedFacts, AppendGrows
  <2> QED  BY <2>1, PlantedFacts DEF Harmless
<1> QED  BY <1>1, <1>2

LEMMA HarmlessStep ==
    ASSUME NothingUnapproved, manifest' = manifest, bound' = bound, Harmless
    PROVE  NothingUnapproved'
<1>1. \A s, u : RequiresApproval(s, u)' = RequiresApproval(s, u)
  BY DEF RequiresApproval
<1> QED  BY <1>1 DEF NothingUnapproved, Harmless, RequiresApproval

\* The gate: after the approvals are classified.
GateInv ==
    at \notin {"idle", "classify", "done"} =>
        \A s \in Apps \ manifest.approved : RequiresApproval(s, FALSE) => s \in withheld

LEMMA GateStep ==
    ASSUME GateInv, at \notin {"idle", "classify", "done"} \/ at' \in {"idle", "classify", "done"} \/ at' = at,
           manifest' = manifest, withheld' = withheld
    PROVE  GateInv'
<1>1. \A s, u : RequiresApproval(s, u)' = RequiresApproval(s, u)
  BY DEF RequiresApproval
<1> QED  BY <1>1 DEF GateInv, Apps, RequiresApproval

LEMMA ClassifyGate ==
    ASSUME Classify
    PROVE  GateInv'
<1>1. PICK u \in BOOLEAN : withheld' = {s \in Apps \ manifest.approved : RequiresApproval(s, u)}
  BY DEF Classify
<1>2. manifest' = manifest
  BY DEF Classify
<1>3. ASSUME NEW s \in Apps' \ manifest'.approved, RequiresApproval(s, FALSE)'
      PROVE  s \in withheld'
  <2>1. s \in Apps \ manifest.approved
    BY <1>2 DEF Apps
  <2>2. RequiresApproval(s, u)
    BY <1>2, <1>3 DEF RequiresApproval
  <2> QED  BY <1>1, <2>1, <2>2
<1> QED  BY <1>3 DEF GateInv

\* The consent a step is about to give, and what has been given.
ConsentInv == at = "grant" => Entry.src \notin withheld /\ Stranger \notin hit

\* An app of which no approval is missing may be given what it is given.
LEMMA ApprovedStep ==
    ASSUME TypeInv, NothingUnapproved, manifest' = manifest, bound' = bound,
           NEW a \in DOMAIN tenant, NEW F, OneAltered(a, F),
           ~ RequiresApproval(tenant[a].src, FALSE) \/ tenant[a].src \in manifest.approved,
           Stranger \notin tenant'[a].consent
    PROVE  NothingUnapproved'
<1>1. /\ DOMAIN tenant' = DOMAIN tenant /\ \A b \in DOMAIN tenant : b # a => tenant'[b] = tenant[b]
      /\ tenant'[a].src = tenant[a].src
  BY AlteredGrows DEF TenantGrows
<1>2. \A s, u : RequiresApproval(s, u)' = RequiresApproval(s, u)
  BY DEF RequiresApproval
<1> QED  BY <1>1, <1>2 DEF NothingUnapproved, RequiresApproval

LEMMA FicApproved ==
    ASSUME BaseInv, ApprovalInv, FicStep \/ OwnerStep
    PROVE  NothingUnapproved'
<1>1. /\ pos <= Len(created) /\ manifest' = manifest /\ bound' = bound /\ at = "wire"
      /\ Entry.src \notin withheld
  BY WithheldSteps DEF FicStep, OwnerStep, Wiring, BaseInv, PlaceInv
<1>2. Entry.id \in DOMAIN tenant /\ tenant[Entry.id].src = Entry.src /\ Entry.src \in Apps /\ TypeInv
  BY <1>1, EntryFacts DEF BaseInv
<1>3. ~ RequiresApproval(Entry.src, FALSE) \/ Entry.src \in manifest.approved
  BY <1>1, <1>2 DEF ApprovalInv
<1>4. PICK F \in {{"fic"}, {"owner"}} : OneAltered(Entry.id, F)
  BY FicEffect, OwnerEffect
<1>5. tenant'[Entry.id].consent = tenant[Entry.id].consent
  <2>1. Alters(tenant[Entry.id], tenant'[Entry.id], F)
    BY <1>2, <1>4, AlteredGrows
  <2> QED  BY <2>1 DEF Alters
<1>6. Stranger \notin tenant'[Entry.id].consent
  BY <1>2, <1>5 DEF ApprovalInv, NothingUnapproved
<1> QED  BY <1>1, <1>2, <1>3, <1>4, <1>6, ApprovedStep DEF ApprovalInv

LEMMA GrantApproved ==
    ASSUME BaseInv, ApprovalInv, Grant
    PROVE  NothingUnapproved'
<1>1. /\ pos <= Len(created) /\ manifest' = manifest /\ bound' = bound /\ at = "grant"
      /\ Entry.src \notin withheld /\ Stranger \notin hit
  BY DEF Grant, BaseInv, PlaceInv, ApprovalInv
<1>2. Entry.id \in DOMAIN tenant /\ tenant[Entry.id].src = Entry.src /\ Entry.src \in Apps /\ TypeInv
  BY <1>1, EntryFacts DEF BaseInv
<1>3. ~ RequiresApproval(Entry.src, FALSE) \/ Entry.src \in manifest.approved
  BY <1>1, <1>2 DEF ApprovalInv
<1>4. OneAltered(Entry.id, {"sp", "consent"}) /\ tenant'[Entry.id].consent \subseteq tenant[Entry.id].consent \cup hit
  BY GrantEffect
<1>5. Stranger \notin tenant'[Entry.id].consent
  BY <1>1, <1>2, <1>4 DEF ApprovalInv, NothingUnapproved
<1> QED  BY <1>1, <1>2, <1>3, <1>4, <1>5, ApprovedStep DEF ApprovalInv

LEMMA GroupApproved ==
    ASSUME BaseInv, ApprovalInv, JoinGroup
    PROVE  NothingUnapproved'
<1>1. manifest' = manifest /\ bound' = bound /\ Ent \in DOMAIN remap /\ TypeInv
  BY DEF JoinGroup, BaseInv, PlaceInv
<1>2. EntApp \in DOMAIN tenant /\ tenant[EntApp].src = Ent
  BY <1>1, EntFacts DEF BaseInv
<1>3. OneAltered(EntApp, {"group"}) /\ (tenant' # tenant => Ent \in manifest.approved)
  BY GroupEffect
<1>4. CASE tenant' = tenant
  BY <1>1, <1>4, SameHarmless, HarmlessStep DEF ApprovalInv
<1>5. CASE Ent \in manifest.approved
  <2>1. Alters(tenant[EntApp], tenant'[EntApp], {"group"})
    BY <1>1, <1>2, <1>3, AlteredGrows
  <2>2. tenant'[EntApp].consent = tenant[EntApp].consent
    BY <2>1 DEF Alters
  <2>3. Stranger \notin tenant'[EntApp].consent
    BY <1>2, <2>2 DEF ApprovalInv, NothingUnapproved
  <2> QED  BY <1>1, <1>2, <1>3, <1>5, <2>3, ApprovedStep DEF ApprovalInv
<1> QED  BY <1>3, <1>4, <1>5

LEMMA RebindApproved ==
    ASSUME BaseInv, ApprovalInv, Rebind
    PROVE  NothingUnapproved'
<1>1. manifest' = manifest /\ tenant' = tenant
  BY DEF Rebind
<1>2. bound' = bound \/ (manifest.identities = 1 /\ manifest.identityApproved)
  BY DEF Rebind
<1>3. \A s, u : RequiresApproval(s, u)' = RequiresApproval(s, u)
  BY <1>1 DEF RequiresApproval
<1> QED  BY <1>1, <1>2, <1>3 DEF ApprovalInv, NothingUnapproved, RequiresApproval

\* The other steps grant nothing.
LEMMA OthersHarmless ==
    ASSUME BaseInv,
           \/ Begin \/ Classify \/ Pass1 \/ NextWire \/ SkipStep \/ PatchStep \/ ReadStep \/ SecretStep \/ EndWire
           \/ NextConsent \/ Reread \/ NextEnt \/ ApplySettings \/ AssignRole \/ ListIdentities \/ Finish \/ Crash \/ Around
           \/ UNCHANGED vars
    PROVE  Harmless /\ manifest' = manifest /\ bound' = bound
<1>0. TypeInv /\ RemapInv /\ EntriesInv
  BY DEF BaseInv
<1>1. CASE \/ Begin \/ Classify \/ EndLoop \/ Lookup \/ CheckOwners \/ CheckFics \/ CheckPrincipal \/ JudgePending
           \/ EndRound \/ EndTake
  BY <1>1, SameHarmless DEF Begin, Classify, EndLoop, Lookup, CheckOwners, CheckFics, CheckPrincipal, JudgePending,
     EndRound, EndTake, world
<1>2. CASE \/ NextWire \/ SkipStep \/ ReadStep \/ EndWire \/ NextConsent \/ Reread \/ NextEnt \/ ApplySettings
           \/ ListIdentities \/ Finish \/ Crash \/ UNCHANGED vars
  BY <1>2, SameHarmless DEF NextWire, SkipStep, ReadStep, EndWire, NextConsent, Reread, NextEnt, ApplySettings,
     ListIdentities, Finish, Crash, vars, world
<1>3. CASE Create
  <2>1. manifest' = manifest /\ bound' = bound
    BY <1>3 DEF Create
  <2>2. tenant' = tenant \/ (Source \in Apps /\ tenant' = Append(tenant, NewApp(Source)))
    BY <1>3, CreateEffect
  <2> QED  BY <1>0, <2>1, <2>2, SameHarmless, AppendHarmless
<1>4. CASE Ensure
  <2>1. manifest' = manifest /\ bound' = bound /\ EnsurePrincipal(Len(created)) /\ Len(created) \in DOMAIN created
    BY <1>4 DEF Ensure, BaseInv, TypeInv, PlaceInv
  <2>2. OneAltered(created[Len(created)].id, {"sp"})
    BY <1>0, <2>1, EnsureEffect
  <2> QED  BY <1>0, <2>1, <2>2, AlteredHarmless
<1>5. CASE TakePending
  <2>1. manifest' = manifest /\ bound' = bound
    BY <1>5 DEF TakePending
  <2> QED  BY <1>0, <1>5, <2>1, TakeEffect, AlteredHarmless
<1>6. CASE PatchStep
  <2>1. manifest' = manifest /\ bound' = bound
    BY <1>6 DEF PatchStep
  <2> QED  BY <1>0, <1>6, <2>1, PatchEffect, AlteredHarmless
<1>7. CASE SecretStep
  <2>1. manifest' = manifest /\ bound' = bound
    BY <1>7 DEF SecretStep
  <2> QED  BY <1>0, <1>7, <2>1, SecretEffect, AlteredHarmless
<1>8. CASE AssignRole
  <2>1. manifest' = manifest /\ bound' = bound
    BY <1>8 DEF AssignRole
  <2> QED  BY <1>0, <1>8, <2>1, RoleEffect, AlteredHarmless
<1>9. CASE Around
  <2>1. manifest' = manifest /\ bound' = bound
    BY <1>0, <1>9, AroundEffect
  <2>2. CASE PressCancel
    BY <2>1, <2>2, SameHarmless DEF PressCancel, world
  <2>3. CASE \E a \in DOMAIN tenant : Delete(a)
    BY <1>0, <2>1, <2>3, DeleteEffect, AlteredHarmless
  <2>4. CASE \E a \in DOMAIN tenant : Tamper(a)
    BY <1>0, <2>1, <2>4, TamperEffect, AlteredHarmless
  <2>5. CASE \E s \in Apps : Plant(s)
    BY <1>0, <2>1, <2>5, AppendHarmless DEF Plant, Planted
  <2> QED  BY <1>9, <2>2, <2>3, <2>4, <2>5 DEF Around
<1> QED  BY <1>1, <1>2, <1>3, <1>4, <1>5, <1>6, <1>7, <1>8, <1>9 DEF Pass1

LEMMA NothingKept ==
    ASSUME BaseInv, ApprovalInv, [Next]_vars
    PROVE  NothingUnapproved'
<1>1. CASE FicStep \/ OwnerStep \/ Grant \/ JoinGroup \/ Rebind
  BY <1>1, FicApproved, GrantApproved, GroupApproved, RebindApproved
<1>2. CASE \/ Begin \/ Classify \/ Pass1 \/ NextWire \/ SkipStep \/ PatchStep \/ ReadStep \/ SecretStep \/ EndWire
           \/ NextConsent \/ Reread \/ NextEnt \/ ApplySettings \/ AssignRole \/ ListIdentities \/ Finish \/ Crash \/ Around
           \/ UNCHANGED vars
  BY <1>2, OthersHarmless, HarmlessStep DEF ApprovalInv
<1> QED  BY <1>1, <1>2, NextCases DEF Pass2, Pass3, Pass4, Pass5

\* Every step but Begin and Classify leaves what is withheld alone.
LEMMA WithheldStays ==
    ASSUME [Next]_vars, ~ Begin, ~ Classify
    PROVE  /\ manifest' = manifest /\ withheld' = withheld
           /\ at \notin {"idle", "classify", "done"} \/ at' \in {"idle", "classify", "done"} \/ at' = at
<1>1. CASE Pass1
  BY <1>1 DEF Pass1, EndLoop, Lookup, CheckOwners, CheckFics, CheckPrincipal, Create, Ensure, JudgePending, EndRound,
     TakePending, EndTake
<1>2. CASE Pass2
  BY <1>2 DEF Pass2, NextWire, SkipStep, PatchStep, ReadStep, FicStep, OwnerStep, SecretStep, EndWire, Wiring
<1>3. CASE Pass3 \/ Pass4
  BY <1>3 DEF Pass3, NextConsent, Reread, Grant, Pass4, NextEnt, ApplySettings, AssignRole, JoinGroup
<1>4. CASE Pass5 \/ Crash
  BY <1>4 DEF Pass5, ListIdentities, Rebind, Finish, Crash, locals
<1>5. CASE PressCancel \/ (\E s \in Apps : Plant(s)) \/ UNCHANGED vars
  BY <1>5 DEF PressCancel, Plant, vars, locals
<1>6. CASE \E a \in DOMAIN tenant : Delete(a) \/ Tamper(a)
  BY <1>6 DEF Delete, Tamper, Change, locals
<1> QED  BY <1>1, <1>2, <1>3, <1>4, <1>5, <1>6 DEF Next

LEMMA GateKept ==
    ASSUME GateInv, [Next]_vars
    PROVE  GateInv'
<1>1. CASE Begin
  BY <1>1 DEF Begin, GateInv
<1>2. CASE Classify
  BY <1>2, ClassifyGate
<1>3. CASE ~ Begin /\ ~ Classify
  BY <1>3, WithheldStays, GateStep
<1> QED  BY <1>1, <1>2, <1>3

\* Only Reread goes to a grant.
LEMMA ConsentKept ==
    ASSUME BaseInv, ConsentInv, [Next]_vars
    PROVE  ConsentInv'
<1>1. CASE Begin \/ Classify \/ Pass1
  BY <1>1 DEF ConsentInv, Begin, Classify, Pass1, EndLoop, Lookup, CheckOwners, CheckFics, CheckPrincipal, Create,
     Ensure, JudgePending, EndRound, TakePending, EndTake, Refuse, NextApp, Keep
<1>2. CASE Pass2
  BY <1>2 DEF ConsentInv, Pass2, NextWire, SkipStep, PatchStep, ReadStep, FicStep, OwnerStep, SecretStep, EndWire, Wiring
<1>3. CASE NextConsent \/ Grant \/ Pass4 \/ Pass5 \/ Crash
  BY <1>3 DEF ConsentInv, NextConsent, Grant, Pass4, NextEnt, ApplySettings, AssignRole, JoinGroup, Pass5, ListIdentities, Rebind,
     Finish, Crash
<1>4. CASE Reread
  <2>1. /\ pos <= Len(created) /\ Entry.src \notin withheld /\ withheld' = withheld /\ created' = created
    BY <1>4 DEF Reread
  <2>2. at' = "grant" => pos' = pos /\ hit' = remap_required_resource_access(Entry.src)
    BY <1>4 DEF Reread
  <2>3. Stranger \notin remap_required_resource_access(Entry.src)
    BY <2>1, EntryFacts, PlansAreNames DEF BaseInv
  <2> QED  BY <2>1, <2>2, <2>3 DEF ConsentInv, Entry
<1>5. CASE Around
  <2>1. at' = at /\ locals' = locals
    BY <1>5, AroundEffect DEF BaseInv
  <2> QED  BY <2>1 DEF ConsentInv, Entry, locals
<1>6. CASE UNCHANGED vars
  BY <1>6 DEF ConsentInv, Entry, vars, locals
<1> QED  BY <1>1, <1>2, <1>3, <1>4, <1>5, <1>6, NextCases DEF Pass3

LEMMA ApprovalParts ==
    ApprovalInv <=> GateInv /\ ConsentInv /\ NothingUnapproved
BY DEF ApprovalInv, GateInv, ConsentInv

\* The approval gate and reconsent: nothing the plan did not show and the
\* operator did not approve becomes standing access, whatever fails, whoever
\* edits the tenant while the run reads and grants, and however often the
\* backup is run.
THEOREM NothingGoesUnapproved ==
    Spec => []NothingUnapproved
<1>1. Init => ApprovalInv
  BY DEF Init, ApprovalInv, NothingUnapproved
<1>2. BaseInv /\ ApprovalInv /\ [Next]_vars => ApprovalInv'
  <2> SUFFICES ASSUME BaseInv, ApprovalInv, [Next]_vars PROVE ApprovalInv'
    OBVIOUS
  <2>1. NothingUnapproved'
    BY NothingKept
  <2>2. GateInv'
    BY ApprovalParts, GateKept
  <2>3. ConsentInv'
    BY ApprovalParts, ConsentKept
  <2> QED  BY <2>1, <2>2, <2>3 DEF ApprovalInv, GateInv, ConsentInv
<1>3. ApprovalInv => NothingUnapproved
  BY DEF ApprovalInv
<1> QED  BY <1>1, <1>2, <1>3, BaseInvariance, PTL DEF Spec

-----------------------------------------------------------------------------
(* RerunRepeatsNothing.                                                    *)

\* One live app of the restore's own making for each source, and Create is
\* reached only where there is none.
MadeInv ==
    /\ \A a, b \in DOMAIN tenant :
         /\ tenant[a].made /\ tenant[a].there /\ tenant[b].made /\ tenant[b].there
         /\ tenant[a].src = tenant[b].src
         => a = b
    /\ at = "create" =>
         \A a \in DOMAIN tenant : ~ (tenant[a].made /\ tenant[a].there /\ tenant[a].src = Source)

\* The backup's secrets of name k before its n-th.
Counted(s, n, k) == {j \in DOMAIN manifest.secrets[s] : j < n /\ manifest.secrets[s][j] = k}

\* The secret of the entry that is next, or that the steps will come to.
AtSecret == item - Len(Before(Entry))

\* The entries whose wiring has not begun.
Unwired(i) ==
    \/ at \in {"lookup", "create", "ensure", "settle", "take"} \cup Checking
    \/ at = "wire" /\ (i > pos \/ (i = pos /\ item = 0))

\* An app holds no more secrets of a name than the backup lists.
IssuedInv == \A a \in DOMAIN tenant, k \in Keys : tenant[a].secrets[k] <= Issuable(tenant[a].src, k)

\* Nobody issues secrets of these names but the wiring: a candidate has those
\* its lookup saw, an entry no more than it knows of, and the entry being wired
\* no more than it still knows of and the wiring has passed.
CandidateInv == at \in Checking => tenant[hit.id].secrets = hit.secrets

UnwiredInv ==
    \A i \in DOMAIN created, k \in Keys :
        Unwired(i) => tenant[created[i].id].secrets[k] <= created[i].left[k]

WiredInv ==
    at = "wire" /\ item > 0 =>
        \A k \in Keys :
            tenant[Entry.id].secrets[k] <= Cardinality(Counted(Entry.src, AtSecret, k)) + Entry.left[k]

SecretsInv == IssuedInv /\ CandidateInv /\ UnwiredInv /\ WiredInv

\* All the fields of an app but its secrets.
Fields ==
    {"there", "sp", "perms", "pre", "auth", "fic", "owner", "consent", "role", "group", "marks"}

LEMMA Widen ==
    ASSUME NEW a, NEW F, NEW G, F \subseteq G, OneAltered(a, F)
    PROVE  OneAltered(a, G)
BY DEF OneAltered, Alters

\* The five things a step can do to the tenant.
LEMMA TenantStep ==
    ASSUME BaseInv, [Next]_vars
    PROVE  \/ tenant' = tenant
           \/ \E a : OneAltered(a, Fields)
           \/ Create /\ Source \in Apps /\ tenant' = Append(tenant, NewApp(Source))
           \/ \E s \in Apps : Plant(s) /\ tenant' = Append(tenant, Planted(s))
           \/ SecretStep
<1>0. TypeInv /\ EntriesInv
  BY DEF BaseInv
<1>1. CASE \/ Begin \/ Classify \/ EndLoop \/ Lookup \/ CheckOwners \/ CheckFics \/ CheckPrincipal \/ JudgePending
           \/ EndRound \/ EndTake
  BY <1>1 DEF Begin, Classify, EndLoop, Lookup, CheckOwners, CheckFics, CheckPrincipal, JudgePending,
     EndRound, EndTake, world
<1>2. CASE \/ NextWire \/ SkipStep \/ ReadStep \/ EndWire \/ NextConsent \/ Reread \/ NextEnt \/ ApplySettings
           \/ ListIdentities \/ Rebind \/ Finish \/ Crash \/ PressCancel \/ UNCHANGED vars
  BY <1>2 DEF NextWire, SkipStep, ReadStep, EndWire, NextConsent, Reread, NextEnt, ApplySettings,
     ListIdentities, Rebind, Finish, Crash, PressCancel, vars, world
<1>3. CASE Create
  BY <1>3, CreateEffect
<1>4. CASE Ensure
  <2>1. EnsurePrincipal(Len(created)) /\ Len(created) \in DOMAIN created
    BY <1>4 DEF Ensure, BaseInv, TypeInv, PlaceInv
  <2>2. OneAltered(created[Len(created)].id, {"sp"})
    BY <1>0, <2>1, EnsureEffect
  <2> QED  BY <2>2, Widen DEF Fields
<1>5. CASE TakePending
  BY <1>5, TakeEffect, Widen DEF Fields
<1>6. CASE PatchStep
  BY <1>6, PatchEffect, Widen DEF Fields
<1>7. CASE FicStep \/ OwnerStep
  BY <1>7, FicEffect, OwnerEffect, Widen DEF Fields
<1>8. CASE Grant
  BY <1>8, GrantEffect, Widen DEF Fields
<1>9. CASE AssignRole \/ JoinGroup
  BY <1>9, RoleEffect, GroupEffect, Widen DEF Fields
<1>10. CASE \E a \in DOMAIN tenant : Delete(a)
  <2>1. PICK a \in DOMAIN tenant : Delete(a)
    BY <1>10
  <2>2. OneAltered(a, {"there", "sp"})
    BY <1>0, <2>1, DeleteEffect
  <2> QED  BY <2>2, Widen DEF Fields
<1>11. CASE \E a \in DOMAIN tenant : Tamper(a)
  <2>1. PICK a \in DOMAIN tenant : Tamper(a)
    BY <1>11
  <2>2. OneAltered(a, {"marks", "pre", "perms"})
    BY <1>0, <2>1, TamperEffect
  <2> QED  BY <2>2, Widen DEF Fields
<1>12. CASE \E s \in Apps : Plant(s)
  BY <1>12 DEF Plant, Planted
<1> QED  BY <1>1, <1>2, <1>3, <1>4, <1>5, <1>6, <1>7, <1>8, <1>9, <1>10, <1>11, <1>12
         DEF Next, Pass1, Pass2, Pass3, Pass4, Pass5

\* No step but Create makes an app, or brings one back.
LEMMA NoneMade ==
    ASSUME BaseInv, [Next]_vars, ~ Create, NEW a \in DOMAIN tenant', tenant'[a].made, tenant'[a].there
    PROVE  a \in DOMAIN tenant /\ tenant[a].made /\ tenant[a].there /\ tenant'[a].src = tenant[a].src
<1>0. TypeInv
  BY DEF BaseInv
<1>1. ASSUME NEW b, NEW F, OneAltered(b, F)
      PROVE  a \in DOMAIN tenant /\ tenant[a].made /\ tenant[a].there /\ tenant'[a].src = tenant[a].src
  <2>1. a \in DOMAIN tenant /\ Alters(tenant[a], tenant'[a], F)
    BY <1>0, <1>1, AlteredGrows
  <2> QED  BY <2>1 DEF Alters
<1>2. ASSUME NEW s \in Apps, tenant' = Append(tenant, Planted(s))
      PROVE  a \in DOMAIN tenant /\ tenant[a].made /\ tenant[a].there /\ tenant'[a].src = tenant[a].src
  <2>1. /\ \A b \in DOMAIN tenant : tenant'[b] = tenant[b]
        /\ DOMAIN tenant' = DOMAIN tenant \cup {Len(tenant) + 1} /\ tenant'[Len(tenant) + 1] = Planted(s)
    BY <1>0, <1>2, PlantedFacts, AppendGrows
  <2> QED  BY <2>1, PlantedFacts
<1>3. CASE SecretStep
  BY <1>1, <1>3, SecretEffect
<1> QED  BY <1>1, <1>2, <1>3, TenantStep

\* Where Create comes from.
LEMMA ToCreate ==
    ASSUME BaseInv, [Next]_vars, at' = "create"
    PROVE  /\ manifest' = manifest /\ pos' = pos /\ ~ Create
           /\ \/ at = "create"
              \/ Lookup /\ Tagged(Source) = {} /\ tenant' = tenant
<1>1. CASE Begin \/ Classify \/ EndLoop \/ JudgePending \/ EndRound \/ TakePending \/ EndTake
  BY <1>1 DEF Begin, Classify, EndLoop, JudgePending, EndRound, TakePending, EndTake
<1>2. CASE CheckOwners \/ CheckFics \/ CheckPrincipal \/ Create \/ Ensure
  BY <1>2 DEF CheckOwners, CheckFics, CheckPrincipal, Create, Ensure, Refuse, NextApp, Keep
<1>3. CASE Lookup
  <2>1. at = "lookup" /\ manifest' = manifest /\ tenant' = tenant
    BY <1>3 DEF Lookup, world
  <2>2. Tagged(Source) = {} /\ pos' = pos
    BY <1>3 DEF Lookup, Refuse, NextApp
  <2> QED  BY <1>3, <2>1, <2>2 DEF Create
<1>4. CASE Pass2
  BY <1>4 DEF Pass2, NextWire, SkipStep, PatchStep, ReadStep, FicStep, OwnerStep, SecretStep, EndWire, Wiring
<1>5. CASE Pass3 \/ Pass4 \/ Pass5 \/ Crash
  BY <1>5 DEF Pass3, NextConsent, Reread, Grant, Pass4, NextEnt, ApplySettings, AssignRole, JoinGroup, Pass5, ListIdentities, Rebind,
     Finish, Crash
<1>6. CASE Around \/ UNCHANGED vars
  <2>1. manifest' = manifest /\ at' = at /\ locals' = locals
    BY <1>6, AroundEffect DEF BaseInv, vars
  <2>2. ~ Create
    BY <2>1 DEF Create, NextApp, Keep
  <2>3. pos' = pos
    BY <2>1 DEF locals
  <2> QED  BY <2>1, <2>2, <2>3
<1> QED  BY <1>1, <1>2, <1>3, <1>4, <1>5, <1>6, NextCases DEF Pass1

LEMMA MadeKept ==
    ASSUME BaseInv, MadeInv, [Next]_vars
    PROVE  MadeInv'
<1>0. TypeInv
  BY DEF BaseInv
<1>1. CASE ~ Create
  <2>1. ASSUME NEW a \in DOMAIN tenant', tenant'[a].made, tenant'[a].there
        PROVE  a \in DOMAIN tenant /\ tenant[a].made /\ tenant[a].there /\ tenant'[a].src = tenant[a].src
    BY <1>1, <2>1, NoneMade
  <2>2. CASE at' # "create"
    BY <2>1, <2>2 DEF MadeInv
  <2>3. CASE at' = "create"
    <3>1. Source' = Source
      BY <2>3, ToCreate DEF Source
    <3>2. \A a \in DOMAIN tenant : ~ (tenant[a].made /\ tenant[a].there /\ tenant[a].src = Source)
      <4>1. CASE at = "create"
        BY <4>1 DEF MadeInv
      <4>2. CASE Tagged(Source) = {}
        BY <4>2 DEF Tagged
      <4> QED  BY <2>3, <4>1, <4>2, ToCreate
    <3> QED  BY <2>1, <3>1, <3>2 DEF MadeInv
  <2> QED  BY <2>2, <2>3
<1>2. CASE Create
  <2>1. at = "create" /\ at' # "create"
    BY <1>2, ToCreate DEF Create
  <2>2. CASE tenant' = tenant
    BY <2>1, <2>2 DEF MadeInv
  <2>3. CASE Source \in Apps /\ tenant' = Append(tenant, NewApp(Source))
    <3>1. /\ \A b \in DOMAIN tenant : tenant'[b] = tenant[b]
          /\ DOMAIN tenant' = DOMAIN tenant \cup {Len(tenant) + 1} /\ tenant'[Len(tenant) + 1] = NewApp(Source)
      BY <1>0, <2>3, NewAppFacts, AppendGrows
    <3>2. NewApp(Source).src = Source
      BY <2>3, NewAppFacts
    <3> QED  BY <2>1, <3>1, <3>2 DEF MadeInv
  <2> QED  BY <1>2, <2>2, <2>3, CreateEffect
<1> QED  BY <1>1, <1>2

LEMMA IssuableFacts ==
    ASSUME manifest \in Manifests, NEW s \in Apps, NEW k \in Keys
    PROVE  Issuable(s, k) \in Nat
<1> DEFINE t == manifest.secrets[s]
           C == {i \in DOMAIN t : t[i] = k}
<1>1. t \in Seq(Keys)
  BY ManifestFacts
<1> HIDE DEF t
<1>2. DOMAIN t = 1..Len(t) /\ Len(t) \in Nat
  BY <1>1
<1>3. IsFiniteSet(1..Len(t))
  BY <1>2, FS_Interval
<1>4. IsFiniteSet(C)
  BY <1>2, <1>3, FS_Subset
<1>5. Cardinality(C) \in Nat
  BY <1>4, FS_CardinalityType
<1> QED  BY <1>5 DEF Issuable, t

\* Counting the backup's secrets one by one.
LEMMA CountedFacts ==
    ASSUME manifest \in Manifests, NEW s \in Apps, NEW k \in Keys, NEW n \in Int
    PROVE  /\ Cardinality(Counted(s, n, k)) \in Nat
           /\ Cardinality(Counted(s, n + 1, k)) \in Nat
           /\ Cardinality(Counted(s, n, k)) <= Cardinality(Counted(s, n + 1, k))
           /\ n \in DOMAIN manifest.secrets[s] /\ manifest.secrets[s][n] = k =>
                /\ Cardinality(Counted(s, n + 1, k)) = Cardinality(Counted(s, n, k)) + 1
                /\ k # "old" => Cardinality(Counted(s, n + 1, k)) <= Issuable(s, k)
<1> DEFINE t == manifest.secrets[s]
           C == {i \in DOMAIN t : t[i] = k}
           D == Counted(s, n, k)
           E == Counted(s, n + 1, k)
<1>1. t \in Seq(Keys)
  BY ManifestFacts
<1>2. DOMAIN t = 1..Len(t) /\ Len(t) \in Nat /\ \A i \in DOMAIN t : i \in Int
  <2> HIDE DEF t
  <2> QED  BY <1>1
<1>3. IsFiniteSet(1..Len(t))
  <2> HIDE DEF t
  <2> QED  BY <1>2, FS_Interval
<1>4. D \subseteq E /\ E \subseteq C /\ C \subseteq DOMAIN t
  BY <1>2 DEF Counted
<1>5. IsFiniteSet(C)
  <2> HIDE DEF t, C
  <2> QED  BY <1>2, <1>3, <1>4, FS_Subset
<1>6. IsFiniteSet(E) /\ Cardinality(E) <= Cardinality(C)
  <2> HIDE DEF E, C
  <2> QED  BY <1>4, <1>5, FS_Subset
<1>7. IsFiniteSet(D) /\ Cardinality(D) <= Cardinality(E)
  <2> HIDE DEF D, E
  <2> QED  BY <1>4, <1>6, FS_Subset
<1>8. Cardinality(D) \in Nat /\ Cardinality(E) \in Nat
  <2> HIDE DEF D, E
  <2> QED  BY <1>6, <1>7, FS_CardinalityType
<1>9. ASSUME n \in DOMAIN t, t[n] = k
      PROVE  /\ Cardinality(E) = Cardinality(D) + 1
             /\ k # "old" => Cardinality(E) <= Issuable(s, k)
  <2>1. E = D \cup {n} /\ n \notin D
    BY <1>2, <1>9 DEF Counted
  <2>2. Cardinality(D \cup {n}) = Cardinality(D) + 1
    <3> HIDE DEF D
    <3> QED  BY <1>7, <2>1, FS_AddElement
  <2>3. k # "old" => Issuable(s, k) = Cardinality(C)
    BY DEF Issuable
  <2> HIDE DEF C, D, E
  <2> QED  BY <1>6, <2>1, <2>2, <2>3
<1> QED  BY <1>7, <1>8, <1>9

\* A step that issues no secret.
SameSecrets ==
    /\ \A a \in DOMAIN tenant :
         a \in DOMAIN tenant' /\ tenant'[a].secrets = tenant[a].secrets /\ tenant'[a].src = tenant[a].src
    /\ \A a \in DOMAIN tenant' \ DOMAIN tenant : \A k \in Keys : tenant'[a].secrets[k] = 0

LEMMA NoSecretStep ==
    ASSUME BaseInv, [Next]_vars, ~ SecretStep
    PROVE  SameSecrets
<1>0. TypeInv
  BY DEF BaseInv
<1>1. ASSUME NEW b, OneAltered(b, Fields)
      PROVE  SameSecrets
  <2>1. DOMAIN tenant' = DOMAIN tenant /\ \A a \in DOMAIN tenant : Alters(tenant[a], tenant'[a], Fields)
    BY <1>0, <1>1, AlteredGrows
  <2>2. "secrets" \notin Fields
    BY DEF Fields
  <2> QED  BY <2>1, <2>2 DEF Alters, SameSecrets
<1>2. ASSUME NEW app \in AppRecs, \A k \in Keys : app.secrets[k] = 0, tenant' = Append(tenant, app)
      PROVE  SameSecrets
  <2>1. /\ \A b \in DOMAIN tenant : tenant'[b] = tenant[b]
        /\ DOMAIN tenant' = DOMAIN tenant \cup {Len(tenant) + 1} /\ tenant'[Len(tenant) + 1] = app
    BY <1>0, <1>2, AppendGrows
  <2> QED  BY <1>2, <2>1 DEF SameSecrets
<1>3. CASE tenant' = tenant
  BY <1>3 DEF SameSecrets
<1>4. CASE Source \in Apps /\ tenant' = Append(tenant, NewApp(Source))
  BY <1>2, <1>4, NewAppFacts
<1>5. ASSUME NEW s \in Apps, tenant' = Append(tenant, Planted(s))
      PROVE  SameSecrets
  BY <1>2, <1>5, PlantedFacts
<1> QED  BY <1>1, <1>3, <1>4, <1>5, TenantStep

LEMMA ManifestStays ==
    ASSUME BaseInv, [Next]_vars
    PROVE  manifest' = manifest
BY WithheldStays DEF Begin, Classify

\* The current secret of the entry, one more of its name being issued.
LEMMA RoomForSecret ==
    ASSUME BaseInv, SecretsInv, SecretStep, Step # "old", Entry.left[Step] = 0
    PROVE  tenant[Entry.id].secrets[Step] + 1 <= Issuable(Entry.src, Step)
<1> DEFINE k == Step
           n == AtSecret
<1>1. /\ k \in Keys /\ pos <= Len(created) /\ item > 0 /\ item <= Len(Steps(Entry)) /\ at = "wire" /\ item \in Nat
  BY DEF SecretStep, Wiring, BaseInv, PlaceInv, TypeInv
<1>2. Entry.src \in Apps /\ Entry.id \in DOMAIN tenant /\ tenant[Entry.id] \in AppRecs /\ manifest \in Manifests
  BY <1>1, EntryFacts DEF BaseInv, TypeInv
<1>3. k \notin BeforeSteps(Entry)
  BY <1>1 DEF BeforeSteps, Keys
<1>4. Len(Before(Entry)) \in Nat /\ n \in Int /\ n \in DOMAIN manifest.secrets[Entry.src]
      /\ manifest.secrets[Entry.src][n] = k
  BY <1>1, <1>3, StepFacts DEF AtSecret
<1>5. tenant[Entry.id].secrets[k] <= Cardinality(Counted(Entry.src, n, k)) + Entry.left[k]
  BY <1>1 DEF SecretsInv, WiredInv
<1>6. tenant[Entry.id].secrets[k] \in Nat
  BY <1>1, <1>2 DEF AppRecs
<1> HIDE DEF k, n
<1>7. /\ Cardinality(Counted(Entry.src, n, k)) \in Nat
      /\ Cardinality(Counted(Entry.src, n + 1, k)) = Cardinality(Counted(Entry.src, n, k)) + 1
      /\ Cardinality(Counted(Entry.src, n + 1, k)) <= Issuable(Entry.src, k)
  BY <1>1, <1>2, <1>4, CountedFacts DEF k
<1>8. Issuable(Entry.src, k) \in Nat
  BY <1>1, <1>2, IssuableFacts
<1> QED  BY <1>5, <1>6, <1>7, <1>8 DEF k

LEMMA IssuedKept ==
    ASSUME BaseInv, SecretsInv, [Next]_vars, NEW a \in DOMAIN tenant', NEW k \in Keys
    PROVE  (tenant[a].secrets[k] <= Issuable(tenant[a].src, k))'
<1>1. manifest' = manifest
  BY ManifestStays
<1>2. SUFFICES tenant'[a].secrets[k] <= Issuable(tenant'[a].src, k)
  BY <1>1 DEF Issuable
<1>3. CASE ~ SecretStep
  <2>1. CASE a \in DOMAIN tenant
    BY <1>3, <2>1, NoSecretStep DEF SameSecrets, SecretsInv, IssuedInv
  <2>2. CASE a \notin DOMAIN tenant
    <3>1. tenant'[a].secrets[k] = 0
      BY <1>3, <2>2, NoSecretStep DEF SameSecrets
    <3>2. tenant'[a].src \in Apps /\ manifest \in Manifests
      <4>1. BaseInv' /\ Apps' = Apps /\ AppRecs' = AppRecs
        BY NextBase, ManifestStays, SetsStay
      <4>2. tenant'[a] \in AppRecs
        BY <4>1 DEF BaseInv, TypeInv
      <4> QED  BY <4>2 DEF AppRecs, BaseInv, TypeInv
    <3>3. Issuable(tenant'[a].src, k) \in Nat
      BY <3>2, IssuableFacts
    <3> QED  BY <3>1, <3>3
  <2> QED  BY <2>1, <2>2
<1>4. CASE SecretStep
  <2>0. TypeInv
    BY DEF BaseInv
  <2>1. OneAltered(Entry.id, {"secrets"})
    BY <1>4, SecretEffect
  <2>2. /\ DOMAIN tenant' = DOMAIN tenant /\ \A b \in DOMAIN tenant : b # Entry.id => tenant'[b] = tenant[b]
        /\ tenant'[a].src = tenant[a].src
    BY <2>0, <2>1, AlteredGrows DEF TenantGrows
  <2>3. CASE tenant' = tenant \/ a # Entry.id \/ k # Step
    <3>1. tenant'[a].secrets[k] = tenant[a].secrets[k]
      BY <1>4, <2>2, <2>3, SecretEffect
    <3> QED  BY <2>2, <3>1 DEF SecretsInv, IssuedInv
  <2>4. CASE tenant' # tenant /\ a = Entry.id /\ k = Step
    <3>1. /\ Step # "old" /\ Entry.left[Step] = 0
          /\ tenant'[Entry.id].secrets[Step] = tenant[Entry.id].secrets[Step] + 1
      BY <1>4, <2>4, SecretEffect
    <3>2. pos <= Len(created)
      BY <1>4 DEF SecretStep, Wiring, BaseInv, PlaceInv
    <3>3. tenant[Entry.id].src = Entry.src
      BY <3>2, EntryFacts DEF BaseInv
    <3> QED  BY <1>4, <2>2, <2>4, <3>1, <3>3, RoomForSecret
  <2> QED  BY <2>3, <2>4
<1> QED  BY <1>3, <1>4

LEMMA CandidateKept ==
    ASSUME BaseInv, SecretsInv, [Next]_vars
    PROVE  CandidateInv'
<1> SUFFICES ASSUME at' \in Checking PROVE tenant'[hit'.id].secrets = hit'.secrets
  BY DEF CandidateInv
<1>1. CASE Lookup
  <2>1. tenant' = tenant
    BY <1>1 DEF Lookup, world
  <2>2. \E a \in Tagged(Source) : hit' = [id |-> a, pre |-> tenant[a].pre, secrets |-> LiveSecrets(a)]
    BY <1>1 DEF Lookup, Refuse, NextApp, Checking
  <2> QED  BY <2>1, <2>2 DEF LiveSecrets
<1>2. CASE CheckOwners \/ CheckFics
  <2>1. tenant' = tenant /\ hit' = hit /\ at \in Checking
    BY <1>2 DEF CheckOwners, CheckFics, world, Checking
  <2> QED  BY <2>1 DEF SecretsInv, CandidateInv
<1>3. CASE Around \/ UNCHANGED vars
  <2>1. at' = at /\ locals' = locals
    BY <1>3, AroundEffect DEF BaseInv, vars
  <2>2. at \in Checking /\ hit' = hit /\ ~ SecretStep
    BY <2>1 DEF locals, SecretStep, Wiring, Checking
  <2>3. SameSecrets
    BY <2>2, NoSecretStep
  <2>4. hit.id \in DOMAIN tenant
    BY <2>2 DEF BaseInv, PlaceInv
  <2> QED  BY <2>2, <2>3, <2>4 DEF SameSecrets, SecretsInv, CandidateInv
<1>4. CASE Begin \/ Classify \/ EndLoop \/ JudgePending \/ EndRound \/ TakePending \/ EndTake
  BY <1>4 DEF Begin, Classify, EndLoop, JudgePending, EndRound, TakePending, EndTake, Checking
<1>5. CASE CheckPrincipal \/ Create \/ Ensure
  BY <1>5 DEF CheckPrincipal, Create, Ensure, Refuse, NextApp, Keep, Checking
<1>6. CASE Pass2
  BY <1>6 DEF Pass2, NextWire, SkipStep, PatchStep, ReadStep, FicStep, OwnerStep, SecretStep, EndWire, Wiring, Checking
<1>7. CASE Pass3 \/ Pass4 \/ Pass5 \/ Crash
  BY <1>7 DEF Pass3, NextConsent, Reread, Grant, Pass4, NextEnt, ApplySettings, AssignRole, JoinGroup, Pass5, ListIdentities, Rebind,
     Finish, Crash, Checking
<1> QED  BY <1>1, <1>2, <1>3, <1>4, <1>5, <1>6, <1>7, NextCases DEF Pass1

\* A step that makes no entry and begins no wiring but its own.
LEMMA UnwiredSame ==
    ASSUME BaseInv, SecretsInv, SameSecrets, SameEntries,
           \A i \in DOMAIN created : created'[i].left = created[i].left,
           \A i \in DOMAIN created : Unwired(i)' => Unwired(i)
    PROVE  UnwiredInv'
<1> SUFFICES ASSUME NEW i \in DOMAIN created', NEW k \in Keys, Unwired(i)'
             PROVE  tenant'[created'[i].id].secrets[k] <= created'[i].left[k]
  BY DEF UnwiredInv
<1>1. /\ i \in DOMAIN created /\ Unwired(i) /\ created'[i].id = created[i].id
      /\ created'[i].left = created[i].left
  BY DEF SameEntries
<1>2. created[i].id \in DOMAIN tenant
  BY <1>1 DEF BaseInv, EntriesInv
<1> QED  BY <1>1, <1>2 DEF SameSecrets, SecretsInv, UnwiredInv

\* The entry Pass 1 makes, field by field.
LEMMA KeepEffect ==
    ASSUME TypeInv, NEW a, NEW adopted, NEW secrets, NEW pre, Keep(a, adopted, secrets, pre)
    PROVE  /\ Len(created') = Len(created) + 1 /\ DOMAIN created' = DOMAIN created \cup {Len(created) + 1}
           /\ \A i \in DOMAIN created : created'[i] = created[i]
           /\ created'[Len(created) + 1].src = Source /\ created'[Len(created) + 1].id = a
           /\ created'[Len(created) + 1].left = secrets /\ created'[Len(created) + 1].pre = pre
           /\ created'[Len(created) + 1].pending = (pre # {})
           /\ remap' = [s \in DOMAIN remap \cup {Source} |-> IF s = Source THEN a ELSE remap[s]]
           /\ \/ at' = "ensure" /\ pos' = pos /\ pre = {}
              \/ at' = "lookup" /\ pos' = pos + 1
<1> DEFINE e == [src |-> Source, id |-> a, adopted |-> adopted, left |-> secrets,
                 pre |-> pre, pending |-> pre # {}, warn |-> {}]
<1>1. created' = Append(created, e)
  BY DEF Keep
<1>2. e.src = Source /\ e.id = a /\ e.left = secrets /\ e.pre = pre /\ e.pending = (pre # {})
  OBVIOUS
<1> HIDE DEF e
<1>3. /\ DOMAIN created' = DOMAIN created \cup {Len(created) + 1} /\ Len(created') = Len(created) + 1
      /\ created'[Len(created) + 1] = e /\ \A i \in DOMAIN created : created'[i] = created[i]
  <2> DEFINE R == EntryRecs
  <2>1. created \in Seq(R)
    BY DEF TypeInv
  <2> HIDE DEF R
  <2> QED  BY <1>1, <2>1
<1>4. remap' = [s \in DOMAIN remap \cup {Source} |-> IF s = Source THEN a ELSE remap[s]]
  BY DEF Keep
<1>5. \/ at' = "ensure" /\ pos' = pos /\ pre = {}
      \/ at' = "lookup" /\ pos' = pos + 1
  BY DEF Keep, NextApp
<1> QED  BY <1>2, <1>3, <1>4, <1>5

LEMMA KeepUnwired ==
    ASSUME BaseInv, SecretsInv, SameSecrets, at \in {"create"} \cup Checking,
           NEW a, NEW adopted, NEW secrets, NEW pre, Keep(a, adopted, secrets, pre),
           \A k \in Keys : tenant'[a].secrets[k] <= secrets[k]
    PROVE  UnwiredInv'
<1>1. /\ DOMAIN created' = DOMAIN created \cup {Len(created) + 1}
      /\ \A i \in DOMAIN created : created'[i] = created[i]
      /\ created'[Len(created) + 1].id = a /\ created'[Len(created) + 1].left = secrets
  BY KeepEffect DEF BaseInv
<1>2. ASSUME NEW i \in DOMAIN created', NEW k \in Keys
      PROVE  tenant'[created'[i].id].secrets[k] <= created'[i].left[k]
  <2>1. CASE i \in DOMAIN created
    <3>1. Unwired(i)
      BY DEF Unwired
    <3>2. created[i].id \in DOMAIN tenant /\ tenant[created[i].id].secrets[k] <= created[i].left[k]
      BY <2>1, <3>1 DEF BaseInv, EntriesInv, SecretsInv, UnwiredInv
    <3> QED  BY <1>1, <2>1, <3>2 DEF SameSecrets
  <2>2. CASE i = Len(created) + 1
    BY <1>1, <2>2
  <2> QED  BY <1>1, <2>1, <2>2
<1> QED  BY <1>2 DEF UnwiredInv

LEMMA RetainUnwired ==
    ASSUME BaseInv, SecretsInv, at = "settle", tenant' = tenant,
           NEW kept \in SUBSET (DOMAIN created), Retain(kept)
    PROVE  UnwiredInv'
<1>1. PICK index \in [DOMAIN created' -> kept] : \A i \in DOMAIN created' : created'[i] = created[index[i]]
  BY RetainEffect DEF BaseInv
<1>2. ASSUME NEW i \in DOMAIN created', NEW k \in Keys
      PROVE  tenant'[created'[i].id].secrets[k] <= created'[i].left[k]
  <2>1. index[i] \in DOMAIN created
    BY <1>1
  <2>2. Unwired(index[i])
    BY DEF Unwired
  <2> QED  BY <1>1, <2>1, <2>2 DEF SecretsInv, UnwiredInv
<1> QED  BY <1>2 DEF UnwiredInv

LEMMA SecretUnwired ==
    ASSUME BaseInv, SecretsInv, SecretStep
    PROVE  UnwiredInv'
<1>1. at' = "wire" /\ pos' = pos /\ item' = item + 1 /\ item \in Nat /\ at = "wire"
  BY DEF SecretStep, Wiring, BaseInv, TypeInv
<1>2. /\ pos \in DOMAIN created /\ OneAltered(Entry.id, {"secrets"}) /\ SameEntries
      /\ \A j \in DOMAIN created : j # pos => created'[j] = created[j]
  BY SecretEffect
<1>3. \A b \in DOMAIN tenant : b # Entry.id => tenant'[b] = tenant[b]
  BY <1>2, AlteredGrows DEF BaseInv
<1> SUFFICES ASSUME NEW i \in DOMAIN created', NEW k \in Keys, Unwired(i)'
             PROVE  tenant'[created'[i].id].secrets[k] <= created'[i].left[k]
  BY DEF UnwiredInv
<1>4. i \in DOMAIN created /\ pos \in Nat /\ i \in Nat /\ i > pos
  BY <1>1, <1>2 DEF Unwired, SameEntries, Checking, BaseInv, TypeInv
<1>5. created'[i] = created[i] /\ Unwired(i) /\ created[i].src # Entry.src
  BY <1>1, <1>2, <1>4 DEF Unwired, BaseInv, OrderInv, Entry
<1>6. created[i].id \in DOMAIN tenant /\ created[i].id # Entry.id
  BY <1>2, <1>4, <1>5 DEF BaseInv, EntriesInv, Entry
<1> QED  BY <1>3, <1>4, <1>5, <1>6 DEF SecretsInv, UnwiredInv

\* The steps that leave created alone, and how far the wiring has come.
LEMMA UnwiredShrinks ==
    ASSUME BaseInv, NEW i \in DOMAIN created,
           \/ EndLoop \/ Lookup \/ CheckOwners \/ CheckFics \/ CheckPrincipal \/ Create \/ Ensure \/ JudgePending
           \/ EndRound \/ TakePending \/ EndTake
           \/ NextWire \/ SkipStep \/ PatchStep \/ ReadStep \/ FicStep \/ OwnerStep \/ EndWire
           \/ Pass3 \/ Pass4 \/ Pass5 \/ Crash \/ Around \/ UNCHANGED vars,
           Unwired(i)'
    PROVE  Unwired(i)
<1>0. pos \in Nat \ {0} /\ item \in Nat /\ i \in Nat
  BY DEF BaseInv, TypeInv
<1>1. CASE \/ EndLoop \/ Lookup \/ CheckOwners \/ CheckFics \/ CheckPrincipal \/ Create \/ Ensure \/ JudgePending
           \/ EndRound \/ TakePending \/ EndTake
  BY <1>1 DEF EndLoop, Lookup, CheckOwners, CheckFics, CheckPrincipal, Create, Ensure, JudgePending, EndRound,
     TakePending, EndTake, Unwired, Checking
<1>2. CASE NextWire
  BY <1>0, <1>2 DEF NextWire, Unwired, Checking
<1>3. CASE SkipStep \/ PatchStep \/ ReadStep \/ FicStep \/ OwnerStep
  BY <1>0, <1>3 DEF SkipStep, PatchStep, ReadStep, FicStep, OwnerStep, Wiring, Unwired, Checking
<1>4. CASE EndWire
  <2>1. at = "wire" /\ at' = "wire" /\ pos' = pos + 1 /\ item' = 0
    BY <1>4 DEF EndWire
  <2>2. i > pos
    BY <1>0, <2>1 DEF Unwired, Checking
  <2> QED  BY <2>1, <2>2 DEF Unwired
<1>5. CASE Pass3 \/ Pass4
  BY <1>5 DEF Pass3, NextConsent, Reread, Grant, Pass4, NextEnt, ApplySettings, AssignRole, JoinGroup, Unwired, Checking
<1>6. CASE Pass5 \/ Crash
  BY <1>6 DEF Pass5, ListIdentities, Rebind, Finish, Crash, Unwired, Checking
<1>7. CASE Around \/ UNCHANGED vars
  <2>1. at' = at /\ locals' = locals
    BY <1>7, AroundEffect DEF BaseInv, vars
  <2> QED  BY <2>1 DEF Unwired, locals, Checking
<1> QED  BY <1>1, <1>2, <1>3, <1>4, <1>5, <1>6, <1>7

LEMMA UnwiredKept ==
    ASSUME BaseInv, SecretsInv, [Next]_vars
    PROVE  UnwiredInv'
<1>1. CASE Begin \/ Classify
  <2>1. created' = <<>>
    BY <1>1 DEF Begin, Classify, BaseInv, PlaceInv
  <2> QED  BY <2>1 DEF UnwiredInv
<1>2. CASE SecretStep
  BY <1>2, SecretUnwired
<1>3. CASE ~ SecretStep /\ (CheckPrincipal \/ Create)
  <2>1. SameSecrets /\ at \in {"create"} \cup Checking
    BY <1>3, NoSecretStep DEF CheckPrincipal, Create, Checking
  <2>2. CASE created' = created
    <3>1. SameEntries /\ \A i \in DOMAIN created : Unwired(i)' => Unwired(i)
      BY <1>3, <2>2, QuietFacts, UnwiredShrinks
    <3> QED  BY <2>1, <2>2, <3>1, UnwiredSame
  <2>3. CASE CheckPrincipal /\ created' # created
    <3>1. Keep(hit.id, TRUE, hit.secrets, hit.pre) /\ at \in Checking /\ tenant' = tenant
      BY <2>3 DEF CheckPrincipal, Refuse, Checking, world
    <3>2. tenant[hit.id].secrets = hit.secrets /\ hit.secrets \in [Keys -> Nat]
      BY <3>1 DEF SecretsInv, CandidateInv, BaseInv, PlaceInv
    <3>3. \A k \in Keys : tenant'[hit.id].secrets[k] <= hit.secrets[k]
      BY <3>1, <3>2
    <3> QED  BY <2>1, <3>1, <3>3, KeepUnwired
  <2>4. CASE Create /\ created' # created
    <3>1. /\ Source \in Apps /\ tenant' = Append(tenant, NewApp(Source))
          /\ Keep(Len(tenant'), FALSE, [k \in Keys |-> 0], {})
      BY <2>4, CreateEffect
    <3>2. tenant'[Len(tenant')] = NewApp(Source)
      BY <3>1, NewAppFacts, AppendGrows DEF BaseInv
    <3>3. \A k \in Keys : tenant'[Len(tenant')].secrets[k] <= [j \in Keys |-> 0][k]
      BY <3>1, <3>2, NewAppFacts
    <3> QED  BY <2>1, <3>1, <3>3, KeepUnwired
  <2> QED  BY <1>3, <2>2, <2>3, <2>4
<1>4. CASE ~ SecretStep /\ Ensure
  <2>1. SameSecrets /\ EnsurePrincipal(Len(created)) /\ Len(created) \in DOMAIN created
    BY <1>4, NoSecretStep DEF Ensure, BaseInv, TypeInv, PlaceInv
  <2>2. SameEntries /\ \A j \in DOMAIN created : created'[j].left = created[j].left
    BY <2>1, EnsureEffect DEF BaseInv
  <2> QED  BY <1>4, <2>1, <2>2, UnwiredShrinks, UnwiredSame
<1>5. CASE ~ SecretStep /\ TakePending
  <2>1. SameSecrets
    BY <1>5, NoSecretStep
  <2> QED  BY <1>5, <2>1, TakeEffect, UnwiredShrinks, UnwiredSame
<1>6. CASE ~ SecretStep /\ EndRound
  <2>1. SameSecrets
    BY <1>6, NoSecretStep
  <2>2. CASE created' = created
    BY <1>6, <2>1, <2>2, QuietFacts, UnwiredShrinks, UnwiredSame
  <2>3. CASE created' # created
    <3>1. /\ at = "settle" /\ tenant' = tenant
          /\ Retain({i \in DOMAIN created : created[i].src \notin refused.apps})
      BY <1>6, <2>3 DEF EndRound, world
    <3> QED  BY <3>1, RetainUnwired
  <2> QED  BY <2>2, <2>3
<1>7. CASE /\ ~ SecretStep
           /\ \/ EndLoop \/ Lookup \/ CheckOwners \/ CheckFics \/ JudgePending \/ EndTake
              \/ NextWire \/ SkipStep \/ PatchStep \/ ReadStep \/ FicStep \/ OwnerStep \/ EndWire
              \/ Pass3 \/ Pass4 \/ Pass5 \/ Crash \/ Around \/ UNCHANGED vars
  <2>1. SameSecrets
    BY <1>7, NoSecretStep
  <2>2. created' = created
    <3>1. CASE EndLoop \/ Lookup \/ CheckOwners \/ CheckFics \/ JudgePending \/ EndTake
      BY <3>1 DEF EndLoop, Lookup, CheckOwners, CheckFics, JudgePending, EndTake, Refuse
    <3>2. CASE NextWire \/ SkipStep \/ PatchStep \/ ReadStep \/ FicStep \/ OwnerStep \/ EndWire
      BY <3>2 DEF NextWire, SkipStep, PatchStep, ReadStep, FicStep, OwnerStep, EndWire
    <3>3. CASE Pass3 \/ Pass4
      BY <3>3 DEF Pass3, NextConsent, Reread, Grant, Pass4, NextEnt, ApplySettings, AssignRole, JoinGroup
    <3>4. CASE Pass5 \/ Crash \/ UNCHANGED vars
      BY <3>4 DEF Pass5, ListIdentities, Rebind, Finish, Crash, locals, vars
    <3>5. CASE Around
      BY <3>5, AroundEffect DEF locals, BaseInv
    <3> QED  BY <1>7, <3>1, <3>2, <3>3, <3>4, <3>5
  <2>3. SameEntries
    BY <2>2, QuietFacts
  <2>4. \A i \in DOMAIN created : Unwired(i)' => Unwired(i)
    BY <1>7, UnwiredShrinks
  <2> QED  BY <2>1, <2>2, <2>3, <2>4, UnwiredSame
<1> QED  BY <1>1, <1>2, <1>3, <1>4, <1>5, <1>6, <1>7, NextCases DEF Pass1, Pass2

\* The wiring passes an item that is no secret, or that it skips.
LEMMA WiredSame ==
    ASSUME BaseInv, SecretsInv, SameSecrets, at = "wire", item > 0,
           manifest' = manifest, withheld' = withheld, created' = created, pos' = pos,
           item' = item \/ (item' = item + 1 /\ item <= Len(Steps(Entry)))
    PROVE  WiredInv'
<1>1. pos <= Len(created) /\ item \in Nat /\ manifest \in Manifests
  BY DEF BaseInv, PlaceInv, TypeInv
<1>2. /\ Entry.src \in Apps /\ Entry.id \in DOMAIN tenant /\ tenant[Entry.id] \in AppRecs /\ Entry \in EntryRecs
  BY <1>1, EntryFacts DEF BaseInv
<1>3. Entry' = Entry
  BY DEF Entry
<1>4. Before(Entry)' = Before(Entry)
  BY <1>3 DEF Before
<1>5. Before(Entry) \in Seq(BeforeSteps(Entry))
  BY <1>2, BeforeFacts
<1>6. Len(Before(Entry)) \in Nat
  BY <1>5
<1>7. AtSecret \in Int /\ (AtSecret' = AtSecret \/ AtSecret' = AtSecret + 1)
  BY <1>1, <1>4, <1>6 DEF AtSecret
<1>8. ASSUME NEW k \in Keys
      PROVE  tenant'[Entry.id].secrets[k] <= Cardinality(Counted(Entry.src, AtSecret', k)) + Entry.left[k]
  <2>1. tenant[Entry.id].secrets[k] <= Cardinality(Counted(Entry.src, AtSecret, k)) + Entry.left[k]
    BY DEF SecretsInv, WiredInv
  <2>2. tenant[Entry.id].secrets[k] \in Nat /\ Entry.left[k] \in Nat
    BY <1>2 DEF AppRecs, EntryRecs
  <2>3. /\ Cardinality(Counted(Entry.src, AtSecret, k)) \in Nat
        /\ Cardinality(Counted(Entry.src, AtSecret + 1, k)) \in Nat
        /\ Cardinality(Counted(Entry.src, AtSecret, k)) <= Cardinality(Counted(Entry.src, AtSecret + 1, k))
    BY <1>1, <1>2, <1>7, CountedFacts
  <2>4. tenant'[Entry.id].secrets = tenant[Entry.id].secrets
    BY <1>2 DEF SameSecrets
  <2> QED  BY <1>7, <2>1, <2>2, <2>3, <2>4
<1>9. \A k \in Keys : Counted(Entry.src, AtSecret, k)' = Counted(Entry.src, AtSecret', k)
  BY <1>3 DEF Counted
<1> QED  BY <1>3, <1>8, <1>9 DEF WiredInv

LEMMA SecretWired ==
    ASSUME BaseInv, SecretsInv, SecretStep
    PROVE  WiredInv'
<1> DEFINE n == AtSecret
           a == Entry.id
           D(k) == Cardinality(Counted(Entry.src, n, k))
           E(k) == Cardinality(Counted(Entry.src, n + 1, k))
<1>1. /\ pos <= Len(created) /\ item \in Nat /\ item > 0 /\ item <= Len(Steps(Entry)) /\ at = "wire"
      /\ manifest \in Manifests /\ manifest' = manifest /\ withheld' = withheld /\ pos' = pos /\ item' = item + 1
  BY DEF SecretStep, Wiring, BaseInv, PlaceInv, TypeInv
<1>2. /\ Entry.src \in Apps /\ a \in DOMAIN tenant /\ tenant[a] \in AppRecs /\ Entry \in EntryRecs
  BY <1>1, EntryFacts DEF BaseInv
<1>3. Step \in Keys /\ Step \notin BeforeSteps(Entry)
  BY SecretEffect DEF BeforeSteps, Keys
<1>4. Len(Before(Entry)) \in Nat /\ n \in Int /\ n \in DOMAIN manifest.secrets[Entry.src]
      /\ manifest.secrets[Entry.src][n] = Step
  BY <1>1, <1>3, StepFacts DEF AtSecret
<1>5. Entry'.src = Entry.src /\ Entry'.id = Entry.id /\ Entry'.adopted = Entry.adopted
  BY <1>1, SecretEffect DEF SameEntries, Entry
<1>6. Before(Entry)' = Before(Entry)
  BY <1>1, <1>5 DEF Before
<1>7. AtSecret' = n + 1
  BY <1>1, <1>4, <1>6 DEF AtSecret
<1>8. \A k \in Keys : Counted(Entry.src, AtSecret, k)' = Counted(Entry.src, n + 1, k)
  BY <1>1, <1>5, <1>7 DEF Counted
<1>9. ASSUME NEW k \in Keys
      PROVE  tenant'[a].secrets[k] <= E(k) + Entry'.left[k]
  <2>1. tenant[a].secrets[k] <= D(k) + Entry.left[k]
    BY <1>1 DEF SecretsInv, WiredInv
  <2>2. tenant[a].secrets[k] \in Nat /\ Entry.left[k] \in Nat /\ Entry.left \in [Keys -> Nat]
    BY <1>2 DEF AppRecs, EntryRecs
  <2>3. D(k) \in Nat /\ E(k) \in Nat /\ D(k) <= E(k) /\ (k = Step => E(k) = D(k) + 1)
    BY <1>1, <1>2, <1>4, CountedFacts
  <2> HIDE DEF D, E, a
  <2>4. CASE tenant' = tenant /\ created' = created
    <3>1. Entry' = Entry
      BY <1>1, <2>4 DEF Entry
    <3> QED  BY <2>1, <2>2, <2>3, <2>4, <3>1
  <2>5. CASE tenant' = tenant /\ created'[pos].left = [Entry.left EXCEPT ![Step] = @ - 1] /\ Entry.left[Step] > 0
    <3>1. Entry'.left = [Entry.left EXCEPT ![Step] = @ - 1]
      BY <1>1, <2>5 DEF Entry
    <3>2. CASE k = Step
      <4>1. Entry'.left[k] = Entry.left[k] - 1
        BY <1>3, <2>2, <3>1, <3>2
      <4> QED  BY <2>1, <2>2, <2>3, <2>5, <3>2, <4>1
    <3>3. CASE k # Step
      <4>1. Entry'.left[k] = Entry.left[k]
        BY <2>2, <3>1, <3>3
      <4> QED  BY <2>1, <2>2, <2>3, <2>5, <4>1
    <3> QED  BY <3>2, <3>3
  <2>6. CASE /\ created' = created /\ tenant'[a].secrets[Step] = tenant[a].secrets[Step] + 1
             /\ \A j \in Keys : j # Step => tenant'[a].secrets[j] = tenant[a].secrets[j]
    <3>1. Entry' = Entry
      BY <1>1, <2>6 DEF Entry
    <3>2. CASE k = Step
      BY <2>1, <2>2, <2>3, <2>6, <3>1, <3>2
    <3>3. CASE k # Step
      BY <2>1, <2>2, <2>3, <2>6, <3>1, <3>3
    <3> QED  BY <3>2, <3>3
  <2> QED  BY <2>4, <2>5, <2>6, SecretEffect DEF a
<1> QED  BY <1>5, <1>8, <1>9 DEF WiredInv

LEMMA WiredKept ==
    ASSUME BaseInv, SecretsInv, [Next]_vars
    PROVE  WiredInv'
<1>1. CASE Begin \/ Classify \/ EndLoop \/ JudgePending \/ EndRound \/ TakePending \/ EndTake
  BY <1>1 DEF Begin, Classify, EndLoop, JudgePending, EndRound, TakePending, EndTake, WiredInv
<1>2. CASE Lookup \/ CheckOwners \/ CheckFics \/ CheckPrincipal \/ Create \/ Ensure
  BY <1>2 DEF Lookup, CheckOwners, CheckFics, CheckPrincipal, Create, Ensure, Refuse, NextApp, Keep, WiredInv
<1>3. CASE SecretStep
  BY <1>3, SecretWired
<1>4. CASE ~ SecretStep /\ (SkipStep \/ PatchStep \/ ReadStep \/ FicStep \/ OwnerStep)
  <2>1. /\ at = "wire" /\ item > 0 /\ item' = item + 1 /\ item <= Len(Steps(Entry))
        /\ manifest' = manifest /\ withheld' = withheld /\ created' = created /\ pos' = pos
    BY <1>4 DEF SkipStep, PatchStep, ReadStep, FicStep, OwnerStep, Wiring
  <2> QED  BY <1>4, <2>1, NoSecretStep, WiredSame
<1>5. CASE NextWire
  <2>1. CASE at' # "wire"
    BY <2>1 DEF WiredInv
  <2>2. CASE at' = "wire"
    <3>1. /\ at = "wire" /\ item = 0 /\ pos' = pos /\ item' = 1 /\ created' = created /\ tenant' = tenant
          /\ manifest' = manifest /\ withheld' = withheld /\ ~ (pos > Len(created)) /\ item \in Nat /\ pos \in Nat
      BY <1>5, <2>2 DEF NextWire, world, BaseInv, TypeInv
    <3>2. pos <= Len(created) /\ pos \in DOMAIN created
      BY <3>1 DEF BaseInv, TypeInv
    <3>3. /\ Entry.src \in Apps /\ Entry.id \in DOMAIN tenant /\ tenant[Entry.id] \in AppRecs /\ Entry \in EntryRecs
          /\ manifest \in Manifests
      BY <3>2, EntryFacts DEF BaseInv, TypeInv
    <3>4. Entry' = Entry
      BY <3>1 DEF Entry
    <3>5. Before(Entry)' = Before(Entry)
      BY <3>1, <3>4 DEF Before
    <3>6. Before(Entry) \in Seq(BeforeSteps(Entry))
      BY <3>3, BeforeFacts
    <3>7. Len(Before(Entry)) \in Nat
      BY <3>6
    <3>8. AtSecret' = 1 - Len(Before(Entry)) /\ AtSecret' \in Int
      BY <3>1, <3>5, <3>7 DEF AtSecret
    <3>9. ASSUME NEW k \in Keys
          PROVE  tenant[Entry.id].secrets[k] <= Cardinality(Counted(Entry.src, AtSecret', k)) + Entry.left[k]
      <4>1. tenant[Entry.id].secrets[k] <= Entry.left[k]
        BY <3>1, <3>2 DEF SecretsInv, UnwiredInv, Unwired, Entry
      <4>2. tenant[Entry.id].secrets[k] \in Nat /\ Entry.left[k] \in Nat
        BY <3>3 DEF AppRecs, EntryRecs
      <4>3. Cardinality(Counted(Entry.src, AtSecret', k)) \in Nat
        BY <3>3, <3>8, CountedFacts
      <4> QED  BY <4>1, <4>2, <4>3
    <3>10. \A k \in Keys : Counted(Entry.src, AtSecret, k)' = Counted(Entry.src, AtSecret', k)
      BY <3>1, <3>4 DEF Counted
    <3> QED  BY <3>1, <3>4, <3>9, <3>10 DEF WiredInv
  <2> QED  BY <2>1, <2>2
<1>6. CASE EndWire
  BY <1>6 DEF EndWire, WiredInv
<1>7. CASE Pass3 \/ Pass4
  BY <1>7 DEF Pass3, NextConsent, Reread, Grant, Pass4, NextEnt, ApplySettings, AssignRole, JoinGroup, WiredInv
<1>8. CASE Pass5 \/ Crash
  BY <1>8 DEF Pass5, ListIdentities, Rebind, Finish, Crash, WiredInv
<1>9. CASE Around \/ UNCHANGED vars
  <2>1. manifest' = manifest /\ at' = at /\ locals' = locals
    BY <1>9, AroundEffect DEF BaseInv, vars
  <2>2. pos' = pos /\ item' = item /\ created' = created /\ withheld' = withheld
    BY <2>1 DEF locals
  <2>3. CASE ~ (at = "wire" /\ item > 0)
    BY <2>1, <2>2, <2>3 DEF WiredInv
  <2>4. CASE at = "wire" /\ item > 0
    <3>1. ~ SecretStep
      BY <2>2 DEF SecretStep, BaseInv, TypeInv
    <3> QED  BY <2>1, <2>2, <2>4, <3>1, NoSecretStep, WiredSame
  <2> QED  BY <2>3, <2>4
<1> QED  BY <1>1, <1>2, <1>3, <1>4, <1>5, <1>6, <1>7, <1>8, <1>9, NextCases DEF Pass1, Pass2

\* One live app of the restore's own making.
LEMMA OneMade ==
    ASSUME MadeInv, NEW s
    PROVE  Cardinality({a \in Tagged(s) : tenant[a].made}) <= 1
<1> DEFINE T == {a \in Tagged(s) : tenant[a].made}
<1>1. \A a, b \in T : a = b
  BY DEF MadeInv, Tagged
<1>2. Cardinality(T) <= 1
  <2> HIDE DEF T
  <2>1. CASE T = {}
    BY <2>1, FS_EmptySet
  <2>2. CASE T # {}
    <3>1. PICK a : T = {a}
      BY <1>1, <2>2
    <3>2. Cardinality({a}) = 1
      BY FS_Singleton
    <3> QED  BY <3>1, <3>2
  <2> QED  BY <2>1, <2>2
<1> QED  BY <1>2

\* Pass 1 and the secret loop: a source has at most one live app of the
\* restore's making, and the run never loses count of the secrets an app it
\* adopts or wires has been issued.
THEOREM SecretsInvariance ==
    Spec => [](MadeInv /\ SecretsInv)
<1> DEFINE Inv == MadeInv /\ SecretsInv
<1>1. Init => Inv
  BY DEF Init, MadeInv, SecretsInv, IssuedInv, CandidateInv, UnwiredInv, WiredInv, Checking
<1>2. BaseInv /\ Inv /\ [Next]_vars => Inv'
  <2> SUFFICES ASSUME BaseInv, MadeInv, SecretsInv, [Next]_vars PROVE MadeInv' /\ SecretsInv'
    OBVIOUS
  <2>1. MadeInv'
    BY MadeKept
  <2>2. IssuedInv'
    BY IssuedKept DEF IssuedInv
  <2>3. CandidateInv' /\ UnwiredInv' /\ WiredInv'
    BY CandidateKept, UnwiredKept, WiredKept
  <2> QED  BY <2>1, <2>2, <2>3 DEF SecretsInv
<1> QED  BY <1>1, <1>2, BaseInvariance, PTL DEF Spec

\* Pass 1 and the secret loop: however often the backup is run again, after
\* lost answers, crashes and cancels, no app registration is created a second
\* time while the first is there, and no app holds more secrets of a name than
\* the backup lists.
THEOREM RerunsRepeatNothing ==
    Spec => []RerunRepeatsNothing
<1>1. MadeInv /\ SecretsInv => RerunRepeatsNothing
  BY OneMade DEF RerunRepeatsNothing, SecretsInv, IssuedInv
<1> QED  BY <1>1, SecretsInvariance, PTL

-----------------------------------------------------------------------------
(* ForeignIsLeftAlone.                                                     *)

\* The app's source is before the n-th of the backup.
Passed(a, n) == \E j \in DOMAIN manifest.apps : j < n /\ tenant[a].src = manifest.apps[j]

\* In Pass 1 the run writes to, and remembers as changed, only apps whose
\* source it has come to.
PassedInv ==
    /\ touched \subseteq DOMAIN tenant /\ dirty \subseteq DOMAIN tenant
    /\ at = "classify" => touched = {} /\ dirty = {}
    /\ at \in {"lookup", "create"} \cup Checking => \A a \in touched : Passed(a, pos)
    /\ at = "ensure" => \A a \in touched : Passed(a, pos + 1)
    /\ at = "lookup" => \A a \in dirty : Passed(a, pos)
    /\ at \in {"create", "ensure"} \cup Checking => \A a \in dirty : Passed(a, pos + 1)

\* A changed candidate still has to fail a check, unless it is gone or its
\* clients will tell.
HitInv ==
    at \in Checking /\ hit.id \in dirty =>
        \/ ~ tenant[hit.id].there
        \/ Stranger \in hit.pre
        \/ at = "owners" /\ tenant[hit.id].marks \cap {"owner", "fic", "principal"} # {}
        \/ at = "fics" /\ tenant[hit.id].marks \cap {"fic", "principal"} # {}
        \/ at = "principal" /\ "principal" \in tenant[hit.id].marks

\* Where the adoptions are not settled, and where they are and writes go on.
Unsettled == {"lookup", "create", "ensure", "settle"} \cup Checking
Settled == {"take", "wire", "consent", "grant", "ents", "settings", "role", "group"}

\* A changed app has an entry only while that is pending, or if it is gone.
CleanInv ==
    /\ \A i \in DOMAIN created :
         created[i].id \in dirty /\ tenant[created[i].id].there =>
            /\ at \in Unsettled => created[i].pending /\ Stranger \in created[i].pre
            /\ at \notin Settled
    /\ at = "ensure" => ~ created[Len(created)].pending

\* The remap is that of the entries that are not refused.
RefusedInv ==
    /\ refused = [apps |-> refused.apps, again |-> refused.again]
    /\ \A s \in DOMAIN remap : \E i \in DOMAIN created : created[i].src = s /\ created[i].id = remap[s]
    /\ at \in {"classify", "lookup", "create", "ensure"} \cup Checking => refused.apps = {}
    /\ at = "settle" => DOMAIN remap \cap refused.apps = {}

\* A round that refuses nobody has found no foreign client so far.
RoundInv ==
    /\ at = "settle" /\ ~ refused.again =>
         \A i \in DOMAIN created :
            i < pos /\ created[i].pending /\ created[i].src \notin refused.apps =>
                foreign_pre_authorized(created[i]) = {}
    /\ at \in {"take", "wire"} =>
         \A i \in DOMAIN created : created[i].pending => foreign_pre_authorized(created[i]) = {}

ForeignInv ==
    PassedInv /\ HitInv /\ CleanInv /\ RefusedInv /\ RoundInv /\ touched \cap dirty = {}

\* Nobody brings an app back, or takes a mark away.
LEMMA TenantKeeps ==
    ASSUME BaseInv, [Next]_vars, NEW a \in DOMAIN tenant
    PROVE  /\ a \in DOMAIN tenant' /\ tenant'[a].src = tenant[a].src
           /\ tenant'[a].there => tenant[a].there
           /\ tenant[a].marks \subseteq tenant'[a].marks
<1>0. TypeInv
  BY DEF BaseInv
<1>1. ASSUME NEW b, NEW F, OneAltered(b, F)
      PROVE  /\ a \in DOMAIN tenant' /\ tenant'[a].src = tenant[a].src
             /\ tenant'[a].there => tenant[a].there
             /\ tenant[a].marks \subseteq tenant'[a].marks
  <2>1. a \in DOMAIN tenant' /\ Alters(tenant[a], tenant'[a], F)
    BY <1>0, <1>1, AlteredGrows
  <2> QED  BY <2>1 DEF Alters
<1>2. ASSUME NEW app \in AppRecs, tenant' = Append(tenant, app)
      PROVE  a \in DOMAIN tenant' /\ tenant'[a] = tenant[a]
  BY <1>0, <1>2, AppendGrows
<1>3. CASE SecretStep
  BY <1>1, <1>3, SecretEffect
<1>4. CASE Source \in Apps /\ tenant' = Append(tenant, NewApp(Source))
  BY <1>2, <1>4, NewAppFacts
<1>5. ASSUME NEW s \in Apps, tenant' = Append(tenant, Planted(s))
      PROVE  a \in DOMAIN tenant' /\ tenant'[a] = tenant[a]
  BY <1>2, <1>5, PlantedFacts
<1> QED  BY <1>1, <1>3, <1>4, <1>5, TenantStep

\* The steps that change which entries there are, or the remap.
LEMMA EntriesStep ==
    ASSUME BaseInv, [Next]_vars,
           ~ Begin, ~ CheckPrincipal, ~ Create, ~ EndLoop, ~ JudgePending, ~ EndRound
    PROVE  SameEntries /\ remap' = remap /\ refused' = refused
<1>1. CASE Classify \/ Lookup \/ CheckOwners \/ CheckFics \/ EndTake
  <2>1. created' = created /\ remap' = remap /\ refused' = refused
    BY <1>1 DEF Classify, Lookup, CheckOwners, CheckFics, EndTake, Refuse
  <2> QED  BY <2>1, QuietFacts
<1>2. CASE Ensure
  <2>1. /\ EnsurePrincipal(Len(created)) /\ Len(created) \in DOMAIN created
        /\ remap' = remap /\ refused' = refused
    BY <1>2 DEF Ensure, BaseInv, TypeInv, PlaceInv
  <2> QED  BY <2>1, EnsureEffect DEF BaseInv
<1>3. CASE TakePending
  BY <1>3, TakeEffect DEF TakePending
<1>4. CASE SecretStep
  BY <1>4, SecretEffect DEF SecretStep
<1>5. CASE NextWire \/ SkipStep \/ PatchStep \/ ReadStep \/ FicStep \/ OwnerStep \/ EndWire
  <2>1. created' = created /\ remap' = remap /\ refused' = refused
    BY <1>5 DEF NextWire, SkipStep, PatchStep, ReadStep, FicStep, OwnerStep, EndWire
  <2> QED  BY <2>1, QuietFacts
<1>6. CASE Pass3 \/ Pass4
  <2>1. created' = created /\ remap' = remap /\ refused' = refused
    BY <1>6 DEF Pass3, NextConsent, Reread, Grant, Pass4, NextEnt, ApplySettings, AssignRole, JoinGroup
  <2> QED  BY <2>1, QuietFacts
<1>7. CASE Pass5 \/ Crash \/ UNCHANGED vars
  <2>1. created' = created /\ remap' = remap /\ refused' = refused
    BY <1>7 DEF Pass5, ListIdentities, Rebind, Finish, Crash, locals, vars
  <2> QED  BY <2>1, QuietFacts
<1>8. CASE Around
  <2>1. locals' = locals
    BY <1>8, AroundEffect DEF BaseInv
  <2>2. created' = created /\ remap' = remap /\ refused' = refused
    BY <2>1 DEF locals
  <2> QED  BY <2>2, QuietFacts
<1> QED  BY <1>1, <1>2, <1>3, <1>4, <1>5, <1>6, <1>7, <1>8, NextCases DEF Pass1, Pass2

\* The stages follow one another.
LEMMA StageStep ==
    ASSUME BaseInv, [Next]_vars
    PROVE  /\ at' = "classify" => Begin \/ at = "classify"
           /\ at' \in {"lookup", "create", "ensure"} \cup Checking =>
                Classify \/ at \in {"lookup", "create", "ensure"} \cup Checking
           /\ at' = "ensure" => at = "ensure" \/ CheckPrincipal \/ Create
           /\ at' = "settle" => at = "settle" \/ EndLoop
           /\ at' \in Settled => at \in Settled \/ EndRound
           /\ at' \in {"take", "wire"} => at \in {"take", "wire"} \/ EndRound
<1>1. CASE Begin \/ Classify \/ EndLoop \/ JudgePending \/ EndRound \/ TakePending \/ EndTake
  BY <1>1 DEF Begin, Classify, EndLoop, JudgePending, EndRound, TakePending, EndTake, Checking, Settled
<1>2. CASE Lookup \/ CheckOwners \/ CheckFics
  BY <1>2 DEF Lookup, CheckOwners, CheckFics, Refuse, NextApp, Checking, Settled
<1>3. CASE CheckPrincipal \/ Create \/ Ensure
  BY <1>3 DEF CheckPrincipal, Create, Ensure, Refuse, NextApp, Keep, Checking, Settled
<1>4. CASE Pass2
  BY <1>4 DEF Pass2, NextWire, SkipStep, PatchStep, ReadStep, FicStep, OwnerStep, SecretStep, EndWire, Wiring,
     Checking, Settled
<1>5. CASE Pass3 \/ Pass4
  BY <1>5 DEF Pass3, NextConsent, Reread, Grant, Pass4, NextEnt, ApplySettings, AssignRole, JoinGroup, Checking, Settled
<1>6. CASE Pass5 \/ Crash
  BY <1>6 DEF Pass5, ListIdentities, Rebind, Finish, Crash, Checking, Settled
<1>7. CASE Around \/ UNCHANGED vars
  <2>1. at' = at
    BY <1>7, AroundEffect DEF BaseInv, vars
  <2> QED  BY <2>1
<1> QED  BY <1>1, <1>2, <1>3, <1>4, <1>5, <1>6, <1>7, NextCases DEF Pass1

\* What a step writes to.
LEMMA TouchStep ==
    ASSUME BaseInv, [Next]_vars
    PROVE  \/ touched' = touched
           \/ touched' = {} /\ dirty' = {}
           \/ Create /\ Source \in Apps /\ tenant' = Append(tenant, NewApp(Source)) /\ touched' = touched \cup {Len(tenant')}
           \/ \E i \in DOMAIN created :
                /\ tenant[created[i].id].there /\ touched' = touched \cup {created[i].id}
                /\ \/ at \in {"take", "wire", "grant"}
                   \/ at = "ensure" /\ i = Len(created)
           \/ /\ at \in {"settings", "role", "group"} /\ Ent \in DOMAIN remap /\ tenant[EntApp].there
              /\ touched' = touched \cup {EntApp}
<1>1. CASE \/ Classify \/ EndLoop \/ Lookup \/ CheckOwners \/ CheckFics \/ CheckPrincipal \/ JudgePending
           \/ EndRound \/ EndTake
  BY <1>1 DEF Classify, EndLoop, Lookup, CheckOwners, CheckFics, CheckPrincipal, JudgePending, EndRound, EndTake
<1>2. CASE Begin \/ Crash
  BY <1>2 DEF Begin, Crash
<1>3. CASE \/ NextWire \/ SkipStep \/ ReadStep \/ EndWire \/ NextConsent \/ Reread \/ NextEnt
           \/ ListIdentities \/ Rebind \/ Finish \/ UNCHANGED vars
  BY <1>3 DEF NextWire, SkipStep, ReadStep, EndWire, NextConsent, Reread, NextEnt,
     ListIdentities, Rebind, Finish, vars
<1>4. CASE Create
  BY <1>4, CreateEffect
<1>5. CASE Ensure
  <2>1. /\ EnsurePrincipal(Len(created)) /\ Len(created) \in DOMAIN created /\ at = "ensure"
    BY <1>5 DEF Ensure, BaseInv, TypeInv, PlaceInv
  <2>2. Touches(created[Len(created)].id)
    BY <2>1, EnsureEffect DEF BaseInv
  <2> QED  BY <2>1, <2>2 DEF Touches
<1>6. CASE TakePending
  BY <1>6, TakeEffect DEF TakePending, Touches
<1>7. CASE PatchStep \/ FicStep \/ OwnerStep \/ SecretStep
  <2>1. Touches(Entry.id)
    BY <1>7, PatchEffect, FicEffect, OwnerEffect, SecretEffect
  <2>2. at = "wire" /\ pos <= Len(created)
    BY <1>7 DEF PatchStep, FicStep, OwnerStep, SecretStep, Wiring, BaseInv, PlaceInv
  <2>3. pos \in DOMAIN created
    BY <2>2, EntryFacts DEF BaseInv
  <2> QED  BY <2>1, <2>2, <2>3 DEF Touches, Entry
<1>8. CASE Grant
  <2>1. Touches(Entry.id) /\ at = "grant" /\ pos <= Len(created)
    BY <1>8, GrantEffect DEF Grant, BaseInv, PlaceInv
  <2>2. pos \in DOMAIN created
    BY <2>1, EntryFacts DEF BaseInv
  <2> QED  BY <2>1, <2>2 DEF Touches, Entry
<1>9. CASE ApplySettings \/ AssignRole \/ JoinGroup
  <2>1. Touches(EntApp) /\ at \in {"settings", "role", "group"}
    BY <1>9, SettingsEffect, RoleEffect, GroupEffect DEF ApplySettings, AssignRole, JoinGroup
  <2>2. Ent \in DOMAIN remap
    BY <2>1 DEF BaseInv, PlaceInv
  <2> QED  BY <2>1, <2>2 DEF Touches
<1>10. CASE Around
  BY <1>10, AroundEffect DEF BaseInv
<1> QED  BY <1>1, <1>2, <1>3, <1>4, <1>5, <1>6, <1>7, <1>8, <1>9, <1>10, NextCases
         DEF Pass1, Pass2, Pass3, Pass4, Pass5

\* Only a lookup remembers an app as changed.
LEMMA DirtyStep ==
    ASSUME BaseInv, [Next]_vars
    PROVE  \/ dirty' = dirty
           \/ touched' = {} /\ dirty' = {} /\ at' \in {"classify", "idle"}
           \/ /\ Lookup
              /\ dirty' = dirty \cup {a \in Tagged(Source) : tenant[a].marks # {} \/ Stranger \in tenant[a].pre}
<1>1. CASE Lookup
  BY <1>1 DEF Lookup
<1>2. CASE Begin \/ Crash
  BY <1>2 DEF Begin, Crash
<1>3. CASE \/ Classify \/ EndLoop \/ CheckOwners \/ CheckFics \/ CheckPrincipal \/ Create \/ Ensure \/ JudgePending
           \/ EndRound \/ TakePending \/ EndTake
  BY <1>3 DEF Classify, EndLoop, CheckOwners, CheckFics, CheckPrincipal, Create, Ensure, JudgePending, EndRound,
     TakePending, EndTake, history
<1>4. CASE Pass2
  BY <1>4 DEF Pass2, NextWire, SkipStep, PatchStep, ReadStep, FicStep, OwnerStep, SecretStep, EndWire, history
<1>5. CASE Pass3 \/ Pass4
  BY <1>5 DEF Pass3, NextConsent, Reread, Grant, Pass4, NextEnt, ApplySettings, AssignRole, JoinGroup, history
<1>6. CASE Pass5 \/ UNCHANGED vars
  BY <1>6 DEF Pass5, ListIdentities, Rebind, Finish, vars, history
<1>7. CASE Around
  BY <1>7, AroundEffect DEF BaseInv
<1> QED  BY <1>1, <1>2, <1>3, <1>4, <1>5, <1>6, <1>7, NextCases DEF Pass1

\* The steps that keep an app make one entry.
LEMMA KeepCases ==
    ASSUME BaseInv, CheckPrincipal \/ Create
    PROVE  /\ at \in {"create", "principal"}
           /\ \/ created' = created /\ remap' = remap /\ at' = "lookup" /\ pos' = pos + 1
              \/ \E a, adopted, secrets, pre : Keep(a, adopted, secrets, pre)
           /\ refused' = refused
<1>1. CASE CheckPrincipal
  BY <1>1 DEF CheckPrincipal, Refuse, NextApp
<1>2. CASE Create
  <2>1. at = "create" /\ refused' = refused
    BY <1>2 DEF Create
  <2> QED  BY <1>2, <2>1, CreateEffect DEF NextApp
<1> QED  BY <1>1, <1>2

LEMMA RefusedKept ==
    ASSUME BaseInv, RefusedInv, [Next]_vars
    PROVE  RefusedInv'
<1> DEFINE Early == {"classify", "lookup", "create", "ensure"} \cup Checking
           Known == \A s \in DOMAIN remap : \E i \in DOMAIN created : created[i].src = s /\ created[i].id = remap[s]
<1>0. Known /\ (at \in Early => refused.apps = {}) /\ (at = "settle" => DOMAIN remap \cap refused.apps = {})
  BY DEF RefusedInv
<1>1. CASE Begin
  <2>1. /\ remap' = <<>> /\ refused' = [apps |-> {}, again |-> FALSE]
    BY <1>1 DEF Begin
  <2> QED  BY <2>1 DEF RefusedInv
<1>2. CASE CheckPrincipal \/ Create
  <2>1. /\ at \in {"create", "principal"} /\ refused' = refused /\ refused.apps = {}
    BY <1>2, KeepCases DEF RefusedInv, Checking
  <2>2. CASE created' = created /\ remap' = remap
    BY <2>1, <2>2 DEF RefusedInv
  <2>3. ASSUME NEW a, NEW adopted, NEW secrets, NEW pre, Keep(a, adopted, secrets, pre)
        PROVE  RefusedInv'
    <3>1. /\ DOMAIN created' = DOMAIN created \cup {Len(created) + 1}
          /\ \A i \in DOMAIN created : created'[i] = created[i]
          /\ created'[Len(created) + 1].src = Source /\ created'[Len(created) + 1].id = a
          /\ remap' = [s \in DOMAIN remap \cup {Source} |-> IF s = Source THEN a ELSE remap[s]]
      BY <2>3, KeepEffect DEF BaseInv
    <3>2. Known'
      <4> SUFFICES ASSUME NEW s \in DOMAIN remap'
                   PROVE  \E i \in DOMAIN created' : created'[i].src = s /\ created'[i].id = remap'[s]
        OBVIOUS
      <4>1. CASE s = Source
        <5>1. remap'[s] = a
          BY <3>1, <4>1
        <5> QED  BY <3>1, <4>1, <5>1
      <4>2. CASE s # Source
        <5>1. s \in DOMAIN remap /\ remap'[s] = remap[s]
          BY <3>1, <4>2
        <5>2. PICK i \in DOMAIN created : created[i].src = s /\ created[i].id = remap[s]
          BY <1>0, <5>1
        <5> QED  BY <3>1, <5>1, <5>2
      <4> QED  BY <4>1, <4>2
    <3> QED  BY <2>1, <3>2 DEF RefusedInv
  <2> QED  BY <1>2, <2>2, <2>3, KeepCases
<1>3. CASE EndLoop
  <2>1. at = "lookup" /\ at' = "settle" /\ created' = created
    BY <1>3 DEF EndLoop
  <2>2. CASE refused' = refused /\ remap' = remap
    BY <1>0, <2>1, <2>2 DEF RefusedInv, Checking
  <2>3. CASE /\ refused' = [apps |-> {c.src : c \in {d \in ToSet(created) : d.pending}}, again |-> FALSE]
             /\ remap' = [s \in DOMAIN remap \ refused'.apps |-> remap[s]]
    <3>1. DOMAIN remap' \cap refused'.apps = {} /\ \A s \in DOMAIN remap' : s \in DOMAIN remap /\ remap'[s] = remap[s]
      BY <2>3
    <3>2. refused' = [apps |-> refused'.apps, again |-> refused'.again]
      BY <2>3
    <3> QED  BY <1>0, <2>1, <3>1, <3>2 DEF RefusedInv, Checking
  <2> QED  BY <1>3, <2>2, <2>3 DEF EndLoop
<1>4. CASE JudgePending
  <2>1. at = "settle" /\ at' = "settle" /\ created' = created
    BY <1>4 DEF JudgePending
  <2>2. CASE refused' = refused /\ remap' = remap
    BY <2>1, <2>2 DEF RefusedInv
  <2>3. CASE /\ refused' = [apps |-> refused.apps \cup {created[pos].src}, again |-> TRUE]
             /\ remap' = [s \in DOMAIN remap \ {created[pos].src} |-> remap[s]]
    <3>1. /\ DOMAIN remap' \cap refused'.apps = {}
          /\ \A s \in DOMAIN remap' : s \in DOMAIN remap /\ remap'[s] = remap[s]
          /\ refused' = [apps |-> refused'.apps, again |-> refused'.again]
      BY <1>0, <2>1, <2>3
    <3> QED  BY <1>0, <2>1, <3>1 DEF RefusedInv, Checking
  <2> QED  BY <1>4, <2>2, <2>3 DEF JudgePending
<1>5. CASE EndRound
  <2>1. at = "settle" /\ remap' = remap
    BY <1>5 DEF EndRound
  <2>2. CASE at' = at /\ created' = created /\ refused' = [refused EXCEPT !.again = FALSE]
    <3>1. refused' = [apps |-> refused.apps, again |-> FALSE]
      BY <2>2 DEF RefusedInv
    <3> QED  BY <1>0, <2>1, <2>2, <3>1 DEF RefusedInv, Checking
  <2>3. CASE at' = "take" /\ refused' = refused
             /\ Retain({i \in DOMAIN created : created[i].src \notin refused.apps})
    <3> DEFINE kept == {i \in DOMAIN created : created[i].src \notin refused.apps}
    <3>1. PICK index \in [DOMAIN created' -> kept] :
            /\ \A i \in DOMAIN created' : created'[i] = created[index[i]]
            /\ \A k \in kept : \E i \in DOMAIN created' : index[i] = k
      <4>1. TypeInv /\ kept \in SUBSET (DOMAIN created) /\ Retain(kept)
        BY <2>3 DEF BaseInv
      <4> HIDE DEF kept
      <4> QED  BY <4>1, RetainEffect
    <3>2. Known'
      <4> SUFFICES ASSUME NEW s \in DOMAIN remap
                   PROVE  \E i \in DOMAIN created' : created'[i].src = s /\ created'[i].id = remap[s]
        BY <2>1
      <4>1. PICK j \in DOMAIN created : created[j].src = s /\ created[j].id = remap[s]
        BY <1>0
      <4>2. j \in kept
        BY <1>0, <2>1, <4>1
      <4> QED  BY <3>1, <4>1, <4>2
    <3> QED  BY <2>3, <3>2 DEF RefusedInv, Checking
  <2> QED  BY <1>5, <2>2, <2>3 DEF EndRound
<1>6. CASE ~ Begin /\ ~ CheckPrincipal /\ ~ Create /\ ~ EndLoop /\ ~ JudgePending /\ ~ EndRound
  <2>1. SameEntries /\ remap' = remap /\ refused' = refused
    BY <1>6, EntriesStep
  <2>2. Known'
    BY <1>0, <2>1 DEF SameEntries
  <2>3. (at' \in Early => at \in Early) /\ (at' = "settle" => at = "settle")
    BY <1>6, StageStep DEF Classify
  <2> QED  BY <2>1, <2>2, <2>3 DEF RefusedInv
<1> QED  BY <1>1, <1>2, <1>3, <1>4, <1>5, <1>6

\* What Pass 2 would write is judged again only when the remap changes.
LEMMA RoundKept ==
    ASSUME BaseInv, RoundInv, RefusedInv, [Next]_vars
    PROVE  RoundInv'
<1>1. manifest' = manifest
  BY ManifestStays
<1>2. CASE at' \notin {"settle", "take", "wire"}
  BY <1>2 DEF RoundInv
<1>3. CASE EndLoop
  <2>1. at' = "settle" /\ pos' = 1 /\ created' = created
    BY <1>3 DEF EndLoop
  <2>2. \A i \in DOMAIN created : ~ (i < 1)
    BY DEF BaseInv, TypeInv
  <2> QED  BY <2>1, <2>2 DEF RoundInv
<1>4. CASE JudgePending
  <2>1. at = "settle" /\ at' = "settle" /\ pos' = pos + 1 /\ created' = created /\ pos \in Nat
    BY <1>4 DEF JudgePending, BaseInv, TypeInv
  <2>2. CASE refused'.again
    BY <2>1, <2>2 DEF RoundInv
  <2>3. CASE ~ refused'.again
    <3>1. /\ refused' = refused /\ remap' = remap
          /\ created[pos].pending /\ created[pos].src \notin refused.apps => foreign_pre_authorized(created[pos]) = {}
      BY <1>4, <2>3 DEF JudgePending
    <3>2. ASSUME NEW i \in DOMAIN created, i < pos + 1, created[i].pending, created[i].src \notin refused.apps
          PROVE  foreign_pre_authorized(created[i]) = {}
      <4>1. i \in Nat /\ (i < pos \/ i = pos)
        BY <2>1, <3>2 DEF BaseInv, TypeInv
      <4> QED  BY <2>1, <2>3, <3>1, <3>2, <4>1 DEF RoundInv
    <3>3. \A i \in DOMAIN created : foreign_pre_authorized(created[i])' = foreign_pre_authorized(created[i])
      BY <1>1, <2>1, <3>1 DEF foreign_pre_authorized, plan_pre_authorized, LeftOut, Apps
    <3> QED  BY <2>1, <3>1, <3>2, <3>3 DEF RoundInv
  <2> QED  BY <2>2, <2>3
<1>5. CASE EndRound
  <2>1. at = "settle" /\ remap' = remap /\ pos' = 1 /\ pos > Len(created) /\ pos \in Nat /\ Len(created) \in Nat
    BY <1>5 DEF EndRound, BaseInv, TypeInv
  <2>2. CASE at' = at /\ created' = created
    <3>1. \A i \in DOMAIN created : ~ (i < 1)
      BY DEF BaseInv, TypeInv
    <3> QED  BY <2>1, <2>2, <3>1 DEF RoundInv
  <2>3. CASE /\ at' = "take" /\ ~ refused.again
             /\ Retain({i \in DOMAIN created : created[i].src \notin refused.apps})
    <3> DEFINE kept == {i \in DOMAIN created : created[i].src \notin refused.apps}
    <3>1. PICK index \in [DOMAIN created' -> kept] :
            \A i \in DOMAIN created' : created'[i] = created[index[i]]
      BY <2>3, RetainEffect DEF BaseInv
    <3>2. ASSUME NEW i \in DOMAIN created', created'[i].pending
          PROVE  foreign_pre_authorized(created[index[i]]) = {}
      <4>1. index[i] \in DOMAIN created /\ created[index[i]].src \notin refused.apps /\ created[index[i]].pending
        BY <3>1, <3>2
      <4>2. index[i] < pos
        BY <2>1, <4>1 DEF BaseInv, TypeInv
      <4> QED  BY <2>1, <2>3, <4>1, <4>2 DEF RoundInv
    <3>3. \A i \in DOMAIN created' : foreign_pre_authorized(created[i])' = foreign_pre_authorized(created[index[i]])
      BY <1>1, <2>1, <3>1 DEF foreign_pre_authorized, plan_pre_authorized, LeftOut, Apps
    <3> QED  BY <2>3, <3>2, <3>3 DEF RoundInv
  <2> QED  BY <1>5, <2>2, <2>3 DEF EndRound, AnotherRound
<1>6. CASE at' \in {"settle", "take", "wire"} /\ ~ EndLoop /\ ~ JudgePending /\ ~ EndRound
  <2>1. ~ Begin /\ ~ CheckPrincipal /\ ~ Create /\ (at' = "settle" => at = "settle")
        /\ (at' \in {"take", "wire"} => at \in {"take", "wire"})
    BY <1>6, StageStep, KeepCases, KeepEffect DEF Begin, BaseInv
  <2>2. SameEntries /\ remap' = remap /\ refused' = refused
    BY <1>6, <2>1, EntriesStep
  <2>3. \A i \in DOMAIN created : foreign_pre_authorized(created[i])' = foreign_pre_authorized(created[i])
    BY <1>1, <2>2 DEF SameEntries, foreign_pre_authorized, plan_pre_authorized, LeftOut, Apps
  <2>4. at = "settle" /\ at' = "settle" => pos' = pos
    <3>1. CASE Around \/ UNCHANGED vars
      BY <3>1, AroundEffect DEF BaseInv, vars, locals
    <3>2. CASE at = "settle" /\ at' = "settle" /\ ~ Around /\ ~ UNCHANGED vars
      BY <1>6, <3>2, NextCases DEF Begin, Classify, Pass1, Lookup, CheckOwners, CheckFics, CheckPrincipal, Create, Ensure,
         TakePending, EndTake, Pass2, NextWire, SkipStep, PatchStep, ReadStep, FicStep, OwnerStep, SecretStep, EndWire,
         Wiring, Pass3, NextConsent, Reread, Grant, Pass4, NextEnt, ApplySettings, AssignRole, JoinGroup, Pass5, ListIdentities, Rebind,
         Finish, Crash
    <3> QED  BY <3>1, <3>2
  <2> QED  BY <2>1, <2>2, <2>3, <2>4 DEF RoundInv, SameEntries
<1> QED  BY <1>2, <1>3, <1>4, <1>5, <1>6

LEMMA PassedOn ==
    ASSUME BaseInv, [Next]_vars, NEW a \in DOMAIN tenant, NEW n \in Nat, NEW m \in Nat, n <= m, Passed(a, n)
    PROVE  \E j \in DOMAIN manifest'.apps : j < m /\ tenant'[a].src = manifest'.apps[j]
<1>1. manifest' = manifest /\ tenant'[a].src = tenant[a].src
  BY ManifestStays, TenantKeeps
<1>2. PICK j \in DOMAIN manifest.apps : j < n /\ tenant[a].src = manifest.apps[j]
  BY DEF Passed
<1>3. j \in Nat /\ j < m
  BY <1>2, ManifestFacts DEF BaseInv, TypeInv
<1> QED  BY <1>1, <1>2, <1>3

\* An app of the source the run is at has not been passed.
LEMMA NotPassed ==
    ASSUME BaseInv, pos <= Len(manifest.apps), NEW a, Passed(a, pos)
    PROVE  tenant[a].src # Source
<1>1. PICK j \in DOMAIN manifest.apps : j < pos /\ tenant[a].src = manifest.apps[j]
  BY DEF Passed
<1>2. pos \in DOMAIN manifest.apps /\ j \in Nat /\ pos \in Nat
  BY ManifestFacts DEF BaseInv, TypeInv
<1>3. manifest.apps[j] # manifest.apps[pos]
  BY <1>1, <1>2, ManifestFacts DEF BaseInv, TypeInv
<1> QED  BY <1>1, <1>3 DEF Source

LEMMA InTenant ==
    ASSUME BaseInv, PassedInv, [Next]_vars
    PROVE  touched' \subseteq DOMAIN tenant' /\ dirty' \subseteq DOMAIN tenant'
<1>1. \A a \in DOMAIN tenant : a \in DOMAIN tenant'
  BY TenantKeeps
<1>2. touched' \subseteq DOMAIN tenant'
  <2>1. CASE Source \in Apps /\ tenant' = Append(tenant, NewApp(Source)) /\ touched' = touched \cup {Len(tenant')}
    <3>1. Len(tenant') \in DOMAIN tenant'
      BY <2>1, NewAppFacts, AppendGrows DEF BaseInv
    <3> QED  BY <1>1, <2>1, <3>1 DEF PassedInv
  <2>2. ASSUME NEW i \in DOMAIN created, touched' = touched \cup {created[i].id}
        PROVE  touched' \subseteq DOMAIN tenant'
    BY <1>1, <2>2 DEF PassedInv, BaseInv, EntriesInv
  <2>3. CASE Ent \in DOMAIN remap /\ touched' = touched \cup {EntApp}
    BY <1>1, <2>3, EntFacts DEF PassedInv, BaseInv
  <2>4. CASE touched' = touched \/ touched' = {}
    BY <1>1, <2>4 DEF PassedInv
  <2> QED  BY <2>1, <2>2, <2>3, <2>4, TouchStep
<1>3. dirty' \subseteq DOMAIN tenant'
  BY <1>1, DirtyStep DEF PassedInv, Tagged
<1> QED  BY <1>2, <1>3

LEMMA PassedKept ==
    ASSUME BaseInv, PassedInv, [Next]_vars
    PROVE  PassedInv'
<1> DEFINE Early == {"lookup", "create", "ensure"} \cup Checking
           P(a, m) == \E j \in DOMAIN manifest'.apps : j < m /\ tenant'[a].src = manifest'.apps[j]
<1>0. pos \in Nat \ {0} /\ touched \subseteq DOMAIN tenant /\ dirty \subseteq DOMAIN tenant
  BY DEF BaseInv, TypeInv, PassedInv
<1>1. touched' \subseteq DOMAIN tenant' /\ dirty' \subseteq DOMAIN tenant'
  BY InTenant
<1>2. CASE at' \notin {"classify"} \cup Early
  BY <1>1, <1>2 DEF PassedInv, Checking
<1>3. CASE at' = "classify"
  <2>1. touched' = {} /\ dirty' = {}
    <3>1. CASE Begin
      BY <3>1 DEF Begin
    <3>2. CASE at = "classify"
      BY <3>2, TouchStep, DirtyStep DEF PassedInv, Create, Lookup
    <3> QED  BY <1>3, <3>1, <3>2, StageStep
  <2> QED  BY <1>1, <1>3, <2>1 DEF PassedInv, Checking
<1>4. CASE Classify
  <2>1. touched' = {} /\ dirty' = {}
    BY <1>4 DEF Classify, PassedInv, history
  <2> QED  BY <1>1, <2>1 DEF PassedInv
\* Where the run is in Pass 1 after the step, and how far it has come.
<1>5. ASSUME NEW n \in Nat, NEW d \in Nat,
             \A a \in touched' : P(a, n), \A a \in dirty' : P(a, d),
             at' \in {"lookup", "create"} \cup Checking => n <= pos',
             at' = "ensure" => n <= pos' + 1,
             at' = "lookup" => d <= pos',
             at' \in {"create", "ensure"} \cup Checking => d <= pos' + 1,
             pos' \in Nat, at' \in Early
      PROVE  PassedInv'
  <2>0. manifest' = manifest /\ \A j \in DOMAIN manifest.apps : j \in Nat
    BY ManifestStays, ManifestFacts DEF BaseInv, TypeInv
  <2>1. \A m, l \in Nat : \A a : P(a, l) /\ l <= m => P(a, m)
    BY <2>0
  <2>2. /\ at' \in {"lookup", "create"} \cup Checking => \A a \in touched' : P(a, pos')
        /\ at' = "ensure" => \A a \in touched' : P(a, pos' + 1)
        /\ at' = "lookup" => \A a \in dirty' : P(a, pos')
        /\ at' \in {"create", "ensure"} \cup Checking => \A a \in dirty' : P(a, pos' + 1)
    <3>1. pos' \in Nat
      BY <1>5
    <3>2. \A k \in Nat : k + 1 \in Nat
      OBVIOUS
    <3>3. pos' + 1 \in Nat
      BY <3>1, <3>2
    <3> HIDE DEF P
    <3> QED  BY <1>5, <2>1, <3>1, <3>3
  <2>3. at' # "classify"
    BY <1>5 DEF Checking
  <2> QED  BY <1>1, <2>2, <2>3 DEF PassedInv, Passed
<1>6. ASSUME NEW a \in DOMAIN tenant, NEW n \in Nat, Passed(a, n)
      PROVE  P(a, n)
  BY <1>6, PassedOn
<1>7. CASE Lookup
  <2>1. /\ at = "lookup" /\ touched' = touched /\ pos <= Len(manifest.apps)
        /\ dirty' = dirty \cup {a \in Tagged(Source) : tenant[a].marks # {} \/ Stranger \in tenant[a].pre}
    BY <1>7 DEF Lookup
  <2>2. \A a \in touched' : P(a, pos)
    BY <1>0, <1>6, <2>1 DEF PassedInv
  <2>3. \A a \in dirty : P(a, pos + 1)
    <3>1. \A a \in dirty : Passed(a, pos)
      BY <2>1 DEF PassedInv
    <3> QED  BY <1>0, <3>1, PassedOn
  <2>4. \A a \in Tagged(Source) : P(a, pos + 1)
    <3>1. pos \in DOMAIN manifest.apps
      BY <2>1, ManifestFacts DEF BaseInv, TypeInv
    <3>2. \A a \in Tagged(Source) : a \in DOMAIN tenant /\ tenant[a].src = manifest.apps[pos]
      BY DEF Tagged, Source
    <3>3. manifest' = manifest /\ \A a \in DOMAIN tenant : tenant'[a].src = tenant[a].src
      BY ManifestStays, TenantKeeps
    <3> QED  BY <1>0, <3>1, <3>2, <3>3
  <2>5. \/ at' = "lookup" /\ pos' = pos + 1
        \/ at' \in {"create", "owners"} /\ pos' = pos
    BY <1>7 DEF Lookup, Refuse, NextApp
  <2>6. \A a \in dirty' : P(a, pos + 1)
    BY <2>1, <2>3, <2>4
  <2> HIDE DEF P
  <2> QED  BY <1>0, <1>5, <2>2, <2>5, <2>6 DEF Checking
<1>8. CASE CheckOwners \/ CheckFics \/ CheckPrincipal
  <2>1. at \in Checking /\ touched' = touched /\ dirty' = dirty
    BY <1>8 DEF CheckOwners, CheckFics, CheckPrincipal, Checking, history
  <2>2. /\ \A a \in touched' : P(a, pos)
        /\ \A a \in dirty' : P(a, pos + 1)
    BY <1>0, <1>6, <2>1 DEF PassedInv
  <2>3. \/ at' \in {"lookup"} /\ pos' = pos + 1
        \/ at' \in {"fics", "principal", "ensure"} /\ pos' = pos
    BY <1>8 DEF CheckOwners, CheckFics, CheckPrincipal, Refuse, NextApp, Keep
  <2> HIDE DEF P
  <2> QED  BY <1>0, <1>5, <2>2, <2>3 DEF Checking
<1>9. CASE Create
  <2>1. at = "create" /\ dirty' = dirty
    BY <1>9 DEF Create, history
  <2>2. \/ at' \in {"lookup"} /\ pos' = pos + 1
        \/ at' = "ensure" /\ pos' = pos
    BY <1>9 DEF Create, NextApp, Keep
  <2>3. \A a \in dirty' : P(a, pos + 1)
    BY <1>0, <1>6, <2>1 DEF PassedInv
  <2>4. \A a \in touched : P(a, pos + 1)
    <3>1. \A a \in touched : Passed(a, pos)
      BY <2>1 DEF PassedInv
    <3> QED  BY <1>0, <3>1, PassedOn
  <2>5. \A a \in touched' : P(a, pos + 1)
    <3>1. CASE touched' = touched
      BY <2>4, <3>1
    <3>2. CASE tenant' = Append(tenant, NewApp(Source)) /\ touched' = touched \cup {Len(tenant')}
      <4>1. Source \in Apps /\ pos \in DOMAIN manifest.apps
        BY <1>9, CreateEffect
      <4>2. tenant'[Len(tenant')] = NewApp(Source) /\ NewApp(Source).src = Source
        BY <3>2, <4>1, NewAppFacts, AppendGrows DEF BaseInv
      <4>3. P(Len(tenant'), pos + 1)
        BY <1>0, <4>1, <4>2, ManifestStays DEF Source
      <4> QED  BY <2>4, <3>2, <4>3
    <3> QED  BY <1>9, <3>1, <3>2, CreateEffect
  <2> HIDE DEF P
  <2> QED  BY <1>0, <1>5, <2>2, <2>3, <2>5 DEF Checking
<1>10. CASE Ensure
  <2>1. at = "ensure" /\ dirty' = dirty /\ at' = "lookup" /\ pos' = pos + 1 /\ Len(created) \in DOMAIN created
    BY <1>10 DEF Ensure, NextApp, history, BaseInv, TypeInv, PlaceInv
  <2>2. (\A a \in dirty' : P(a, pos + 1)) /\ (\A a \in touched : P(a, pos + 1))
    BY <1>0, <1>6, <2>1 DEF PassedInv
  <2>3. EnsurePrincipal(Len(created))
    BY <1>10 DEF Ensure
  <2>4. Touches(created[Len(created)].id)
    BY <2>1, <2>3, EnsureEffect DEF BaseInv
  <2>5. /\ created[Len(created)].id \in DOMAIN tenant
        /\ tenant[created[Len(created)].id].src = created[Len(created)].src
        /\ \E j \in DOMAIN manifest.apps : j <= pos /\ created[Len(created)].src = manifest.apps[j]
    BY <2>1 DEF BaseInv, EntriesInv, OrderInv
  <2>6. Passed(created[Len(created)].id, pos + 1)
    <3>1. \A j \in DOMAIN manifest.apps : j \in Nat
      BY ManifestFacts DEF BaseInv, TypeInv
    <3>2. PICK j \in DOMAIN manifest.apps : j <= pos /\ created[Len(created)].src = manifest.apps[j]
      BY <2>5
    <3>3. j < pos + 1
      BY <1>0, <3>1, <3>2
    <3> QED  BY <2>5, <3>2, <3>3 DEF Passed
  <2>7. P(created[Len(created)].id, pos + 1)
    BY <1>0, <1>6, <2>5, <2>6
  <2>8. \A a \in touched' : P(a, pos + 1)
    BY <2>2, <2>4, <2>7 DEF Touches
  <2> HIDE DEF P
  <2> QED  BY <1>0, <1>5, <2>1, <2>2, <2>8 DEF Checking
<1>11. CASE at' \in Early /\ (Around \/ UNCHANGED vars)
  <2>1. at' = at /\ locals' = locals /\ touched' = touched /\ dirty' = dirty
    BY <1>11, AroundEffect DEF BaseInv, vars, history
  <2>2. pos' = pos
    BY <2>1 DEF locals
  <2>3. CASE at = "lookup"
    <3>1. (\A a \in touched' : P(a, pos)) /\ (\A a \in dirty' : P(a, pos))
      BY <1>0, <1>6, <2>1, <2>3 DEF PassedInv
    <3> HIDE DEF P
    <3> QED  BY <1>0, <1>5, <1>11, <2>1, <2>2, <2>3, <3>1 DEF Checking
  <2>4. CASE at \in {"create"} \cup Checking
    <3>1. (\A a \in touched' : P(a, pos)) /\ (\A a \in dirty' : P(a, pos + 1))
      BY <1>0, <1>6, <2>1, <2>4 DEF PassedInv
    <3> HIDE DEF P
    <3> QED  BY <1>0, <1>5, <1>11, <2>1, <2>2, <2>4, <3>1 DEF Checking
  <2>5. CASE at = "ensure"
    <3>1. (\A a \in touched' : P(a, pos + 1)) /\ (\A a \in dirty' : P(a, pos + 1))
      BY <1>0, <1>6, <2>1, <2>5 DEF PassedInv
    <3> HIDE DEF P
    <3> QED  BY <1>0, <1>5, <1>11, <2>1, <2>2, <2>5, <3>1 DEF Checking
  <2> QED  BY <1>11, <2>1, <2>3, <2>4, <2>5
<1>12. \/ at' \notin Early \/ Classify \/ Lookup \/ CheckOwners \/ CheckFics \/ CheckPrincipal \/ Create \/ Ensure
       \/ Around \/ UNCHANGED vars
  <2>1. CASE Begin \/ EndLoop \/ JudgePending \/ EndRound \/ TakePending \/ EndTake
    BY <2>1 DEF Begin, EndLoop, JudgePending, EndRound, TakePending, EndTake, Checking
  <2>2. CASE Pass2
    BY <2>2 DEF Pass2, NextWire, SkipStep, PatchStep, ReadStep, FicStep, OwnerStep, SecretStep, EndWire, Wiring, Checking
  <2>3. CASE Pass3 \/ Pass4 \/ Pass5 \/ Crash
    BY <2>3 DEF Pass3, NextConsent, Reread, Grant, Pass4, NextEnt, ApplySettings, AssignRole, JoinGroup, Pass5, ListIdentities, Rebind,
       Finish, Crash, Checking
  <2> QED  BY <2>1, <2>2, <2>3, NextCases DEF Pass1
<1> QED  BY <1>2, <1>3, <1>4, <1>7, <1>8, <1>9, <1>10, <1>11, <1>12

\* A candidate somebody changed does not get through the checks.
LEMMA HitKept ==
    ASSUME BaseInv, PassedInv, HitInv, [Next]_vars
    PROVE  HitInv'
<1>1. CASE at' \notin Checking
  BY <1>1 DEF HitInv
<1>2. CASE Lookup /\ at' \in Checking
  <2>1. /\ at = "lookup" /\ tenant' = tenant /\ pos <= Len(manifest.apps)
        /\ dirty' = dirty \cup {a \in Tagged(Source) : tenant[a].marks # {} \/ Stranger \in tenant[a].pre}
    BY <1>2 DEF Lookup, world
  <2>2. PICK a \in Tagged(Source) :
          /\ hit' = [id |-> a, pre |-> tenant[a].pre, secrets |-> LiveSecrets(a)]
          /\ "settings" \notin tenant[a].marks /\ at' = "owners"
    BY <1>2 DEF Lookup, Refuse, NextApp, Checking
  <2>3. hit'.id = a /\ hit'.pre = tenant[a].pre
    BY <2>2
  <2>4. a \notin dirty
    <3>1. a \in dirty => Passed(a, pos)
      BY <2>1 DEF PassedInv
    <3>2. tenant[a].src = Source
      BY DEF Tagged
    <3> QED  BY <2>1, <3>1, <3>2, NotPassed
  <2>5. a \in dirty' => tenant[a].marks # {} \/ Stranger \in tenant[a].pre
    BY <2>1, <2>4
  <2>6. tenant[a].marks \subseteq Marks
    BY TaggedFacts DEF BaseInv, AppRecs
  <2> QED  BY <2>1, <2>2, <2>3, <2>5, <2>6 DEF HitInv, Marks
<1>3. CASE (CheckOwners \/ CheckFics) /\ at' \in Checking
  <2>1. /\ at \in {"owners", "fics"} /\ tenant' = tenant /\ hit' = hit /\ dirty' = dirty
    BY <1>3 DEF CheckOwners, CheckFics, world, history
  <2>2. CASE CheckOwners
    <3>1. tenant[hit.id].there /\ "owner" \notin tenant[hit.id].marks /\ at = "owners" /\ at' = "fics"
      BY <1>3, <2>2 DEF CheckOwners, ReadAnswers, Refuse, NextApp, Checking
    <3> QED  BY <2>1, <3>1 DEF HitInv, Checking
  <2>3. CASE CheckFics
    <3>1. tenant[hit.id].there /\ "fic" \notin tenant[hit.id].marks /\ at = "fics" /\ at' = "principal"
      BY <1>3, <2>3 DEF CheckFics, ReadAnswers, Refuse, NextApp, Checking
    <3> QED  BY <2>1, <3>1 DEF HitInv, Checking
  <2> QED  BY <1>3, <2>2, <2>3
<1>4. CASE (Around \/ UNCHANGED vars) /\ at' \in Checking
  <2>1. at' = at /\ locals' = locals /\ dirty' = dirty
    BY <1>4, AroundEffect DEF BaseInv, vars, history
  <2>2. hit' = hit /\ at \in Checking
    BY <1>4, <2>1 DEF locals
  <2>3. hit.id \in DOMAIN tenant
    BY <2>2 DEF BaseInv, PlaceInv
  <2>4. (tenant'[hit.id].there => tenant[hit.id].there) /\ tenant[hit.id].marks \subseteq tenant'[hit.id].marks
    BY <2>3, TenantKeeps
  <2> QED  BY <2>1, <2>2, <2>4 DEF HitInv
<1>5. at' \notin Checking \/ Lookup \/ CheckOwners \/ CheckFics \/ Around \/ UNCHANGED vars
  <2>1. CASE Begin \/ Classify \/ EndLoop \/ JudgePending \/ EndRound \/ TakePending \/ EndTake
    BY <2>1 DEF Begin, Classify, EndLoop, JudgePending, EndRound, TakePending, EndTake, Checking
  <2>2. CASE CheckPrincipal \/ Create \/ Ensure
    BY <2>2 DEF CheckPrincipal, Create, Ensure, Refuse, NextApp, Keep, Checking
  <2>3. CASE Pass2
    BY <2>3 DEF Pass2, NextWire, SkipStep, PatchStep, ReadStep, FicStep, OwnerStep, SecretStep, EndWire, Wiring, Checking
  <2>4. CASE Pass3 \/ Pass4 \/ Pass5 \/ Crash
    BY <2>4 DEF Pass3, NextConsent, Reread, Grant, Pass4, NextEnt, ApplySettings, AssignRole, JoinGroup, Pass5, ListIdentities, Rebind,
       Finish, Crash, Checking
  <2> QED  BY <2>1, <2>2, <2>3, <2>4, NextCases DEF Pass1
<1> QED  BY <1>1, <1>2, <1>3, <1>4, <1>5

\* An entry a lookup does not touch stays clean.
LEMMA DirtyEntry ==
    ASSUME BaseInv, [Next]_vars, NEW i \in DOMAIN created, created[i].id \in dirty'
    PROVE  created[i].id \in dirty
<1>1. CASE Lookup
  <2>1. /\ at = "lookup" /\ pos <= Len(manifest.apps)
        /\ dirty' = dirty \cup {a \in Tagged(Source) : tenant[a].marks # {} \/ Stranger \in tenant[a].pre}
    BY <1>1 DEF Lookup
  <2>2. tenant[created[i].id].src = created[i].src
    BY DEF BaseInv, EntriesInv
  <2>3. PICK j \in DOMAIN manifest.apps : j < pos /\ created[i].src = manifest.apps[j]
    BY <2>1 DEF BaseInv, OrderInv
  <2>4. Passed(created[i].id, pos)
    BY <2>2, <2>3 DEF Passed
  <2>5. created[i].id \notin Tagged(Source)
    BY <2>1, <2>4, NotPassed DEF Tagged
  <2> QED  BY <2>1, <2>5
<1> QED  BY <1>1, DirtyStep

LEMMA CleanKept ==
    ASSUME BaseInv, ForeignInv, [Next]_vars
    PROVE  CleanInv'
<1> DEFINE Bad(i) == created[i].id \in dirty /\ tenant[created[i].id].there
<1>0. \A i \in DOMAIN created :
        created[i].id \in dirty' /\ tenant'[created[i].id].there => Bad(i)
  <2> SUFFICES ASSUME NEW i \in DOMAIN created, created[i].id \in dirty', tenant'[created[i].id].there
               PROVE  Bad(i)
    OBVIOUS
  <2>1. created[i].id \in DOMAIN tenant
    BY DEF BaseInv, EntriesInv
  <2> QED  BY <2>1, DirtyEntry, TenantKeeps
<1>1. CASE Begin \/ Classify
  <2>1. created' = <<>> /\ at' # "ensure"
    BY <1>1 DEF Begin, Classify, BaseInv, PlaceInv
  <2> QED  BY <2>1 DEF CleanInv
<1>2. ASSUME NEW a, NEW adopted, NEW secrets, NEW pre, Keep(a, adopted, secrets, pre),
             at \in Unsettled, a \in dirty' /\ tenant'[a].there => Stranger \in pre
      PROVE  CleanInv'
  <2>1. /\ DOMAIN created' = DOMAIN created \cup {Len(created) + 1} /\ Len(created') = Len(created) + 1
        /\ \A i \in DOMAIN created : created'[i] = created[i]
        /\ created'[Len(created) + 1].id = a /\ created'[Len(created) + 1].pre = pre
        /\ created'[Len(created) + 1].pending = (pre # {})
        /\ \/ at' = "ensure" /\ pos' = pos /\ pre = {}
           \/ at' = "lookup" /\ pos' = pos + 1
    BY <1>2, KeepEffect DEF BaseInv
  <2>2. ASSUME NEW i \in DOMAIN created', created'[i].id \in dirty', tenant'[created'[i].id].there
        PROVE  created'[i].pending /\ Stranger \in created'[i].pre
    <3>1. CASE i \in DOMAIN created
      <4>1. Bad(i)
        BY <1>0, <2>1, <2>2, <3>1
      <4> QED  BY <1>2, <2>1, <3>1, <4>1 DEF ForeignInv, CleanInv
    <3>2. CASE i = Len(created) + 1
      BY <1>2, <2>1, <2>2, <3>2
    <3> QED  BY <2>1, <3>1, <3>2
  <2>3. at' \notin Settled
    BY <2>1 DEF Settled
  <2>4. at' = "ensure" => ~ created'[Len(created')].pending
    BY <2>1
  <2> QED  BY <2>2, <2>3, <2>4 DEF CleanInv
<1>3. ASSUME SameEntries, at' \in Unsettled => at \in Unsettled, at' \in Settled => at \in Settled,
             at' = "ensure" => at = "ensure"
      PROVE  CleanInv'
  <2>1. ASSUME NEW i \in DOMAIN created', created'[i].id \in dirty', tenant'[created'[i].id].there
        PROVE  /\ at' \in Unsettled => created'[i].pending /\ Stranger \in created'[i].pre
               /\ at' \notin Settled
    <3>1. i \in DOMAIN created /\ created'[i].id = created[i].id /\ created'[i].pre = created[i].pre
          /\ created'[i].pending = created[i].pending
      BY <1>3 DEF SameEntries
    <3>2. Bad(i)
      BY <1>0, <2>1, <3>1
    <3> QED  BY <1>3, <3>1, <3>2 DEF ForeignInv, CleanInv
  <2>2. at' = "ensure" => ~ created'[Len(created')].pending
    <3> SUFFICES ASSUME at' = "ensure" PROVE ~ created'[Len(created')].pending
      OBVIOUS
    <3>1. Len(created) > 0 /\ Len(created') = Len(created) /\ Len(created) \in DOMAIN created
      BY <1>3 DEF SameEntries, BaseInv, TypeInv, PlaceInv
    <3> QED  BY <1>3, <3>1 DEF SameEntries, ForeignInv, CleanInv
  <2> QED  BY <2>1, <2>2 DEF CleanInv
<1>4. CASE CheckPrincipal
  <2>1. at \in Unsettled /\ at = "principal" /\ dirty' = dirty /\ tenant' = tenant
    BY <1>4 DEF CheckPrincipal, Unsettled, Checking, history, world
  <2>2. CASE created' = created /\ at' = "lookup"
    BY <1>3, <2>1, <2>2, QuietFacts DEF Settled
  <2>3. CASE Keep(hit.id, TRUE, hit.secrets, hit.pre) /\ ~ (tenant[hit.id].there /\ "principal" \in tenant[hit.id].marks)
    <3>1. hit.id \in dirty' /\ tenant'[hit.id].there => Stranger \in hit.pre
      BY <2>1, <2>3 DEF ForeignInv, HitInv, Checking
    <3> QED  BY <1>2, <2>1, <2>3, <3>1
  <2> QED  BY <1>4, <2>2, <2>3 DEF CheckPrincipal, Refuse, NextApp
<1>5. CASE Create
  <2>1. at \in Unsettled /\ dirty' = dirty
    BY <1>5 DEF Create, Unsettled, history
  <2>2. CASE created' = created /\ NextApp
    BY <1>3, <2>1, <2>2, QuietFacts DEF NextApp, Settled
  <2>3. CASE tenant' = Append(tenant, NewApp(Source)) /\ Keep(Len(tenant'), FALSE, [k \in Keys |-> 0], {})
    <3>1. Source \in Apps
      BY <1>5, CreateEffect
    <3>2. Len(tenant') = Len(tenant) + 1
      BY <2>3, <3>1, NewAppFacts, AppendGrows DEF BaseInv
    <3>3. Len(tenant) + 1 \notin DOMAIN tenant
      BY DEF BaseInv, TypeInv
    <3>4. Len(tenant') \notin dirty'
      BY <2>1, <3>2, <3>3 DEF ForeignInv, PassedInv
    <3> QED  BY <1>2, <2>1, <2>3, <3>4
  <2> QED  BY <1>5, <2>2, <2>3, CreateEffect
<1>6. CASE EndLoop \/ JudgePending
  <2>1. created' = created /\ at' = "settle" /\ at \in Unsettled
    BY <1>6 DEF EndLoop, JudgePending, Unsettled
  <2> QED  BY <1>3, <2>1, QuietFacts DEF Settled
<1>7. CASE EndRound
  <2>1. at = "settle" /\ pos > Len(created) /\ pos \in Nat /\ Len(created) \in Nat
    BY <1>7 DEF EndRound, BaseInv, TypeInv
  <2>2. CASE at' = at /\ created' = created
    BY <1>3, <2>1, <2>2, QuietFacts DEF Settled, Unsettled
  <2>3. CASE /\ at' = "take" /\ ~ refused.again
             /\ Retain({i \in DOMAIN created : created[i].src \notin refused.apps})
    <3> DEFINE kept == {i \in DOMAIN created : created[i].src \notin refused.apps}
    <3>1. PICK index \in [DOMAIN created' -> kept] :
            \A i \in DOMAIN created' : created'[i] = created[index[i]]
      BY <2>3, RetainEffect DEF BaseInv
    <3>2. ASSUME NEW i \in DOMAIN created', created'[i].id \in dirty', tenant'[created'[i].id].there
          PROVE  FALSE
      <4>1. index[i] \in DOMAIN created /\ created[index[i]].src \notin refused.apps
        BY <3>1
      <4>2. Bad(index[i])
        BY <1>0, <3>1, <3>2, <4>1
      <4>3. created[index[i]].pending /\ Stranger \in created[index[i]].pre
        BY <2>1, <4>1, <4>2 DEF ForeignInv, CleanInv, Unsettled
      <4>4. index[i] < pos
        BY <2>1, <4>1 DEF BaseInv, TypeInv
      <4>5. foreign_pre_authorized(created[index[i]]) = {}
        BY <2>1, <2>3, <4>1, <4>3, <4>4 DEF ForeignInv, RoundInv
      <4>6. created[index[i]] \in EntryRecs
        BY <4>1 DEF BaseInv, TypeInv
      <4>7. created[index[i]].src \in Apps
        BY <4>6 DEF EntryRecs
      <4>8. Stranger \notin plan_pre_authorized(created[index[i]].src)
        BY <4>7, PlansAreNames DEF BaseInv
      <4> QED  BY <4>3, <4>5, <4>8 DEF foreign_pre_authorized
    <3> QED  BY <2>3, <3>2 DEF CleanInv
  <2> QED  BY <1>7, <2>2, <2>3 DEF EndRound, AnotherRound
<1>8. CASE ~ Begin /\ ~ Classify /\ ~ CheckPrincipal /\ ~ Create /\ ~ EndLoop /\ ~ JudgePending /\ ~ EndRound
  <2>1. SameEntries
    BY <1>8, EntriesStep
  <2>2. /\ at' \in Unsettled => at \in Unsettled
        /\ at' \in Settled => at \in Settled
        /\ at' = "ensure" => at = "ensure"
    BY <1>8, StageStep DEF Unsettled
  <2> QED  BY <1>3, <2>1, <2>2
<1> QED  BY <1>1, <1>4, <1>5, <1>6, <1>7, <1>8

\* No write lands on an app somebody had changed.
LEMMA ApartKept ==
    ASSUME BaseInv, ForeignInv, [Next]_vars
    PROVE  touched' \cap dirty' = {}
<1>0. touched \cap dirty = {} /\ touched \subseteq DOMAIN tenant /\ dirty \subseteq DOMAIN tenant
  BY DEF ForeignInv, PassedInv
<1>1. CASE Lookup
  <2>1. /\ at = "lookup" /\ touched' = touched /\ pos <= Len(manifest.apps)
        /\ dirty' = dirty \cup {a \in Tagged(Source) : tenant[a].marks # {} \/ Stranger \in tenant[a].pre}
    BY <1>1 DEF Lookup
  <2>2. \A a \in touched : a \notin Tagged(Source)
    BY <2>1, NotPassed DEF ForeignInv, PassedInv, Tagged
  <2> QED  BY <1>0, <2>1, <2>2
<1>2. CASE touched' = {}
  BY <1>2
<1>3. CASE ~ Lookup /\ touched' # {}
  <2>1. dirty' = dirty
    BY <1>3, DirtyStep
  <2>2. CASE touched' = touched
    BY <1>0, <2>1, <2>2
  <2>3. CASE Source \in Apps /\ tenant' = Append(tenant, NewApp(Source)) /\ touched' = touched \cup {Len(tenant')}
    <3>1. Len(tenant') = Len(tenant) + 1
      BY <2>3, NewAppFacts, AppendGrows DEF BaseInv
    <3>2. Len(tenant) + 1 \notin DOMAIN tenant
      BY DEF BaseInv, TypeInv
    <3> QED  BY <1>0, <2>1, <2>3, <3>1, <3>2
  <2>4. ASSUME NEW i \in DOMAIN created, tenant[created[i].id].there, touched' = touched \cup {created[i].id},
               at \in {"take", "wire", "grant"} \/ (at = "ensure" /\ i = Len(created))
        PROVE  touched' \cap dirty' = {}
    <3>1. created[i].id \notin dirty
      BY <2>4 DEF ForeignInv, CleanInv, Settled, Unsettled
    <3> QED  BY <1>0, <2>1, <2>4, <3>1
  <2>5. CASE /\ at \in {"settings", "role", "group"} /\ Ent \in DOMAIN remap /\ tenant[EntApp].there
             /\ touched' = touched \cup {EntApp}
    <3>1. PICK i \in DOMAIN created : created[i].id = EntApp
      BY <2>5 DEF ForeignInv, RefusedInv, EntApp
    <3>2. EntApp \notin dirty
      BY <2>5, <3>1 DEF ForeignInv, CleanInv, Settled
    <3> QED  BY <1>0, <2>1, <2>5, <3>2
  <2> QED  BY <1>3, <2>2, <2>3, <2>4, <2>5, TouchStep
<1> QED  BY <1>1, <1>2, <1>3

\* decide_adoption and refuse_foreign_pre_authorized: what the run knows of the
\* apps somebody else changed is true until it has left them alone.
THEOREM ForeignInvariance ==
    Spec => []ForeignInv
<1>1. Init => ForeignInv
  BY DEF Init, ForeignInv, PassedInv, HitInv, CleanInv, RefusedInv, RoundInv, Checking, Unsettled, Settled
<1>2. BaseInv /\ ForeignInv /\ [Next]_vars => ForeignInv'
  <2> SUFFICES ASSUME BaseInv, ForeignInv, [Next]_vars PROVE ForeignInv'
    OBVIOUS
  <2>1. PassedInv' /\ HitInv' /\ RefusedInv' /\ RoundInv'
    BY PassedKept, HitKept, RefusedKept, RoundKept DEF ForeignInv
  <2>2. CleanInv' /\ touched' \cap dirty' = {}
    BY CleanKept, ApartKept
  <2> QED  BY <2>1, <2>2 DEF ForeignInv
<1> QED  BY <1>1, <1>2, BaseInvariance, PTL DEF Spec

\* decide_adoption and refuse_foreign_pre_authorized: an app somebody else had
\* changed when the run looked it up gets no write from the run, whichever read
\* fails and whatever happens in between; and once the adoptions are settled, a
\* client an adopted app pre-authorized is one the run would write for it under
\* the final remap.
THEOREM ForeignAppsAreLeftAlone ==
    Spec => []ForeignIsLeftAlone
<1>1. ForeignInv => ForeignIsLeftAlone
  BY DEF ForeignInv, RoundInv, ForeignIsLeftAlone, ToSet
<1> QED  BY <1>1, ForeignInvariance, PTL

=============================================================================
