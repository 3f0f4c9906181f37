------------------------ MODULE RestoreReportProofs ------------------------
(***************************************************************************)
(* Proofs about the outcome of Restore, for any backup, any number of runs *)
(* and any amount of trouble: ReportIsTrue and RerunConverges.             *)
(*                                                                         *)
(* ReportInv says what the report may claim while the run is under way,    *)
(* pass by pass; each part is shown to survive every step, what happens    *)
(* around the run included.  ConvInv says what holds, in a tenant nobody   *)
(* else has changed, of a run in which nothing has gone wrong yet: its     *)
(* parts are shown to survive the steps that leave it so.                  *)
(***************************************************************************)
EXTENDS RestoreProofs

-----------------------------------------------------------------------------
(* What the report says, at every moment of a run.                         *)

Warnings == {"sp", "client", "perms", "expose", "auth", "fic", "owner", "secret", "consent"}

Rows == [src : Apps, id : Nat, incomplete : BOOLEAN, warn : SUBSET Warnings]
EntRows == [src : Apps, id : Nat, warn : SUBSET {"settings", "role", "group"}]

Shaped(r) ==
    r = [apps |-> r.apps, ents |-> r.ents, failures |-> r.failures, manual |-> r.manual,
         cancelled |-> r.cancelled, expired |-> r.expired]

ReportShape ==
    /\ Shaped(report) /\ report.cancelled \in BOOLEAN
    /\ report.apps \in Seq(Rows) /\ report.ents \in Seq(EntRows)

\* The stages after Pass 2, and those after Pass 3.
Ending == {"ents", "settings", "role", "group", "identities", "rebind", "finish", "done"}
Wired == {"consent", "grant"} \cup Ending

\* The rows of the report are those of the first entries: up to the one being
\* wired in Pass 2, all of them from then on.
RowsInv ==
    /\ at \in {"idle", "classify", "take"} \cup Unsettled => report.apps = <<>>
    /\ at \notin Ending => report.ents = <<>>
    /\ at = "wire" =>
         Len(report.apps) = (IF item = 0 THEN pos - 1 ELSE pos) /\ pos <= Len(created) + 1
    /\ at \in Wired => Len(report.apps) = Len(created)
    /\ \A i \in DOMAIN report.apps :
         /\ i \in DOMAIN created
         /\ report.apps[i].src = created[i].src /\ report.apps[i].id = created[i].id
    /\ \A i \in DOMAIN report.ents : report.ents[i].id \in DOMAIN tenant

\* A write of the run went to an app of the report, or to one whose creation
\* failed; while the adoptions are not settled, not to a pending one.
TouchedInv ==
    /\ \A a \in touched :
         \/ tenant[a].src \in report.failures
         \/ \E i \in DOMAIN created : created[i].id = a /\ (at \in Unsettled => ~ created[i].pending)
    /\ at = "settle" =>
         \A i \in DOMAIN created : created[i].src \in refused.apps => created[i].pending

\* The report names a source of the backup, or will.
Named(s) ==
    s \in report.failures \cup report.manual \/ \E i \in DOMAIN created : created[i].src = s

AccountedInv ==
    /\ at = "classify" => pos = 1
    /\ at \in {"lookup", "create"} \cup Checking =>
         \A j \in DOMAIN manifest.apps : j < pos => Named(manifest.apps[j])
    /\ at = "ensure" => \A j \in DOMAIN manifest.apps : j <= pos => Named(manifest.apps[j])
    /\ at = "settle" /\ ~ report.cancelled => refused.apps \subseteq report.manual
    /\ at \in {"settle", "take", "wire"} \cup Wired /\ ~ report.cancelled => \A s \in Apps : Named(s)

\* An enterprise app without a warning has its access, unless the run stopped.
EntDone(e) ==
    e.warn = {} =>
        /\ tenant[e.id].role
        /\ e.src \in manifest.groups \cap manifest.approved => tenant[e.id].group

EntsInv ==
    /\ at = "ents" /\ ~ Stopped => \A i \in DOMAIN report.ents : EntDone(report.ents[i])
    /\ at \in {"settings", "role", "group"} =>
         LET n == Len(report.ents) IN
         /\ n > 0 /\ report.ents[n].id = EntApp /\ report.ents[n].src = Ent
         /\ ~ Stopped =>
              /\ \A i \in DOMAIN report.ents : i < n => EntDone(report.ents[i])
              /\ at = "group" /\ report.ents[n].warn = {} => tenant[EntApp].role
    /\ at \in {"identities", "rebind", "finish"} /\ ~ report.cancelled /\ ~ dead =>
         \A i \in DOMAIN report.ents : EntDone(report.ents[i])
    /\ at = "done" /\ ~ report.cancelled /\ ~ report.expired =>
         \A i \in DOMAIN report.ents : EntDone(report.ents[i])

\* An entry has its service principal, or a warning.
SpOk(i) ==
    created[i].src \in manifest.sps /\ created[i].warn = {} /\ tenant[created[i].id].there =>
        tenant[created[i].id].sp

SpInv ==
    /\ at \in Unsettled => \A i \in DOMAIN created :
         created[i].pending \/ (at = "ensure" /\ i = Len(created)) \/ SpOk(i)
    /\ at = "take" => \A i \in DOMAIN created : (created[i].pending /\ i >= pos) \/ SpOk(i)
    /\ at = "wire" => (Stopped /\ item = 0) \/ \A i \in DOMAIN created : SpOk(i)

\* An app holds the secrets its entry still knows of.
HeldInv == \A i \in DOMAIN created : created[i].left["key"] <= tenant[created[i].id].secrets["key"]

\* The report claims w of row i.
Claims(i, w) ==
    /\ ~ report.apps[i].incomplete /\ w \notin report.apps[i].warn
    /\ tenant[report.apps[i].id].there

\* App a has what step w gives the app of s, if the backup asks for it.
Asked(w, s) ==
    /\ w = "perms" => manifest.perms[s] # {}
    /\ w = "expose" => manifest.pre[s] # {}
    /\ w = "auth" => s \in manifest.auth
    /\ w = "fic" => s \in manifest.fics \ withheld
    /\ w = "owner" => s \in manifest.owners \ withheld

Has(w, s, a) ==
    /\ w = "perms" => remap_required_resource_access(s) \subseteq tenant[a].perms
    /\ w = "expose" => plan_pre_authorized(s) \subseteq tenant[a].pre
    /\ w = "auth" => tenant[a].auth
    /\ w = "fic" => tenant[a].fic
    /\ w = "owner" => tenant[a].owner

\* The part of row i that is true as soon as Pass 2 makes it.
Started(i) ==
    /\ Claims(i, "sp") /\ report.apps[i].src \in manifest.sps => tenant[report.apps[i].id].sp
    /\ Claims(i, "client") => LeftOut(report.apps[i].src) = {}

\* The part that is when its app is wired.
FieldSteps == {"perms", "expose", "auth", "fic", "owner"}

Finished(i) ==
    /\ \A w \in FieldSteps : Asked(w, report.apps[i].src) /\ Claims(i, w) =>
         Has(w, report.apps[i].src, report.apps[i].id)
    /\ Claims(i, "secret") =>
         Issuable(report.apps[i].src, "key") <= tenant[report.apps[i].id].secrets["key"]

\* The steps behind the one Pass 2 is at have done their work, or have warned.
Progress ==
    /\ \A j \in DOMAIN Before(Entry) :
         j < item /\ Claims(pos, Before(Entry)[j]) => Has(Before(Entry)[j], Entry.src, Entry.id)
    /\ Claims(pos, "secret") =>
         Cardinality(Counted(Entry.src, AtSecret, "key")) + Entry.left["key"]
           <= tenant[Entry.id].secrets["key"]

\* What an adopted app has was read in the step before.
ReadBefore ==
    item - 1 \in DOMAIN Before(Entry) =>
        /\ Before(Entry)[item - 1] = "readfics" /\ hit => tenant[Entry.id].fic
        /\ Before(Entry)[item - 1] = "readowners" /\ hit => tenant[Entry.id].owner

WireInv ==
    /\ \A i \in DOMAIN report.apps : Started(i)
    /\ \A i \in DOMAIN report.apps : (at = "wire" /\ item > 0 /\ i = pos) \/ Finished(i)
    /\ at = "wire" /\ item > 0 => Progress /\ ReadBefore

\* A row has its consent, from when Pass 3 has passed it.
Consented(i) ==
    Claims(i, "consent") /\ report.apps[i].src \in manifest.consents \ withheld =>
        remap_required_resource_access(report.apps[i].src) \subseteq tenant[report.apps[i].id].consent

GrantedInv ==
    /\ at \in {"consent", "grant"} => \A i \in DOMAIN report.apps : i < pos => Consented(i)
    /\ at \in Ending => \A i \in DOMAIN report.apps : Consented(i)
    /\ at = "grant" => hit = remap_required_resource_access(Entry.src)

ReportInv ==
    /\ ReportShape /\ RowsInv /\ TouchedInv /\ AccountedInv /\ EntsInv /\ SpInv /\ HeldInv
    /\ WireInv /\ GrantedInv

-----------------------------------------------------------------------------
(* The steps of wire_application, in their order.                          *)

LEMMA Concatenation ==
    ASSUME NEW S, NEW u \in Seq(S), NEW v \in Seq(S)
    PROVE  /\ u \o v \in Seq(S) /\ Len(u \o v) = Len(u) + Len(v)
           /\ \A i \in DOMAIN u : i \in DOMAIN (u \o v) /\ (u \o v)[i] = u[i]
           /\ \A i \in DOMAIN v : Len(u) + i \in DOMAIN (u \o v) /\ (u \o v)[Len(u) + i] = v[i]
           /\ \A i \in DOMAIN (u \o v) : i \notin DOMAIN u =>
                i - Len(u) \in DOMAIN v /\ (u \o v)[i] = v[i - Len(u)]
OBVIOUS

LEMMA NothingMore ==
    ASSUME NEW S, NEW u \in Seq(S)
    PROVE  u \o <<>> = u
OBVIOUS

\* Each f of t comes right after an r.
Led(t, f, r) == \A j \in DOMAIN t : t[j] = f => j - 1 \in DOMAIN t /\ t[j - 1] = r

LEMMA LedMore ==
    ASSUME NEW S, NEW u \in Seq(S), NEW v \in Seq(S), NEW f, NEW r, Led(u, f, r), \A j \in DOMAIN v : v[j] # f
    PROVE  Led(u \o v, f, r)
<1> SUFFICES ASSUME NEW j \in DOMAIN (u \o v), (u \o v)[j] = f
             PROVE  j - 1 \in DOMAIN (u \o v) /\ (u \o v)[j - 1] = r
  BY DEF Led
<1>1. j \in DOMAIN u /\ u[j] = f
  BY Concatenation
<1>2. j - 1 \in DOMAIN u /\ u[j - 1] = r
  BY <1>1 DEF Led
<1> QED  BY <1>2, Concatenation

LEMMA LedPair ==
    ASSUME NEW S, NEW u \in Seq(S), NEW f \in S, NEW r \in S, r # f, Led(u, f, r)
    PROVE  Led(u \o <<r>> \o <<f>>, f, r)
<1> DEFINE v == u \o <<r>>
<1>0. <<r>> \in Seq(S) /\ <<f>> \in Seq(S)
  OBVIOUS
<1>1. v \in Seq(S) /\ Len(v) = Len(u) + 1 /\ v[Len(u) + 1] = r /\ Len(u) \in Nat
  BY <1>0
<1>2. Led(v, f, r)
  <2>1. \A j \in DOMAIN <<r>> : <<r>>[j] # f
    OBVIOUS
  <2> QED  BY <1>0, <2>1, LedMore
<1> HIDE DEF v
<1> SUFFICES ASSUME NEW j \in DOMAIN (v \o <<f>>), (v \o <<f>>)[j] = f
             PROVE  j - 1 \in DOMAIN (v \o <<f>>) /\ (v \o <<f>>)[j - 1] = r
  BY DEF Led, v
<1>3. DOMAIN v = 1..Len(v) /\ Len(v) \in Nat /\ DOMAIN <<f>> = {1}
  BY <1>1
<1>4. CASE j \in DOMAIN v
  <2>1. j - 1 \in DOMAIN v /\ v[j - 1] = r
    BY <1>0, <1>1, <1>2, <1>4, Concatenation DEF Led
  <2> QED  BY <1>0, <1>1, <2>1, Concatenation
<1>5. CASE j \notin DOMAIN v
  <2>1. j - Len(v) \in DOMAIN <<f>>
    BY <1>0, <1>1, <1>5, Concatenation
  <2>2. j - 1 = Len(v) /\ Len(v) \in DOMAIN v
    BY <1>1, <1>3, <2>1
  <2>3. v[j - 1] = r
    BY <1>1, <2>2
  <2> QED  BY <1>0, <1>1, <2>2, <2>3, Concatenation
<1> QED  BY <1>4, <1>5

\* A step the backup asks for is there, and a read is right before what it is
\* for.
LEMMA BeforeOrder ==
    ASSUME NEW c \in EntryRecs
    PROVE  /\ \A w \in FieldSteps : Asked(w, c.src) => \E j \in DOMAIN Before(c) : Before(c)[j] = w
           /\ c.adopted => Led(Before(c), "fic", "readfics") /\ Led(Before(c), "owner", "readowners")
<1> DEFINE fics == c.src \in manifest.fics \ withheld
           owners == c.src \in manifest.owners \ withheld
           w1 == When(manifest.perms[c.src] # {}, <<"perms">>)
           w2 == When(manifest.pre[c.src] # {}, <<"expose">>)
           w3 == When(c.src \in manifest.auth, <<"auth">>)
           w4 == When(fics /\ c.adopted, <<"readfics">>)
           w5 == When(fics, <<"fic">>)
           w6 == When(owners /\ c.adopted, <<"readowners">>)
           w7 == When(owners, <<"owner">>)
           S == {"perms", "expose", "auth", "readfics", "fic", "readowners", "owner"}
<1>1. /\ w1 \in Seq(S) /\ w2 \in Seq(S) /\ w3 \in Seq(S) /\ w4 \in Seq(S) /\ w5 \in Seq(S) /\ w6 \in Seq(S)
      /\ w7 \in Seq(S)
  <2>1. /\ <<"perms">> \in Seq(S) /\ <<"expose">> \in Seq(S) /\ <<"auth">> \in Seq(S) /\ <<"readfics">> \in Seq(S)
        /\ <<"fic">> \in Seq(S) /\ <<"readowners">> \in Seq(S) /\ <<"owner">> \in Seq(S) /\ <<>> \in Seq(S)
    <3>1. \A x \in S : <<x>> \in Seq(S)
      <4> HIDE DEF S
      <4> QED  OBVIOUS
    <3>2. <<>> \in Seq(S)
      OBVIOUS
    <3>3. {"perms", "expose", "auth", "readfics", "fic", "readowners", "owner"} \subseteq S
      OBVIOUS
    <3> HIDE DEF S
    <3> QED  BY <3>1, <3>2, <3>3
  <2> HIDE DEF S
  <2> QED  BY <2>1 DEF When
<1>2. /\ manifest.perms[c.src] # {} => w1 = <<"perms">>
      /\ manifest.pre[c.src] # {} => w2 = <<"expose">>
      /\ c.src \in manifest.auth => w3 = <<"auth">>
      /\ fics /\ c.adopted => w4 = <<"readfics">>
      /\ fics => w5 = <<"fic">>
      /\ ~ fics => w4 = <<>> /\ w5 = <<>>
      /\ owners /\ c.adopted => w6 = <<"readowners">>
      /\ owners => w7 = <<"owner">>
      /\ ~ owners => w6 = <<>> /\ w7 = <<>>
  BY DEF When
<1>3. /\ \A j \in DOMAIN w1 : w1[j] = "perms"
      /\ \A j \in DOMAIN w2 : w2[j] = "expose"
      /\ \A j \in DOMAIN w3 : w3[j] = "auth"
      /\ \A j \in DOMAIN w4 : w4[j] = "readfics"
      /\ \A j \in DOMAIN w5 : w5[j] = "fic"
      /\ \A j \in DOMAIN w6 : w6[j] = "readowners"
      /\ \A j \in DOMAIN w7 : w7[j] = "owner"
  BY DEF When
<1>4. Before(c) = w1 \o w2 \o w3 \o w4 \o w5 \o w6 \o w7
  BY DEF Before
<1> HIDE DEF w1, w2, w3, w4, w5, w6, w7
<1> DEFINE t2 == w1 \o w2
           t3 == t2 \o w3
           t4 == t3 \o w4
           t5 == t4 \o w5
           t6 == t5 \o w6
           t7 == t6 \o w7
<1>5. /\ t2 \in Seq(S) /\ t3 \in Seq(S) /\ t4 \in Seq(S) /\ t5 \in Seq(S) /\ t6 \in Seq(S) /\ t7 \in Seq(S)
  BY <1>1
<1>6. Before(c) = t7
  BY <1>4
<1>7. ASSUME NEW w \in FieldSteps, Asked(w, c.src) PROVE \E j \in DOMAIN t7 : t7[j] = w
  <2> DEFINE In(t) == \E j \in DOMAIN t : t[j] = w
  <2>1. ASSUME NEW u \in Seq(S), NEW v \in Seq(S), In(u) \/ In(v) PROVE In(u \o v)
    <3>1. CASE In(u)
      <4>1. PICK j \in DOMAIN u : u[j] = w
        BY <3>1
      <4>2. j \in DOMAIN (u \o v) /\ (u \o v)[j] = w
        BY <4>1, Concatenation
      <4> QED  BY <4>2
    <3>2. CASE In(v)
      <4>1. PICK j \in DOMAIN v : v[j] = w
        BY <3>2
      <4>2. Len(u) + j \in DOMAIN (u \o v) /\ (u \o v)[Len(u) + j] = w
        BY <4>1, Concatenation
      <4> QED  BY <4>2
    <3> QED  BY <2>1, <3>1, <3>2
  <2>2. \/ In(w1) \/ In(w2) \/ In(w3) \/ In(w5) \/ In(w7)
    <3>1. CASE w = "perms"
      BY <1>2, <1>7, <3>1 DEF Asked
    <3>2. CASE w = "expose"
      BY <1>2, <1>7, <3>2 DEF Asked
    <3>3. CASE w = "auth"
      BY <1>2, <1>7, <3>3 DEF Asked
    <3>4. CASE w = "fic"
      BY <1>2, <1>7, <3>4 DEF Asked
    <3>5. CASE w = "owner"
      BY <1>2, <1>7, <3>5 DEF Asked
    <3> QED  BY <3>1, <3>2, <3>3, <3>4, <3>5 DEF FieldSteps
  <2> HIDE DEF In
  <2>3. In(w1) \/ In(w2) => In(t2)
    BY <1>1, <2>1
  <2>4. In(t2) \/ In(w3) => In(t3)
    BY <1>1, <1>5, <2>1
  <2>5. In(t3) => In(t4)
    BY <1>1, <1>5, <2>1
  <2>6. In(t4) \/ In(w5) => In(t5)
    BY <1>1, <1>5, <2>1
  <2>7. In(t5) => In(t6)
    BY <1>1, <1>5, <2>1
  <2>8. In(t6) \/ In(w7) => In(t7)
    BY <1>1, <1>5, <2>1
  <2>9. In(t7)
    BY <2>2, <2>3, <2>4, <2>5, <2>6, <2>7, <2>8
  <2> QED  BY <2>9 DEF In
<1>8. ASSUME c.adopted PROVE Led(t7, "fic", "readfics") /\ Led(t7, "owner", "readowners")
  <2> DEFINE F(t) == Led(t, "fic", "readfics")
             O(t) == Led(t, "owner", "readowners")
  <2>1. F(w1) /\ O(w1)
    BY <1>3 DEF Led
  <2>2. F(t2) /\ O(t2)
    BY <1>1, <1>3, <2>1, LedMore
  <2>3. F(t3) /\ O(t3)
    BY <1>1, <1>3, <1>5, <2>2, LedMore
  <2>4. O(t4)
    BY <1>1, <1>3, <1>5, <2>3, LedMore
  <2>5. O(t5)
    BY <1>1, <1>3, <1>5, <2>4, LedMore
  <2>6. F(t5)
    <3>1. CASE fics
      <4>1. t5 = t3 \o <<"readfics">> \o <<"fic">>
        BY <1>2, <1>8, <3>1
      <4>2. "readfics" \in S /\ "fic" \in S
        OBVIOUS
      <4> HIDE DEF t3, t5, S
      <4> QED  BY <1>5, <2>3, <4>1, <4>2, LedPair
    <3>2. CASE ~ fics
      <4>1. t3 \o <<>> = t3 /\ t4 = t3 \o <<>> /\ t5 = t4 \o <<>>
        BY <1>2, <1>5, <3>2, NothingMore
      <4> QED  BY <2>3, <4>1
    <3> QED  BY <3>1, <3>2
  <2>7. F(t6)
    BY <1>1, <1>3, <1>5, <2>6, LedMore
  <2>8. F(t7)
    BY <1>1, <1>3, <1>5, <2>7, LedMore
  <2>9. O(t7)
    <3>1. CASE owners
      <4>1. t7 = t5 \o <<"readowners">> \o <<"owner">>
        BY <1>2, <1>8, <3>1
      <4>2. "readowners" \in S /\ "owner" \in S
        OBVIOUS
      <4> HIDE DEF t5, t7, S
      <4> QED  BY <1>5, <2>5, <4>1, <4>2, LedPair
    <3>2. CASE ~ owners
      <4>1. t5 \o <<>> = t5 /\ t6 = t5 \o <<>> /\ t7 = t6 \o <<>>
        BY <1>2, <1>5, <3>2, NothingMore
      <4> QED  BY <2>5, <4>1
    <3> QED  BY <3>1, <3>2
  <2> QED  BY <2>8, <2>9
<1> QED  BY <1>6, <1>7, <1>8

-----------------------------------------------------------------------------
(* What the steps do to the report.                                        *)

\* The parts of the report but the rows of its apps and enterprise apps.
SameParts(r, q) ==
    r.failures = q.failures /\ r.manual = q.manual /\ r.cancelled = q.cancelled /\ r.expired = q.expired

\* At most row i changes: it gets the warnings W, and may become incomplete.
RowChanged(rows, new, i, W, b) ==
    /\ new \in Seq(Rows) /\ Len(new) = Len(rows) /\ DOMAIN new = DOMAIN rows
    /\ \A j \in DOMAIN rows :
         /\ new[j].src = rows[j].src /\ new[j].id = rows[j].id
         /\ j # i => new[j] = rows[j]
         /\ j = i => new[j].warn = rows[j].warn \cup W /\ new[j].incomplete = (rows[j].incomplete \/ b)

LEMMA RowEdits ==
    ASSUME NEW rows \in Seq(Rows), NEW i \in DOMAIN rows
    PROVE  /\ \A w \in Warnings : RowChanged(rows, [rows EXCEPT ![i].warn = @ \cup {w}], i, {w}, FALSE)
           /\ \A b \in BOOLEAN : RowChanged(rows, [rows EXCEPT ![i].incomplete = @ \/ b], i, {}, b)
           /\ RowChanged(rows, [rows EXCEPT ![i].incomplete = TRUE], i, {}, TRUE)
           /\ RowChanged(rows, rows, i, {}, FALSE)
<1> DEFINE x == rows[i]
           R == Rows
<1>1. x \in Rows /\ x.warn \in SUBSET Warnings /\ x.incomplete \in BOOLEAN
  <2>1. rows \in Seq(R)
    OBVIOUS
  <2>2. x \in R
    <3> HIDE DEF R
    <3> QED  BY <2>1
  <2> HIDE DEF x
  <2> QED  BY <2>2 DEF Rows
<1>2. ASSUME NEW y \in R, NEW W, NEW b, y.src = x.src, y.id = x.id, y.warn = x.warn \cup W,
             y.incomplete = (x.incomplete \/ b)
      PROVE  RowChanged(rows, [rows EXCEPT ![i] = y], i, W, b)
  <2> DEFINE new == [rows EXCEPT ![i] = y]
  <2>1. rows \in Seq(R)
    OBVIOUS
  <2>2. new \in Seq(R) /\ Len(new) = Len(rows) /\ DOMAIN new = DOMAIN rows
    <3> HIDE DEF R
    <3> QED  BY <1>2, <2>1
  <2>3. \A j \in DOMAIN rows : new[j] = IF j = i THEN y ELSE rows[j]
    OBVIOUS
  <2> HIDE DEF new
  <2> QED  BY <1>2, <2>2, <2>3 DEF RowChanged
<1>3. ASSUME NEW w \in Warnings
      PROVE  RowChanged(rows, [rows EXCEPT ![i].warn = @ \cup {w}], i, {w}, FALSE)
  <2> DEFINE y == [x EXCEPT !.warn = @ \cup {w}]
  <2>1. y \in R /\ y.src = x.src /\ y.id = x.id /\ y.warn = x.warn \cup {w} /\ y.incomplete = x.incomplete
    <3> HIDE DEF x
    <3> QED  BY <1>1 DEF Rows
  <2>2. [rows EXCEPT ![i].warn = @ \cup {w}] = [rows EXCEPT ![i] = y]
    OBVIOUS
  <2>3. y.incomplete = (x.incomplete \/ FALSE)
    BY <1>1, <2>1
  <2> HIDE DEF y, R
  <2> QED  BY <1>2, <2>1, <2>2, <2>3
<1>4. ASSUME NEW b \in BOOLEAN
      PROVE  RowChanged(rows, [rows EXCEPT ![i].incomplete = @ \/ b], i, {}, b)
  <2> DEFINE y == [x EXCEPT !.incomplete = @ \/ b]
  <2>1. /\ y \in R /\ y.src = x.src /\ y.id = x.id /\ y.warn = x.warn \cup {}
        /\ y.incomplete = (x.incomplete \/ b)
    <3> HIDE DEF x
    <3> QED  BY <1>1 DEF Rows
  <2>2. [rows EXCEPT ![i].incomplete = @ \/ b] = [rows EXCEPT ![i] = y]
    OBVIOUS
  <2> HIDE DEF y, R
  <2> QED  BY <1>2, <2>1, <2>2
<1>5. RowChanged(rows, [rows EXCEPT ![i].incomplete = TRUE], i, {}, TRUE)
  <2> DEFINE y == [x EXCEPT !.incomplete = TRUE]
  <2>1. /\ y \in R /\ y.src = x.src /\ y.id = x.id /\ y.warn = x.warn \cup {}
        /\ y.incomplete = (x.incomplete \/ TRUE)
    <3> HIDE DEF x
    <3> QED  BY <1>1 DEF Rows
  <2>2. [rows EXCEPT ![i].incomplete = TRUE] = [rows EXCEPT ![i] = y]
    OBVIOUS
  <2> HIDE DEF y, R
  <2> QED  BY <1>2, <2>1, <2>2
<1>6. RowChanged(rows, rows, i, {}, FALSE)
  BY <1>1 DEF RowChanged
<1> QED  BY <1>3, <1>4, <1>5, <1>6

\* What the report has said it goes on saying.
PartsGrow ==
    /\ Shaped(report') /\ report'.cancelled \in BOOLEAN
    /\ report.failures \subseteq report'.failures /\ report.manual \subseteq report'.manual
    /\ report.cancelled => report'.cancelled

RowStep(W, b) ==
    /\ PartsGrow /\ report'.ents = report.ents
    /\ RowChanged(report.apps, report'.apps, pos, W, b)

LEMMA SameReport ==
    ASSUME ReportShape, report' = report
    PROVE  /\ PartsGrow /\ report'.ents = report.ents /\ report'.apps = report.apps
           /\ pos \in DOMAIN report.apps => RowStep({}, FALSE)
BY RowEdits DEF ReportShape, PartsGrow, RowStep

LEMMA WarnEffect ==
    ASSUME ReportShape, pos \in DOMAIN report.apps, NEW w \in Warnings, NEW M,
           \/ Warn(w)
           \/ report' = [report EXCEPT !.apps[pos].warn = @ \cup {w}, !.manual = @ \cup M]
    PROVE  RowStep({w}, FALSE)
<1> DEFINE rows == [report.apps EXCEPT ![pos].warn = @ \cup {w}]
           r == [report EXCEPT !.apps = rows]
           q == [r EXCEPT !.manual = report.manual \cup M]
<1>1. Shaped(report) /\ report.apps \in Seq(Rows) /\ report.cancelled \in BOOLEAN
  BY DEF ReportShape
<1>2. RowChanged(report.apps, rows, pos, {w}, FALSE)
  BY <1>1, RowEdits
<1>3. Shaped(r) /\ r.apps = rows /\ r.ents = report.ents /\ SameParts(r, report)
  <2> HIDE DEF rows
  <2> QED  BY <1>1 DEF Shaped, SameParts
<1>4. /\ Shaped(q) /\ q.apps = r.apps /\ q.ents = r.ents /\ q.failures = r.failures
      /\ q.manual = report.manual \cup M /\ q.cancelled = r.cancelled
  <2>1. Shaped(r)
    BY <1>3
  <2> HIDE DEF r
  <2> QED  BY <2>1 DEF Shaped
<1>5. report' = r \/ report' = q
  <2>1. CASE Warn(w)
    <3>1. report' = r
      BY <1>1, <2>1 DEF Warn
    <3> QED  BY <3>1
  <2>2. CASE report' = [report EXCEPT !.apps[pos].warn = @ \cup {w}, !.manual = @ \cup M]
    <3>1. report' = q
      BY <1>1, <2>2 DEF Shaped
    <3> QED  BY <3>1
  <2> QED  BY <2>1, <2>2
<1> HIDE DEF rows, r, q
<1>6. CASE report' = r
  BY <1>1, <1>2, <1>3, <1>6 DEF RowStep, PartsGrow, SameParts
<1>7. CASE report' = q
  BY <1>1, <1>2, <1>3, <1>4, <1>7 DEF RowStep, PartsGrow, SameParts
<1> QED  BY <1>5, <1>6, <1>7

\* The row of the entry being wired.
LEMMA RowFacts ==
    ASSUME BaseInv, ReportShape, RowsInv, at = "wire", item > 0
    PROVE  /\ pos \in DOMAIN report.apps /\ pos \in DOMAIN created
           /\ report.apps[pos].src = Entry.src /\ report.apps[pos].id = Entry.id
<1>1. pos \in Nat \ {0} /\ item \in Nat /\ report.apps \in Seq(Rows)
  BY DEF BaseInv, TypeInv, ReportShape
<1>2. Len(report.apps) = pos
  BY <1>1 DEF RowsInv
<1>3. pos \in DOMAIN report.apps
  <2> DEFINE R == Rows
  <2>1. report.apps \in Seq(R)
    BY <1>1
  <2> HIDE DEF R
  <2> QED  BY <1>1, <1>2, <2>1
<1> QED  BY <1>3 DEF RowsInv, Entry

\* Each step of Pass 2 within an entry warns at most on its row.
LEMMA WireReport ==
    ASSUME BaseInv, ReportShape, RowsInv
    PROVE  /\ SkipStep => RowStep({}, TRUE)
           /\ EndWire => \E b \in BOOLEAN : (dead => b) /\ RowStep({}, b)
           /\ ReadStep => RowStep({}, FALSE)
           /\ PatchStep => \E o \in WriteAnswers(Entry.id) :
                /\ Write(Entry.id, o, Patched(Entry.id, Entry.src)[Step])
                /\ RowStep(IF o = "ok" THEN {} ELSE {Step}, FALSE)
           /\ FicStep => \E W \in SUBSET {"fic"} : RowStep(W, FALSE)
           /\ OwnerStep => \E W \in SUBSET {"owner"} : RowStep(W, FALSE)
           /\ SecretStep => \E W \in SUBSET {"secret"} : RowStep(W, FALSE)
<1>0. SkipStep \/ EndWire \/ ReadStep \/ PatchStep \/ FicStep \/ OwnerStep \/ SecretStep => pos \in DOMAIN report.apps
  <2>1. SkipStep \/ EndWire \/ ReadStep \/ PatchStep \/ FicStep \/ OwnerStep \/ SecretStep => at = "wire" /\ item > 0
    BY DEF SkipStep, EndWire, ReadStep, PatchStep, FicStep, OwnerStep, SecretStep, Wiring
  <2> QED  BY <2>1, RowFacts
<1>00. Shaped(report) /\ report.apps \in Seq(Rows) /\ report.cancelled \in BOOLEAN
  BY DEF ReportShape
<1>1. ASSUME SkipStep PROVE RowStep({}, TRUE)
  <2> DEFINE rows == [report.apps EXCEPT ![pos].incomplete = TRUE]
             r == [report EXCEPT !.apps = rows]
  <2>1. report' = r
    BY <1>00, <1>1 DEF SkipStep
  <2>2. RowChanged(report.apps, rows, pos, {}, TRUE)
    BY <1>0, <1>00, <1>1, RowEdits
  <2> HIDE DEF rows
  <2>3. Shaped(r) /\ r.apps = rows /\ r.ents = report.ents /\ SameParts(r, report)
    BY <1>00 DEF Shaped, SameParts
  <2> HIDE DEF r
  <2> QED  BY <1>00, <2>1, <2>2, <2>3 DEF RowStep, PartsGrow, SameParts
<1>2. ASSUME EndWire PROVE \E b \in BOOLEAN : (dead => b) /\ RowStep({}, b)
  <2> DEFINE b == IF dead THEN TRUE ELSE FALSE
             rows == [report.apps EXCEPT ![pos].incomplete = @ \/ b]
             r == [report EXCEPT !.apps = rows]
  <2>1. report' = r
    <3>1. report' = [report EXCEPT !.apps[pos].incomplete = @ \/ dead]
      BY <1>2 DEF EndWire
    <3> QED  BY <1>00, <3>1
  <2>2. RowChanged(report.apps, rows, pos, {}, b)
    BY <1>0, <1>00, <1>2, RowEdits
  <2> HIDE DEF rows
  <2>3. Shaped(r) /\ r.apps = rows /\ r.ents = report.ents /\ SameParts(r, report)
    BY <1>00 DEF Shaped, SameParts
  <2> HIDE DEF r
  <2>4. RowStep({}, b)
    BY <1>00, <2>1, <2>2, <2>3 DEF RowStep, PartsGrow, SameParts
  <2> QED  BY <2>4
<1>3. ASSUME ReadStep PROVE RowStep({}, FALSE)
  BY <1>0, <1>3, SameReport DEF ReadStep
<1>4. ASSUME PatchStep
      PROVE  \E o \in WriteAnswers(Entry.id) :
                /\ Write(Entry.id, o, Patched(Entry.id, Entry.src)[Step])
                /\ RowStep(IF o = "ok" THEN {} ELSE {Step}, FALSE)
  <2>1. PICK o \in WriteAnswers(Entry.id) :
          /\ Write(Entry.id, o, Patched(Entry.id, Entry.src)[Step])
          /\ IF o = "ok" THEN UNCHANGED report ELSE Warn(Step)
    BY <1>4 DEF PatchStep
  <2>2. Step \in Warnings
    BY <1>4 DEF PatchStep, Wiring, Warnings
  <2>3. RowStep(IF o = "ok" THEN {} ELSE {Step}, FALSE)
    BY <1>0, <1>4, <2>1, <2>2, SameReport, WarnEffect
  <2> QED  BY <2>1, <2>3
<1>5. ASSUME NEW w \in Warnings, Warn(w) \/ report' = report, pos \in DOMAIN report.apps
      PROVE  \E W \in SUBSET {w} : RowStep(W, FALSE)
  <2>1. RowStep({w}, FALSE) \/ RowStep({}, FALSE)
    BY <1>5, SameReport, WarnEffect
  <2> QED  BY <2>1
<1>6. FicStep => Warn("fic") \/ report' = report
  BY DEF FicStep, Add
<1>7. OwnerStep => Warn("owner") \/ report' = report
  BY DEF OwnerStep, Add
<1>8. SecretStep => Warn("secret") \/ report' = report
  BY DEF SecretStep
<1>9. "fic" \in Warnings /\ "owner" \in Warnings /\ "secret" \in Warnings
  BY DEF Warnings
<1> QED  BY <1>0, <1>1, <1>2, <1>3, <1>4, <1>5, <1>6, <1>7, <1>8, <1>9

LEMMA RowMade ==
    ASSUME NEW c \in EntryRecs, NEW b \in BOOLEAN
    PROVE  LET row == RestoredApp(c, b) IN
           /\ row \in Rows /\ row.src = c.src /\ row.id = c.id /\ row.incomplete = b
           /\ "sp" \notin row.warn => c.warn = {}
           /\ ~ b /\ "client" \notin row.warn => LeftOut(c.src) = {}
<1>1. c.src \in Apps /\ c.id \in Nat /\ c.warn \subseteq {"sp"}
  BY DEF EntryRecs
<1>2. /\ "sp" \in Warnings /\ "client" \in Warnings
  BY DEF Warnings
<1> QED  BY <1>1, <1>2 DEF RestoredApp, Rows

LEMMA NextWireReport ==
    ASSUME BaseInv, ReportShape, RowsInv, NextWire
    PROVE  /\ PartsGrow /\ report'.ents = report.ents /\ report'.apps \in Seq(Rows)
           /\ Len(report.apps) = pos - 1
           /\ \A i \in DOMAIN report.apps : i \in DOMAIN report'.apps /\ report'.apps[i] = report.apps[i]
           /\ \/ /\ pos > Len(created) \/ Stopped
                 /\ at' = "consent" /\ pos' = 1 /\ item' = 0
                 /\ Len(report'.apps) = Len(created)
                 /\ \A i \in DOMAIN created \ DOMAIN report.apps : report'.apps[i] = RestoredApp(created[i], TRUE)
              \/ /\ pos \in DOMAIN created /\ ~ Stopped
                 /\ at' = "wire" /\ pos' = pos /\ item' = 1
                 /\ Len(report'.apps) = pos /\ DOMAIN report'.apps = DOMAIN report.apps \cup {pos}
                 /\ report'.apps[pos] = RestoredApp(Entry, FALSE)
<1> DEFINE R == Rows
           n == Len(created)
<1>1. /\ at = "wire" /\ item = 0 /\ pos \in Nat \ {0} /\ created \in Seq(EntryRecs) /\ n \in Nat
      /\ DOMAIN created = 1..n
  BY DEF NextWire, BaseInv, TypeInv
<1>2. Shaped(report) /\ report.apps \in Seq(R) /\ report.cancelled \in BOOLEAN
  BY DEF ReportShape
<1>3. Len(report.apps) = pos - 1 /\ pos <= n + 1 /\ DOMAIN report.apps = 1..(pos - 1)
  <2>1. Len(report.apps) = pos - 1 /\ pos <= n + 1
    BY <1>1 DEF RowsInv
  <2> HIDE DEF R
  <2> QED  BY <1>2, <2>1
<1>4. CASE pos > n \/ Stopped
  <2> DEFINE rest == not_wired(SubSeq(created, pos, n))
             rows == report.apps \o rest
             c == report.cancelled \/ (cancelled /\ pos <= n)
  <2>1. /\ report' = [report EXCEPT !.apps = rows, !.cancelled = c]
        /\ at' = "consent" /\ pos' = 1 /\ item' = 0
    BY <1>1, <1>4 DEF NextWire
  <2>2. /\ DOMAIN rest = 1..(n - pos + 1)
        /\ \A i \in 1..(n - pos + 1) : rest[i] = RestoredApp(created[pos + i - 1], TRUE)
    <3>1. DOMAIN SubSeq(created, pos, n) = 1..(n - pos + 1)
      BY <1>1, <1>3
    <3>2. \A i \in 1..(n - pos + 1) : SubSeq(created, pos, n)[i] = created[pos + i - 1]
      BY <1>1, <1>3
    <3> QED  BY <3>1, <3>2 DEF not_wired
  <2>3. \A i \in 1..(n - pos + 1) : rest[i] \in R
    <3> SUFFICES ASSUME NEW i \in 1..(n - pos + 1) PROVE rest[i] \in R
      OBVIOUS
    <3>1. pos + i - 1 \in 1..n
      BY <1>1, <1>3
    <3>2. created[pos + i - 1] \in EntryRecs
      BY <1>1, <3>1
    <3>3. RestoredApp(created[pos + i - 1], TRUE) \in Rows
      BY <3>2, RowMade
    <3> HIDE DEF rest
    <3> QED  BY <2>2, <3>3
  <2>3a. rest = [i \in 1..(n - pos + 1) |-> rest[i]]
    BY <2>2 DEF not_wired
  <2>4. rest \in Seq(R) /\ Len(rest) = n - pos + 1
    <3> HIDE DEF rest, R
    <3>1. n - pos + 1 \in Nat
      BY <1>1, <1>3
    <3>2. rest \in [1..(n - pos + 1) -> R]
      BY <2>3, <2>3a
    <3> QED  BY <3>1, <3>2
  <2>5. /\ rows \in Seq(R) /\ Len(rows) = n
        /\ \A i \in 1..(pos - 1) : i \in DOMAIN rows /\ rows[i] = report.apps[i]
        /\ \A i \in pos..n : rows[i] = rest[i - pos + 1]
    <3> HIDE DEF rest, R
    <3>1. rows \in Seq(R) /\ Len(rows) = n
      <4>1. rows \in Seq(R) /\ Len(rows) = Len(report.apps) + Len(rest)
        BY <1>2, <2>4, Concatenation
      <4> QED  BY <1>1, <1>3, <2>4, <4>1
    <3>2. \A i \in DOMAIN report.apps : i \in DOMAIN rows /\ rows[i] = report.apps[i]
      <4> DEFINE u == report.apps
      <4>1. u \in Seq(R)
        BY <1>2
      <4> HIDE DEF u
      <4>2. \A i \in DOMAIN u : i \in DOMAIN (u \o rest) /\ (u \o rest)[i] = u[i]
        BY <2>4, <4>1, Concatenation
      <4> QED  BY <4>2 DEF u
    <3>3. \A i \in DOMAIN rest : rows[Len(report.apps) + i] = rest[i]
      BY <1>2, <2>4, Concatenation
    <3>4. ASSUME NEW i \in pos..n PROVE rows[i] = rest[i - pos + 1]
      <4>1. i - pos + 1 \in 1..(n - pos + 1) /\ Len(report.apps) + (i - pos + 1) = i
        BY <1>1, <1>3
      <4>2. i - pos + 1 \in DOMAIN rest
        BY <2>2, <4>1
      <4> QED  BY <3>3, <4>1, <4>2
    <3> HIDE DEF rows
    <3> QED  BY <1>3, <3>1, <3>2, <3>4
  <2>6. \A i \in pos..n : rows[i] = RestoredApp(created[i], TRUE)
    <3> HIDE DEF rest, R, rows
    <3> SUFFICES ASSUME NEW i \in pos..n PROVE rows[i] = RestoredApp(created[i], TRUE)
      OBVIOUS
    <3>1. i - pos + 1 \in 1..(n - pos + 1) /\ pos + (i - pos + 1) - 1 = i
      BY <1>1, <1>3
    <3> QED  BY <2>2, <2>5, <3>1
  <2>7. c \in BOOLEAN /\ (report.cancelled => c)
    BY <1>2
  <2>8. /\ Shaped(report') /\ report'.apps = rows /\ report'.ents = report.ents /\ report'.failures = report.failures
        /\ report'.manual = report.manual /\ report'.cancelled = c
    <3> HIDE DEF rows, c, R
    <3> QED  BY <1>2, <2>1 DEF Shaped
  <2> HIDE DEF rows, c
  <2>9. PartsGrow
    BY <2>7, <2>8 DEF PartsGrow
  <2>10. \A i \in DOMAIN created \ DOMAIN report.apps : i \in pos..n
    BY <1>1, <1>3
  <2> QED  BY <1>3, <1>4, <2>1, <2>5, <2>6, <2>8, <2>9, <2>10
<1>5. CASE ~ (pos > n \/ Stopped)
  <2> DEFINE row == RestoredApp(Entry, FALSE)
             rows == Append(report.apps, row)
             m == report.manual \cup ({Entry.src} \cap withheld \cap (manifest.fics \cup manifest.owners))
  <2>1. /\ report' = [report EXCEPT !.apps = rows, !.manual = m]
        /\ at' = "wire" /\ pos' = pos /\ item' = 1
    BY <1>1, <1>5 DEF NextWire
  <2>2. pos \in DOMAIN created /\ Entry \in EntryRecs
    BY <1>1, <1>5 DEF Entry
  <2>3. row \in R
    BY <2>2, RowMade
  <2> HIDE DEF row
  <2>4. /\ rows \in Seq(R) /\ Len(rows) = pos /\ rows[pos] = row
        /\ \A i \in DOMAIN report.apps : i \in DOMAIN rows /\ rows[i] = report.apps[i]
        /\ DOMAIN rows = DOMAIN report.apps \cup {pos}
    <3> HIDE DEF R
    <3> QED  BY <1>1, <1>2, <1>3, <2>3
  <2>5. /\ Shaped(report') /\ report'.apps = rows /\ report'.ents = report.ents /\ report'.failures = report.failures
        /\ report'.manual = m /\ report'.cancelled = report.cancelled
    <3> HIDE DEF rows, m, R
    <3> QED  BY <1>2, <2>1 DEF Shaped
  <2>6. PartsGrow
    BY <1>2, <2>5 DEF PartsGrow
  <2> HIDE DEF rows
  <2> QED  BY <1>3, <1>5, <2>1, <2>2, <2>4, <2>5, <2>6 DEF row
<1> QED  BY <1>4, <1>5

\* The steps that leave the rows alone.
SameRows == PartsGrow /\ report'.apps = report.apps /\ report'.ents = report.ents

LEMMA PartEdits ==
    ASSUME ReportShape, NEW x,
           \/ report' = [report EXCEPT !.manual = @ \cup x]
           \/ report' = [report EXCEPT !.failures = @ \cup x]
           \/ x \in BOOLEAN /\ report' = [report EXCEPT !.cancelled = @ \/ x]
           \/ report' = [report EXCEPT !.cancelled = TRUE]
           \/ report' = [report EXCEPT !.expired = x]
    PROVE  SameRows
<1>1. Shaped(report) /\ report.cancelled \in BOOLEAN
  BY DEF ReportShape
<1>2. CASE report' = [report EXCEPT !.manual = @ \cup x]
  BY <1>1, <1>2 DEF Shaped, SameRows, PartsGrow
<1>3. CASE report' = [report EXCEPT !.failures = @ \cup x]
  BY <1>1, <1>3 DEF Shaped, SameRows, PartsGrow
<1>4. CASE x \in BOOLEAN /\ report' = [report EXCEPT !.cancelled = @ \/ x]
  BY <1>1, <1>4 DEF Shaped, SameRows, PartsGrow
<1>5. CASE report' = [report EXCEPT !.cancelled = TRUE]
  BY <1>1, <1>5 DEF Shaped, SameRows, PartsGrow
<1>6. CASE report' = [report EXCEPT !.expired = x]
  BY <1>1, <1>6 DEF Shaped, SameRows, PartsGrow
<1> QED  BY <1>2, <1>3, <1>4, <1>5, <1>6

LEMMA QuietReport ==
    ASSUME TypeInv, ReportShape, Classify \/ Pass1 \/ Pass5 \/ Around \/ UNCHANGED vars
    PROVE  SameRows
<1>0. report' = report => SameRows
  BY SameReport DEF SameRows
<1>1. CASE Classify \/ Ensure \/ EndRound \/ TakePending \/ UNCHANGED vars
  BY <1>0, <1>1 DEF Classify, Ensure, EndRound, TakePending, vars
<1>2. CASE Lookup
  BY <1>0, <1>2, PartEdits DEF Lookup, Refuse
<1>3. CASE CheckOwners
  BY <1>0, <1>3, PartEdits DEF CheckOwners, Refuse
<1>4. CASE CheckFics
  BY <1>0, <1>4, PartEdits DEF CheckFics, Refuse
<1>5. CASE CheckPrincipal
  BY <1>0, <1>5, PartEdits DEF CheckPrincipal, Refuse
<1>6. CASE Create
  BY <1>0, <1>6, PartEdits DEF Create
<1>7. CASE EndLoop
  BY <1>0, <1>7, PartEdits DEF EndLoop
<1>8. CASE JudgePending
  BY <1>0, <1>8, PartEdits DEF JudgePending
<1>9. CASE EndTake
  <2> DEFINE x == \E i \in pos..Len(created) : created[i].pending
  <2>1. report' = [report EXCEPT !.cancelled = @ \/ x] /\ x \in BOOLEAN
    BY <1>9 DEF EndTake
  <2> HIDE DEF x
  <2> QED  BY <2>1, PartEdits
<1>10. CASE Pass5
  <2>1. CASE ListIdentities
    BY <1>0, <2>1, PartEdits DEF ListIdentities
  <2>2. CASE Rebind
    BY <1>0, <2>2, PartEdits DEF Rebind
  <2>3. CASE Finish
    BY <2>3, PartEdits DEF Finish
  <2> QED  BY <1>10, <2>1, <2>2, <2>3 DEF Pass5
<1>11. CASE Around
  <2>1. report' = report
    BY <1>11 DEF Around, PressCancel, Delete, Tamper, Change, Plant
  <2> QED  BY <1>0, <2>1
<1> QED  BY <1>1, <1>2, <1>3, <1>4, <1>5, <1>6, <1>7, <1>8, <1>9, <1>10, <1>11 DEF Pass1

\* Pass 3: it is at a row, and warns at most on that one; stopping, it marks
\* the rows it has not come to.
LEMMA ConsentRow ==
    ASSUME BaseInv, ReportShape, RowsInv, at \in {"consent", "grant"}, pos <= Len(created)
    PROVE  /\ pos \in DOMAIN report.apps /\ pos \in DOMAIN created
           /\ report.apps[pos].src = Entry.src /\ report.apps[pos].id = Entry.id
<1>1. pos \in Nat \ {0} /\ report.apps \in Seq(Rows) /\ Len(created) \in Nat
  BY DEF BaseInv, TypeInv, ReportShape
<1>2. Len(report.apps) = Len(created)
  BY DEF RowsInv, Wired
<1>3. pos \in DOMAIN report.apps
  <2> DEFINE R == Rows
  <2>1. report.apps \in Seq(R)
    BY <1>1
  <2> HIDE DEF R
  <2> QED  BY <1>1, <1>2, <2>1
<1> QED  BY <1>3 DEF RowsInv, Entry

LEMMA ConsentStops ==
    ASSUME BaseInv, ReportShape, RowsInv, NextConsent, at' = "ents"
    PROVE  /\ PartsGrow /\ report'.ents = report.ents /\ report'.apps \in Seq(Rows)
           /\ Len(report'.apps) = Len(report.apps) /\ DOMAIN report'.apps = DOMAIN report.apps /\ pos' = 1
           /\ \A i \in DOMAIN report.apps :
                /\ report'.apps[i].src = report.apps[i].src /\ report'.apps[i].id = report.apps[i].id
                /\ report'.apps[i].warn = report.apps[i].warn
                /\ report.apps[i].incomplete => report'.apps[i].incomplete
                /\ i >= pos /\ report.apps[i].src \in manifest.consents => report'.apps[i].incomplete
                /\ i < pos => report'.apps[i] = report.apps[i]
           /\ report'.cancelled = (report.cancelled \/ (cancelled /\ pos <= Len(created)))
           /\ pos > Len(created) \/ Stopped
           /\ pos > Len(created) => \A i \in DOMAIN report.apps : report'.apps[i] = report.apps[i]
<1> DEFINE old == report.apps
           rows == [i \in DOMAIN old |-> IF i >= pos /\ old[i].src \in manifest.consents
                                         THEN [old[i] EXCEPT !.incomplete = TRUE] ELSE old[i]]
           c == report.cancelled \/ (cancelled /\ pos <= Len(created))
           R == Rows
<1>1. /\ report' = [report EXCEPT !.apps = rows, !.cancelled = c] /\ pos' = 1
      /\ pos > Len(created) \/ Stopped
  BY DEF NextConsent
<1>2. Shaped(report) /\ old \in Seq(Rows) /\ report.cancelled \in BOOLEAN
  BY DEF ReportShape
<1>3. \A i \in DOMAIN old : old[i] \in R
  <2> HIDE DEF R, old
  <2> QED  BY <1>2 DEF R
<1>4. ASSUME NEW x \in R
      PROVE  LET y == [x EXCEPT !.incomplete = TRUE] IN
             y \in R /\ y.src = x.src /\ y.id = x.id /\ y.warn = x.warn /\ y.incomplete
  BY <1>4 DEF Rows
<1>5. \A i \in DOMAIN old :
        /\ rows[i] \in R
        /\ rows[i].src = old[i].src /\ rows[i].id = old[i].id /\ rows[i].warn = old[i].warn
        /\ old[i].incomplete => rows[i].incomplete
        /\ i >= pos /\ old[i].src \in manifest.consents => rows[i].incomplete
        /\ ~ (i >= pos) => rows[i] = old[i]
  <2> SUFFICES ASSUME NEW i \in DOMAIN old
               PROVE  /\ rows[i] \in R
                      /\ rows[i].src = old[i].src /\ rows[i].id = old[i].id /\ rows[i].warn = old[i].warn
                      /\ old[i].incomplete => rows[i].incomplete
                      /\ i >= pos /\ old[i].src \in manifest.consents => rows[i].incomplete
                      /\ ~ (i >= pos) => rows[i] = old[i]
    OBVIOUS
  <2>1. CASE i >= pos /\ old[i].src \in manifest.consents
    <3>1. rows[i] = [old[i] EXCEPT !.incomplete = TRUE]
      BY <2>1
    <3> HIDE DEF rows, old, R
    <3> QED  BY <1>3, <1>4, <2>1, <3>1
  <2>2. CASE ~ (i >= pos /\ old[i].src \in manifest.consents)
    <3>1. rows[i] = old[i]
      BY <2>2
    <3> HIDE DEF rows, old, R
    <3> QED  BY <1>3, <2>2, <3>1
  <2> QED  BY <2>1, <2>2
<1>6. DOMAIN rows = DOMAIN old /\ rows = [i \in DOMAIN old |-> rows[i]]
  OBVIOUS
<1>7. rows \in Seq(R) /\ Len(rows) = Len(old) /\ DOMAIN old = 1..Len(old) /\ Len(old) \in Nat
  <2>1. old \in Seq(R)
    BY <1>2
  <2> HIDE DEF R, old, rows
  <2>2. DOMAIN old = 1..Len(old) /\ Len(old) \in Nat
    BY <2>1
  <2>3. rows \in [1..Len(old) -> R]
    BY <1>5, <1>6, <2>2
  <2> QED  BY <2>2, <2>3
<1>8. c \in BOOLEAN /\ (report.cancelled => c)
  BY <1>2
<1>9. /\ Shaped(report') /\ report'.apps = rows /\ report'.ents = report.ents /\ report'.failures = report.failures
      /\ report'.manual = report.manual /\ report'.cancelled = c
  <2> HIDE DEF rows, c, R
  <2> QED  BY <1>1, <1>2 DEF Shaped
<1>10. PartsGrow
  <2> HIDE DEF rows, c, R
  <2> QED  BY <1>8, <1>9 DEF PartsGrow
<1>11. pos \in Nat /\ \A i \in DOMAIN old : i \in Nat /\ (i < pos => ~ (i >= pos))
  <2> HIDE DEF rows
  <2> QED  BY <1>7 DEF BaseInv, TypeInv
<1>12. pos > Len(created) => \A i \in DOMAIN old : ~ (i >= pos)
  <2>1. Len(old) = Len(created) /\ Len(created) \in Nat
    BY DEF RowsInv, NextConsent, Wired, BaseInv, TypeInv
  <2> HIDE DEF rows, old
  <2> QED  BY <1>7, <1>11, <2>1
<1> HIDE DEF rows, R
<1> QED  BY <1>1, <1>5, <1>6, <1>7, <1>9, <1>10, <1>11, <1>12 DEF R

LEMMA ConsentReport ==
    ASSUME BaseInv, ReportShape, RowsInv
    PROVE  /\ NextConsent /\ at' # "ents" =>
                /\ pos \in DOMAIN created /\ at' = "consent" /\ pos' = pos + 1
                /\ \/ RowStep({}, FALSE) /\ Entry.src \notin manifest.consents
                   \/ RowStep({"consent"}, FALSE) /\ Entry.src \in manifest.consents \cap withheld
           /\ Reread =>
                /\ pos \in DOMAIN created
                /\ \/ /\ at' = "grant" /\ pos' = pos /\ RowStep({}, FALSE)
                      /\ hit' = remap_required_resource_access(Entry.src)
                   \/ /\ at' = "consent" /\ pos' = pos + 1
                      /\ \/ RowStep({"consent"}, FALSE)
                         \/ RowStep({}, FALSE) /\ remap_required_resource_access(Entry.src) = {}
           /\ Grant =>
                /\ pos \in DOMAIN created /\ at' = "consent" /\ pos' = pos + 1
                /\ \/ RowStep({"consent"}, FALSE)
                   \/ RowStep({}, FALSE) /\ hit \subseteq tenant'[Entry.id].consent
<1>0. "consent" \in Warnings /\ pos \in Nat
  BY DEF Warnings, BaseInv, TypeInv
<1>1. ASSUME NextConsent, at' # "ents"
      PROVE  /\ pos \in DOMAIN created /\ at' = "consent" /\ pos' = pos + 1
             /\ \/ RowStep({}, FALSE) /\ Entry.src \notin manifest.consents
                \/ RowStep({"consent"}, FALSE) /\ Entry.src \in manifest.consents \cap withheld
  <2>1. /\ at = "consent" /\ pos <= Len(created) /\ at' = "consent" /\ pos' = pos + 1
        /\ \/ report' = report /\ Entry.src \notin manifest.consents
           \/ /\ Entry.src \in manifest.consents \cap withheld
              /\ report' = [report EXCEPT !.apps[pos].warn = @ \cup {"consent"}, !.manual = @ \cup {Entry.src}]
    BY <1>1 DEF NextConsent
  <2>2. pos \in DOMAIN report.apps /\ pos \in DOMAIN created
    BY <2>1, ConsentRow
  <2> QED  BY <1>0, <2>1, <2>2, SameReport, WarnEffect
<1>2. ASSUME Reread
      PROVE  /\ pos \in DOMAIN created
             /\ \/ /\ at' = "grant" /\ pos' = pos /\ RowStep({}, FALSE)
                   /\ hit' = remap_required_resource_access(Entry.src)
                \/ /\ at' = "consent" /\ pos' = pos + 1
                   /\ \/ RowStep({"consent"}, FALSE)
                      \/ RowStep({}, FALSE) /\ remap_required_resource_access(Entry.src) = {}
  <2> DEFINE live == tenant[Entry.id].perms
             plan == remap_required_resource_access(Entry.src)
  <2>1. at = "consent" /\ pos <= Len(created)
    BY <1>2 DEF Reread
  <2>2. pos \in DOMAIN report.apps /\ pos \in DOMAIN created
    BY <2>1, ConsentRow
  <2>3. PICK o \in ReadAnswers(Entry.id) :
          /\ hit' = live
          /\ IF o = "ok" /\ live = plan /\ live # {}
             THEN at' = "grant" /\ UNCHANGED <<pos, report>>
             ELSE /\ at' = at /\ pos' = pos + 1
                  /\ report' = IF o = "ok" /\ live = plan THEN report
                               ELSE [report EXCEPT !.apps[pos].warn = @ \cup {"consent"},
                                                   !.manual = @ \cup (IF o = "ok" THEN {Entry.src} ELSE {})]
    BY <1>2 DEF Reread
  <2> HIDE DEF live, plan
  <2>4. CASE o = "ok" /\ live = plan /\ live # {}
    BY <2>2, <2>3, <2>4, SameReport DEF plan
  <2>5. CASE o = "ok" /\ live = plan /\ live = {}
    <3>1. at' = "consent" /\ pos' = pos + 1 /\ report' = report /\ plan = {}
      BY <2>1, <2>3, <2>5
    <3> QED  BY <2>2, <3>1, SameReport DEF plan
  <2>6. CASE ~ (o = "ok" /\ live = plan)
    <3>1. /\ at' = "consent" /\ pos' = pos + 1
          /\ report' = [report EXCEPT !.apps[pos].warn = @ \cup {"consent"},
                                      !.manual = @ \cup (IF o = "ok" THEN {Entry.src} ELSE {})]
      BY <2>1, <2>3, <2>6
    <3>2. RowStep({"consent"}, FALSE)
      BY <1>0, <2>2, <3>1, WarnEffect
    <3> QED  BY <2>2, <3>1, <3>2
  <2> QED  BY <2>4, <2>5, <2>6
<1>3. ASSUME Grant
      PROVE  /\ pos \in DOMAIN created /\ at' = "consent" /\ pos' = pos + 1
             /\ \/ RowStep({"consent"}, FALSE)
                \/ RowStep({}, FALSE) /\ hit \subseteq tenant'[Entry.id].consent
  <2> DEFINE a == Entry.id
             able == {p \in ListToGrant : Resolvable(p) \/ p = a}
  <2>1. at = "grant" /\ pos <= Len(created) /\ at' = "consent" /\ pos' = pos + 1 /\ TypeInv /\ hit \in SUBSET Names
    BY <1>3 DEF Grant, BaseInv, PlaceInv
  <2>2. pos \in DOMAIN report.apps /\ pos \in DOMAIN created
    BY <2>1, ConsentRow
  <2>3. PICK o \in WriteAnswers(a), g \in SUBSET able, ensured \in BOOLEAN :
          /\ o = "ok" => g = able
          /\ Landed(o) => ensured
          /\ tenant' = IF ensured
                       THEN [tenant EXCEPT ![a].sp = TRUE, ![a].consent = @ \cup g]
                       ELSE tenant
          /\ IF o = "ok" /\ able = ListToGrant THEN UNCHANGED report ELSE Warn("consent")
    BY <1>3 DEF Grant
  <2>4. CASE o = "ok" /\ able = ListToGrant
    <3>1. report' = report /\ ensured /\ g = hit
      BY <2>3, <2>4 DEF Landed, ListToGrant
    <3>2. a \in DOMAIN tenant
      BY <2>1, EntryFacts DEF BaseInv
    <3>3. PICK y : /\ tenant' = [tenant EXCEPT ![a] = y] /\ y.consent = tenant[a].consent \cup g
      <4> HIDE DEF able
      <4>1. g \in SUBSET Names
        BY <2>1, <3>1
      <4>2. PICK y : /\ [tenant EXCEPT ![a].sp = TRUE, ![a].consent = @ \cup g] = [tenant EXCEPT ![a] = y]
                     /\ y.consent = tenant[a].consent \cup g
        BY <2>1, <3>2, <4>1, ConsentEdit
      <4> QED  BY <2>3, <3>1, <4>2
    <3>4. hit \subseteq tenant'[a].consent
      BY <3>1, <3>2, <3>3
    <3> QED  BY <2>1, <2>2, <3>1, <3>4, SameReport
  <2>5. CASE ~ (o = "ok" /\ able = ListToGrant)
    BY <1>0, <2>1, <2>2, <2>3, <2>5, WarnEffect
  <2> QED  BY <2>4, <2>5
<1> QED  BY <1>1, <1>2, <1>3

\* Pass 4: a row more, or a warning on the last.
EntAdded(row) ==
    /\ PartsGrow /\ report'.apps = report.apps /\ report'.ents \in Seq(EntRows)
    /\ Len(report'.ents) = Len(report.ents) + 1
    /\ DOMAIN report'.ents = DOMAIN report.ents \cup {Len(report.ents) + 1}
    /\ \A i \in DOMAIN report.ents : report'.ents[i] = report.ents[i]
    /\ report'.ents[Len(report.ents) + 1] = row

EntWarned(w) ==
    /\ PartsGrow /\ report'.apps = report.apps /\ report'.ents \in Seq(EntRows)
    /\ Len(report'.ents) = Len(report.ents) /\ DOMAIN report'.ents = DOMAIN report.ents
    /\ \A i \in DOMAIN report.ents :
         /\ report'.ents[i].src = report.ents[i].src /\ report'.ents[i].id = report.ents[i].id
         /\ i # Len(report.ents) => report'.ents[i] = report.ents[i]
         /\ i = Len(report.ents) => w \in report'.ents[i].warn

LEMMA EntAppend ==
    ASSUME BaseInv, ReportShape, Ent \in DOMAIN remap,
           report' = [report EXCEPT !.ents = Append(@, [src |-> Ent, id |-> EntApp, warn |-> {}])]
    PROVE  EntAdded([src |-> Ent, id |-> EntApp, warn |-> {}])
<1> DEFINE row == [src |-> Ent, id |-> EntApp, warn |-> {}]
           rows == Append(report.ents, row)
           R == EntRows
<1>1. EntApp \in DOMAIN tenant /\ Ent \in Apps /\ tenant \in Seq(AppRecs)
  BY EntFacts DEF BaseInv, TypeInv
<1>2. EntApp \in Nat
  BY <1>1
<1>3. row \in R
  BY <1>1, <1>2 DEF EntRows
<1>4. Shaped(report) /\ report.ents \in Seq(R) /\ report.cancelled \in BOOLEAN
  BY DEF ReportShape
<1> HIDE DEF row
<1>5. /\ rows \in Seq(R) /\ Len(rows) = Len(report.ents) + 1
      /\ DOMAIN rows = DOMAIN report.ents \cup {Len(report.ents) + 1}
      /\ \A i \in DOMAIN report.ents : rows[i] = report.ents[i]
      /\ rows[Len(report.ents) + 1] = row
  <2> HIDE DEF R
  <2> QED  BY <1>3, <1>4
<1>6. report' = [report EXCEPT !.ents = rows]
  BY <1>4 DEF row, Shaped
<1> HIDE DEF rows
<1>7. Shaped(report') /\ report'.apps = report.apps /\ report'.ents = rows /\ SameParts(report', report)
  BY <1>4, <1>6 DEF Shaped, SameParts
<1>8. PartsGrow
  BY <1>4, <1>7 DEF PartsGrow, SameParts
<1> QED  BY <1>5, <1>7, <1>8 DEF EntAdded, row

LEMMA EntWarning ==
    ASSUME ReportShape, Len(report.ents) > 0, NEW w \in {"settings", "role", "group"}, WarnEnt(w)
    PROVE  EntWarned(w)
<1> DEFINE n == Len(report.ents)
           x == report.ents[n]
           y == [x EXCEPT !.warn = @ \cup {w}]
           rows == [report.ents EXCEPT ![n] = y]
           R == EntRows
<1>1. Shaped(report) /\ report.ents \in Seq(R) /\ report.cancelled \in BOOLEAN
  BY DEF ReportShape
<1>2. n \in DOMAIN report.ents /\ x \in R
  <2> HIDE DEF R
  <2> QED  BY <1>1
<1>3. y \in R /\ y.src = x.src /\ y.id = x.id /\ w \in y.warn
  <2> HIDE DEF x
  <2> QED  BY <1>2 DEF EntRows
<1>4. report' = [report EXCEPT !.ents = rows]
  BY <1>1 DEF WarnEnt, Shaped
<1> HIDE DEF y
<1>5. rows \in Seq(R) /\ Len(rows) = n /\ DOMAIN rows = DOMAIN report.ents
  <2> HIDE DEF R
  <2> QED  BY <1>1, <1>2, <1>3
<1>6. \A i \in DOMAIN report.ents : rows[i] = IF i = n THEN y ELSE report.ents[i]
  OBVIOUS
<1> HIDE DEF rows
<1>7. Shaped(report') /\ report'.apps = report.apps /\ report'.ents = rows /\ SameParts(report', report)
  BY <1>1, <1>4 DEF Shaped, SameParts
<1>8. PartsGrow
  BY <1>1, <1>7 DEF PartsGrow, SameParts
<1> QED  BY <1>3, <1>5, <1>6, <1>7, <1>8 DEF EntWarned

EntRow == [src |-> Ent, id |-> EntApp, warn |-> {}]

LEMMA EntsReport ==
    ASSUME BaseInv, ReportShape, EntsInv
    PROVE  /\ NextEnt => \/ SameRows /\ at' \in {"ents", "identities"}
                         \/ EntAdded(EntRow) /\ at' = "settings" /\ pos' = pos /\ Ent \in DOMAIN remap
           /\ ApplySettings => SameRows \/ EntWarned("settings")
           /\ AssignRole => SameRows \/ EntWarned("role")
           /\ JoinGroup => SameRows \/ EntWarned("group")
<1>0. report' = report => SameRows
  BY SameReport DEF SameRows
<1>1. ASSUME NextEnt
      PROVE  \/ SameRows /\ at' \in {"ents", "identities"}
             \/ EntAdded(EntRow) /\ at' = "settings" /\ pos' = pos /\ Ent \in DOMAIN remap
  <2>1. CASE report' = [report EXCEPT !.cancelled = @ \/ cancelled] /\ at' = "identities"
    <3> DEFINE x == IF cancelled THEN TRUE ELSE FALSE
    <3>1. Shaped(report) /\ report.cancelled \in BOOLEAN /\ (report.cancelled \/ cancelled) = (report.cancelled \/ x)
      BY DEF ReportShape
    <3>2. report' = [report EXCEPT !.cancelled = @ \/ x]
      BY <2>1, <3>1
    <3>3. x \in BOOLEAN
      OBVIOUS
    <3> HIDE DEF x
    <3>4. SameRows
      BY <3>2, <3>3, PartEdits
    <3> QED  BY <2>1, <3>4
  <2>2. CASE report' = [report EXCEPT !.manual = @ \cup {Ent}] /\ at' = at
    <3>1. SameRows
      BY <2>2, PartEdits
    <3> QED  BY <1>1, <2>2, <3>1 DEF NextEnt
  <2>3. CASE /\ report' = [report EXCEPT !.ents = Append(@, [src |-> Ent, id |-> EntApp, warn |-> {}])]
             /\ Ent \in DOMAIN remap /\ at' = "settings" /\ pos' = pos
    BY <2>3, EntAppend DEF EntRow
  <2> QED  BY <1>1, <2>1, <2>2, <2>3 DEF NextEnt
<1>2. ASSUME AssignRole PROVE SameRows \/ EntWarned("role")
  <2>1. at = "role" /\ (report' = report \/ WarnEnt("role"))
    BY <1>2 DEF AssignRole, Add
  <2>2. Len(report.ents) > 0
    BY <2>1 DEF EntsInv
  <2> QED  BY <1>0, <2>1, <2>2, EntWarning
<1>3. ASSUME JoinGroup PROVE SameRows \/ EntWarned("group")
  <2>1. at = "group" /\ (report' = report \/ WarnEnt("group") \/ report' = [report EXCEPT !.manual = @ \cup {Ent}])
    BY <1>3 DEF JoinGroup, Add
  <2>2. Len(report.ents) > 0
    BY <2>1 DEF EntsInv
  <2> QED  BY <1>0, <2>1, <2>2, EntWarning, PartEdits
<1>4. ASSUME ApplySettings PROVE SameRows \/ EntWarned("settings")
  <2>1. at = "settings" /\ (report' = report \/ WarnEnt("settings"))
    BY <1>4 DEF ApplySettings
  <2>2. Len(report.ents) > 0
    BY <2>1 DEF EntsInv
  <2> QED  BY <1>0, <2>1, <2>2, EntWarning
<1> QED  BY <1>1, <1>2, <1>3, <1>4

\* A row stays, with its app and its warnings.
RowsGrow ==
    /\ PartsGrow /\ report'.apps \in Seq(Rows) /\ report'.ents \in Seq(EntRows)
    /\ \A i \in DOMAIN report.apps :
         /\ i \in DOMAIN report'.apps
         /\ report'.apps[i].src = report.apps[i].src /\ report'.apps[i].id = report.apps[i].id
         /\ report.apps[i].warn \subseteq report'.apps[i].warn
         /\ report.apps[i].incomplete => report'.apps[i].incomplete
    /\ ~ NextWire => Len(report'.apps) = Len(report.apps) /\ DOMAIN report'.apps = DOMAIN report.apps
    /\ ~ Pass4 => report'.ents = report.ents

LEMMA RowsStep ==
    ASSUME BaseInv, ReportShape, RowsInv, EntsInv, [Next]_vars, ~ Begin, ~ Crash
    PROVE  RowsGrow
<1>0. report.apps \in Seq(Rows) /\ report.ents \in Seq(EntRows)
  BY DEF ReportShape
<1>1. ASSUME SameRows PROVE RowsGrow
  BY <1>0, <1>1 DEF SameRows, RowsGrow
<1>2. ASSUME NEW W, NEW b, RowStep(W, b) PROVE RowsGrow
  <2>1. \A i \in DOMAIN report.apps :
          /\ report'.apps[i].src = report.apps[i].src /\ report'.apps[i].id = report.apps[i].id
          /\ report.apps[i].warn \subseteq report'.apps[i].warn
          /\ report.apps[i].incomplete => report'.apps[i].incomplete
    BY <1>2 DEF RowStep, RowChanged
  <2> QED  BY <1>0, <1>2, <2>1 DEF RowStep, RowChanged, RowsGrow
<1>3. CASE Classify \/ Pass1 \/ Pass5 \/ Around \/ UNCHANGED vars
  BY <1>1, <1>3, QuietReport DEF BaseInv
<1>4. CASE NextWire
  BY <1>0, <1>4, NextWireReport DEF RowsGrow
<1>5. CASE SkipStep \/ PatchStep \/ ReadStep \/ FicStep \/ OwnerStep \/ SecretStep \/ EndWire
  BY <1>2, <1>5, WireReport
<1>6. CASE NextConsent /\ at' = "ents"
  BY <1>0, <1>6, ConsentStops DEF RowsGrow
<1>7. CASE (NextConsent /\ at' # "ents") \/ Reread \/ Grant
  BY <1>2, <1>7, ConsentReport
<1>8. CASE Pass4
  <2>1. CASE SameRows
    BY <1>1, <2>1
  <2>2. CASE EntAdded(EntRow) \/ EntWarned("settings") \/ EntWarned("role") \/ EntWarned("group")
    BY <1>0, <1>8, <2>2 DEF EntAdded, EntWarned, RowsGrow
  <2> QED  BY <1>8, <2>1, <2>2, EntsReport DEF Pass4
<1> QED  BY <1>3, <1>4, <1>5, <1>6, <1>7, <1>8, NextCases DEF Pass2, Pass3

LEMMA ShapeKept ==
    ASSUME BaseInv, ReportShape, RowsInv, EntsInv, [Next]_vars
    PROVE  ReportShape'
<1>0. manifest' = manifest /\ Rows' = Rows /\ EntRows' = EntRows
  BY ManifestStays DEF Rows, EntRows, Apps
<1>1. CASE Begin \/ Crash
  <2>1. report' = EmptyReport
    BY <1>1 DEF Begin, Crash
  <2> QED  BY <2>1 DEF EmptyReport, ReportShape, Shaped
<1>2. CASE ~ Begin /\ ~ Crash
  <2>1. RowsGrow
    BY <1>2, RowsStep
  <2>2. Shaped(report)'
    BY <2>1 DEF RowsGrow, PartsGrow, Shaped
  <2> QED  BY <1>0, <2>1, <2>2 DEF RowsGrow, PartsGrow, ReportShape
<1> QED  BY <1>1, <1>2

\* Up to the end of Pass 1.
Early == {"idle", "classify", "take"} \cup Unsettled

LEMMA StagesLater ==
    ASSUME BaseInv, [Next]_vars
    PROVE  /\ Classify \/ Pass1 => at \in Early /\ (at' \in Early \/ EndTake)
           /\ Pass2 => at = "wire" /\ (at' = "wire" \/ (NextWire /\ at' = "consent"))
           /\ Pass3 => at \in {"consent", "grant"} /\ (at' \in {"consent", "grant"} \/ (NextConsent /\ at' = "ents"))
           /\ Pass4 => at \in {"ents", "settings", "role", "group"} /\ at' \in {"ents", "settings", "role", "group", "identities"}
           /\ Pass5 => at \in {"identities", "rebind", "finish"} /\ at' \in {"rebind", "finish", "done"}
           /\ Around \/ UNCHANGED vars =>
                /\ at' = at /\ pos' = pos /\ item' = item /\ created' = created /\ remap' = remap /\ hit' = hit
                /\ refused' = refused /\ withheld' = withheld /\ report' = report /\ touched' = touched
<1>1. ASSUME Classify \/ Pass1 PROVE at \in Early /\ (at' \in Early \/ EndTake)
  <2>1. CASE Classify \/ EndLoop \/ JudgePending \/ EndRound \/ TakePending \/ EndTake
    BY <2>1 DEF Classify, EndLoop, JudgePending, EndRound, TakePending, EndTake, Early, Unsettled, Checking
  <2>2. CASE Lookup \/ CheckOwners \/ CheckFics
    BY <2>2 DEF Lookup, CheckOwners, CheckFics, Refuse, NextApp, Early, Unsettled, Checking
  <2>3. CASE CheckPrincipal \/ Create \/ Ensure
    BY <2>3 DEF CheckPrincipal, Create, Ensure, Keep, Refuse, NextApp, Early, Unsettled, Checking
  <2> QED  BY <1>1, <2>1, <2>2, <2>3 DEF Pass1
<1>2. ASSUME Pass2 PROVE at = "wire" /\ (at' = "wire" \/ (NextWire /\ at' = "consent"))
  BY <1>2 DEF Pass2, NextWire, SkipStep, PatchStep, ReadStep, FicStep, OwnerStep, SecretStep, EndWire, Wiring
<1>3. ASSUME Pass3
      PROVE  at \in {"consent", "grant"} /\ (at' \in {"consent", "grant"} \/ (NextConsent /\ at' = "ents"))
  BY <1>3 DEF Pass3, NextConsent, Reread, Grant
<1>4. ASSUME Pass4
      PROVE  at \in {"ents", "settings", "role", "group"} /\ at' \in {"ents", "settings", "role", "group", "identities"}
  BY <1>4 DEF Pass4, NextEnt, ApplySettings, AssignRole, JoinGroup
<1>5. ASSUME Pass5
      PROVE  at \in {"identities", "rebind", "finish"} /\ at' \in {"rebind", "finish", "done"}
  BY <1>5 DEF Pass5, ListIdentities, Rebind, Finish
<1>6. ASSUME Around \/ UNCHANGED vars
      PROVE  /\ at' = at /\ pos' = pos /\ item' = item /\ created' = created /\ remap' = remap /\ hit' = hit
             /\ refused' = refused /\ withheld' = withheld /\ report' = report /\ touched' = touched
  <2>1. at' = at /\ locals' = locals /\ touched' = touched
    BY <1>6, AroundEffect DEF BaseInv, vars
  <2>2. report' = report
    BY <1>6 DEF Around, PressCancel, Delete, Tamper, Change, Plant, vars
  <2> QED  BY <2>1, <2>2 DEF locals
<1> QED  BY <1>1, <1>2, <1>3, <1>4, <1>5, <1>6

\* The steps of Pass 2 within an entry.
Inner == SkipStep \/ PatchStep \/ ReadStep \/ FicStep \/ OwnerStep \/ SecretStep

LEMMA InnerFacts ==
    ASSUME Inner
    PROVE  /\ at = "wire" /\ item > 0 /\ item <= Len(Steps(Entry)) /\ at' = at /\ pos' = pos /\ item' = item + 1
           /\ manifest' = manifest /\ remap' = remap /\ withheld' = withheld
BY DEF Inner, SkipStep, PatchStep, ReadStep, FicStep, OwnerStep, SecretStep, Wiring

LEMMA RowsKept ==
    ASSUME BaseInv, ReportShape, RowsInv, EntsInv, [Next]_vars
    PROVE  RowsInv'
<1> DEFINE Of == \A i \in DOMAIN report.apps :
                   /\ i \in DOMAIN created
                   /\ report.apps[i].src = created[i].src /\ report.apps[i].id = created[i].id
           EntsOf == \A i \in DOMAIN report.ents : report.ents[i].id \in DOMAIN tenant
<1>0. /\ pos \in Nat \ {0} /\ item \in Nat /\ Len(created) \in Nat /\ Of /\ EntsOf
      /\ (created' = created \/ SameEntries => Len(created') = Len(created))
      /\ \A k \in Nat : k + 1 \in Nat /\ k + 1 > 0 /\ k + 1 # 0
  BY DEF BaseInv, TypeInv, RowsInv, SameEntries
<1>1. CASE Begin \/ Crash
  <2>1. report'.apps = <<>> /\ report'.ents = <<>> /\ at' \in {"idle", "classify"}
    BY <1>1 DEF Begin, Crash, EmptyReport
  <2> QED  BY <2>1 DEF RowsInv, Wired, Ending
<1>2. CASE ~ Begin /\ ~ Crash
  <2>0. RowsGrow
    BY <1>2, RowsStep
  <2>1. CASE (Classify \/ Pass1) /\ ~ EndTake
    <3>1. at \in Early /\ at' \in Early /\ SameRows
      BY <2>1, StagesLater, QuietReport DEF BaseInv
    <3>2. report.apps = <<>> /\ report.ents = <<>>
      BY <3>1 DEF RowsInv, Early, Unsettled, Checking, Ending
    <3>3. report'.apps = <<>> /\ report'.ents = <<>>
      BY <3>1, <3>2 DEF SameRows
    <3> QED  BY <3>1, <3>3 DEF RowsInv, Early, Unsettled, Checking, Ending, Wired
  <2>2. CASE EndTake
    <3>1. SameRows /\ at = "take" /\ at' = "wire" /\ pos' = 1 /\ item' = 0 /\ created' = created
      BY <2>2, QuietReport DEF EndTake, Pass1, BaseInv
    <3>2. report'.apps = <<>> /\ report'.ents = <<>>
      BY <3>1 DEF RowsInv, Early, Ending, SameRows
    <3> QED  BY <1>0, <3>1, <3>2 DEF RowsInv, Early, Unsettled, Checking, Ending, Wired
  <2>3. SameEntries \/ Classify \/ Pass1
    BY <1>2, EntriesStep DEF Pass1
  <2>4. ASSUME ~ NextWire, ~ Classify, ~ Pass1 PROVE Of' /\ Len(created') = Len(created)
    <3>1. SameEntries /\ DOMAIN report'.apps = DOMAIN report.apps
      BY <2>0, <2>3, <2>4 DEF RowsGrow
    <3>2. \A i \in DOMAIN report.apps :
            report'.apps[i].src = report.apps[i].src /\ report'.apps[i].id = report.apps[i].id
      BY <2>0 DEF RowsGrow
    <3> QED  BY <1>0, <3>1, <3>2 DEF SameEntries
  <2>5. ASSUME ~ NextEnt PROVE EntsOf'
    <3>1. \A i \in DOMAIN report'.ents : i \in DOMAIN report.ents /\ report'.ents[i].id = report.ents[i].id
      <4>1. CASE ~ Pass4
        BY <2>0, <4>1 DEF RowsGrow
      <4>2. CASE SameRows \/ EntWarned("settings") \/ EntWarned("role") \/ EntWarned("group")
        BY <4>2 DEF SameRows, EntWarned
      <4> QED  BY <2>5, <4>1, <4>2, EntsReport DEF Pass4
    <3> QED  BY <1>0, <3>1, TenantKeeps
  <2>6. CASE NextWire
    <3>1. created' = created /\ at = "wire"
      BY <2>6 DEF NextWire
    <3>2. report'.ents = <<>>
      BY <2>6, <3>1, NextWireReport DEF RowsInv, Ending
    <3>3. Of'
      <4> DEFINE R == Rows
      <4>0. /\ report'.apps \in Seq(R) /\ Len(report.apps) = pos - 1
            /\ \A i \in DOMAIN report.apps : report'.apps[i] = report.apps[i]
        BY <2>6, NextWireReport
      <4>1. CASE /\ Len(report'.apps) = Len(created)
                 /\ \A i \in DOMAIN created \ DOMAIN report.apps : report'.apps[i] = RestoredApp(created[i], TRUE)
        <5>1. DOMAIN report'.apps = DOMAIN created /\ created \in Seq(EntryRecs)
          <6> HIDE DEF R
          <6> QED  BY <4>0, <4>1 DEF BaseInv, TypeInv
        <5>2. \A i \in DOMAIN created : created[i] \in EntryRecs
          BY <5>1
        <5>3. \A i \in DOMAIN created \ DOMAIN report.apps :
                report'.apps[i].src = created[i].src /\ report'.apps[i].id = created[i].id
          BY <4>1, <5>2, RowMade
        <5> QED  BY <1>0, <3>1, <4>0, <5>1, <5>3
      <4>2. CASE /\ pos \in DOMAIN created /\ DOMAIN report'.apps = DOMAIN report.apps \cup {pos}
                 /\ report'.apps[pos] = RestoredApp(Entry, FALSE)
        <5>1. Entry \in EntryRecs
          BY <4>2 DEF Entry, BaseInv, TypeInv
        <5>2. report'.apps[pos].src = created[pos].src /\ report'.apps[pos].id = created[pos].id
          BY <4>2, <5>1, RowMade DEF Entry
        <5> QED  BY <1>0, <3>1, <4>0, <4>2, <5>2
      <4> QED  BY <2>6, <4>1, <4>2, NextWireReport
    <3>4. CASE /\ at' = "consent" /\ pos' = 1 /\ item' = 0 /\ Len(report'.apps) = Len(created)
      BY <3>1, <3>2, <3>3, <3>4 DEF RowsInv, Early, Unsettled, Checking, Ending, Wired
    <3>5. CASE /\ pos \in DOMAIN created /\ at' = "wire" /\ pos' = pos /\ item' = 1 /\ Len(report'.apps) = pos
      <4>1. pos <= Len(created) + 1
        BY <1>0, <3>5 DEF BaseInv, TypeInv
      <4> QED  BY <3>1, <3>2, <3>3, <3>5, <4>1 DEF RowsInv, Early, Unsettled, Checking, Ending, Wired
    <3> QED  BY <2>6, <3>4, <3>5, NextWireReport
  <2>7. CASE Inner
    <3>1. /\ at = "wire" /\ item > 0 /\ at' = "wire" /\ pos' = pos /\ item' = item + 1
      BY <2>7, InnerFacts
    <3>2. ~ NextWire /\ ~ Classify /\ ~ Pass1 /\ ~ NextEnt /\ ~ Pass4
      BY <1>0, <3>1, StagesLater DEF NextWire, Early, Unsettled, Checking, NextEnt
    <3>3. /\ Of' /\ EntsOf' /\ Len(created') = Len(created) /\ Len(report'.apps) = Len(report.apps)
          /\ report'.ents = report.ents
      BY <2>0, <2>4, <2>5, <3>2 DEF RowsGrow
    <3>4. item' # 0
      BY <1>0, <3>1
    <3> QED  BY <1>0, <3>1, <3>3, <3>4 DEF RowsInv, Early, Unsettled, Checking, Ending, Wired
  <2>8. CASE EndWire
    <3>1. /\ at = "wire" /\ item > 0 /\ at' = "wire" /\ pos' = pos + 1 /\ item' = 0
      BY <2>8 DEF EndWire
    <3>2. ~ NextWire /\ ~ Classify /\ ~ Pass1 /\ ~ NextEnt /\ ~ Pass4
      BY <1>0, <3>1, StagesLater DEF NextWire, Early, Unsettled, Checking, NextEnt
    <3>3. /\ Of' /\ EntsOf' /\ Len(created') = Len(created) /\ Len(report'.apps) = Len(report.apps)
          /\ report'.ents = report.ents
      BY <2>0, <2>4, <2>5, <3>2 DEF RowsGrow
    <3>4. pos <= Len(created) /\ Len(report.apps) = pos
      BY <1>0, <3>1 DEF RowsInv, BaseInv, PlaceInv
    <3> QED  BY <1>0, <3>1, <3>3, <3>4 DEF RowsInv, Early, Unsettled, Checking, Ending, Wired
  <2>9. CASE Pass3
    <3>1. at \in {"consent", "grant"} /\ at' \in {"consent", "grant", "ents"}
      BY <2>9, StagesLater
    <3>2. ~ NextWire /\ ~ Classify /\ ~ Pass1 /\ ~ NextEnt /\ ~ Pass4
      BY <3>1, StagesLater DEF NextWire, Early, Unsettled, Checking, NextEnt
    <3>3. /\ Of' /\ EntsOf' /\ Len(created') = Len(created) /\ Len(report'.apps) = Len(report.apps)
          /\ report'.ents = report.ents
      BY <2>0, <2>4, <2>5, <3>2 DEF RowsGrow
    <3> QED  BY <3>1, <3>3 DEF RowsInv, Early, Unsettled, Checking, Ending, Wired
  <2>10. CASE Pass4 \/ Pass5
    <3>1. at \in Ending /\ at' \in Ending /\ at # "wire"
      BY <2>10, StagesLater DEF Ending
    <3>2. ~ NextWire /\ ~ Classify /\ ~ Pass1
      BY <3>1, StagesLater DEF NextWire, Early, Unsettled, Checking, Ending
    <3>3. Of' /\ Len(created') = Len(created) /\ Len(report'.apps) = Len(report.apps)
      BY <2>0, <2>4, <3>2 DEF RowsGrow
    <3>4. EntsOf'
      <4>1. CASE EntAdded(EntRow) /\ Ent \in DOMAIN remap
        <5>1. EntApp \in DOMAIN tenant /\ EntRow.id = EntApp
          BY <4>1, EntFacts DEF BaseInv, EntRow
        <5>2. \A i \in DOMAIN report'.ents : report'.ents[i].id \in DOMAIN tenant
          BY <1>0, <4>1, <5>1 DEF EntAdded
        <5> QED  BY <5>2, TenantKeeps
      <4>2. CASE NextEnt /\ SameRows
        <5>1. \A i \in DOMAIN report'.ents : report'.ents[i].id \in DOMAIN tenant
          BY <1>0, <4>2 DEF SameRows
        <5> QED  BY <5>1, TenantKeeps
      <4> QED  BY <2>5, <4>1, <4>2, EntsReport
    <3> QED  BY <3>1, <3>3, <3>4 DEF RowsInv, Early, Unsettled, Checking, Ending, Wired
  <2>11. CASE Around \/ UNCHANGED vars
    <3>1. at' = at /\ pos' = pos /\ item' = item /\ created' = created /\ report' = report
      BY <2>11, StagesLater
    <3>2. EntsOf'
      BY <1>0, <3>1, TenantKeeps
    <3> QED  BY <3>1, <3>2 DEF RowsInv
  <2> QED  BY <1>2, <2>1, <2>2, <2>6, <2>7, <2>8, <2>9, <2>10, <2>11, NextCases DEF Pass2, Inner
<1> QED  BY <1>1, <1>2

-----------------------------------------------------------------------------
(* Nobody takes from an app what the run gave it, but for the lists its    *)
(* own PATCHes replace.                                                    *)

Grown(x, y) ==
    /\ y.there => x.there
    /\ x.sp /\ y.there => y.sp
    /\ (x.auth => y.auth) /\ (x.fic => y.fic) /\ (x.owner => y.owner)
    /\ (x.role => y.role) /\ (x.group => y.group)
    /\ x.consent \subseteq y.consent
    /\ \A k \in Keys : x.secrets[k] <= y.secrets[k]

ListsGrown(x, y) == x.perms \subseteq y.perms /\ x.pre \subseteq y.pre

LEMMA EditsGrow ==
    ASSUME NEW x \in AppRecs
    PROVE  /\ Grown(x, x) /\ ListsGrown(x, x)
           /\ Grown(x, [x EXCEPT !.sp = TRUE]) /\ ListsGrown(x, [x EXCEPT !.sp = TRUE])
           /\ \A P : Grown(x, [x EXCEPT !.perms = P]) /\ Grown(x, [x EXCEPT !.pre = P])
           /\ Grown(x, [x EXCEPT !.auth = TRUE])
           /\ \A f \in {"fic", "owner", "role", "group"} :
                Grown(x, [x EXCEPT ![f] = TRUE]) /\ ListsGrown(x, [x EXCEPT ![f] = TRUE])
           /\ \A m : Grown(x, [x EXCEPT !.marks = @ \cup {m}]) /\ ListsGrown(x, [x EXCEPT !.marks = @ \cup {m}])
           /\ Grown(x, [x EXCEPT !.pre = @ \cup {Stranger}]) /\ ListsGrown(x, [x EXCEPT !.pre = @ \cup {Stranger}])
           /\ Grown(x, [x EXCEPT !.perms = @ \cup {Stranger}]) /\ ListsGrown(x, [x EXCEPT !.perms = @ \cup {Stranger}])
           /\ Grown(x, [x EXCEPT !.there = FALSE, !.sp = FALSE])
           /\ ListsGrown(x, [x EXCEPT !.there = FALSE, !.sp = FALSE])
           /\ \A g : /\ Grown(x, [x EXCEPT !.sp = TRUE, !.consent = @ \cup g])
                     /\ ListsGrown(x, [x EXCEPT !.sp = TRUE, !.consent = @ \cup g])
<1>0. \A k \in Keys : x.secrets[k] \in Nat /\ x.secrets[k] <= x.secrets[k]
  BY DEF AppRecs
<1>1. Grown(x, x) /\ ListsGrown(x, x)
  BY <1>0 DEF Grown, ListsGrown
<1>2. Grown(x, [x EXCEPT !.sp = TRUE]) /\ ListsGrown(x, [x EXCEPT !.sp = TRUE])
  BY <1>0 DEF Grown, ListsGrown, AppRecs
<1>3. ASSUME NEW P PROVE Grown(x, [x EXCEPT !.perms = P]) /\ Grown(x, [x EXCEPT !.pre = P])
  BY <1>0 DEF Grown, AppRecs
<1>4. Grown(x, [x EXCEPT !.auth = TRUE])
  BY <1>0 DEF Grown, AppRecs
<1>5. ASSUME NEW f \in {"fic", "owner", "role", "group"}
      PROVE  Grown(x, [x EXCEPT ![f] = TRUE]) /\ ListsGrown(x, [x EXCEPT ![f] = TRUE])
  BY <1>0 DEF Grown, ListsGrown, AppRecs
<1>6. ASSUME NEW m
      PROVE  Grown(x, [x EXCEPT !.marks = @ \cup {m}]) /\ ListsGrown(x, [x EXCEPT !.marks = @ \cup {m}])
  BY <1>0 DEF Grown, ListsGrown, AppRecs
<1>7. /\ Grown(x, [x EXCEPT !.pre = @ \cup {Stranger}]) /\ ListsGrown(x, [x EXCEPT !.pre = @ \cup {Stranger}])
      /\ Grown(x, [x EXCEPT !.perms = @ \cup {Stranger}]) /\ ListsGrown(x, [x EXCEPT !.perms = @ \cup {Stranger}])
  BY <1>0 DEF Grown, ListsGrown, AppRecs
<1>8. /\ Grown(x, [x EXCEPT !.there = FALSE, !.sp = FALSE])
      /\ ListsGrown(x, [x EXCEPT !.there = FALSE, !.sp = FALSE])
  BY <1>0 DEF Grown, ListsGrown, AppRecs
<1>9. ASSUME NEW g
      PROVE  /\ Grown(x, [x EXCEPT !.sp = TRUE, !.consent = @ \cup g])
             /\ ListsGrown(x, [x EXCEPT !.sp = TRUE, !.consent = @ \cup g])
  BY <1>0 DEF Grown, ListsGrown, AppRecs
<1> QED  BY <1>1, <1>2, <1>3, <1>4, <1>5, <1>6, <1>7, <1>8, <1>9

LEMMA TenantGrown ==
    ASSUME BaseInv, [Next]_vars, NEW a \in DOMAIN tenant
    PROVE  /\ Grown(tenant[a], tenant'[a])
           /\ (PatchStep /\ a = Entry.id) \/ ListsGrown(tenant[a], tenant'[a])
<1> DEFINE G == Grown(tenant[a], tenant'[a]) /\ ListsGrown(tenant[a], tenant'[a])
<1>0. TypeInv /\ EntriesInv /\ \A b \in DOMAIN tenant : tenant[b] \in AppRecs
  BY DEF BaseInv, TypeInv
<1>1. CASE tenant' = tenant
  BY <1>0, <1>1, EditsGrow
<1>2. ASSUME NEW app \in AppRecs, tenant' = Append(tenant, app)
      PROVE  G
  <2>1. tenant'[a] = tenant[a]
    BY <1>0, <1>2, AppendGrows
  <2> QED  BY <1>0, <2>1, EditsGrow
<1>3. ASSUME NEW b \in DOMAIN tenant, NEW y, tenant' = tenant \/ tenant' = [tenant EXCEPT ![b] = y],
             Grown(tenant[b], y)
      PROVE  /\ Grown(tenant[a], tenant'[a])
             /\ a # b \/ ListsGrown(tenant[b], y) => ListsGrown(tenant[a], tenant'[a])
  <2>1. tenant'[a] = tenant[a] \/ (a = b /\ tenant'[a] = y)
    BY <1>3
  <2>2. CASE tenant'[a] = tenant[a]
    BY <1>0, <2>2, EditsGrow
  <2>3. CASE a = b /\ tenant'[a] = y
    BY <1>3, <2>3
  <2> QED  BY <2>1, <2>2, <2>3
<1>4. ASSUME NEW i \in DOMAIN created, EnsurePrincipal(i) PROVE G
  <2> DEFINE b == created[i].id
             y == [tenant[b] EXCEPT !.sp = TRUE]
  <2>1. b \in DOMAIN tenant
    BY <1>0 DEF EntriesInv
  <2>2. tenant' = tenant \/ tenant' = [tenant EXCEPT ![b] = y]
    BY <1>4 DEF EnsurePrincipal, Write
  <2>3. Grown(tenant[b], y) /\ ListsGrown(tenant[b], y)
    BY <1>0, <2>1, EditsGrow
  <2> HIDE DEF b, y
  <2> QED  BY <1>3, <2>1, <2>2, <2>3
<1>5. ASSUME NEW b \in DOMAIN tenant, NEW f \in {"fic", "owner", "role", "group"}, NEW noted, Add(b, f, noted) PROVE G
  <2> DEFINE y == [tenant[b] EXCEPT ![f] = TRUE]
  <2>1. tenant' = tenant \/ tenant' = [tenant EXCEPT ![b] = y]
    BY <1>0, <1>5, AddEffect DEF WroteTo
  <2>2. Grown(tenant[b], y) /\ ListsGrown(tenant[b], y)
    BY <1>0, EditsGrow
  <2> HIDE DEF y
  <2> QED  BY <1>3, <2>1, <2>2
<1>6. CASE Ensure
  <2>1. EnsurePrincipal(Len(created)) /\ Len(created) \in DOMAIN created
    BY <1>6 DEF Ensure, BaseInv, TypeInv, PlaceInv
  <2> QED  BY <1>4, <2>1
<1>7. CASE TakePending
  BY <1>1, <1>4, <1>7, TakeEffect DEF TakePending
<1>8. CASE PatchStep \/ FicStep \/ OwnerStep \/ SecretStep
  <2>1. pos <= Len(created) /\ at = "wire"
    BY <1>8 DEF PatchStep, FicStep, OwnerStep, SecretStep, Wiring, BaseInv, PlaceInv
  <2>2. Entry.id \in DOMAIN tenant
    BY <2>1, EntryFacts DEF BaseInv
  <2>3. CASE PatchStep
    <3> DEFINE x == tenant[Entry.id]
               P == Patched(Entry.id, Entry.src)
    <3>1. tenant' = tenant \/ tenant' = [tenant EXCEPT ![Entry.id] = P[Step]]
      BY <2>3 DEF PatchStep, Write
    <3>2. Step \in {"perms", "expose", "auth"} /\ x \in AppRecs
      BY <1>0, <2>2, <2>3 DEF PatchStep, Wiring
    <3>3. /\ P["perms"] = [x EXCEPT !.perms = remap_required_resource_access(Entry.src)]
          /\ P["expose"] = [x EXCEPT !.pre = plan_pre_authorized(Entry.src)]
          /\ P["auth"] = [x EXCEPT !.auth = TRUE]
      BY DEF Patched
    <3>4. Grown(x, P["perms"]) /\ Grown(x, P["expose"]) /\ Grown(x, P["auth"])
      <4>1. ASSUME NEW Q PROVE Grown(x, [x EXCEPT !.perms = Q]) /\ Grown(x, [x EXCEPT !.pre = Q])
        <5> HIDE DEF x
        <5> QED  BY <3>2, EditsGrow
      <4>2. Grown(x, [x EXCEPT !.auth = TRUE])
        <5> HIDE DEF x
        <5> QED  BY <3>2, EditsGrow
      <4> DEFINE A == [x EXCEPT !.perms = remap_required_resource_access(Entry.src)]
                 B == [x EXCEPT !.pre = plan_pre_authorized(Entry.src)]
                 C == [x EXCEPT !.auth = TRUE]
      <4>3. P["perms"] = A /\ P["expose"] = B /\ P["auth"] = C
        BY <3>3
      <4>4. Grown(x, A) /\ Grown(x, B) /\ Grown(x, C)
        BY <4>1, <4>2
      <4> HIDE DEF A, B, C, P, x
      <4> QED  BY <4>3, <4>4
    <3>5. Grown(x, P[Step])
      <4> HIDE DEF x, P
      <4> QED  BY <3>2, <3>4
    <3> DEFINE b == Entry.id
               y == P[Step]
    <3>6. b \in DOMAIN tenant /\ (tenant' = tenant \/ tenant' = [tenant EXCEPT ![b] = y]) /\ Grown(tenant[b], y)
      BY <2>2, <3>1, <3>5
    <3> HIDE DEF b, y
    <3>7. Grown(tenant[a], tenant'[a]) /\ (a # b => ListsGrown(tenant[a], tenant'[a]))
      BY <1>3, <3>6
    <3> QED  BY <2>3, <3>7 DEF b
  <2>4. CASE FicStep
    BY <1>1, <1>5, <2>2, <2>4 DEF FicStep
  <2>5. CASE OwnerStep
    BY <1>1, <1>5, <2>2, <2>5 DEF OwnerStep
  <2>6. CASE SecretStep
    <3> DEFINE x == tenant[Entry.id]
               y == [x EXCEPT !.secrets[Step] = @ + 1]
    <3>1. Step \in Keys /\ (tenant' = tenant \/ tenant' = [tenant EXCEPT ![Entry.id] = y])
      BY <2>6 DEF SecretStep, Write, Wiring
    <3>2. x \in AppRecs
      BY <1>0, <2>2
    <3>3. /\ Alters(x, y, {"secrets"}) /\ y.secrets[Step] = x.secrets[Step] + 1
          /\ \A j \in Keys : j # Step => y.secrets[j] = x.secrets[j]
      <4> HIDE DEF x
      <4> QED  BY <3>1, <3>2, SecretEdit
    <3>4. \A k \in Keys : x.secrets[k] \in Nat
      <4> HIDE DEF x
      <4> QED  BY <3>2 DEF AppRecs
    <3> HIDE DEF y
    <3>5. \A k \in Keys : x.secrets[k] <= y.secrets[k]
      <4> HIDE DEF x
      <4> QED  BY <3>1, <3>3, <3>4
    <3>6. Grown(x, y) /\ ListsGrown(x, y)
      <4> HIDE DEF x
      <4> QED  BY <3>3, <3>5 DEF Alters, Grown, ListsGrown
    <3> QED  BY <1>3, <2>2, <3>1, <3>6
  <2> QED  BY <1>8, <2>3, <2>4, <2>5, <2>6
<1>9. CASE Grant
  <2> DEFINE b == Entry.id
             x == tenant[b]
  <2>1. pos <= Len(created)
    BY <1>9 DEF Grant, BaseInv, PlaceInv
  <2>2. b \in DOMAIN tenant
    BY <2>1, EntryFacts DEF BaseInv
  <2>3. PICK g : tenant' = tenant \/ tenant' = [tenant EXCEPT ![b].sp = TRUE, ![b].consent = @ \cup g]
    BY <1>9 DEF Grant
  <2> DEFINE y == [x EXCEPT !.sp = TRUE, !.consent = @ \cup g]
  <2>4. tenant' = tenant \/ tenant' = [tenant EXCEPT ![b] = y]
    BY <2>3
  <2>5. Grown(x, y) /\ ListsGrown(x, y)
    <3> HIDE DEF b
    <3> QED  BY <1>0, <2>2, EditsGrow
  <2> HIDE DEF y, b
  <2> QED  BY <1>3, <2>2, <2>4, <2>5
<1>10. CASE AssignRole \/ JoinGroup
  <2>1. EntApp \in DOMAIN tenant
    BY <1>10, EntFacts DEF AssignRole, JoinGroup, BaseInv, PlaceInv
  <2> QED  BY <1>1, <1>5, <1>10, <2>1 DEF AssignRole, JoinGroup
<1>11. ASSUME NEW b \in DOMAIN tenant, Delete(b) PROVE G
  <2> DEFINE y == [tenant[b] EXCEPT !.there = FALSE, !.sp = FALSE]
  <2>1. tenant' = [tenant EXCEPT ![b] = y]
    BY <1>11 DEF Delete, Change
  <2>2. Grown(tenant[b], y) /\ ListsGrown(tenant[b], y)
    BY <1>0, EditsGrow
  <2> HIDE DEF y
  <2> QED  BY <1>3, <2>1, <2>2
<1>12. ASSUME NEW b \in DOMAIN tenant, Tamper(b) PROVE G
  <2> DEFINE x == tenant[b]
  <2>1. PICK y : tenant' = [tenant EXCEPT ![b] = y] /\ Grown(x, y) /\ ListsGrown(x, y)
    <3>1. CASE \E m : Change(b, [x EXCEPT !.marks = @ \cup {m}])
      BY <1>0, <3>1, EditsGrow DEF Change
    <3>2. CASE Change(b, [x EXCEPT !.pre = @ \cup {Stranger}])
      BY <1>0, <3>2, EditsGrow DEF Change
    <3>3. CASE Change(b, [x EXCEPT !.perms = @ \cup {Stranger}])
      BY <1>0, <3>3, EditsGrow DEF Change
    <3> QED  BY <1>12, <3>1, <3>2, <3>3 DEF Tamper
  <2> QED  BY <1>3, <2>1
<1>13. CASE Create
  BY <1>1, <1>2, <1>13, CreateEffect, NewAppFacts
<1>14. CASE \E s \in Apps : Plant(s)
  <2>1. PICK s \in Apps : Plant(s)
    BY <1>14
  <2>2. tenant' = Append(tenant, Planted(s)) /\ Planted(s) \in AppRecs
    BY <2>1, PlantedFacts DEF Plant, Planted
  <2> QED  BY <1>2, <2>2
<1>15. CASE \/ Begin \/ Classify \/ EndLoop \/ Lookup \/ CheckOwners \/ CheckFics \/ CheckPrincipal \/ JudgePending
            \/ EndRound \/ EndTake
  BY <1>1, <1>15 DEF Begin, Classify, EndLoop, Lookup, CheckOwners, CheckFics, CheckPrincipal, JudgePending,
     EndRound, EndTake, world
<1>16. CASE \/ NextWire \/ SkipStep \/ ReadStep \/ EndWire \/ NextConsent \/ Reread \/ NextEnt \/ ApplySettings
            \/ ListIdentities \/ Rebind \/ Finish \/ Crash \/ PressCancel \/ UNCHANGED vars
  BY <1>1, <1>16 DEF NextWire, SkipStep, ReadStep, EndWire, NextConsent, Reread, NextEnt, ApplySettings,
     ListIdentities, Rebind, Finish, Crash, PressCancel, vars, world
<1> QED  BY <1>6, <1>7, <1>8, <1>9, <1>10, <1>11, <1>12, <1>13, <1>14, <1>15, <1>16
         DEF Next, Pass1, Pass2, Pass3, Pass4, Pass5

-----------------------------------------------------------------------------
(* Every write of the run is in its report.                                *)

\* The entries stay, and may get one more.
EntriesGrow ==
    \A i \in DOMAIN created :
        /\ i \in DOMAIN created'
        /\ created'[i].src = created[i].src /\ created'[i].id = created[i].id
        /\ created'[i].pending = created[i].pending

Retained == {i \in DOMAIN created : created[i].src \notin refused.apps}

LEMMA EntriesOn ==
    ASSUME BaseInv, [Next]_vars, ~ Begin
    PROVE  EntriesGrow \/ (EndRound /\ at' = "take" /\ Retain(Retained) /\ at = "settle")
<1>0. TypeInv /\ (SameEntries => EntriesGrow) /\ (created' = created => EntriesGrow)
  BY DEF BaseInv, SameEntries, EntriesGrow
<1>1. CASE CheckPrincipal \/ Create
  <2>1. CASE created' = created
    BY <1>0, <2>1
  <2>2. ASSUME NEW a, NEW adopted, NEW secrets, NEW pre, Keep(a, adopted, secrets, pre) PROVE EntriesGrow
    <3>1. /\ DOMAIN created' = DOMAIN created \cup {Len(created) + 1}
          /\ \A i \in DOMAIN created : created'[i] = created[i]
      BY <1>0, <2>2, KeepEffect
    <3> QED  BY <3>1 DEF EntriesGrow
  <2> QED  BY <1>1, <2>1, <2>2, KeepCases
<1>2. CASE EndLoop \/ JudgePending
  BY <1>0, <1>2 DEF EndLoop, JudgePending
<1>3. CASE EndRound
  BY <1>0, <1>3 DEF EndRound, Retained
<1>4. CASE ~ (CheckPrincipal \/ Create \/ EndLoop \/ JudgePending \/ EndRound)
  BY <1>0, <1>4, EntriesStep
<1> QED  BY <1>1, <1>2, <1>3, <1>4

\* The entries before they are settled are those of Pass 1.
LEMMA UnsettledBefore ==
    ASSUME BaseInv, [Next]_vars, at' \in Unsettled
    PROVE  at \in Unsettled \/ (Classify /\ created = <<>>)
<1>1. Classify => created = <<>>
  BY DEF Classify, BaseInv, PlaceInv
<1>2. EndLoop => at = "lookup"
  BY DEF EndLoop
<1> QED  BY <1>1, <1>2, StageStep DEF Unsettled

\* The entry a failed or successful Create leaves.
LEMMA CreateNamed ==
    ASSUME BaseInv, ReportShape, Create
    PROVE  \/ /\ Source \in report'.failures /\ created' = created /\ remap' = remap /\ NextApp
           \/ /\ tenant' = Append(tenant, NewApp(Source))
              /\ Keep(Len(tenant'), FALSE, [k \in Keys |-> 0], {}) /\ report' = report
<1>1. PICK o \in {"ok", "lost", "plain", "fatal"} :
        /\ IF Landed(o)
           THEN tenant' = Append(tenant, NewApp(Source))
           ELSE UNCHANGED <<tenant, touched>>
        /\ IF o = "ok"
           THEN Keep(Len(tenant'), FALSE, [k \in Keys |-> 0], {}) /\ UNCHANGED report
           ELSE /\ report' = [report EXCEPT !.failures = @ \cup {Source}]
                /\ NextApp
                /\ UNCHANGED <<created, remap>>
  BY DEF Create
<1>2. CASE o = "ok"
  BY <1>1, <1>2 DEF Landed
<1>3. CASE o # "ok"
  <2>1. report'.failures = report.failures \cup {Source}
    BY <1>1, <1>3 DEF ReportShape, Shaped
  <2> QED  BY <1>1, <1>3, <2>1
<1> QED  BY <1>2, <1>3

\* Where the report accounts for app a.
Listed(a) ==
    \/ tenant[a].src \in report.failures
    \/ \E i \in DOMAIN created : created[i].id = a /\ (at \in Unsettled => ~ created[i].pending)

LEMMA ListedOn ==
    ASSUME BaseInv, ReportShape, RowsInv, EntsInv, TouchedInv, [Next]_vars, ~ Begin, ~ Crash,
           NEW a \in DOMAIN tenant, Listed(a)
    PROVE  Listed(a)'
<1>1. PartsGrow /\ tenant'[a].src = tenant[a].src
  BY RowsStep, TenantKeeps DEF RowsGrow
<1>2. CASE tenant[a].src \in report.failures
  BY <1>1, <1>2 DEF PartsGrow, Listed
<1>3. ASSUME NEW i \in DOMAIN created, created[i].id = a, at \in Unsettled => ~ created[i].pending
      PROVE  Listed(a)'
  <2>1. CASE EntriesGrow
    <3>1. at' \in Unsettled => at \in Unsettled
      BY <1>3, UnsettledBefore
    <3> QED  BY <1>3, <2>1, <3>1 DEF EntriesGrow, Listed
  <2>2. CASE EndRound /\ at' = "take" /\ Retain(Retained) /\ at = "settle"
    <3>1. i \in Retained
      BY <1>3, <2>2 DEF TouchedInv, Retained, Unsettled
    <3>2. \E j \in DOMAIN created' : created'[j] = created[i]
      <4>1. Retained \in SUBSET (DOMAIN created) /\ TypeInv
        BY DEF Retained, BaseInv
      <4>2. PICK index \in [DOMAIN created' -> Retained] :
              /\ \A j \in DOMAIN created' : created'[j] = created[index[j]]
              /\ \A k \in Retained : \E j \in DOMAIN created' : index[j] = k
        BY <2>2, <4>1, RetainEffect
      <4> QED  BY <3>1, <4>2
    <3>3. at' \notin Unsettled
      BY <2>2 DEF Unsettled, Checking
    <3> QED  BY <1>3, <3>2, <3>3 DEF Listed
  <2> QED  BY <2>1, <2>2, EntriesOn
<1> QED  BY <1>2, <1>3 DEF Listed

LEMMA TouchedKept ==
    ASSUME BaseInv, ForeignInv, ReportShape, RowsInv, EntsInv, TouchedInv, [Next]_vars
    PROVE  TouchedInv'
<1> DEFINE Settling == at' = "settle" =>
             \A i \in DOMAIN created' : created'[i].src \in refused'.apps => created'[i].pending
<1>1. SUFFICES ASSUME ~ Begin, ~ Crash PROVE TouchedInv'
  BY DEF Begin, Crash, TouchedInv
<1>2. touched \subseteq DOMAIN tenant
  BY DEF ForeignInv, PassedInv
<1>3. \A a \in touched : Listed(a)
  BY DEF TouchedInv, Listed
<1>4. ASSUME NEW a \in touched PROVE Listed(a)'
  BY <1>1, <1>2, <1>3, <1>4, ListedOn
<1>5. ASSUME NEW a, NEW i \in DOMAIN created, a = created[i].id, at \in Unsettled => ~ created[i].pending
      PROVE  Listed(a)'
  <2>1. a \in DOMAIN tenant /\ Listed(a)
    BY <1>5 DEF BaseInv, EntriesInv, Listed
  <2> QED  BY <1>1, <2>1, ListedOn
<1>6. \A a \in touched' : Listed(a)'
  <2>1. CASE touched' = touched \/ touched' = {}
    BY <1>4, <2>1
  <2>2. CASE Create /\ Source \in Apps /\ tenant' = Append(tenant, NewApp(Source)) /\ touched' = touched \cup {Len(tenant')}
    <3>1. ASSUME NEW a, a = Len(tenant') PROVE Listed(a)'
      <4>0. TypeInv /\ NewApp(Source) \in AppRecs /\ NewApp(Source).src = Source
        BY <2>2, NewAppFacts DEF BaseInv
      <4>1. tenant'[a].src = Source
        BY <2>2, <3>1, <4>0, AppendGrows
      <4>2. CASE Source \in report'.failures
        BY <4>1, <4>2 DEF Listed
      <4>3. CASE Keep(Len(tenant'), FALSE, [k \in Keys |-> 0], {})
        <5>1. /\ Len(created) + 1 \in DOMAIN created' /\ created'[Len(created) + 1].id = a
              /\ ~ created'[Len(created) + 1].pending
          BY <3>1, <4>0, <4>3, KeepEffect
        <5> QED  BY <5>1 DEF Listed
      <4> QED  BY <2>2, <4>2, <4>3, CreateNamed
    <3> QED  BY <1>4, <2>2, <3>1
  <2>3. ASSUME NEW i \in DOMAIN created, touched' = touched \cup {created[i].id},
               \/ at \in {"take", "wire", "grant"}
               \/ at = "ensure" /\ i = Len(created)
        PROVE  \A a \in touched' : Listed(a)'
    <3>1. at \in Unsettled => ~ created[i].pending
      BY <2>3 DEF ForeignInv, CleanInv, Unsettled, Checking
    <3> QED  BY <1>4, <1>5, <2>3, <3>1
  <2>4. CASE at \in {"settings", "role", "group"} /\ Ent \in DOMAIN remap /\ touched' = touched \cup {EntApp}
    <3>1. PICK i \in DOMAIN created : created[i].id = EntApp
      BY <2>4 DEF ForeignInv, RefusedInv, EntApp
    <3>2. at \notin Unsettled
      BY <2>4 DEF Unsettled, Checking
    <3> QED  BY <1>4, <1>5, <2>4, <3>1, <3>2
  <2> QED  BY <2>1, <2>2, <2>3, <2>4, TouchStep
<1>7. Settling
  <2>1. SUFFICES ASSUME at' = "settle" PROVE \A i \in DOMAIN created' : created'[i].src \in refused'.apps => created'[i].pending
    OBVIOUS
  <2>2. CASE EndLoop
    <3>1. created' = created /\ at = "lookup"
      BY <2>2 DEF EndLoop
    <3>2. CASE Stopped
      <4>1. refused'.apps = {c.src : c \in {d \in ToSet(created) : d.pending}}
        BY <2>2, <3>2 DEF EndLoop
      <4>2. ASSUME NEW i \in DOMAIN created, created[i].src \in refused'.apps PROVE created[i].pending
        <5>1. PICK j \in DOMAIN created : created[j].pending /\ created[j].src = created[i].src
          BY <4>1, <4>2 DEF ToSet
        <5>2. i = j
          BY <5>1 DEF BaseInv, OrderInv
        <5> QED  BY <5>1, <5>2
      <4> QED  BY <3>1, <4>2
    <3>3. CASE ~ Stopped
      BY <2>2, <3>1, <3>3 DEF EndLoop, ForeignInv, RefusedInv
    <3> QED  BY <3>2, <3>3
  <2>3. CASE at = "settle"
    <3>1. \A i \in DOMAIN created : created[i].src \in refused.apps => created[i].pending
      BY <2>3 DEF TouchedInv
    <3>2. CASE JudgePending
      <4>1. created' = created /\ pos \in DOMAIN created
        BY <3>2 DEF JudgePending, BaseInv, TypeInv
      <4>2. refused' = refused \/ (refused'.apps = refused.apps \cup {created[pos].src} /\ created[pos].pending)
        BY <3>2 DEF JudgePending
      <4>3. \A i \in DOMAIN created : created[i].src = created[pos].src => i = pos
        BY <4>1 DEF BaseInv, OrderInv
      <4> QED  BY <3>1, <4>1, <4>2, <4>3
    <3>3. CASE EndRound
      <4>1. created' = created /\ refused' = [refused EXCEPT !.again = FALSE]
        BY <2>1, <3>3 DEF EndRound
      <4>2. refused'.apps = refused.apps
        BY <4>1 DEF ForeignInv, RefusedInv
      <4> QED  BY <3>1, <4>1, <4>2
    <3>4. CASE ~ JudgePending /\ ~ EndRound
      <4>1. ~ Begin /\ ~ CheckPrincipal /\ ~ Create /\ ~ EndLoop
        BY <2>3 DEF Begin, CheckPrincipal, Create, EndLoop
      <4>2. SameEntries /\ refused' = refused
        BY <3>4, <4>1, EntriesStep
      <4> QED  BY <3>1, <4>2 DEF SameEntries
    <3> QED  BY <3>2, <3>3, <3>4
  <2> QED  BY <2>1, <2>2, <2>3, StageStep
<1> QED  BY <1>6, <1>7 DEF TouchedInv, Listed

-----------------------------------------------------------------------------
(* Every app of the backup is in the report of a run that was not stopped. *)

LEMMA NamedOn ==
    ASSUME BaseInv, ReportShape, RowsInv, EntsInv, [Next]_vars, ~ Begin, ~ Crash, NEW s, Named(s),
           at = "settle" => refused.apps \subseteq report.manual
    PROVE  Named(s)'
<1>1. PartsGrow
  BY RowsStep DEF RowsGrow
<1>2. CASE s \in report.failures \cup report.manual
  BY <1>1, <1>2 DEF PartsGrow, Named
<1>3. ASSUME NEW i \in DOMAIN created, created[i].src = s, s \notin report.manual PROVE Named(s)'
  <2>1. CASE EntriesGrow
    BY <1>3, <2>1 DEF EntriesGrow, Named
  <2>2. CASE EndRound /\ at' = "take" /\ Retain(Retained) /\ at = "settle"
    <3>1. i \in Retained /\ Retained \in SUBSET (DOMAIN created) /\ TypeInv
      BY <1>3, <2>2 DEF Retained, BaseInv
    <3>2. PICK index \in [DOMAIN created' -> Retained] :
            /\ \A j \in DOMAIN created' : created'[j] = created[index[j]]
            /\ \A k \in Retained : \E j \in DOMAIN created' : index[j] = k
      BY <2>2, <3>1, RetainEffect
    <3>3. \E j \in DOMAIN created' : created'[j] = created[i]
      BY <3>1, <3>2
    <3> QED  BY <1>3, <3>3 DEF Named
  <2> QED  BY <2>1, <2>2, EntriesOn
<1> QED  BY <1>2, <1>3 DEF Named

\* Refuse and Keep name the source they are at.
LEMMA RefuseNames ==
    ASSUME ReportShape, Refuse, NEW s, s = Source
    PROVE  Named(s)' /\ at' = "lookup" /\ pos' = pos + 1
<1>1. report'.manual = report.manual \cup {Source}
  BY DEF Refuse, ReportShape, Shaped
<1> QED  BY <1>1 DEF Refuse, NextApp, Named

LEMMA KeepNames ==
    ASSUME TypeInv, NEW a, NEW adopted, NEW secrets, NEW pre, Keep(a, adopted, secrets, pre), NEW s, s = Source
    PROVE  Named(s)' /\ \/ at' = "ensure" /\ pos' = pos
                        \/ at' = "lookup" /\ pos' = pos + 1
<1>1. /\ Len(created) + 1 \in DOMAIN created' /\ created'[Len(created) + 1].src = Source
      /\ \/ at' = "ensure" /\ pos' = pos
         \/ at' = "lookup" /\ pos' = pos + 1
  BY KeepEffect
<1> QED  BY <1>1 DEF Named

\* The places of Pass 1's loop.
Looping == {"lookup", "create", "ensure"} \cup Checking

LEMMA LoopNames ==
    ASSUME BaseInv, ReportShape, [Next]_vars, at \in Looping, at' \in Looping, NEW s, s = Source
    PROVE  \/ pos' = pos /\ (at' = "ensure" <=> at = "ensure")
           \/ pos' = pos /\ at' = "ensure" /\ Named(s)'
           \/ pos' = pos + 1 /\ at' # "ensure" /\ (at = "ensure" \/ Named(s)')
<1>0. TypeInv
  BY DEF BaseInv
<1>1. CASE Lookup
  BY <1>1, RefuseNames DEF Lookup, Checking
<1>2. CASE CheckOwners
  BY <1>2, RefuseNames DEF CheckOwners
<1>3. CASE CheckFics
  BY <1>3, RefuseNames DEF CheckFics
<1>4. CASE CheckPrincipal
  BY <1>0, <1>4, RefuseNames, KeepNames DEF CheckPrincipal
<1>5. CASE Create
  <2>1. CASE Source \in report'.failures /\ NextApp
    BY <2>1 DEF NextApp, Named
  <2>2. CASE Keep(Len(tenant'), FALSE, [k \in Keys |-> 0], {})
    BY <1>0, <2>2, KeepNames
  <2> QED  BY <1>5, <2>1, <2>2, CreateNamed
<1>6. CASE Ensure
  BY <1>6 DEF Ensure, NextApp
<1>7. CASE Around \/ UNCHANGED vars
  BY <1>7, StagesLater
<1>8. CASE \/ Begin \/ Classify \/ EndLoop \/ JudgePending \/ EndRound \/ TakePending \/ EndTake
  BY <1>8 DEF Begin, Classify, EndLoop, JudgePending, EndRound, TakePending, EndTake, Looping, Checking
<1>9. CASE Pass2 \/ Pass3 \/ Pass4 \/ Pass5
  BY <1>9, StagesLater DEF Looping, Checking
<1>10. CASE Crash
  BY <1>10 DEF Crash, Looping, Checking
<1> QED  BY <1>1, <1>2, <1>3, <1>4, <1>5, <1>6, <1>7, <1>8, <1>9, <1>10, NextCases DEF Pass1

\* The stages after the loop follow one another.
Looped1 == {"settle", "take", "wire"} \cup Wired

LEMMA AfterLoop ==
    ASSUME BaseInv, [Next]_vars, at' \in Looped1
    PROVE  at \in Looped1 \/ EndLoop
<1>1. CASE Pass2 \/ Pass3 \/ Pass4 \/ Pass5 \/ Around \/ UNCHANGED vars
  BY <1>1, StagesLater DEF Looped1, Wired, Ending
<1>2. CASE Begin \/ Classify \/ Lookup \/ CheckOwners \/ CheckFics \/ CheckPrincipal \/ Create \/ Ensure \/ Crash
  BY <1>2, StageStep DEF Begin, Classify, Lookup, CheckOwners, CheckFics, CheckPrincipal, Create, Ensure, Crash,
     Refuse, Keep, NextApp, Looped1, Wired, Ending
<1>3. CASE JudgePending \/ EndRound \/ TakePending \/ EndTake
  BY <1>3 DEF JudgePending, EndRound, TakePending, EndTake, Looped1
<1> QED  BY <1>1, <1>2, <1>3, NextCases DEF Pass1

LEMMA AccountedKept ==
    ASSUME BaseInv, ForeignInv, ReportShape, RowsInv, EntsInv, AccountedInv, [Next]_vars
    PROVE  AccountedInv'
<1>0. manifest' = manifest /\ pos \in Nat /\ manifest.apps \in Seq(Apps) /\ Apps' = Apps
  BY ManifestStays, ManifestFacts DEF BaseInv, TypeInv, Apps
<1>1. at' = "classify" => pos' = 1
  <2>1. CASE Begin
    BY <2>1 DEF Begin
  <2>2. CASE at = "classify" /\ at' = "classify"
    <3>1. pos' = pos
      <4>1. CASE Begin \/ Classify \/ Pass1 \/ Crash
        BY <2>2, <4>1 DEF Begin, Classify, Pass1, EndLoop, Lookup, CheckOwners, CheckFics, CheckPrincipal, Create,
           Ensure, JudgePending, EndRound, TakePending, EndTake, Crash
      <4>2. CASE Pass2 \/ Pass3 \/ Pass4 \/ Pass5 \/ Around \/ UNCHANGED vars
        BY <2>2, <4>2, StagesLater
      <4> QED  BY <4>1, <4>2, NextCases
    <3> QED  BY <2>2, <3>1 DEF AccountedInv
  <2> QED  BY <2>1, <2>2, StageStep
<1>2. CASE Begin \/ Crash
  <2>1. at' \in {"classify", "idle"}
    BY <1>2 DEF Begin, Crash
  <2> QED  BY <1>1, <2>1 DEF AccountedInv, Checking, Wired, Ending
<1>3. CASE ~ Begin /\ ~ Crash
  <2>1. PartsGrow
    BY <1>3, RowsStep DEF RowsGrow
  <2>2. ASSUME NEW s, Named(s), at = "settle" => refused.apps \subseteq report.manual PROVE Named(s)'
    BY <1>3, <2>2, NamedOn
  <2>3. ASSUME at' \in Looping, NEW j \in DOMAIN manifest.apps, IF at' = "ensure" THEN j <= pos' ELSE j < pos'
        PROVE  Named(manifest.apps[j])'
    <3>1. SUFFICES ASSUME NEW s, s = manifest.apps[j] PROVE Named(s)'
      BY <1>0 DEF Named
    <3>2. at \in Looping \/ Classify
      BY <2>3, StageStep DEF Looping
    <3>3. CASE Classify
      <4>1. at' = "lookup" /\ pos' = 1
        BY <3>3 DEF Classify, AccountedInv
      <4> QED  BY <1>0, <2>3, <4>1
    <3>4. CASE at \in Looping
      <4>0. j \in Nat /\ at # "settle"
        BY <1>0, <3>4 DEF Looping, Checking
      <4>1. (IF at = "ensure" THEN j <= pos ELSE j < pos) => Named(s)'
        BY <2>2, <3>1, <3>4, <4>0 DEF AccountedInv, Looping
      <4>2. CASE pos' = pos /\ (at' = "ensure" <=> at = "ensure")
        BY <2>3, <4>1, <4>2
      <4>3. CASE j < pos
        BY <1>0, <4>0, <4>1, <4>3
      <4>4. CASE j >= pos
        <5>1. ASSUME j = pos PROVE s = Source
          BY <3>1, <5>1 DEF Source
        <5>2. CASE pos' = pos /\ at' = "ensure" /\ ~ (at = "ensure")
          <6>1. j = pos
            BY <1>0, <2>3, <4>0, <4>4, <5>2
          <6> QED  BY <2>3, <3>4, <5>1, <5>2, <6>1, LoopNames
        <5>3. CASE pos' = pos + 1 /\ at' # "ensure"
          <6>1. j = pos
            BY <1>0, <2>3, <4>0, <4>4, <5>3
          <6>2. CASE at = "ensure"
            BY <4>1, <6>1, <6>2, <1>0
          <6>3. CASE at # "ensure"
            <7>1. Named(s)' \/ pos' = pos
              BY <2>3, <3>4, <5>1, <6>1, <6>3, LoopNames
            <7> QED  BY <1>0, <5>3, <7>1
          <6> QED  BY <6>2, <6>3
        <5> QED  BY <2>3, <3>4, <4>2, <5>2, <5>3, LoopNames
      <4> QED  BY <1>0, <4>0, <4>3, <4>4
    <3> QED  BY <3>2, <3>3, <3>4
  <2>4. at' = "settle" /\ ~ report'.cancelled => refused'.apps \subseteq report'.manual
    <3>1. SUFFICES ASSUME at' = "settle", ~ report'.cancelled PROVE refused'.apps \subseteq report'.manual
      OBVIOUS
    <3>2. CASE EndLoop
      <4>1. CASE Stopped
        <5>1. report'.cancelled
          BY <3>2, <4>1 DEF EndLoop, ReportShape, Shaped
        <5> QED  BY <3>1, <5>1
      <4>2. CASE ~ Stopped
        BY <3>2, <4>2 DEF EndLoop, ForeignInv, RefusedInv
      <4> QED  BY <4>1, <4>2
    <3>3. CASE at = "settle"
      <4>1. refused.apps \subseteq report.manual
        BY <2>1, <3>1, <3>3 DEF AccountedInv, PartsGrow
      <4>2. CASE JudgePending
        <5>1. \/ refused' = refused
              \/ /\ refused'.apps = refused.apps \cup {created[pos].src}
                 /\ report' = [report EXCEPT !.manual = @ \cup {created[pos].src}]
          BY <4>2 DEF JudgePending
        <5>2. report' = [report EXCEPT !.manual = @ \cup {created[pos].src}] =>
                report'.manual = report.manual \cup {created[pos].src}
          BY DEF ReportShape, Shaped
        <5> QED  BY <2>1, <4>1, <5>1, <5>2 DEF PartsGrow
      <4>3. CASE EndRound
        <5>1. refused' = [refused EXCEPT !.again = FALSE]
          BY <3>1, <4>3 DEF EndRound
        <5>2. refused'.apps = refused.apps
          BY <5>1 DEF ForeignInv, RefusedInv
        <5> QED  BY <2>1, <4>1, <5>2 DEF PartsGrow
      <4>4. CASE ~ JudgePending /\ ~ EndRound
        <5>1. ~ Begin /\ ~ CheckPrincipal /\ ~ Create /\ ~ EndLoop
          BY <3>3 DEF Begin, CheckPrincipal, Create, EndLoop
        <5>2. refused' = refused
          BY <4>4, <5>1, EntriesStep
        <5> QED  BY <2>1, <4>1, <5>2 DEF PartsGrow
      <4> QED  BY <4>2, <4>3, <4>4
    <3> QED  BY <3>1, <3>2, <3>3, StageStep
  <2>5. ASSUME at' \in Looped1, ~ report'.cancelled, NEW s \in Apps PROVE Named(s)'
    <3>1. ~ report.cancelled
      BY <2>1, <2>5 DEF PartsGrow
    <3>2. CASE EndLoop
      <4>1. CASE Stopped
        <5>1. report'.cancelled
          BY <3>2, <4>1 DEF EndLoop, ReportShape, Shaped
        <5> QED  BY <2>5, <5>1
      <4>2. CASE ~ Stopped
        <5>1. PICK j \in DOMAIN manifest.apps : s = manifest.apps[j]
          BY DEF Apps, ToSet
        <5>2. j < pos /\ at = "lookup"
          BY <1>0, <3>2, <4>2 DEF EndLoop
        <5>3. Named(s)
          BY <5>1, <5>2 DEF AccountedInv
        <5> QED  BY <2>2, <5>2, <5>3
      <4> QED  BY <4>1, <4>2
    <3>3. CASE at \in Looped1
      <4>1. Named(s) /\ (at = "settle" => refused.apps \subseteq report.manual)
        BY <3>1, <3>3 DEF AccountedInv, Looped1
      <4> QED  BY <2>2, <4>1
    <3> QED  BY <2>5, <3>2, <3>3, AfterLoop
  <2>6. /\ at' \in {"lookup", "create"} \cup Checking => at' \in Looping /\ at' # "ensure"
        /\ at' = "ensure" => at' \in Looping
    BY DEF Looping, Checking
  <2>7. (at' \in {"lookup", "create"} \cup Checking =>
           \A j \in DOMAIN manifest.apps : j < pos' => Named(manifest.apps[j])')
    BY <2>3, <2>6
  <2>8. at' = "ensure" => \A j \in DOMAIN manifest.apps : j <= pos' => Named(manifest.apps[j])'
    BY <2>3, <2>6
  <2>9. at' \in {"settle", "take", "wire"} \cup Wired /\ ~ report'.cancelled => \A s \in Apps : Named(s)'
    BY <2>5 DEF Looped1
  <2> QED  BY <1>0, <1>1, <2>4, <2>7, <2>8, <2>9 DEF AccountedInv, Named
<1> QED  BY <1>2, <1>3

-----------------------------------------------------------------------------
(* An enterprise app without a warning has its access.                     *)

\* A run that is stopped stays so until the next one begins.
LEMMA StopsStay ==
    ASSUME [Next]_vars, ~ Begin
    PROVE  (cancelled => cancelled') /\ (dead => dead')
<1> DEFINE Same == cancelled' = cancelled /\ dead' = dead
           Paid == cancelled' = cancelled /\ \E wrong, fatal : Answered(wrong, fatal)
<1>0. Same \/ Paid => (cancelled => cancelled') /\ (dead => dead')
  <2>1. ASSUME NEW wrong, NEW fatal, Answered(wrong, fatal) PROVE dead => dead'
    BY <2>1, Zenon DEF Answered
  <2> QED  BY <2>1
<1>1. CASE Classify \/ Lookup \/ CheckOwners \/ CheckFics \/ CheckPrincipal \/ Create
  <2>1. Paid
    BY <1>1 DEF Classify, Lookup, CheckOwners, CheckFics, CheckPrincipal, Create
  <2> QED  BY <1>0, <2>1
<1>2. CASE Ensure \/ JudgePending \/ EndRound \/ TakePending \/ EndTake \/ EndLoop
  <2>1. Same \/ Paid
    BY <1>2 DEF Ensure, JudgePending, EndRound, TakePending, EndTake, EndLoop, EnsurePrincipal, Write, stops
  <2> QED  BY <1>0, <2>1
<1>3. CASE NextWire \/ SkipStep \/ PatchStep \/ ReadStep \/ EndWire
  <2>1. Same \/ Paid
    BY <1>3 DEF NextWire, SkipStep, PatchStep, ReadStep, EndWire, Write, stops
  <2> QED  BY <1>0, <2>1
<1>4. CASE FicStep \/ OwnerStep
  <2>1. Same \/ Paid
    BY <1>4 DEF FicStep, OwnerStep, Add
  <2> QED  BY <1>0, <2>1
<1>5. CASE SecretStep
  <2>1. Same \/ Paid
    BY <1>5 DEF SecretStep, Write
  <2> QED  BY <1>0, <2>1
<1>6. CASE Pass3
  <2>1. Same \/ Paid
    BY <1>6 DEF Pass3, NextConsent, Reread, Grant
  <2> QED  BY <1>0, <2>1
<1>7. CASE Pass4
  <2>1. Same \/ Paid
    BY <1>7 DEF Pass4, NextEnt, ApplySettings, AssignRole, JoinGroup, Add
  <2> QED  BY <1>0, <2>1
<1>8. CASE Pass5
  <2>1. Same \/ Paid
    BY <1>8 DEF Pass5, ListIdentities, Rebind, Finish, stops
  <2> QED  BY <1>0, <2>1
<1>9. CASE Crash \/ UNCHANGED vars
  <2>1. Same
    BY <1>9 DEF Crash, vars, stops
  <2> QED  BY <1>0, <2>1
<1>10. CASE Around
  <2>1. Same \/ (cancelled' /\ dead' = dead)
    BY <1>10 DEF Around, PressCancel, Delete, Tamper, Plant, Change, stops
  <2> QED  BY <2>1
<1> QED  BY <1>1, <1>2, <1>3, <1>4, <1>5, <1>6, <1>7, <1>8, <1>9, <1>10, NextCases DEF Pass1, Pass2

\* What was added without a warning is there.
LEMMA AddDone ==
    ASSUME TypeInv, NEW a \in DOMAIN tenant, NEW field \in {"fic", "owner", "role", "group"}, NEW ACTION noted,
           Add(a, field, noted)
    PROVE  (report' = report /\ tenant'[a][field]) \/ noted
<1>1. PICK o :
        /\ tenant' = IF Landed(o) THEN [tenant EXCEPT ![a][field] = TRUE] ELSE tenant
        /\ IF o = "ok" THEN UNCHANGED report ELSE noted
  BY DEF Add
<1>2. CASE o = "ok"
  <2>1. tenant' = [tenant EXCEPT ![a][field] = TRUE] /\ report' = report
    BY <1>1, <1>2 DEF Landed
  <2>2. tenant[a] \in AppRecs
    BY DEF TypeInv
  <2>3. tenant'[a][field]
    BY <2>1, <2>2 DEF AppRecs
  <2> QED  BY <2>1, <2>3
<1>3. CASE o # "ok"
  BY <1>1, <1>3
<1> QED  BY <1>2, <1>3

LEMMA EntDoneOn ==
    ASSUME BaseInv, [Next]_vars, NEW e, e.id \in DOMAIN tenant, EntDone(e)
    PROVE  EntDone(e)'
BY ManifestStays, TenantGrown DEF Grown, EntDone

\* The last enterprise app, without the warning it may get.
LEMMA EntStep ==
    ASSUME BaseInv, ReportShape, RowsInv, EntsInv, ApplySettings \/ AssignRole \/ JoinGroup
    PROVE  LET n == Len(report.ents) IN
           /\ n > 0 /\ n \in DOMAIN report.ents /\ report.ents[n].id = EntApp /\ report.ents[n].src = Ent
           /\ EntApp \in DOMAIN tenant /\ report.ents \in Seq(EntRows)
           /\ SameRows \/ EntWarned("settings") \/ EntWarned("role") \/ EntWarned("group")
           /\ AssignRole /\ ~ Stopped => (SameRows /\ tenant'[EntApp].role) \/ EntWarned("role")
           /\ JoinGroup /\ ~ Stopped =>
                \/ SameRows /\ (Ent \in manifest.groups \cap manifest.approved => tenant'[EntApp].group)
                \/ EntWarned("group")
<1> DEFINE n == Len(report.ents)
<1>1. at \in {"settings", "role", "group"} /\ TypeInv
  BY DEF ApplySettings, AssignRole, JoinGroup, BaseInv
<1>2. /\ n > 0 /\ n \in DOMAIN report.ents /\ report.ents[n].id = EntApp /\ report.ents[n].src = Ent
      /\ report.ents \in Seq(EntRows)
  BY <1>1 DEF EntsInv, ReportShape
<1>3. EntApp \in DOMAIN tenant
  BY <1>1, EntFacts DEF BaseInv, PlaceInv
<1>4. SameRows \/ EntWarned("settings") \/ EntWarned("role") \/ EntWarned("group")
  BY EntsReport
<1>5. report' = report => SameRows
  BY SameReport DEF SameRows
<1>6. ASSUME AssignRole, ~ Stopped PROVE (SameRows /\ tenant'[EntApp].role) \/ EntWarned("role")
  <2>1. Add(EntApp, "role", WarnEnt("role")) \/ WarnEnt("role")
    BY <1>6 DEF AssignRole
  <2>2. (report' = report /\ tenant'[EntApp]["role"]) \/ WarnEnt("role")
    BY <1>1, <1>3, <2>1, AddDone
  <2> QED  BY <1>2, <1>5, <2>2, EntWarning
<1>7. ASSUME JoinGroup, ~ Stopped
      PROVE  \/ SameRows /\ (Ent \in manifest.groups \cap manifest.approved => tenant'[EntApp].group)
             \/ EntWarned("group")
  <2>1. CASE Ent \in manifest.groups \cap manifest.approved
    <3>1. Add(EntApp, "group", WarnEnt("group"))
      BY <1>7, <2>1 DEF JoinGroup
    <3>2. (report' = report /\ tenant'[EntApp]["group"]) \/ WarnEnt("group")
      BY <1>1, <1>3, <3>1, AddDone
    <3> QED  BY <1>2, <1>5, <3>2, EntWarning
  <2>2. CASE Ent \notin manifest.groups \cap manifest.approved
    <3>1. report' = report \/ report' = [report EXCEPT !.manual = @ \cup {Ent}]
      BY <1>7, <2>2 DEF JoinGroup
    <3>2. SameRows
      BY <1>5, <3>1, PartEdits
    <3> QED  BY <2>2, <3>2
  <2> QED  BY <2>1, <2>2
<1> QED  BY <1>2, <1>3, <1>4, <1>6, <1>7

LEMMA EntsKept ==
    ASSUME BaseInv, ReportShape, RowsInv, EntsInv, [Next]_vars
    PROVE  EntsInv'
<1> DEFINE n == Len(report.ents)
           AllDone == \A i \in DOMAIN report.ents : EntDone(report.ents[i])
           AllDoneAfter == \A i \in DOMAIN report'.ents : EntDone(report.ents[i])'
           Others == {"settings", "role", "group", "ents", "identities", "rebind", "finish", "done"}
<1>0. n \in Nat /\ DOMAIN report.ents = 1..n /\ manifest' = manifest
  BY ManifestStays DEF ReportShape
<1>1. SUFFICES ASSUME at' \in Others PROVE EntsInv'
  BY DEF EntsInv
<1>2. ~ Begin /\ ~ Crash
  BY <1>1 DEF Begin, Crash
<1>3. (cancelled => cancelled') /\ (dead => dead') /\ (Stopped => Stopped')
  BY <1>2, StopsStay DEF Stopped
<1>4. \A i \in DOMAIN report.ents : report.ents[i].id \in DOMAIN tenant
  BY DEF RowsInv
<1>5. \A i \in DOMAIN report.ents : EntDone(report.ents[i]) =>
        \A e : e = report.ents[i] => EntDone(e)'
  BY <1>4, EntDoneOn
<1>6. report'.ents = report.ents /\ AllDone => \A i \in DOMAIN report'.ents : \A e : e = report'.ents[i] => EntDone(e)'
  BY <1>5
<1>7. (\A i \in DOMAIN report'.ents : \A e : e = report'.ents[i] => EntDone(e)') => (\A i \in DOMAIN report.ents : EntDone(report.ents[i]))'
  BY DEF EntDone
<1>8. CASE NextConsent
  <2>1. at' = "ents" /\ report.ents = <<>>
    BY <1>1, <1>8 DEF NextConsent, RowsInv, Ending
  <2>2. report'.ents = <<>>
    BY <1>8, <2>1, ConsentStops
  <2>3. (\A i \in DOMAIN report.ents : EntDone(report.ents[i]))'
    BY <2>2
  <2> QED  BY <2>1, <2>3 DEF EntsInv
<1>9. CASE NextEnt
  <2>0. at = "ents"
    BY <1>9 DEF NextEnt
  <2>1. ~ Stopped => AllDone
    BY <2>0 DEF EntsInv
  <2>2. CASE SameRows /\ at' \in {"ents", "identities"}
    <3>1. at' = "identities" => report'.cancelled = (report.cancelled \/ cancelled) /\ dead' = dead
      BY <1>9, <2>0, <2>2 DEF NextEnt, ReportShape, Shaped
    <3>2. at' = "identities" /\ ~ report'.cancelled /\ ~ dead' => ~ Stopped
      BY <3>1 DEF Stopped
    <3>3. ~ Stopped => (\A i \in DOMAIN report.ents : EntDone(report.ents[i]))'
      BY <1>6, <1>7, <2>1, <2>2 DEF SameRows
    <3> QED  BY <1>3, <2>2, <3>2, <3>3 DEF EntsInv
  <2>3. CASE EntAdded(EntRow) /\ at' = "settings" /\ pos' = pos /\ Ent \in DOMAIN remap
    <3>1. Ent' = Ent /\ EntApp' = EntApp
      BY <1>9, <2>3 DEF NextEnt, Ent, EntApp
    <3>2. /\ Len(report'.ents) = n + 1 /\ report'.ents[n + 1] = EntRow
          /\ \A i \in DOMAIN report.ents : report'.ents[i] = report.ents[i]
          /\ DOMAIN report'.ents = DOMAIN report.ents \cup {n + 1}
      BY <2>3 DEF EntAdded
    <3>3. report'.ents[Len(report'.ents)].id = EntApp' /\ report'.ents[Len(report'.ents)].src = Ent'
      BY <3>1, <3>2 DEF EntRow
    <3>4. ASSUME ~ Stopped, NEW i \in DOMAIN report'.ents, i < Len(report'.ents), NEW e, e = report'.ents[i]
          PROVE  EntDone(e)'
      <4>1. i \in DOMAIN report.ents
        BY <1>0, <3>2, <3>4
      <4> QED  BY <1>5, <2>1, <3>2, <3>4, <4>1
    <3>5. ~ Stopped' => (\A i \in DOMAIN report.ents : i < Len(report.ents) => EntDone(report.ents[i]))'
      BY <1>3, <3>4 DEF EntDone
    <3>6. Len(report'.ents) > 0
      BY <1>0, <3>2
    <3> QED  BY <2>3, <3>3, <3>5, <3>6 DEF EntsInv
  <2> QED  BY <1>9, <2>2, <2>3, EntsReport
<1>10. CASE ApplySettings \/ AssignRole \/ JoinGroup
  <2>1. /\ n > 0 /\ n \in DOMAIN report.ents /\ report.ents[n].id = EntApp /\ report.ents[n].src = Ent
        /\ EntApp \in DOMAIN tenant
        /\ SameRows \/ EntWarned("settings") \/ EntWarned("role") \/ EntWarned("group")
        /\ AssignRole /\ ~ Stopped => (SameRows /\ tenant'[EntApp].role) \/ EntWarned("role")
        /\ JoinGroup /\ ~ Stopped =>
             \/ SameRows /\ (Ent \in manifest.groups \cap manifest.approved => tenant'[EntApp].group)
             \/ EntWarned("group")
    BY <1>10, EntStep
  <2>2. /\ Len(report'.ents) = n /\ DOMAIN report'.ents = DOMAIN report.ents
        /\ \A i \in DOMAIN report.ents :
             /\ report'.ents[i].id = report.ents[i].id /\ report'.ents[i].src = report.ents[i].src
             /\ i # n => report'.ents[i] = report.ents[i]
    BY <2>1 DEF SameRows, EntWarned
  <2>3. at \in {"settings", "role", "group"}
    BY <1>10 DEF ApplySettings, AssignRole, JoinGroup
  <2>4. ASSUME ~ Stopped, NEW i \in DOMAIN report'.ents, i < n, NEW e, e = report'.ents[i] PROVE EntDone(e)'
    <3>1. EntDone(report.ents[i]) /\ report'.ents[i] = report.ents[i]
      BY <1>0, <2>2, <2>3, <2>4 DEF EntsInv
    <3> QED  BY <1>5, <2>2, <2>4, <3>1
  <2>5. CASE AssignRole
    <3>1. at' = "group" /\ Ent' = Ent /\ EntApp' = EntApp
      BY <2>5 DEF AssignRole, Ent, EntApp
    <3>2. ASSUME ~ Stopped PROVE report'.ents[n].warn = {} => tenant'[EntApp].role
      BY <2>1, <2>5, <3>2 DEF EntWarned
    <3>3. ~ Stopped' => (\A i \in DOMAIN report.ents : i < Len(report.ents) => EntDone(report.ents[i]))'
      BY <1>3, <2>2, <2>4 DEF EntDone
    <3>4. report'.ents[n].id = EntApp' /\ report'.ents[n].src = Ent'
      BY <2>1, <2>2, <3>1
    <3>5. ~ Stopped' => (report'.ents[n].warn = {} => tenant'[EntApp'].role)
      BY <1>3, <3>1, <3>2
    <3> QED  BY <1>0, <2>1, <2>2, <3>1, <3>3, <3>4, <3>5 DEF EntsInv
  <2>6. CASE JoinGroup
    <3>1. at' = "ents" /\ at = "group"
      BY <2>6 DEF JoinGroup
    <3>2. ASSUME ~ Stopped, NEW e, e = report'.ents[n] PROVE EntDone(e)'
      <4>1. CASE EntWarned("group")
        <5>1. e.warn # {}
          BY <2>1, <3>2, <4>1 DEF EntWarned
        <5> QED  BY <5>1 DEF EntDone
      <4>2. CASE SameRows /\ (Ent \in manifest.groups \cap manifest.approved => tenant'[EntApp].group)
        <5>1. e = report.ents[n] /\ e.id = EntApp /\ e.src = Ent
          BY <2>1, <3>2, <4>2 DEF SameRows
        <5>2. e.warn = {} => tenant[EntApp].role
          BY <3>1, <3>2, <5>1 DEF EntsInv
        <5>3. tenant[EntApp].role => tenant'[EntApp].role
          BY <2>1, TenantGrown DEF Grown
        <5> QED  BY <1>0, <4>2, <5>1, <5>2, <5>3 DEF EntDone
      <4> QED  BY <2>1, <2>6, <3>2, <4>1, <4>2
    <3>3. ASSUME ~ Stopped, NEW i \in DOMAIN report'.ents, NEW e, e = report'.ents[i] PROVE EntDone(e)'
      <4>1. i < n \/ i = n
        BY <1>0, <2>2
      <4> QED  BY <2>4, <3>2, <3>3, <4>1
    <3>4. ~ Stopped' => (\A i \in DOMAIN report.ents : EntDone(report.ents[i]))'
      BY <1>3, <1>7, <3>3
    <3> QED  BY <3>1, <3>4 DEF EntsInv
  <2>7. CASE ApplySettings
    <3>1. at' = "role" /\ Ent' = Ent /\ EntApp' = EntApp
      BY <2>7 DEF ApplySettings, Ent, EntApp
    <3>2. ~ Stopped' => (\A i \in DOMAIN report.ents : i < Len(report.ents) => EntDone(report.ents[i]))'
      BY <1>3, <2>2, <2>4 DEF EntDone
    <3>3. report'.ents[n].id = EntApp' /\ report'.ents[n].src = Ent'
      BY <2>1, <2>2, <3>1
    <3> QED  BY <1>0, <2>1, <2>2, <3>1, <3>2, <3>3 DEF EntsInv
  <2> QED  BY <1>10, <2>5, <2>6, <2>7
<1>11. CASE Pass5
  <2>1. SameRows /\ TypeInv
    BY <1>11, QuietReport DEF BaseInv
  <2>2. at \in {"identities", "rebind", "finish"} /\ at' \in {"rebind", "finish", "done"}
    BY <1>11, StagesLater
  <2>3. ~ report'.cancelled /\ ~ dead => (\A i \in DOMAIN report.ents : EntDone(report.ents[i]))'
    BY <1>6, <1>7, <2>1, <2>2 DEF EntsInv, SameRows, PartsGrow
  <2>4. at' = "done" => report'.expired = dead
    BY <1>11 DEF Pass5, ListIdentities, Rebind, Finish, ReportShape, Shaped
  <2> QED  BY <1>3, <2>2, <2>3, <2>4 DEF EntsInv
<1>12. CASE Around \/ UNCHANGED vars
  <2>1. /\ at' = at /\ report' = report /\ Ent' = Ent /\ EntApp' = EntApp
    BY <1>0, <1>12, StagesLater DEF Ent, EntApp
  <2>2. \A i \in DOMAIN report.ents : EntDone(report.ents[i]) => EntDone(report.ents[i])'
    <3>1. ASSUME NEW i \in DOMAIN report.ents, EntDone(report.ents[i]), NEW e, e = report.ents[i] PROVE EntDone(e)'
      BY <1>5, <3>1
    <3> QED  BY <2>1, <3>1 DEF EntDone
  <2>3. AllDone => (\A i \in DOMAIN report.ents : EntDone(report.ents[i]))'
    BY <2>1, <2>2
  <2>4. at = "ents" /\ ~ Stopped' => (\A i \in DOMAIN report.ents : EntDone(report.ents[i]))'
    BY <1>3, <2>3 DEF EntsInv
  <2>5. at \in {"identities", "rebind", "finish"} /\ ~ report.cancelled /\ ~ dead' => (\A i \in DOMAIN report.ents : EntDone(report.ents[i]))'
    BY <1>3, <2>3 DEF EntsInv
  <2>6. at = "done" /\ ~ report.cancelled /\ ~ report.expired => (\A i \in DOMAIN report.ents : EntDone(report.ents[i]))'
    BY <2>3 DEF EntsInv
  <2>7. ASSUME at \in {"settings", "role", "group"}
        PROVE  /\ n > 0 /\ report.ents[n].id = EntApp /\ report.ents[n].src = Ent
               /\ ~ Stopped' =>
                    /\ (\A i \in DOMAIN report.ents : i < Len(report.ents) => EntDone(report.ents[i]))'
                    /\ at = "group" /\ report.ents[n].warn = {} => tenant'[EntApp].role
    <3>1. n > 0 /\ report.ents[n].id = EntApp /\ report.ents[n].src = Ent
      BY <2>7 DEF EntsInv
    <3>2. ~ Stopped => (\A i \in DOMAIN report.ents : i < Len(report.ents) => EntDone(report.ents[i]))'
      BY <2>1, <2>2, <2>7 DEF EntsInv
    <3>3. ~ Stopped /\ at = "group" /\ report.ents[n].warn = {} => tenant[EntApp].role
      BY <2>7 DEF EntsInv
    <3>4. tenant[EntApp].role => tenant'[EntApp].role
      <4>1. EntApp \in DOMAIN tenant
        BY <2>7, EntFacts DEF BaseInv, PlaceInv
      <4> QED  BY <4>1, TenantGrown DEF Grown
    <3> QED  BY <1>3, <3>1, <3>2, <3>3, <3>4
  <2> QED  BY <2>1, <2>4, <2>5, <2>6, <2>7 DEF EntsInv
<1>13. CASE Classify \/ Pass1 \/ Pass2 \/ Reread \/ Grant
  <2>1. at' \notin Others
    <3>1. CASE Classify \/ Pass1
      <4>1. at' \in Early \/ at' = "wire"
        BY <3>1, StagesLater DEF EndTake
      <4> QED  BY <4>1 DEF Early, Unsettled, Checking
    <3>2. CASE Pass2
      BY <3>2, StagesLater
    <3>3. CASE Reread \/ Grant
      BY <3>3 DEF Reread, Grant
    <3> QED  BY <1>13, <3>1, <3>2, <3>3
  <2> QED  BY <1>1, <2>1
<1> QED  BY <1>2, <1>8, <1>9, <1>10, <1>11, <1>12, <1>13, NextCases DEF Pass3, Pass4

-----------------------------------------------------------------------------
(* An entry without a warning has its service principal.                   *)

LEMMA EnsureDone ==
    ASSUME BaseInv, NEW i \in DOMAIN created, EnsurePrincipal(i)
    PROVE  /\ SpOk(i)'
           /\ \A j \in DOMAIN created : created'[j].warn = {} => created[j].warn = {}
<1> DEFINE a == created[i].id
           y == [tenant[a] EXCEPT !.sp = TRUE]
<1>1. /\ a \in DOMAIN tenant /\ tenant[a] \in AppRecs /\ SameEntries /\ created[i] \in EntryRecs
      /\ \A j \in DOMAIN created : created[j] \in EntryRecs
  BY EnsureEffect DEF BaseInv, EntriesInv, TypeInv
<1>2. PICK o \in WriteAnswers(a) :
        /\ tenant' = IF Landed(o) THEN [tenant EXCEPT ![a] = y] ELSE tenant
        /\ created' = IF o = "ok" THEN created ELSE [created EXCEPT ![i].warn = @ \cup {"sp"}]
  BY DEF EnsurePrincipal, Write
<1>3. y.sp
  BY <1>1 DEF AppRecs
<1> HIDE DEF y
<1>4. CASE o = "ok"
  <2>1. tenant'[a].sp /\ created' = created
    BY <1>1, <1>2, <1>3, <1>4 DEF Landed
  <2> QED  BY <2>1 DEF SpOk
<1>5. CASE o # "ok"
  <2>1. created' = [created EXCEPT ![i].warn = @ \cup {"sp"}]
    BY <1>2, <1>5
  <2>2. "sp" \in created'[i].warn /\ \A j \in DOMAIN created : j # i => created'[j] = created[j]
    BY <1>1, <2>1 DEF EntryRecs
  <2> QED  BY <2>2 DEF SpOk
<1> QED  BY <1>4, <1>5

\* An entry loses no warning.
LEMMA WarnsStay ==
    ASSUME BaseInv, [Next]_vars, ~ Begin, ~ (EndRound /\ at' = "take"), NEW i \in DOMAIN created
    PROVE  /\ i \in DOMAIN created' /\ created'[i].src = created[i].src /\ created'[i].id = created[i].id
           /\ created'[i].pending = created[i].pending
           /\ created'[i].warn = {} => created[i].warn = {}
<1>1. EntriesGrow
  BY EntriesOn
<1>2. created'[i].warn = {} => created[i].warn = {}
  <2>1. CASE Ensure
    <3>1. Len(created) \in DOMAIN created
      BY <2>1 DEF Ensure, BaseInv, TypeInv, PlaceInv
    <3> QED  BY <2>1, <3>1, EnsureDone DEF Ensure
  <2>2. CASE TakePending
    <3>1. pos \in DOMAIN created
      BY <2>2, TakeEffect
    <3> QED  BY <2>2, <3>1, EnsureDone DEF TakePending
  <2>3. CASE SecretStep
    <3>1. created' = created \/ created' = [created EXCEPT ![pos].left[Step] = @ - 1]
      BY <2>3 DEF SecretStep
    <3>2. created[i] \in EntryRecs /\ pos \in DOMAIN created
      BY <2>3, SecretEffect DEF BaseInv, TypeInv
    <3>3. created'[i].warn = created[i].warn
      BY <3>1, <3>2 DEF EntryRecs
    <3> QED  BY <3>3
  <2>4. CASE CheckPrincipal \/ Create
    <3>1. CASE created' = created
      BY <3>1
    <3>2. ASSUME NEW a, NEW adopted, NEW secrets, NEW pre, Keep(a, adopted, secrets, pre)
          PROVE  created'[i] = created[i]
      BY <3>2, KeepEffect DEF BaseInv
    <3> QED  BY <2>4, <3>1, <3>2, KeepCases
  <2>5. CASE \/ Classify \/ EndLoop \/ Lookup \/ CheckOwners \/ CheckFics \/ JudgePending \/ EndRound \/ EndTake
    BY <2>5 DEF Classify, EndLoop, Lookup, CheckOwners, CheckFics, JudgePending, EndRound, EndTake, Refuse
  <2>6. CASE NextWire \/ SkipStep \/ PatchStep \/ ReadStep \/ FicStep \/ OwnerStep \/ EndWire
    BY <2>6 DEF NextWire, SkipStep, PatchStep, ReadStep, FicStep, OwnerStep, EndWire
  <2>7. CASE Pass3 \/ Pass4
    BY <2>7 DEF Pass3, NextConsent, Reread, Grant, Pass4, NextEnt, ApplySettings, AssignRole, JoinGroup
  <2>8. CASE Pass5 \/ Crash
    BY <2>8 DEF Pass5, ListIdentities, Rebind, Finish, Crash, locals
  <2>9. CASE Around \/ UNCHANGED vars
    BY <2>9, StagesLater
  <2> QED  BY <2>1, <2>2, <2>3, <2>4, <2>5, <2>6, <2>7, <2>8, <2>9, NextCases DEF Pass1, Pass2
<1> QED  BY <1>1, <1>2 DEF EntriesGrow

LEMMA SpOkOn ==
    ASSUME BaseInv, [Next]_vars, ~ Begin, ~ (EndRound /\ at' = "take"), NEW i \in DOMAIN created, SpOk(i)
    PROVE  SpOk(i)'
<1>1. created[i].id \in DOMAIN tenant
  BY DEF BaseInv, EntriesInv
<1>2. Grown(tenant[created[i].id], tenant'[created[i].id])
  BY <1>1, TenantGrown
<1>3. /\ created'[i].src = created[i].src /\ created'[i].id = created[i].id
      /\ created'[i].warn = {} => created[i].warn = {}
  BY WarnsStay
<1> QED  BY <1>2, <1>3, ManifestStays DEF Grown, SpOk

\* The new entry, where Pass 1 does not go on to its service principal.
LEMMA KeepSp ==
    ASSUME BaseInv, CheckPrincipal \/ Create, NEW i \in DOMAIN created' \ DOMAIN created
    PROVE  i = Len(created') /\ ((at' = "ensure") \/ created'[i].pending \/ SpOk(i)')
<1>0. TypeInv /\ manifest' = manifest
  BY ManifestStays DEF BaseInv, CheckPrincipal, Create
<1>1. ASSUME NEW a, NEW adopted, NEW secrets, NEW pre, Keep(a, adopted, secrets, pre)
      PROVE  i = Len(created') /\ ((at' = "ensure") \/ created'[i].pending \/ SpOk(i)')
  <2>1. /\ Len(created') = Len(created) + 1 /\ DOMAIN created' = DOMAIN created \cup {Len(created) + 1}
        /\ created'[Len(created) + 1].src = Source /\ created'[Len(created) + 1].pending = (pre # {})
    BY <1>0, <1>1, KeepEffect
  <2>2. at' = "ensure" \/ pre # {} \/ Source \notin manifest.sps
    BY <1>1 DEF Keep, Ensures
  <2> QED  BY <1>0, <2>1, <2>2 DEF SpOk
<1>2. CASE created' = created
  BY <1>2
<1> QED  BY <1>1, <1>2, KeepCases

\* Where an entry of Pass 1 stands.
Provided(i) == created[i].pending \/ (at = "ensure" /\ i = Len(created)) \/ SpOk(i)

LEMMA ProvidedOn ==
    ASSUME BaseInv, SpInv, [Next]_vars, ~ Begin, at \in Unsettled, at' \in Unsettled, NEW i \in DOMAIN created'
    PROVE  Provided(i)'
<1>0. ~ (EndRound /\ at' = "take") /\ TypeInv
  BY DEF Unsettled, Checking, BaseInv
<1>1. CASE i \notin DOMAIN created
  <2>1. CheckPrincipal \/ Create
    <3>1. DOMAIN created' # DOMAIN created
      BY <1>1
    <3>2. SameEntries => DOMAIN created' = DOMAIN created
      BY DEF SameEntries
    <3>3. (EndLoop \/ JudgePending \/ (EndRound /\ at' # "take")) => created' = created
      BY DEF EndLoop, JudgePending, EndRound
    <3> QED  BY <1>0, <3>1, <3>2, <3>3, EntriesStep
  <2> QED  BY <1>1, <2>1, KeepSp DEF Provided
<1>2. CASE i \in DOMAIN created
  <2>1. Provided(i)
    BY <1>2 DEF SpInv, Provided
  <2>2. CASE created[i].pending
    BY <1>0, <1>2, <2>2, WarnsStay DEF Provided
  <2>3. CASE SpOk(i)
    BY <1>0, <1>2, <2>3, SpOkOn DEF Provided
  <2>4. CASE at = "ensure" /\ i = Len(created)
    <3>1. CASE Ensure
      BY <1>2, <2>4, <3>1, EnsureDone DEF Ensure, Provided
    <3>2. CASE Around \/ UNCHANGED vars
      <4>1. at' = at /\ created' = created
        BY <3>2, StagesLater
      <4> QED  BY <2>4, <4>1 DEF Provided
    <3>3. CASE \/ Classify \/ EndLoop \/ Lookup \/ CheckOwners \/ CheckFics \/ CheckPrincipal \/ Create
               \/ JudgePending \/ EndRound \/ TakePending \/ EndTake
      BY <2>4, <3>3 DEF Classify, EndLoop, Lookup, CheckOwners, CheckFics, CheckPrincipal, Create,
         JudgePending, EndRound, TakePending, EndTake
    <3>4. CASE Pass2 \/ Pass3 \/ Pass4 \/ Pass5
      BY <2>4, <3>4, StagesLater
    <3>5. CASE Crash
      BY <3>5 DEF Crash, Unsettled, Checking
    <3> QED  BY <3>1, <3>2, <3>3, <3>4, <3>5, NextCases DEF Pass1
  <2> QED  BY <2>1, <2>2, <2>3, <2>4 DEF Provided
<1> QED  BY <1>1, <1>2

LEMMA SpKept ==
    ASSUME BaseInv, SpInv, [Next]_vars
    PROVE  SpInv'
<1>0. TypeInv /\ pos \in Nat /\ DOMAIN created = 1..Len(created) /\ Len(created) \in Nat /\ manifest' = manifest
  BY ManifestStays DEF BaseInv, TypeInv
<1>1. at' \in Unsettled => \A i \in DOMAIN created' : Provided(i)'
  <2>1. SUFFICES ASSUME at' \in Unsettled, NEW i \in DOMAIN created' PROVE Provided(i)'
    OBVIOUS
  <2>2. ~ Begin
    BY <2>1 DEF Begin, Unsettled, Checking
  <2>3. CASE Classify /\ created = <<>>
    <3>1. created' = <<>>
      BY <2>3 DEF Classify
    <3> QED  BY <2>1, <3>1
  <2> QED  BY <2>1, <2>2, <2>3, UnsettledBefore, ProvidedOn
<1>2. at' = "take" => \A i \in DOMAIN created' : (created'[i].pending /\ i >= pos') \/ SpOk(i)'
  <2>1. SUFFICES ASSUME at' = "take", NEW i \in DOMAIN created' PROVE (created'[i].pending /\ i >= pos') \/ SpOk(i)'
    OBVIOUS
  <2>2. CASE EndRound
    <3>1. at = "settle" /\ pos' = 1 /\ tenant' = tenant /\ Retain(Retained)
      BY <2>1, <2>2 DEF EndRound, Retained, world
    <3>2. Retained \in SUBSET (DOMAIN created)
      BY DEF Retained
    <3>3. PICK k \in DOMAIN created : created'[i] = created[k]
      BY <1>0, <3>1, <3>2, RetainEffect
    <3>4. created[k].pending \/ SpOk(k)
      BY <3>1 DEF SpInv, Unsettled
    <3>5. i >= 1
      <4>1. created' \in Seq(EntryRecs)
        BY <1>0, <3>1, <3>2, RetainEffect
      <4> QED  BY <4>1
    <3> QED  BY <1>0, <3>1, <3>3, <3>4, <3>5 DEF SpOk
  <2>3. CASE at = "take" /\ ~ EndRound
    <3>1. ~ Begin /\ ~ CheckPrincipal /\ ~ Create /\ ~ EndLoop /\ ~ JudgePending
      BY <2>3 DEF Begin, CheckPrincipal, Create, EndLoop, JudgePending
    <3>2. i \in DOMAIN created
      BY <2>3, <3>1, EntriesStep DEF SameEntries
    <3>3. ((created[i].pending /\ i >= pos) \/ SpOk(i)) /\ created'[i].pending = created[i].pending
      BY <2>3, <3>1, <3>2, WarnsStay DEF SpInv
    <3>4. SpOk(i) => SpOk(i)'
      BY <2>3, <3>1, <3>2, SpOkOn
    <3>5. CASE TakePending
      <4>1. pos \in DOMAIN created /\ pos' = pos + 1
        BY <3>5, TakeEffect DEF TakePending
      <4>2. CASE i = pos
        <5>1. CASE created[i].pending /\ created[i].src \in manifest.sps
          BY <3>5, <4>1, <4>2, <5>1, EnsureDone DEF TakePending, Ensures
        <5>2. CASE created[i].src \notin manifest.sps
          BY <1>0, <2>3, <3>1, <3>2, <5>2, WarnsStay DEF SpOk
        <5>3. CASE ~ created[i].pending
          BY <3>3, <3>4, <5>3
        <5> QED  BY <5>1, <5>2, <5>3
      <4>3. CASE i # pos
        <5>1. i >= pos => i >= pos'
          BY <1>0, <3>2, <4>1, <4>3
        <5> QED  BY <3>3, <3>4, <5>1
      <4> QED  BY <4>2, <4>3
    <3>6. CASE ~ TakePending
      <4>1. pos' = pos
        <5>1. CASE Around \/ UNCHANGED vars
          BY <5>1, StagesLater
        <5>2. CASE Classify \/ Lookup \/ CheckOwners \/ CheckFics \/ Ensure \/ EndTake \/ Crash
          BY <2>1, <2>3, <5>2 DEF Classify, Lookup, CheckOwners, CheckFics, Ensure, EndTake, Crash
        <5>3. CASE Pass2 \/ Pass3 \/ Pass4 \/ Pass5
          BY <2>3, <5>3, StagesLater
        <5> QED  BY <2>3, <3>1, <3>6, <5>1, <5>2, <5>3, NextCases DEF Pass1
      <4> QED  BY <3>3, <3>4, <4>1
    <3> QED  BY <3>5, <3>6
  <2>4. at = "take" \/ EndRound
    <3>1. at \in {"take", "wire"} \/ EndRound
      BY <2>1, StageStep
    <3>2. CASE at = "wire"
      <4>1. CASE Around \/ UNCHANGED vars \/ Pass2 \/ Pass3 \/ Pass4 \/ Pass5
        BY <2>1, <3>2, <4>1, StagesLater
      <4>2. CASE Begin \/ Classify \/ Pass1 \/ Crash
        <5>1. Classify \/ Pass1 => at \in Early
          BY StagesLater
        <5>2. "wire" \notin Early
          BY DEF Early, Unsettled, Checking
        <5> QED  BY <2>1, <3>2, <4>2, <5>1, <5>2 DEF Begin, Crash
      <4> QED  BY <4>1, <4>2, NextCases
    <3> QED  BY <3>1, <3>2
  <2> QED  BY <2>2, <2>3, <2>4
<1>3. at' = "wire" => (Stopped' /\ item' = 0) \/ \A i \in DOMAIN created' : SpOk(i)'
  <2>1. SUFFICES ASSUME at' = "wire", ~ (Stopped' /\ item' = 0) PROVE \A i \in DOMAIN created' : SpOk(i)'
    OBVIOUS
  <2>2. at \in {"take", "wire"}
    <3>1. ~ EndRound
      BY <2>1 DEF EndRound
    <3> QED  BY <2>1, <3>1, StageStep
  <2>3. ~ Begin /\ ~ CheckPrincipal /\ ~ Create /\ ~ EndLoop /\ ~ JudgePending /\ ~ EndRound
    BY <2>2 DEF Begin, CheckPrincipal, Create, EndLoop, JudgePending, EndRound
  <2>4. DOMAIN created' = DOMAIN created
    BY <2>3, EntriesStep DEF SameEntries
  <2>5. \A i \in DOMAIN created : SpOk(i) => SpOk(i)'
    BY <2>3, SpOkOn
  <2>6. \A i \in DOMAIN created : SpOk(i)
    <3>1. CASE EndTake
      <4>1. at = "take" /\ item' = 0 /\ (pos > Len(created) \/ Stopped) /\ Stopped' = Stopped
        BY <3>1 DEF EndTake, stops, Stopped
      <4>2. pos > Len(created)
        BY <2>1, <4>1
      <4>3. \A i \in DOMAIN created : ~ (i >= pos)
        BY <1>0, <4>2
      <4> QED  BY <4>1, <4>3 DEF SpInv
    <3>2. CASE at = "wire"
      <4>1. ~ (Stopped /\ item = 0)
        <5>1. Stopped => Stopped'
          BY <2>3, StopsStay DEF Stopped
        <5>2. CASE Around \/ UNCHANGED vars
          <6>1. item' = item
            BY <5>2, StagesLater
          <6> QED  BY <2>1, <5>1, <6>1
        <5>3. CASE NextWire
          BY <2>1, <5>3 DEF NextWire
        <5>4. CASE Inner \/ EndWire
          <6>1. item > 0
            BY <5>4, InnerFacts DEF EndWire
          <6> QED  BY <6>1
        <5>5. CASE Classify \/ Pass1
          <6>1. at \in Early /\ "wire" \notin Early
            BY <5>5, StagesLater DEF Early, Unsettled, Checking
          <6> QED  BY <3>2, <6>1
        <5>6. CASE Pass3 \/ Pass4 \/ Pass5
          BY <3>2, <5>6, StagesLater
        <5>7. CASE Crash
          BY <2>1, <5>7 DEF Crash
        <5> QED  BY <2>3, <5>2, <5>3, <5>4, <5>5, <5>6, <5>7, NextCases DEF Pass2, Inner
      <4> QED  BY <3>2, <4>1 DEF SpInv
    <3>3. CASE at = "take" /\ ~ EndTake
      <4>1. CASE Around \/ UNCHANGED vars \/ Pass2 \/ Pass3 \/ Pass4 \/ Pass5
        BY <2>1, <3>3, <4>1, StagesLater
      <4>2. CASE Classify \/ Lookup \/ CheckOwners \/ CheckFics \/ Ensure \/ TakePending \/ Crash
        BY <2>1, <3>3, <4>2 DEF Classify, Lookup, CheckOwners, CheckFics, Ensure, TakePending, Crash
      <4> QED  BY <2>3, <3>3, <4>1, <4>2, NextCases DEF Pass1
    <3> QED  BY <2>2, <3>1, <3>2, <3>3
  <2> QED  BY <2>4, <2>5, <2>6
<1> QED  BY <1>1, <1>2, <1>3 DEF SpInv, Provided

-----------------------------------------------------------------------------
(* An app holds the secrets its entry still knows of.                      *)

LEMMA LeftStays ==
    ASSUME BaseInv, [Next]_vars, ~ Begin, ~ (EndRound /\ at' = "take"), NEW i \in DOMAIN created
    PROVE  /\ created'[i].left["key"] <= created[i].left["key"]
           /\ ~ SecretStep => created'[i].left = created[i].left
<1>0. created[i] \in EntryRecs /\ created[i].left["key"] \in Nat
  <2>1. created[i] \in EntryRecs
    BY DEF BaseInv, TypeInv
  <2> QED  BY <2>1 DEF EntryRecs, Keys
<1>1. created'[i].left = created[i].left => created'[i].left["key"] <= created[i].left["key"]
  BY <1>0
<1>2. CASE Ensure
  <2>1. Len(created) \in DOMAIN created /\ TypeInv /\ EntriesInv
    BY <1>2 DEF Ensure, BaseInv, TypeInv, PlaceInv
  <2> QED  BY <1>1, <1>2, <2>1, EnsureEffect DEF Ensure
<1>3. CASE TakePending
  BY <1>1, <1>3, TakeEffect
<1>4. CASE SecretStep
  <2>1. CASE i # pos
    BY <1>1, <1>4, <2>1, SecretEffect
  <2>2. CASE i = pos
    <3>1. CASE created' = created
      BY <1>1, <3>1
    <3>2. CASE Step \in Keys /\ created'[pos].left = [Entry.left EXCEPT ![Step] = @ - 1]
      <4>1. created[i].left \in [Keys -> Nat] /\ created[i].left = Entry.left
        BY <1>0, <2>2 DEF EntryRecs, Entry
      <4>2. created'[i].left["key"] = created[i].left["key"] \/ created'[i].left["key"] = created[i].left["key"] - 1
        BY <2>2, <3>2, <4>1 DEF Keys
      <4> QED  BY <1>0, <1>4, <4>2
    <3> QED  BY <1>4, <3>1, <3>2, SecretEffect
  <2> QED  BY <2>1, <2>2
<1>5. CASE CheckPrincipal \/ Create
  <2>1. CASE created' = created
    BY <1>1, <2>1
  <2>2. ASSUME NEW a, NEW adopted, NEW secrets, NEW pre, Keep(a, adopted, secrets, pre)
        PROVE  created'[i] = created[i]
    BY <2>2, KeepEffect DEF BaseInv
  <2> QED  BY <1>1, <1>5, <2>1, <2>2, KeepCases
<1>6. CASE \/ Classify \/ EndLoop \/ Lookup \/ CheckOwners \/ CheckFics \/ JudgePending \/ EndRound \/ EndTake
  <2>1. created' = created
    BY <1>6 DEF Classify, EndLoop, Lookup, CheckOwners, CheckFics, JudgePending, EndRound, EndTake, Refuse
  <2> QED  BY <1>1, <2>1
<1>7. CASE NextWire \/ SkipStep \/ PatchStep \/ ReadStep \/ FicStep \/ OwnerStep \/ EndWire
  <2>1. created' = created
    BY <1>7 DEF NextWire, SkipStep, PatchStep, ReadStep, FicStep, OwnerStep, EndWire
  <2> QED  BY <1>1, <2>1
<1>8. CASE Pass3 \/ Pass4
  <2>1. created' = created
    BY <1>8 DEF Pass3, NextConsent, Reread, Grant, Pass4, NextEnt, ApplySettings, AssignRole, JoinGroup
  <2> QED  BY <1>1, <2>1
<1>9. CASE Pass5 \/ Crash \/ Around \/ UNCHANGED vars
  <2>1. created' = created
    BY <1>9, StagesLater DEF Pass5, ListIdentities, Rebind, Finish, Crash, locals
  <2> QED  BY <1>1, <2>1
<1> QED  BY <1>2, <1>3, <1>4, <1>5, <1>6, <1>7, <1>8, <1>9, NextCases DEF Pass1, Pass2

LEMMA HeldKept ==
    ASSUME BaseInv, SecretsInv, HeldInv, [Next]_vars
    PROVE  HeldInv'
<1>0. TypeInv /\ TypeInv' /\ EntriesInv'
  BY NextBase DEF BaseInv
<1>1. CASE Begin
  BY <1>1 DEF Begin, HeldInv
<1>2. CASE EndRound /\ at' = "take"
  <2>1. Retain(Retained) /\ Retained \in SUBSET (DOMAIN created) /\ tenant' = tenant
    BY <1>2 DEF EndRound, Retained, world
  <2>2. \A i \in DOMAIN created' : \E k \in DOMAIN created : created'[i] = created[k]
    BY <1>0, <2>1, RetainEffect
  <2> QED  BY <2>1, <2>2 DEF HeldInv
<1>3. CASE ~ Begin /\ ~ (EndRound /\ at' = "take")
  <2>1. ASSUME NEW i \in DOMAIN created
        PROVE  i \in DOMAIN created' /\ created'[i].left["key"] <= tenant'[created'[i].id].secrets["key"]
    <3>1. /\ created[i].id \in DOMAIN tenant /\ created[i].left["key"] \in Nat
          /\ tenant[created[i].id].secrets["key"] \in Nat
      <4>1. created[i].id \in DOMAIN tenant /\ created[i] \in EntryRecs /\ tenant[created[i].id] \in AppRecs
        BY DEF BaseInv, TypeInv, EntriesInv
      <4> QED  BY <4>1 DEF EntryRecs, AppRecs, Keys
    <3>2. i \in DOMAIN created' /\ created'[i].id = created[i].id
      BY <1>3, WarnsStay
    <3>3. created'[i].id \in DOMAIN tenant' /\ created'[i] \in EntryRecs' /\ tenant'[created'[i].id] \in AppRecs'
      BY <1>0, <3>2 DEF TypeInv, EntriesInv
    <3>4. created'[i].left["key"] \in Nat /\ tenant'[created'[i].id].secrets["key"] \in Nat
      BY <3>3 DEF EntryRecs, AppRecs, Keys
    <3>5. tenant[created[i].id].secrets["key"] <= tenant'[created[i].id].secrets["key"]
      BY <3>1, TenantGrown DEF Grown, Keys
    <3>6. created[i].left["key"] <= tenant[created[i].id].secrets["key"]
      BY DEF HeldInv
    <3>7. created'[i].left["key"] <= created[i].left["key"]
      BY <1>3, LeftStays
    <3> QED  BY <3>1, <3>2, <3>4, <3>5, <3>6, <3>7
  <2>2. ASSUME NEW i \in DOMAIN created' \ DOMAIN created
        PROVE  created'[i].left["key"] <= tenant'[created'[i].id].secrets["key"]
    <3>1. CheckPrincipal \/ Create
      <4>1. SameEntries => DOMAIN created' = DOMAIN created
        BY DEF SameEntries
      <4>2. (EndLoop \/ JudgePending \/ (EndRound /\ at' # "take")) => created' = created
        BY DEF EndLoop, JudgePending, EndRound
      <4> QED  BY <1>3, <2>2, <4>1, <4>2, EntriesStep
    <3>2. ASSUME NEW a \in DOMAIN tenant', NEW adopted, NEW secrets, NEW pre, Keep(a, adopted, secrets, pre),
                 secrets["key"] <= tenant'[a].secrets["key"]
          PROVE  created'[i].left["key"] <= tenant'[created'[i].id].secrets["key"]
      <4>1. i = Len(created) + 1
        BY <1>0, <2>2, <3>2, KeepEffect
      <4>2. created'[i].id = a /\ created'[i].left = secrets
        BY <1>0, <3>2, <4>1, KeepEffect
      <4> QED  BY <3>2, <4>2
    <3>3. CASE CheckPrincipal
      <4>1. Keep(hit.id, TRUE, hit.secrets, hit.pre) /\ tenant' = tenant
        BY <2>2, <3>3 DEF CheckPrincipal, Refuse, world
      <4>2. hit.id \in DOMAIN tenant /\ tenant[hit.id].secrets = hit.secrets /\ hit.secrets["key"] \in Nat
        BY <3>3 DEF CheckPrincipal, SecretsInv, CandidateInv, BaseInv, PlaceInv, Checking, Keys
      <4>3. hit.secrets["key"] <= tenant'[hit.id].secrets["key"] /\ hit.id \in DOMAIN tenant'
        BY <4>1, <4>2
      <4> QED  BY <3>2, <4>1, <4>3
    <3>4. CASE Create
      <4>1. Keep(Len(tenant'), FALSE, [k \in Keys |-> 0], {}) /\ tenant' = Append(tenant, NewApp(Source)) /\ Source \in Apps
        BY <2>2, <3>4, CreateEffect
      <4>2. Len(tenant') \in DOMAIN tenant' /\ tenant'[Len(tenant')] = NewApp(Source)
        BY <1>0, <4>1, AppendGrows, NewAppFacts
      <4>3. NewApp(Source).secrets["key"] = 0 /\ [k \in Keys |-> 0]["key"] = 0
        BY DEF NewApp, Keys
      <4>4. [k \in Keys |-> 0]["key"] <= tenant'[Len(tenant')].secrets["key"]
        BY <4>2, <4>3
      <4> DEFINE none == [k \in Keys |-> 0]
                 a == Len(tenant')
      <4>5. a \in DOMAIN tenant' /\ Keep(a, FALSE, none, {}) /\ none["key"] <= tenant'[a].secrets["key"]
        BY <4>1, <4>2, <4>4
      <4> HIDE DEF none, a
      <4> QED  BY <3>2, <4>5
    <3> QED  BY <3>1, <3>3, <3>4
  <2> QED  BY <2>1, <2>2 DEF HeldInv
<1> QED  BY <1>1, <1>2, <1>3

-----------------------------------------------------------------------------
(* What a row claims stays true.                                           *)

LEMMA PlansStay ==
    ASSUME manifest' = manifest, remap' = remap, withheld' = withheld
    PROVE  /\ \A s : LeftOut(s)' = LeftOut(s)
           /\ \A s : remap_required_resource_access(s)' = remap_required_resource_access(s)
           /\ \A s : plan_pre_authorized(s)' = plan_pre_authorized(s)
           /\ \A s, k : Issuable(s, k)' = Issuable(s, k)
           /\ \A s, w : Asked(w, s)' <=> Asked(w, s)
BY DEF LeftOut, remap_required_resource_access, plan_pre_authorized, Apps, Issuable, Asked

\* While there are rows, the run has its remap and its entries.
LEMMA RowBase ==
    ASSUME BaseInv, ReportShape, RowsInv, EntsInv, [Next]_vars, ~ Begin, ~ Crash, NEW i \in DOMAIN report.apps
    PROVE  /\ manifest' = manifest /\ remap' = remap /\ withheld' = withheld /\ SameEntries
           /\ i \in DOMAIN created /\ i \in DOMAIN report'.apps
           /\ report.apps[i].src = created[i].src /\ report.apps[i].id = created[i].id
           /\ report'.apps[i].src = created[i].src /\ report'.apps[i].id = created[i].id
           /\ created[i].id \in DOMAIN tenant
           /\ \A w : Claims(i, w)' => Claims(i, w)
<1>1. at \notin Early
  BY DEF RowsInv, Early
<1>2. ~ Classify /\ ~ Pass1
  BY <1>1, StagesLater
<1>3. manifest' = manifest /\ withheld' = withheld /\ SameEntries /\ remap' = remap
  BY <1>2, WithheldStays, EntriesStep DEF Pass1
<1>4. /\ i \in DOMAIN created /\ report.apps[i].src = created[i].src /\ report.apps[i].id = created[i].id
      /\ created[i].id \in DOMAIN tenant
  BY DEF RowsInv, BaseInv, EntriesInv
<1>5. /\ i \in DOMAIN report'.apps
      /\ report'.apps[i].src = report.apps[i].src /\ report'.apps[i].id = report.apps[i].id
      /\ report.apps[i].warn \subseteq report'.apps[i].warn
      /\ report.apps[i].incomplete => report'.apps[i].incomplete
  BY RowsStep DEF RowsGrow
<1>6. tenant'[created[i].id].there => tenant[created[i].id].there
  BY <1>4, TenantKeeps
<1>7. ASSUME NEW w, Claims(i, w)' PROVE Claims(i, w)
  BY <1>4, <1>5, <1>6, <1>7 DEF Claims
<1> QED  BY <1>3, <1>4, <1>5, <1>7

\* The lists a PATCH leaves.
LEMMA PatchLists ==
    ASSUME BaseInv, PatchStep
    PROVE  /\ \/ tenant'[Entry.id].perms = tenant[Entry.id].perms
              \/ tenant'[Entry.id].perms = remap_required_resource_access(Entry.src)
           /\ \/ tenant'[Entry.id].pre = tenant[Entry.id].pre
              \/ tenant'[Entry.id].pre = plan_pre_authorized(Entry.src)
<1> DEFINE a == Entry.id
           x == tenant[a]
           P == Patched(a, Entry.src)
           A == [x EXCEPT !.perms = remap_required_resource_access(Entry.src)]
           B == [x EXCEPT !.pre = plan_pre_authorized(Entry.src)]
           C == [x EXCEPT !.auth = TRUE]
<1>1. pos <= Len(created)
  BY DEF PatchStep, Wiring, BaseInv, PlaceInv
<1>2. a \in DOMAIN tenant /\ x \in AppRecs
  BY <1>1, EntryFacts DEF BaseInv
<1>3. Step \in {"perms", "expose", "auth"} /\ (tenant' = tenant \/ tenant' = [tenant EXCEPT ![a] = P[Step]])
  BY DEF PatchStep, Wiring, Write
<1>4. P["perms"] = A /\ P["expose"] = B /\ P["auth"] = C
  BY DEF Patched
<1>5. /\ A.perms = remap_required_resource_access(Entry.src) /\ A.pre = x.pre
      /\ B.perms = x.perms /\ B.pre = plan_pre_authorized(Entry.src)
      /\ C.perms = x.perms /\ C.pre = x.pre
  <2> HIDE DEF x
  <2> QED  BY <1>2 DEF AppRecs
<1> HIDE DEF P, A, B, C
<1>6. tenant'[a] = x \/ tenant'[a] = A \/ tenant'[a] = B \/ tenant'[a] = C
  BY <1>2, <1>3, <1>4
<1> QED  BY <1>5, <1>6

LEMMA HasOn ==
    ASSUME BaseInv, [Next]_vars, manifest' = manifest, remap' = remap, withheld' = withheld,
           NEW i \in DOMAIN created, NEW s, NEW a, s = created[i].src, a = created[i].id, NEW w, Has(w, s, a)
    PROVE  Has(w, s, a)'
<1>1. a \in DOMAIN tenant /\ tenant[a].src = s
  BY DEF BaseInv, EntriesInv
<1>2. Grown(tenant[a], tenant'[a]) /\ ((PatchStep /\ a = Entry.id) \/ ListsGrown(tenant[a], tenant'[a]))
  BY <1>1, TenantGrown
<1>3. /\ remap_required_resource_access(s)' = remap_required_resource_access(s)
      /\ plan_pre_authorized(s)' = plan_pre_authorized(s)
  BY PlansStay
<1>4. /\ remap_required_resource_access(s) \subseteq tenant[a].perms => remap_required_resource_access(s) \subseteq tenant'[a].perms
      /\ plan_pre_authorized(s) \subseteq tenant[a].pre => plan_pre_authorized(s) \subseteq tenant'[a].pre
  <2>1. CASE ListsGrown(tenant[a], tenant'[a])
    BY <2>1 DEF ListsGrown
  <2>2. CASE PatchStep /\ a = Entry.id
    <3>1. pos <= Len(created)
      BY <2>2 DEF PatchStep, Wiring, BaseInv, PlaceInv
    <3>2. Entry.src = s
      BY <1>1, <2>2, <3>1, EntryFacts DEF BaseInv
    <3> QED  BY <2>2, <3>2, PatchLists
  <2> QED  BY <1>2, <2>1, <2>2
<1> QED  BY <1>2, <1>3, <1>4 DEF Has, Grown

LEMMA StartedOn ==
    ASSUME BaseInv, ReportShape, RowsInv, EntsInv, [Next]_vars, ~ Begin, ~ Crash, NEW i \in DOMAIN report.apps,
           Started(i)
    PROVE  Started(i)'
<1> DEFINE a == created[i].id
           s == created[i].src
<1>1. /\ manifest' = manifest /\ remap' = remap /\ withheld' = withheld
      /\ report.apps[i].src = s /\ report.apps[i].id = a /\ report'.apps[i].src = s /\ report'.apps[i].id = a
      /\ a \in DOMAIN tenant
      /\ \A w : Claims(i, w)' => Claims(i, w)
  BY RowBase
<1> HIDE DEF a, s
<1>2. Grown(tenant[a], tenant'[a])
  BY <1>1, TenantGrown
<1>3. ASSUME Claims(i, "sp")', s \in manifest.sps PROVE tenant'[a].sp
  <2>1. tenant[a].sp /\ tenant'[a].there
    BY <1>1, <1>3 DEF Started, Claims
  <2> QED  BY <1>2, <2>1 DEF Grown
<1>4. ASSUME Claims(i, "client")', NEW t, t = s PROVE LeftOut(t)' = {}
  <2>1. LeftOut(t) = {}
    BY <1>1, <1>4 DEF Started
  <2> QED  BY <1>1, <2>1, PlansStay
<1>5. Claims(i, "client")' => LeftOut(report.apps[i].src)' = {}
  BY <1>1, <1>4 DEF LeftOut, Apps
<1> QED  BY <1>1, <1>3, <1>5 DEF Started

LEMMA FinishedOn ==
    ASSUME BaseInv, ReportShape, RowsInv, EntsInv, [Next]_vars, ~ Begin, ~ Crash, NEW i \in DOMAIN report.apps,
           Finished(i)
    PROVE  Finished(i)'
<1>0. PICK a, s : a = created[i].id /\ s = created[i].src
  OBVIOUS
<1>1. /\ manifest' = manifest /\ remap' = remap /\ withheld' = withheld /\ i \in DOMAIN created
      /\ report.apps[i].src = s /\ report.apps[i].id = a /\ report'.apps[i].src = s /\ report'.apps[i].id = a
      /\ a \in DOMAIN tenant
      /\ \A w : Claims(i, w)' => Claims(i, w)
  BY <1>0, RowBase
<1>2. Grown(tenant[a], tenant'[a])
  BY <1>1, TenantGrown
<1>3. ASSUME NEW w \in FieldSteps, Asked(w, s)', Claims(i, w)' PROVE Has(w, s, a)'
  <2>1. Has(w, s, a)
    BY <1>1, <1>3, PlansStay DEF Finished
  <2> QED  BY <1>0, <1>1, <2>1, HasOn
<1>4. ASSUME Claims(i, "secret")' PROVE Issuable(s, "key")' <= tenant'[a].secrets["key"]
  <2>1. Issuable(s, "key") <= tenant[a].secrets["key"]
    BY <1>1, <1>4 DEF Finished
  <2>2. s \in Apps /\ "key" \in Keys /\ manifest \in Manifests
    <3>1. created[i] \in EntryRecs /\ manifest \in Manifests
      BY <1>1 DEF BaseInv, TypeInv
    <3>2. created[i].src \in Apps
      BY <3>1 DEF EntryRecs
    <3> QED  BY <1>0, <3>1, <3>2 DEF Keys
  <2>3. Issuable(s, "key") \in Nat
    BY <2>2, IssuableFacts
  <2>4. tenant[a] \in AppRecs /\ a \in DOMAIN tenant' /\ tenant'[a] \in AppRecs'
    BY <1>1, NextBase, TenantKeeps DEF BaseInv, TypeInv
  <2>5. tenant[a].secrets["key"] \in Nat /\ tenant'[a].secrets["key"] \in Nat
    BY <2>2, <2>4 DEF AppRecs
  <2>6. tenant[a].secrets["key"] <= tenant'[a].secrets["key"]
    BY <1>2, <2>2 DEF Grown
  <2>7. Issuable(s, "key")' = Issuable(s, "key")
    BY <1>1, PlansStay
  <2> QED  BY <2>1, <2>3, <2>5, <2>6, <2>7
<1>5. \A w \in FieldSteps : Asked(w, report.apps[i].src)' /\ Claims(i, w)' => Has(w, report.apps[i].src, report.apps[i].id)'
  BY <1>1, <1>3 DEF Asked, Has, remap_required_resource_access, plan_pre_authorized, LeftOut, Apps
<1>6. Claims(i, "secret")' => Issuable(report.apps[i].src, "key")' <= tenant'[report'.apps[i].id].secrets["key"]
  BY <1>1, <1>4 DEF Issuable
<1> QED  BY <1>5, <1>6 DEF Finished

-----------------------------------------------------------------------------
(* What each step of wire_application does for its row.                    *)

\* At the step the run is at, before the secrets.
LEMMA AtStep ==
    ASSUME BaseInv, pos <= Len(created), item > 0, item <= Len(Steps(Entry))
    PROVE  /\ Before(Entry) \in Seq(BeforeSteps(Entry)) /\ Entry \in EntryRecs
           /\ item \in DOMAIN Before(Entry) <=> item <= Len(Before(Entry))
           /\ item \in DOMAIN Before(Entry) => Step = Before(Entry)[item] /\ Step \notin Keys
           /\ item \notin DOMAIN Before(Entry) => Step \in Keys
<1> DEFINE u == Before(Entry)
           v == manifest.secrets[Entry.src]
           S == BeforeSteps(Entry) \cup Keys
<1>1. Entry \in EntryRecs /\ item \in Nat
  BY EntryFacts DEF BaseInv, TypeInv
<1>2. u \in Seq(BeforeSteps(Entry)) /\ Steps(Entry) = u \o v
  BY <1>1, BeforeFacts
<1>3. v \in Seq(Keys)
  BY StepFacts
<1>4. u \in Seq(S) /\ v \in Seq(S)
  BY <1>2, <1>3
<1>5. item \in DOMAIN u <=> item <= Len(u)
  BY <1>1, <1>2
<1>6. item \in DOMAIN u => (u \o v)[item] = u[item]
  BY <1>4, Concatenation
<1>7. item \in DOMAIN u => Step = u[item] /\ Step \in BeforeSteps(Entry)
  BY <1>2, <1>6 DEF Step
<1>8. BeforeSteps(Entry) \cap Keys = {}
  BY DEF BeforeSteps, Keys
<1>9. item \notin DOMAIN u => Step \in Keys
  BY <1>1, <1>2, <1>5, StepFacts
<1> QED  BY <1>1, <1>2, <1>5, <1>7, <1>8, <1>9

\* The warnings and the mark a step leaves on its row.
LEMMA RowStepClaims ==
    ASSUME NEW W, NEW b, RowStep(W, b), pos \in DOMAIN report.apps, pos' = pos, NEW w, Claims(pos, w)'
    PROVE  w \notin W /\ ~ b
BY DEF RowStep, RowChanged, Claims

\* A PATCH that was not warned of has replaced its field.
LEMMA PatchDone ==
    ASSUME BaseInv, ReportShape, RowsInv, PatchStep, NEW w, w = Step, NEW s, s = Entry.src, NEW a, a = Entry.id,
           Claims(pos, w)'
    PROVE  Has(w, s, a)'
<1> DEFINE x == tenant[a]
           P == Patched(a, s)
           A == [x EXCEPT !.perms = remap_required_resource_access(s)]
           B == [x EXCEPT !.pre = plan_pre_authorized(s)]
           C == [x EXCEPT !.auth = TRUE]
<1>1. /\ at = "wire" /\ item > 0 /\ pos' = pos /\ manifest' = manifest /\ remap' = remap /\ withheld' = withheld
      /\ w \in {"perms", "expose", "auth"}
  BY DEF PatchStep, Wiring
<1>2. pos \in DOMAIN report.apps /\ pos \in DOMAIN created
  BY <1>1, RowFacts
<1>3. a \in DOMAIN tenant /\ x \in AppRecs
  BY <1>2, EntryFacts DEF BaseInv, TypeInv
<1>4. PICK o \in WriteAnswers(a) :
        Write(a, o, P[w]) /\ RowStep(IF o = "ok" THEN {} ELSE {w}, FALSE)
  BY WireReport
<1>5. o = "ok"
  BY <1>1, <1>2, <1>4, RowStepClaims
<1>6. tenant'[a] = P[w]
  BY <1>3, <1>4, <1>5 DEF Write, Landed
<1>7. P["perms"] = A /\ P["expose"] = B /\ P["auth"] = C
  BY DEF Patched
<1>8. A.perms = remap_required_resource_access(s) /\ B.pre = plan_pre_authorized(s) /\ C.auth
  <2> HIDE DEF x
  <2> QED  BY <1>3 DEF AppRecs
<1>9. /\ remap_required_resource_access(s)' = remap_required_resource_access(s)
      /\ plan_pre_authorized(s)' = plan_pre_authorized(s)
  BY <1>1, PlansStay
<1> HIDE DEF P, A, B, C
<1>10. /\ w = "perms" => remap_required_resource_access(s) \subseteq tenant'[a].perms
       /\ w = "expose" => plan_pre_authorized(s) \subseteq tenant'[a].pre
       /\ w = "auth" => tenant'[a].auth
  BY <1>6, <1>7, <1>8
<1> QED  BY <1>1, <1>9, <1>10 DEF Has

\* A federated credential that was not warned of is there: it was added, or it
\* was seen in the step before.
LEMMA FicDone ==
    ASSUME BaseInv, ReportShape, RowsInv, ReadBefore, FicStep, Claims(pos, "fic")'
    PROVE  tenant'[Entry.id].fic
<1>1. /\ at = "wire" /\ item > 0 /\ item <= Len(Steps(Entry)) /\ pos' = pos /\ Step = "fic"
  BY DEF FicStep, Wiring
<1>2. pos \in DOMAIN report.apps /\ pos \in DOMAIN created /\ pos <= Len(created) /\ TypeInv
  BY <1>1, RowFacts DEF BaseInv, PlaceInv
<1>3. Entry.id \in DOMAIN tenant
  BY <1>2, EntryFacts DEF BaseInv
<1>4. CASE Exists
  <2>1. tenant' = tenant /\ Entry.adopted /\ hit
    BY <1>4 DEF FicStep, Exists
  <2>2. item \in DOMAIN Before(Entry) /\ Before(Entry)[item] = "fic" /\ Entry \in EntryRecs
    BY <1>1, <1>2, AtStep DEF Keys
  <2>3. item - 1 \in DOMAIN Before(Entry) /\ Before(Entry)[item - 1] = "readfics"
    BY <2>1, <2>2, BeforeOrder DEF Led
  <2> QED  BY <2>1, <2>3 DEF ReadBefore
<1>5. CASE ~ Exists
  <2>1. Add(Entry.id, "fic", Warn("fic"))
    BY <1>5 DEF FicStep
  <2>2. tenant'[Entry.id]["fic"] \/ Warn("fic")
    BY <1>2, <1>3, <2>1, AddDone
  <2>3. ~ Warn("fic")
    BY <1>1, <1>2, WarnEffect, RowStepClaims DEF Warnings
  <2> QED  BY <2>2, <2>3
<1> QED  BY <1>4, <1>5

LEMMA OwnerDone ==
    ASSUME BaseInv, ReportShape, RowsInv, ReadBefore, OwnerStep, Claims(pos, "owner")'
    PROVE  tenant'[Entry.id].owner
<1>1. /\ at = "wire" /\ item > 0 /\ item <= Len(Steps(Entry)) /\ pos' = pos /\ Step = "owner"
  BY DEF OwnerStep, Wiring
<1>2. pos \in DOMAIN report.apps /\ pos \in DOMAIN created /\ pos <= Len(created) /\ TypeInv
  BY <1>1, RowFacts DEF BaseInv, PlaceInv
<1>3. Entry.id \in DOMAIN tenant
  BY <1>2, EntryFacts DEF BaseInv
<1>4. ~ Warn("owner")
  BY <1>1, <1>2, WarnEffect, RowStepClaims DEF Warnings
<1>5. \/ Add(Entry.id, "owner", Warn("owner"))
      \/ Exists /\ tenant' = tenant
  BY <1>4 DEF OwnerStep
<1>6. CASE Exists /\ tenant' = tenant
  <2>1. Entry.adopted /\ hit
    BY <1>6 DEF Exists
  <2>2. item \in DOMAIN Before(Entry) /\ Before(Entry)[item] = "owner" /\ Entry \in EntryRecs
    BY <1>1, <1>2, AtStep DEF Keys
  <2>3. item - 1 \in DOMAIN Before(Entry) /\ Before(Entry)[item - 1] = "readowners"
    BY <2>1, <2>2, BeforeOrder DEF Led
  <2> QED  BY <1>6, <2>1, <2>3 DEF ReadBefore
<1>7. CASE Add(Entry.id, "owner", Warn("owner"))
  <2>1. tenant'[Entry.id]["owner"] \/ Warn("owner")
    BY <1>2, <1>3, <1>7, AddDone
  <2> QED  BY <1>4, <2>1
<1> QED  BY <1>5, <1>6, <1>7

LEMMA StepDone ==
    ASSUME BaseInv, ReportShape, RowsInv, ReadBefore, Inner,
           NEW w, w = Step, NEW s, s = Entry.src, NEW a, a = Entry.id, Claims(pos, w)'
    PROVE  Has(w, s, a)'
<1>1. at = "wire" /\ item > 0 /\ pos' = pos
  BY InnerFacts
<1>2. pos \in DOMAIN report.apps
  BY <1>1, RowFacts
<1>3. CASE PatchStep
  BY <1>3, PatchDone
<1>4. CASE FicStep
  <2>1. w = "fic"
    BY <1>4 DEF FicStep, Wiring
  <2> QED  BY <1>4, <2>1, FicDone DEF Has
<1>5. CASE OwnerStep
  <2>1. w = "owner"
    BY <1>5 DEF OwnerStep, Wiring
  <2> QED  BY <1>5, <2>1, OwnerDone DEF Has
<1>6. CASE ReadStep \/ SecretStep
  <2>1. w \in {"readfics", "readowners", "key", "old"}
    BY <1>6 DEF ReadStep, SecretStep, Wiring, Keys
  <2> QED  BY <2>1 DEF Has
<1>7. CASE SkipStep
  <2>1. RowStep({}, TRUE)
    BY <1>7, WireReport
  <2> QED  BY <1>1, <1>2, <2>1, RowStepClaims
<1> QED  BY <1>3, <1>4, <1>5, <1>6, <1>7 DEF Inner

\* What a read leaves is what the app has.
LEMMA ReadDone ==
    ASSUME BaseInv, Inner
    PROVE  /\ Step = "readfics" /\ hit' => tenant'[Entry.id].fic
           /\ Step = "readowners" /\ hit' => tenant'[Entry.id].owner
<1>1. CASE ReadStep
  <2>1. tenant' = tenant
    BY <1>1 DEF ReadStep, world
  <2>2. PICK o : hit' = (o = "ok" /\ IF Step = "readfics" THEN tenant[Entry.id].fic ELSE tenant[Entry.id].owner)
    BY <1>1 DEF ReadStep
  <2>3. Step = "readfics" /\ hit' => tenant[Entry.id].fic
    BY <2>2, Zenon
  <2>4. Step = "readowners" /\ hit' => tenant[Entry.id].owner
    <3>1. Step = "readowners" => Step # "readfics"
      OBVIOUS
    <3> QED  BY <2>2, <3>1, Zenon
  <2> QED  BY <2>1, <2>3, <2>4
<1>2. CASE SkipStep \/ PatchStep \/ FicStep \/ OwnerStep \/ SecretStep
  <2>1. Step \notin {"readfics", "readowners"}
    BY <1>2 DEF SkipStep, PatchStep, FicStep, OwnerStep, SecretStep, Wiring, Looped, Keys
  <2> QED  BY <2>1
<1> QED  BY <1>1, <1>2 DEF Inner

-----------------------------------------------------------------------------
(* The secrets of the entry being wired.                                   *)

LEMMA CountedNone ==
    ASSUME manifest \in Manifests, NEW s \in Apps, NEW n \in Int, n <= 1, NEW k
    PROVE  Counted(s, n, k) = {} /\ Cardinality(Counted(s, n, k)) = 0
<1>1. manifest.secrets[s] \in Seq(Keys)
  BY ManifestFacts
<1>2. Counted(s, n, k) = {}
  BY <1>1 DEF Counted
<1> QED  BY <1>2, FS_EmptySet

LEMMA CountedAll ==
    ASSUME manifest \in Manifests, NEW s \in Apps, NEW n \in Int, n > Len(manifest.secrets[s])
    PROVE  Cardinality(Counted(s, n, "key")) = Issuable(s, "key")
<1>1. manifest.secrets[s] \in Seq(Keys)
  BY ManifestFacts
<1>2. Counted(s, n, "key") = {i \in DOMAIN manifest.secrets[s] : manifest.secrets[s][i] = "key"}
  BY <1>1 DEF Counted
<1> QED  BY <1>2 DEF Issuable

LEMMA CountedPast ==
    ASSUME manifest \in Manifests, NEW s \in Apps, NEW n \in DOMAIN manifest.secrets[s],
           manifest.secrets[s][n] # "key"
    PROVE  Counted(s, n + 1, "key") = Counted(s, n, "key")
<1>1. manifest.secrets[s] \in Seq(Keys)
  BY ManifestFacts
<1>2. \A j \in DOMAIN manifest.secrets[s] : j < n + 1 <=> j < n \/ j = n
  BY <1>1
<1> QED  BY <1>2 DEF Counted

\* The entry and its steps, while its wiring goes on.
LEMMA BeforeSame ==
    ASSUME manifest' = manifest, withheld' = withheld, pos' = pos, SameEntries, pos \in DOMAIN created
    PROVE  /\ Before(Entry)' = Before(Entry) /\ Entry'.src = Entry.src /\ Entry'.id = Entry.id
           /\ Entry' = created'[pos]
<1>1. /\ Entry' = created'[pos] /\ Entry'.src = Entry.src /\ Entry'.id = Entry.id
      /\ Entry'.adopted = Entry.adopted
  BY DEF SameEntries, Entry
<1> QED  BY <1>1 DEF Before, When

\* A secret that was not warned of has been issued.
LEMMA SecretDone ==
    ASSUME BaseInv, ReportShape, RowsInv, SecretStep, Step # "old", Entry.left[Step] = 0, Claims(pos, "secret")'
    PROVE  tenant'[Entry.id].secrets[Step] = tenant[Entry.id].secrets[Step] + 1
<1> DEFINE a == Entry.id
           x == tenant[a]
           y == [x EXCEPT !.secrets[Step] = @ + 1]
<1>1. at = "wire" /\ item > 0 /\ pos' = pos /\ Step \in Keys
  BY DEF SecretStep, Wiring
<1>2. pos \in DOMAIN report.apps /\ pos \in DOMAIN created /\ pos <= Len(created)
  BY <1>1, RowFacts DEF BaseInv, PlaceInv
<1>3. a \in DOMAIN tenant /\ x \in AppRecs
  BY <1>2, EntryFacts DEF BaseInv
<1>4. PICK o : Write(a, o, y) /\ IF o = "ok" THEN UNCHANGED report ELSE Warn("secret")
  BY DEF SecretStep
<1>5. ~ Warn("secret")
  BY <1>1, <1>2, WarnEffect, RowStepClaims DEF Warnings
<1>6. y.secrets[Step] = x.secrets[Step] + 1
  <2> HIDE DEF x
  <2> QED  BY <1>1, <1>3, SecretEdit
<1> HIDE DEF y
<1>7. tenant'[a] = y
  BY <1>3, <1>4, <1>5 DEF Write, Landed
<1> QED  BY <1>6, <1>7

\* The secrets the app must hold, where the wiring has come to.
Due == Cardinality(Counted(Entry.src, AtSecret, "key")) + Entry.left["key"]

LEMMA DueNumbers ==
    ASSUME BaseInv, pos <= Len(created)
    PROVE  /\ Entry.src \in Apps /\ "key" \in Keys /\ Len(Before(Entry)) \in Nat /\ AtSecret \in Int
           /\ Cardinality(Counted(Entry.src, AtSecret, "key")) \in Nat
           /\ Entry.left["key"] \in Nat /\ Due \in Nat
           /\ Entry.id \in DOMAIN tenant /\ tenant[Entry.id].secrets["key"] \in Nat
           /\ manifest \in Manifests
<1>1. /\ Entry \in EntryRecs /\ Entry.src \in Apps /\ Entry.id \in DOMAIN tenant /\ tenant[Entry.id] \in AppRecs
      /\ manifest \in Manifests /\ item \in Nat
  BY EntryFacts DEF BaseInv, TypeInv
<1>2. "key" \in Keys
  BY DEF Keys
<1>3. Len(Before(Entry)) \in Nat
  BY <1>1, BeforeFacts
<1>4. AtSecret \in Int
  BY <1>1, <1>3 DEF AtSecret
<1>5. Cardinality(Counted(Entry.src, AtSecret, "key")) \in Nat
  BY <1>1, <1>2, <1>4, CountedFacts
<1>6. Entry.left["key"] \in Nat
  BY <1>1, <1>2 DEF EntryRecs
<1>7. tenant[Entry.id].secrets["key"] \in Nat
  BY <1>1, <1>2 DEF AppRecs
<1> QED  BY <1>1, <1>2, <1>3, <1>4, <1>5, <1>6, <1>7 DEF Due

LEMMA DueOn ==
    ASSUME BaseInv, ReportShape, RowsInv, Inner, SameEntries, BaseInv',
           Due <= tenant[Entry.id].secrets["key"], Claims(pos, "secret")'
    PROVE  (Due <= tenant[Entry.id].secrets["key"])'
<1> DEFINE n == AtSecret
           s == Entry.src
           a == Entry.id
           C == Cardinality(Counted(s, n, "key"))
           D == Cardinality(Counted(s, n + 1, "key"))
           h == tenant[a].secrets["key"]
           g == tenant'[a].secrets["key"]
           l == Entry.left["key"]
           m == created'[pos].left["key"]
<1>1. /\ at = "wire" /\ item > 0 /\ item <= Len(Steps(Entry)) /\ at' = at /\ pos' = pos /\ item' = item + 1
      /\ manifest' = manifest /\ remap' = remap /\ withheld' = withheld /\ [Next]_vars
  BY InnerFacts DEF Inner, Next, Pass2
<1>2. pos \in DOMAIN report.apps /\ pos \in DOMAIN created /\ pos <= Len(created)
  BY <1>1, RowFacts DEF BaseInv, PlaceInv
<1>3. /\ Before(Entry)' = Before(Entry) /\ Entry'.src = s /\ Entry'.id = a /\ Entry' = created'[pos]
  BY <1>1, <1>2, BeforeSame
<1>4. /\ s \in Apps /\ "key" \in Keys /\ Len(Before(Entry)) \in Nat /\ n \in Int
      /\ C \in Nat /\ l \in Nat /\ a \in DOMAIN tenant /\ h \in Nat /\ manifest \in Manifests
  BY <1>2, DueNumbers
<1>5. n' = n + 1
  <2>1. item \in Int
    BY DEF BaseInv, TypeInv
  <2> QED  BY <1>1, <1>3, <1>4, <2>1 DEF AtSecret
<1>6. Due' = D + m
  BY <1>1, <1>3, <1>5 DEF Due, Counted
<1>7. C + l <= h
  BY DEF Due
<1>8. g \in Nat /\ m \in Nat
  <2>1. pos \in DOMAIN created' /\ created'[pos] \in EntryRecs'
    BY <1>2 DEF SameEntries, BaseInv, TypeInv
  <2>2. created'[pos].id = a /\ a \in DOMAIN tenant' /\ tenant'[a] \in AppRecs'
    BY <1>3, <2>1 DEF BaseInv, TypeInv, EntriesInv
  <2> QED  BY <1>4, <2>1, <2>2 DEF EntryRecs, AppRecs
<1>9. h <= g
  BY <1>1, <1>4, TenantGrown DEF Grown
<1>10. SUFFICES D + m <= g
  BY <1>3, <1>6
<1>11. ~ SkipStep
  BY <1>1, <1>2, WireReport, RowStepClaims
<1>12. CASE ~ SecretStep
  <2>1. Step \notin Keys
    BY <1>11, <1>12 DEF Inner, PatchStep, ReadStep, FicStep, OwnerStep, Wiring, Keys
  <2>2. item \in DOMAIN Before(Entry) /\ item <= Len(Before(Entry)) /\ item \in Int
    BY <1>1, <1>2, <2>1, AtStep DEF BaseInv, TypeInv
  <2>3. n + 1 <= 1
    BY <1>4, <2>2 DEF AtSecret
  <2>4. D = 0
    BY <1>4, <2>3, CountedNone
  <2>5. m = l
    <3>1. ~ Begin /\ ~ EndRound
      BY <1>1 DEF Begin, EndRound
    <3> QED  BY <1>1, <1>2, <1>12, <3>1, LeftStays DEF Entry
  <2> HIDE DEF C, D, h, g, l, m
  <2> QED  BY <1>4, <1>7, <1>8, <1>9, <2>4, <2>5
<1>13. CASE SecretStep
  <2>1. Step \in Keys
    BY <1>13, SecretEffect
  <2>2. item > Len(Before(Entry))
    <3>1. item \notin DOMAIN Before(Entry)
      BY <1>1, <1>2, <2>1, AtStep
    <3>2. ~ (item <= Len(Before(Entry))) /\ item \in Int
      BY <1>1, <1>2, <3>1, AtStep DEF BaseInv, TypeInv
    <3> QED  BY <1>4, <3>2
  <2>3. n \in DOMAIN manifest.secrets[s] /\ Step = manifest.secrets[s][n]
    BY <1>1, <1>2, <2>2, StepFacts DEF AtSecret
  <2>4. CASE Step = "old"
    <3>1. D = C
      BY <1>4, <2>3, <2>4, CountedPast
    <3>2. m = l
      BY <1>13, <2>4, SecretEffect DEF Entry
    <3> HIDE DEF C, D, h, g, l, m
    <3> QED  BY <1>4, <1>7, <1>8, <1>9, <3>1, <3>2
  <2>5. CASE Step # "old"
    <3>0. Step = "key"
      BY <2>1, <2>5 DEF Keys
    <3>1. D = C + 1
      BY <1>4, <2>3, <3>0, CountedFacts
    <3>2. CASE l > 0
      <4>1. m = l - 1
        <5>1. created'[pos].left = [Entry.left EXCEPT !["key"] = @ - 1]
          <6>1. ~ (Entry.left[Step] = 0)
            BY <1>4, <3>0, <3>2
          <6> QED  BY <1>13, <3>0, <6>1, SecretEffect
        <5>2. Entry.left \in [Keys -> Nat]
          BY <1>2, EntryFacts DEF BaseInv, EntryRecs
        <5> QED  BY <1>4, <5>1, <5>2
      <4> HIDE DEF C, D, h, g, l, m
      <4> QED  BY <1>4, <1>7, <1>8, <1>9, <3>1, <4>1
    <3>3. CASE l = 0
      <4>1. m = l
        <5>1. ~ (Entry.left[Step] > 0)
          BY <3>0, <3>3
        <5> QED  BY <1>13, <3>0, <5>1, SecretEffect DEF Entry
      <4>2. g = h + 1
        BY <1>13, <3>0, <3>3, SecretDone
      <4> HIDE DEF C, D, h, g, l, m
      <4> QED  BY <1>4, <1>7, <1>8, <3>1, <4>1, <4>2
    <3>4. l > 0 \/ l = 0
      BY <1>4
    <3> QED  BY <3>2, <3>3, <3>4
  <2> QED  BY <2>4, <2>5
<1> QED  BY <1>12, <1>13

-----------------------------------------------------------------------------
(* Pass 2 keeps WireInv.                                                   *)

\* A row that is incomplete claims nothing.
LEMMA Unclaimed ==
    ASSUME NEW i, report'.apps[i].incomplete
    PROVE  Started(i)' /\ Finished(i)'
<1>1. ASSUME NEW w PROVE ~ Claims(i, w)'
  BY DEF Claims
<1> QED  BY <1>1 DEF Started, Finished

LEMMA NewRows ==
    ASSUME BaseInv, ReportShape, RowsInv, SpInv, HeldInv, NextWire
    PROVE  /\ \A i \in DOMAIN report'.apps \ DOMAIN report.apps :
                Started(i)' /\ (Finished(i)' \/ (at' = "wire" /\ item' > 0 /\ i = pos'))
           /\ at' = "wire" /\ item' > 0 => Progress' /\ ReadBefore'
<1>0. /\ manifest' = manifest /\ tenant' = tenant /\ remap' = remap /\ created' = created /\ withheld' = withheld
      /\ at = "wire" /\ item = 0 /\ created \in Seq(EntryRecs)
  BY DEF NextWire, world, BaseInv, TypeInv
<1>1. report'.apps \in Seq(Rows) /\ Len(created) \in Nat /\ DOMAIN created = 1..Len(created)
  BY <1>0, NextWireReport
<1>2. CASE /\ at' = "consent" /\ Len(report'.apps) = Len(created)
           /\ \A i \in DOMAIN created \ DOMAIN report.apps : report'.apps[i] = RestoredApp(created[i], TRUE)
  <2>1. ASSUME NEW i \in DOMAIN report'.apps \ DOMAIN report.apps PROVE Started(i)' /\ Finished(i)'
    <3>1. i \in DOMAIN created
      BY <1>1, <1>2
    <3>2. created[i] \in EntryRecs
      BY <1>0, <3>1
    <3>3. RestoredApp(created[i], TRUE).incomplete
      BY DEF RestoredApp
    <3> QED  BY <1>2, <3>1, <3>3, Unclaimed
  <2> QED  BY <1>2, <2>1
<1>3. CASE /\ pos \in DOMAIN created /\ ~ Stopped /\ at' = "wire" /\ pos' = pos /\ item' = 1
           /\ DOMAIN report'.apps = DOMAIN report.apps \cup {pos} /\ report'.apps[pos] = RestoredApp(Entry, FALSE)
  <2> DEFINE c == created[pos]
             row == RestoredApp(c, FALSE)
  <2>0. c \in EntryRecs /\ c = Entry /\ SameEntries
    BY <1>0, <1>3, SameEntriesStay DEF Entry, BaseInv
  <2>1. /\ row.src = c.src /\ row.id = c.id /\ ("sp" \notin row.warn => c.warn = {})
        /\ ("client" \notin row.warn => LeftOut(c.src) = {})
    <3> HIDE DEF c
    <3> QED  BY <2>0, RowMade
  <2>2. report'.apps[pos] = row
    BY <1>3, <2>0
  <2>3. SpOk(pos)
    BY <1>0, <1>3 DEF SpInv
  <2>4. Started(pos)'
    <3> HIDE DEF row
    <3>1. Claims(pos, "sp")' /\ report'.apps[pos].src \in manifest'.sps => tenant'[report'.apps[pos].id].sp
      BY <1>0, <1>3, <2>1, <2>2, <2>3 DEF Claims, SpOk
    <3>2. Claims(pos, "client")' => LeftOut(report.apps[pos].src)' = {}
      <4>1. ASSUME Claims(pos, "client")', NEW s, s = c.src PROVE LeftOut(s)' = {}
        <5>1. LeftOut(s) = {}
          BY <1>3, <2>1, <2>2, <4>1 DEF Claims
        <5> QED  BY <1>0, <5>1, PlansStay
      <4> QED  BY <1>3, <2>1, <2>2, <4>1 DEF LeftOut, Apps
    <3> QED  BY <1>3, <3>1, <3>2 DEF Started
  <2>5. \A i \in DOMAIN report'.apps \ DOMAIN report.apps : i = pos
    BY <1>3
  <2>6. Before(Entry)' = Before(Entry) /\ Entry' = created'[pos] /\ Entry'.src = c.src /\ Entry'.id = c.id
    BY <1>0, <1>3, <2>0, BeforeSame
  <2>7. Before(Entry) \in Seq(BeforeSteps(Entry))
    BY <2>0, BeforeFacts
  <2>8. Progress'
    <3>1. \A j \in DOMAIN Before(Entry)' : ~ (j < item')
      BY <1>3, <2>6, <2>7
    <3>2. (Due <= tenant[Entry.id].secrets["key"])'
      <4>1. AtSecret' = 1 - Len(Before(Entry))
        BY <1>3, <2>6 DEF AtSecret
      <4>2. /\ c.src \in Apps /\ c.left["key"] \in Nat /\ Len(Before(Entry)) \in Nat /\ manifest \in Manifests
        BY <1>0, <1>3, <2>0, DueNumbers
      <4>3. 1 - Len(Before(Entry)) \in Int /\ 1 - Len(Before(Entry)) <= 1
        BY <4>2
      <4>4. Cardinality(Counted(c.src, 1 - Len(Before(Entry)), "key")) = 0
        BY <4>2, <4>3, CountedNone
      <4>5. Due' = 0 + c.left["key"]
        BY <1>0, <2>6, <4>1, <4>4 DEF Due, Counted
      <4>6. c.left["key"] <= tenant[c.id].secrets["key"]
        BY <1>3 DEF HeldInv
      <4> QED  BY <1>0, <2>6, <4>2, <4>5, <4>6
    <3> QED  BY <3>1, <3>2 DEF Progress, Due
  <2>9. ReadBefore'
    <3>1. item' - 1 \notin DOMAIN Before(Entry)'
      BY <1>3, <2>6, <2>7
    <3> QED  BY <3>1 DEF ReadBefore
  <2> QED  BY <1>3, <2>4, <2>5, <2>8, <2>9
<1> QED  BY <1>2, <1>3, NextWireReport

\* At the end of its steps the app has all the row claims.
LEMMA RowFinished ==
    ASSUME BaseInv, BaseInv', ReportShape, RowsInv, EntsInv, WireInv, EndWire
    PROVE  Finished(pos)
<1> DEFINE s == Entry.src
           a == Entry.id
<1>1. at = "wire" /\ item > 0 /\ item > Len(Steps(Entry))
  BY DEF EndWire
<1>2. /\ pos \in DOMAIN report.apps /\ pos \in DOMAIN created /\ pos <= Len(created)
      /\ report.apps[pos].src = s /\ report.apps[pos].id = a
  BY <1>1, RowFacts DEF BaseInv, PlaceInv
<1>3. Progress
  BY <1>1 DEF WireInv
<1>4. /\ s \in Apps /\ Len(Before(Entry)) \in Nat /\ AtSecret \in Int /\ Due \in Nat
      /\ Cardinality(Counted(s, AtSecret, "key")) \in Nat /\ Entry.left["key"] \in Nat
      /\ tenant[a].secrets["key"] \in Nat /\ manifest \in Manifests /\ Entry \in EntryRecs
  BY <1>2, DueNumbers, EntryFacts DEF BaseInv
<1>5. /\ Before(Entry) \in Seq(BeforeSteps(Entry)) /\ manifest.secrets[s] \in Seq(Keys)
      /\ Steps(Entry) = Before(Entry) \o manifest.secrets[s]
  BY <1>4, BeforeFacts, ManifestFacts
<1>6. Len(Steps(Entry)) = Len(Before(Entry)) + Len(manifest.secrets[s])
  <2> DEFINE S == BeforeSteps(Entry) \cup Keys
  <2>1. Before(Entry) \in Seq(S) /\ manifest.secrets[s] \in Seq(S)
    BY <1>5
  <2> QED  BY <1>5, <2>1, Concatenation
<1>7. ASSUME NEW w \in FieldSteps, Asked(w, s), Claims(pos, w) PROVE Has(w, s, a)
  <2>1. PICK j \in DOMAIN Before(Entry) : Before(Entry)[j] = w
    BY <1>4, <1>7, BeforeOrder
  <2>2. j < item
    <3>1. j \in Nat /\ j <= Len(Before(Entry)) /\ Len(manifest.secrets[s]) \in Nat /\ item \in Nat
      BY <1>5 DEF BaseInv, TypeInv
    <3> QED  BY <1>1, <1>4, <1>6, <3>1
  <2> QED  BY <1>3, <1>7, <2>1, <2>2 DEF Progress
<1>8. ASSUME Claims(pos, "secret") PROVE Issuable(s, "key") <= tenant[a].secrets["key"]
  <2>1. AtSecret > Len(manifest.secrets[s])
    <3>1. Len(manifest.secrets[s]) \in Nat /\ item \in Nat
      BY <1>5 DEF BaseInv, TypeInv
    <3> QED  BY <1>1, <1>4, <1>6, <3>1 DEF AtSecret
  <2>2. Cardinality(Counted(s, AtSecret, "key")) = Issuable(s, "key")
    BY <1>4, <2>1, CountedAll
  <2>3. Cardinality(Counted(s, AtSecret, "key")) + Entry.left["key"] <= tenant[a].secrets["key"]
    BY <1>3, <1>8 DEF Progress
  <2> DEFINE C == Cardinality(Counted(s, AtSecret, "key"))
             l == Entry.left["key"]
             h == tenant[a].secrets["key"]
  <2>4. C \in Nat /\ l \in Nat /\ h \in Nat /\ C + l <= h
    BY <1>4, <2>3
  <2>5. C <= h
    <3> HIDE DEF C, l, h
    <3> QED  BY <2>4
  <2> QED  BY <2>2, <2>5
<1> QED  BY <1>2, <1>7, <1>8 DEF Finished

\* The steps behind the run, when it goes on or waits.
LEMMA ProgressOn ==
    ASSUME BaseInv, BaseInv', ReportShape, RowsInv, EntsInv, WireInv, [Next]_vars, at = "wire", item > 0,
           Inner \/ Around \/ UNCHANGED vars
    PROVE  Progress' /\ ReadBefore'
<1>1. PICK s, a : s = Entry.src /\ a = Entry.id
  OBVIOUS
<1>2. /\ pos \in DOMAIN report.apps /\ pos \in DOMAIN created /\ pos <= Len(created)
      /\ report.apps[pos].src = s /\ report.apps[pos].id = a
  BY <1>1, RowFacts DEF BaseInv, PlaceInv
<1>3. Progress /\ ReadBefore
  BY DEF WireInv
<1>4. ~ Begin /\ ~ Crash
  <2>1. ~ Begin
    BY DEF Begin
  <2>2. at' = "wire"
    BY InnerFacts, StagesLater
  <2> QED  BY <2>1, <2>2 DEF Crash
<1>5. /\ manifest' = manifest /\ remap' = remap /\ withheld' = withheld /\ SameEntries
      /\ \A w : Claims(pos, w)' => Claims(pos, w)
  <2>1. ASSUME NEW p, p = pos PROVE \A w : Claims(p, w)' => Claims(p, w)
    BY <1>2, <1>4, <2>1, RowBase
  <2>2. pos' = pos
    BY InnerFacts, StagesLater
  <2>3. \A w : Claims(pos, w)' => Claims(pos, w)
    BY <2>1, <2>2 DEF Claims
  <2> QED  BY <1>2, <1>4, <2>3, RowBase
<1>6. /\ pos' = pos
      /\ \/ Inner /\ item' = item + 1 /\ item <= Len(Steps(Entry))
         \/ (Around \/ UNCHANGED vars) /\ item' = item /\ created' = created /\ hit' = hit
  BY InnerFacts, StagesLater
<1>7. /\ Before(Entry)' = Before(Entry) /\ Entry'.src = s /\ Entry'.id = a /\ Entry' = created'[pos]
  BY <1>1, <1>2, <1>5, <1>6, BeforeSame
<1>8. item \in Nat /\ Before(Entry) \in Seq(BeforeSteps(Entry)) /\ a \in DOMAIN tenant
  BY <1>1, <1>2, BeforeFacts, EntryFacts DEF BaseInv, TypeInv
<1>9. ASSUME NEW j \in DOMAIN Before(Entry), j < item', NEW w, w = Before(Entry)[j], Claims(pos, w)'
      PROVE  Has(w, s, a)'
  <2>1. CASE j < item
    <3>1. Has(w, s, a)
      BY <1>1, <1>3, <1>5, <1>9, <2>1 DEF Progress
    <3> QED  BY <1>1, <1>2, <1>5, <3>1, HasOn DEF Entry
  <2>2. CASE ~ (j < item)
    <3>1. j = item /\ Inner /\ item <= Len(Steps(Entry))
      BY <1>6, <1>8, <1>9, <2>2
    <3>2. w = Step
      BY <1>2, <1>9, <3>1, AtStep
    <3> QED  BY <1>1, <1>3, <1>9, <3>1, <3>2, StepDone
  <2> QED  BY <2>1, <2>2
<1>10. (\A j \in DOMAIN Before(Entry) :
          j < item /\ Claims(pos, Before(Entry)[j]) => Has(Before(Entry)[j], Entry.src, Entry.id))'
  <2>1. ASSUME NEW j \in DOMAIN Before(Entry)', j < item', NEW w, w = Before(Entry)'[j], Claims(pos, w)'
        PROVE  Has(w, s, a)'
    BY <1>7, <1>9, <2>1
  <2> QED  BY <1>6, <1>7, <2>1 DEF Has, Claims
<1>11. (Claims(pos, "secret") => Due <= tenant[Entry.id].secrets["key"])'
  <2>1. SUFFICES ASSUME Claims(pos, "secret")' PROVE (Due <= tenant[Entry.id].secrets["key"])'
    OBVIOUS
  <2>2. Due <= tenant[Entry.id].secrets["key"]
    BY <1>3, <1>5, <2>1 DEF Progress, Due
  <2>3. CASE Inner
    BY <1>5, <2>1, <2>2, <2>3, DueOn
  <2>4. CASE item' = item /\ created' = created
    <3>1. Due' = Due
      BY <1>5, <1>6, <1>7, <2>4 DEF Due, Counted, AtSecret, Entry
    <3>2. Due \in Nat /\ tenant[a].secrets["key"] \in Nat
      BY <1>1, <1>2, DueNumbers
    <3>3. tenant[a].secrets["key"] <= tenant'[a].secrets["key"]
      BY <1>8, TenantGrown DEF Grown, Keys
    <3>4. tenant'[a].secrets["key"] \in Nat
      <4>1. a \in DOMAIN tenant' /\ tenant'[a] \in AppRecs'
        BY <1>8, TenantKeeps DEF BaseInv, TypeInv
      <4> QED  BY <4>1 DEF AppRecs, Keys
    <3> QED  BY <1>1, <1>7, <2>2, <3>1, <3>2, <3>3, <3>4
  <2> QED  BY <1>6, <2>3, <2>4
<1>12. Progress'
  BY <1>10, <1>11 DEF Progress, Due
<1>13. ReadBefore'
  <2>1. Grown(tenant[a], tenant'[a])
    BY <1>8, TenantGrown
  <2>2. CASE item' = item /\ hit' = hit
    BY <1>1, <1>3, <1>7, <2>1, <2>2 DEF ReadBefore, Grown
  <2>3. CASE Inner /\ item' = item + 1 /\ item <= Len(Steps(Entry))
    <3>1. item' - 1 = item
      BY <1>8, <2>3
    <3>2. item \in DOMAIN Before(Entry) => Step = Before(Entry)[item]
      BY <1>2, <2>3, AtStep
    <3>3. /\ Step = "readfics" /\ hit' => tenant'[a].fic
          /\ Step = "readowners" /\ hit' => tenant'[a].owner
      BY <1>1, <2>3, ReadDone
    <3> QED  BY <1>7, <3>1, <3>2, <3>3 DEF ReadBefore
  <2> QED  BY <1>6, <2>2, <2>3
<1> QED  BY <1>12, <1>13

LEMMA WireKept ==
    ASSUME BaseInv, ReportShape, RowsInv, EntsInv, SpInv, HeldInv, WireInv, [Next]_vars
    PROVE  WireInv'
<1>0. BaseInv'
  BY NextBase
<1>1. CASE Begin \/ Crash
  <2>1. at' # "wire" /\ report'.apps = <<>>
    BY <1>1 DEF Begin, Crash, EmptyReport
  <2> QED  BY <2>1 DEF WireInv
<1>2. CASE ~ Begin /\ ~ Crash
  <2>1. ASSUME NEW i \in DOMAIN report.apps PROVE Started(i)'
    BY <1>2, StartedOn DEF WireInv
  <2>2. ASSUME NEW i \in DOMAIN report.apps, Finished(i) PROVE Finished(i)'
    BY <1>2, <2>2, FinishedOn
  <2>3. CASE NextWire
    <3>1. at = "wire" /\ item = 0
      BY <2>3 DEF NextWire
    <3>2. \A i \in DOMAIN report.apps : Finished(i)'
      BY <2>2, <3>1 DEF WireInv
    <3> QED  BY <2>1, <2>3, <3>2, NewRows DEF WireInv
  <2>4. CASE ~ NextWire
    <3>1. DOMAIN report'.apps = DOMAIN report.apps
      BY <1>2, <2>4, RowsStep DEF RowsGrow
    <3>2. CASE at = "wire" /\ item > 0 /\ (Inner \/ Around \/ UNCHANGED vars)
      <4>1. at' = "wire" /\ pos' = pos /\ item' > 0
        <5>1. item \in Nat
          BY DEF BaseInv, TypeInv
        <5> QED  BY <3>2, <5>1, InnerFacts, StagesLater
      <4>2. Progress' /\ ReadBefore'
        BY <1>0, <3>2, ProgressOn
      <4> QED  BY <2>1, <2>2, <3>1, <4>1, <4>2 DEF WireInv
    <3>3. CASE EndWire
      <4>1. Finished(pos) /\ item' = 0
        BY <1>0, <3>3, RowFinished DEF EndWire
      <4>2. \A i \in DOMAIN report.apps : Finished(i)
        BY <4>1 DEF WireInv
      <4> QED  BY <2>1, <2>2, <3>1, <4>1, <4>2 DEF WireInv
    <3>4. CASE ~ (at = "wire" /\ item > 0) /\ ~ (at' = "wire" /\ item' > 0)
      BY <2>1, <2>2, <3>1, <3>4 DEF WireInv
    <3>5. CASE ~ EndWire /\ ~ (at = "wire" /\ item > 0 /\ (Inner \/ Around \/ UNCHANGED vars))
      <4>1. CASE Around \/ UNCHANGED vars
        BY <3>4, <3>5, <4>1, StagesLater
      <4>2. CASE Inner
        BY <3>5, <4>2, InnerFacts
      <4>3. CASE Classify \/ Pass1
        <5>1. at # "wire" /\ (at' # "wire" \/ EndTake)
          BY <4>3, StagesLater DEF Early, Unsettled, Checking
        <5>2. EndTake => item' = 0
          BY DEF EndTake
        <5> QED  BY <3>4, <5>1, <5>2
      <4>4. CASE Pass3 \/ Pass4 \/ Pass5
        BY <3>4, <4>4, StagesLater
      <4> QED  BY <1>2, <2>4, <3>5, <4>1, <4>2, <4>3, <4>4, NextCases DEF Pass2, Inner
    <3> QED  BY <3>2, <3>3, <3>5
  <2> QED  BY <2>3, <2>4
<1> QED  BY <1>1, <1>2

-----------------------------------------------------------------------------
(* Pass 3 keeps GrantedInv.                                                *)

\* A consent that was granted stays.
LEMMA ConsentedOn ==
    ASSUME BaseInv, ReportShape, RowsInv, EntsInv, [Next]_vars, ~ Begin, ~ Crash, NEW i \in DOMAIN report.apps,
           Consented(i)
    PROVE  Consented(i)'
<1>0. PICK a, s : a = created[i].id /\ s = created[i].src
  OBVIOUS
<1>1. /\ manifest' = manifest /\ remap' = remap /\ withheld' = withheld
      /\ report.apps[i].src = s /\ report.apps[i].id = a /\ report'.apps[i].src = s /\ report'.apps[i].id = a
      /\ a \in DOMAIN tenant
      /\ \A w : Claims(i, w)' => Claims(i, w)
  BY <1>0, RowBase
<1>2. tenant[a].consent \subseteq tenant'[a].consent
  BY <1>1, TenantGrown DEF Grown
<1>3. remap_required_resource_access(s)' = remap_required_resource_access(s)
  BY <1>1, PlansStay
<1>4. ASSUME Claims(i, "consent")', s \in manifest.consents \ withheld
      PROVE  remap_required_resource_access(s)' \subseteq tenant'[a].consent
  BY <1>1, <1>2, <1>3, <1>4 DEF Consented
<1> QED  BY <1>1, <1>4 DEF Consented, remap_required_resource_access

\* The row that Pass 3 leaves behind has its consent, or the warning.
LEMMA ConsentPassed ==
    ASSUME BaseInv, ReportShape, RowsInv, EntsInv, GrantedInv, [Next]_vars, ~ Begin, ~ Crash,
           NextConsent \/ Reread \/ Grant, at' \notin {"ents", "grant"}, NEW i \in DOMAIN report.apps, i = pos
    PROVE  Consented(i)'
<1>0. PICK a, s : a = Entry.id /\ s = Entry.src
  OBVIOUS
<1>1. /\ manifest' = manifest /\ remap' = remap /\ withheld' = withheld
      /\ report.apps[i].src = s /\ report.apps[i].id = a /\ report'.apps[i].src = s /\ report'.apps[i].id = a
  BY <1>0, RowBase DEF Entry
<1>2. remap_required_resource_access(s)' = remap_required_resource_access(s)
  BY <1>1, PlansStay
<1>3. \/ RowStep({"consent"}, FALSE)
      \/ s \notin manifest.consents
      \/ remap_required_resource_access(s) \subseteq tenant'[a].consent
  <2>1. CASE NextConsent
    BY <1>0, <2>1, ConsentReport
  <2>2. CASE Reread
    BY <1>0, <2>2, ConsentReport
  <2>3. CASE Grant
    <3>1. at = "grant"
      BY <2>3 DEF Grant
    <3> QED  BY <1>0, <2>3, <3>1, ConsentReport DEF GrantedInv
  <2> QED  BY <2>1, <2>2, <2>3
<1>4. CASE RowStep({"consent"}, FALSE)
  <2>1. "consent" \in report'.apps[i].warn
    BY <1>4 DEF RowStep, RowChanged
  <2> QED  BY <2>1 DEF Consented, Claims
<1>5. CASE s \notin manifest.consents
  BY <1>1, <1>5 DEF Consented
<1>6. CASE remap_required_resource_access(s) \subseteq tenant'[a].consent
  <2>1. remap_required_resource_access(s)' \subseteq tenant'[a].consent
    BY <1>2, <1>6
  <2> QED  BY <1>1, <2>1 DEF Consented, remap_required_resource_access
<1> QED  BY <1>3, <1>4, <1>5, <1>6

\* When Pass 3 ends, a row it did not come to is incomplete or asks for none.
LEMMA ConsentEnds ==
    ASSUME BaseInv, ReportShape, RowsInv, EntsInv, GrantedInv, [Next]_vars, ~ Begin, ~ Crash,
           NextConsent, at' = "ents", NEW i \in DOMAIN report.apps
    PROVE  Consented(i)'
<1>0. PICK s : s = created[i].src
  OBVIOUS
<1>1. manifest' = manifest /\ report.apps[i].src = s /\ report'.apps[i].src = s
  BY <1>0, RowBase
<1>2. pos \in Nat /\ i \in Nat /\ at = "consent"
  <2>1. report.apps \in Seq(Rows) /\ pos \in Nat
    BY DEF ReportShape, BaseInv, TypeInv
  <2>2. i \in Nat
    <3> DEFINE R == Rows
    <3>1. report.apps \in Seq(R)
      BY <2>1
    <3> HIDE DEF R
    <3> QED  BY <3>1
  <2> QED  BY <2>1, <2>2 DEF NextConsent
<1>3. CASE i < pos
  <2>1. Consented(i)
    BY <1>2, <1>3 DEF GrantedInv
  <2> QED  BY <2>1, ConsentedOn
<1>4. CASE ~ (i < pos) /\ s \in manifest.consents
  <2>1. report'.apps[i].incomplete
    BY <1>1, <1>2, <1>4, ConsentStops
  <2> QED  BY <2>1 DEF Consented, Claims
<1>5. CASE s \notin manifest.consents
  BY <1>1, <1>5 DEF Consented
<1> QED  BY <1>3, <1>4, <1>5

LEMMA GrantedKept ==
    ASSUME BaseInv, ReportShape, RowsInv, EntsInv, GrantedInv, [Next]_vars
    PROVE  GrantedInv'
<1>1. CASE Begin \/ Crash
  <2>1. at' \in {"classify", "idle"}
    BY <1>1 DEF Begin, Crash
  <2> QED  BY <2>1 DEF GrantedInv, Ending
<1>2. CASE ~ Begin /\ ~ Crash
  <2>0. /\ pos \in Nat \ {0} /\ \A i \in DOMAIN report.apps : i \in Nat \ {0}
        /\ \A i \in Nat : i < pos + 1 => i < pos \/ i = pos
        /\ \A i \in Nat \ {0} : ~ (i < 1)
    <3>1. report.apps \in Seq(Rows) /\ pos \in Nat \ {0}
      BY DEF ReportShape, BaseInv, TypeInv
    <3>2. \A i \in DOMAIN report.apps : i \in Nat \ {0}
      <4> DEFINE R == Rows
      <4>1. report.apps \in Seq(R)
        BY <3>1
      <4> HIDE DEF R
      <4> QED  BY <4>1
    <3> QED  BY <3>1, <3>2
  <2>1. ~ NextWire => DOMAIN report'.apps = DOMAIN report.apps
    BY <1>2, RowsStep DEF RowsGrow
  <2>2. \A i \in DOMAIN report.apps : Consented(i) => Consented(i)'
    BY <1>2, ConsentedOn
  <2>3. CASE Around \/ UNCHANGED vars
    <3>1. /\ at' = at /\ pos' = pos /\ created' = created /\ remap' = remap /\ hit' = hit /\ manifest' = manifest
          /\ DOMAIN report'.apps = DOMAIN report.apps
      BY <2>3, StagesLater, ManifestStays
    <3>2. at' = "grant" => hit' = remap_required_resource_access(Entry.src)'
      BY <3>1 DEF GrantedInv, remap_required_resource_access, Entry
    <3> QED  BY <2>2, <3>1, <3>2 DEF GrantedInv
  <2>4. CASE Classify \/ Pass1
    <3>1. at' \in Early \/ at' = "wire"
      BY <2>4, StagesLater DEF EndTake
    <3> QED  BY <3>1 DEF GrantedInv, Early, Unsettled, Checking, Ending
  <2>5. CASE Pass2
    <3>1. CASE at' = "wire"
      BY <3>1 DEF GrantedInv, Ending
    <3>2. CASE NextWire /\ at' = "consent"
      <4>1. pos' = 1
        BY <3>2 DEF NextWire
      <4>2. report'.apps \in Seq(Rows)
        BY <3>2, NextWireReport
      <4>3. \A i \in DOMAIN report'.apps : ~ (i < pos')
        <5> DEFINE R == Rows
        <5>1. report'.apps \in Seq(R)
          BY <4>2
        <5> HIDE DEF R
        <5> QED  BY <4>1, <5>1
      <4> QED  BY <3>2, <4>3 DEF GrantedInv, Ending
    <3> QED  BY <2>5, <3>1, <3>2, StagesLater
  <2>6. CASE Pass3
    <3>0. ~ NextWire /\ at \in {"consent", "grant"} /\ (at' \in {"consent", "grant"} \/ (NextConsent /\ at' = "ents"))
      BY <2>6, StagesLater DEF NextWire
    <3>1. CASE NextConsent /\ at' = "ents"
      <4>1. \A i \in DOMAIN report.apps : Consented(i)'
        BY <1>2, <3>1, ConsentEnds
      <4> QED  BY <2>1, <3>0, <3>1, <4>1 DEF GrantedInv
    <3>2. CASE at' = "grant"
      <4>1. Reread
        BY <2>6, <3>2 DEF Pass3, NextConsent, Grant
      <4>2. /\ pos' = pos /\ hit' = remap_required_resource_access(Entry.src)
            /\ created' = created /\ remap' = remap /\ manifest' = manifest
        BY <3>2, <4>1, ConsentReport DEF Reread
      <4>3. hit' = remap_required_resource_access(Entry.src)'
        BY <4>2 DEF remap_required_resource_access, Entry
      <4>4. \A i \in DOMAIN report.apps : i < pos => Consented(i)
        BY <3>0 DEF GrantedInv
      <4>5. \A i \in DOMAIN report'.apps : i < pos' => Consented(i)'
        BY <2>1, <2>2, <3>0, <4>2, <4>4
      <4> QED  BY <3>2, <4>3, <4>5 DEF GrantedInv, Ending
    <3>3. CASE at' = "consent"
      <4>1. pos' = pos + 1
        BY <2>6, <3>3, ConsentReport DEF Pass3
      <4>2. \A i \in DOMAIN report.apps : i < pos => Consented(i)'
        BY <2>2, <3>0 DEF GrantedInv
      <4>3. \A i \in DOMAIN report.apps : i = pos => Consented(i)'
        BY <1>2, <2>6, <3>3, ConsentPassed DEF Pass3
      <4>4. \A i \in DOMAIN report'.apps : i < pos' => Consented(i)'
        BY <2>0, <2>1, <3>0, <4>1, <4>2, <4>3
      <4> QED  BY <3>3, <4>4 DEF GrantedInv, Ending
    <3> QED  BY <3>0, <3>1, <3>2, <3>3
  <2>7. CASE Pass4 \/ Pass5
    <3>1. at \in Ending /\ at' \in Ending /\ ~ NextWire
      BY <2>7, StagesLater DEF Ending, NextWire
    <3> QED  BY <2>1, <2>2, <3>1 DEF GrantedInv, Ending
  <2> QED  BY <1>2, <2>3, <2>4, <2>5, <2>6, <2>7, NextCases
<1> QED  BY <1>1, <1>2

-----------------------------------------------------------------------------
(* The report is true.                                                     *)

\* The invariant: at every moment of every run the report says of the apps the
\* run has come to no more than what the tenant holds.
THEOREM ReportInvariance ==
    Spec => []ReportInv
<1>1. Init => ReportInv
  <2> SUFFICES ASSUME Init PROVE ReportInv
    OBVIOUS
  <2>1. /\ at = "idle" /\ created = <<>> /\ touched = {} /\ item = 0
        /\ report.apps = <<>> /\ report.ents = <<>> /\ report.cancelled = FALSE /\ Shaped(report)
    BY DEF Init, EmptyReport, Shaped
  <2>2. ReportShape /\ RowsInv
    <3>1. ReportShape
      <4>1. report.cancelled \in BOOLEAN
        BY <2>1
      <4>2. report.apps \in Seq(Rows) /\ report.ents \in Seq(EntRows)
        <5> DEFINE R == Rows
                   E == EntRows
        <5>1. <<>> \in Seq(R) /\ <<>> \in Seq(E)
          <6> HIDE DEF R, E
          <6> QED  OBVIOUS
        <5> QED  BY <2>1, <5>1
      <4> QED  BY <2>1, <4>1, <4>2 DEF ReportShape
    <3>2. DOMAIN report.apps = {} /\ DOMAIN report.ents = {}
      BY <2>1
    <3>3. RowsInv
      BY <2>1, <3>2 DEF RowsInv, Wired, Ending
    <3> QED  BY <3>1, <3>3
  <2>3. TouchedInv /\ AccountedInv
    BY <2>1 DEF TouchedInv, AccountedInv, Checking, Wired, Ending
  <2>4. EntsInv /\ SpInv /\ HeldInv
    BY <2>1 DEF EntsInv, SpInv, HeldInv, Unsettled, Checking
  <2>5. WireInv /\ GrantedInv
    BY <2>1 DEF WireInv, GrantedInv, Ending
  <2> QED  BY <2>2, <2>3, <2>4, <2>5 DEF ReportInv
<1>2. BaseInv /\ (MadeInv /\ SecretsInv) /\ ForeignInv /\ ReportInv /\ [Next]_vars => ReportInv'
  <2> SUFFICES ASSUME BaseInv, SecretsInv, ForeignInv, ReportInv, [Next]_vars PROVE ReportInv'
    OBVIOUS
  <2>1. ReportShape' /\ RowsInv'
    BY ShapeKept, RowsKept DEF ReportInv
  <2>2. TouchedInv' /\ AccountedInv'
    BY TouchedKept, AccountedKept DEF ReportInv
  <2>3. EntsInv' /\ SpInv' /\ HeldInv'
    BY EntsKept, SpKept, HeldKept DEF ReportInv
  <2>4. WireInv' /\ GrantedInv'
    BY WireKept, GrantedKept DEF ReportInv
  <2> QED  BY <2>1, <2>2, <2>3, <2>4 DEF ReportInv
<1> QED  BY <1>1, <1>2, BaseInvariance, SecretsInvariance, ForeignInvariance, PTL DEF Spec

\* A row that claims all its app was given is that of a restored app; consent it
\* need not claim where that is withheld.
LEMMA RowRestored ==
    ASSUME BaseInv, SecretsInv, ReportShape, RowsInv, NEW i \in DOMAIN report.apps,
           Started(i), Finished(i), Consented(i), \A w \in Warnings \ {"consent"} : Claims(i, w),
           Claims(i, "consent") \/ report.apps[i].src \in withheld
    PROVE  IsRestored(report.apps[i].src, report.apps[i].id)
<1>0. PICK s, a : s = report.apps[i].src /\ a = report.apps[i].id
  OBVIOUS
<1>1. /\ i \in DOMAIN created /\ s = created[i].src /\ a = created[i].id
      /\ created[i] \in EntryRecs /\ manifest \in Manifests
  BY <1>0 DEF RowsInv, BaseInv, TypeInv
<1>2. s \in Apps /\ a \in DOMAIN tenant /\ tenant[a].src = s /\ tenant[a] \in AppRecs
  <2>1. created[i].src \in Apps
    BY <1>1 DEF EntryRecs
  <2> QED  BY <1>1, <2>1 DEF BaseInv, EntriesInv, TypeInv
<1>3. /\ s \in manifest.sps => tenant[a].sp
      /\ LeftOut(s) = {}
  BY <1>0 DEF Started, Warnings
<1>4. \A w \in FieldSteps : Asked(w, s) => Has(w, s, a)
  BY <1>0 DEF Finished, FieldSteps, Warnings
<1>5. remap_required_resource_access(s) \subseteq tenant[a].perms
  <2>1. CASE manifest.perms[s] = {}
    BY <2>1 DEF remap_required_resource_access
  <2>2. CASE manifest.perms[s] # {}
    BY <1>4, <2>2 DEF FieldSteps, Asked, Has
  <2> QED  BY <2>1, <2>2
<1>6. plan_pre_authorized(s) \subseteq tenant[a].pre
  <2>1. CASE manifest.pre[s] = {}
    BY <2>1 DEF plan_pre_authorized
  <2>2. CASE manifest.pre[s] # {}
    BY <1>4, <2>2 DEF FieldSteps, Asked, Has
  <2> QED  BY <2>1, <2>2
<1>7. /\ s \in manifest.auth => tenant[a].auth
      /\ s \in manifest.fics \ withheld => tenant[a].fic
      /\ s \in manifest.owners \ withheld => tenant[a].owner
  BY <1>4 DEF FieldSteps, Asked, Has
<1>8. s \in manifest.consents \ withheld => remap_required_resource_access(s) \subseteq tenant[a].consent
  BY <1>0 DEF Consented
<1>9. \A k \in Keys : tenant[a].secrets[k] = Issuable(s, k)
  <2>1. ASSUME NEW k \in Keys PROVE tenant[a].secrets[k] \in Nat /\ Issuable(s, k) \in Nat
    <3>1. tenant[a].secrets[k] \in Nat
      BY <1>2 DEF AppRecs
    <3> QED  BY <1>1, <1>2, <3>1, IssuableFacts
  <2>2. \A k \in Keys : tenant[a].secrets[k] <= Issuable(s, k)
    BY <1>2 DEF SecretsInv, IssuedInv
  <2>3. Issuable(s, "key") <= tenant[a].secrets["key"]
    BY <1>0 DEF Finished, Warnings
  <2>4. Issuable(s, "old") = 0
    BY DEF Issuable
  <2>5. tenant[a].secrets["key"] = Issuable(s, "key")
    BY <2>1, <2>2, <2>3 DEF Keys
  <2>6. tenant[a].secrets["old"] = Issuable(s, "old")
    BY <2>1, <2>2, <2>4 DEF Keys
  <2> QED  BY <2>5, <2>6 DEF Keys
<1> QED  BY <1>0, <1>3, <1>5, <1>6, <1>7, <1>8, <1>9 DEF IsRestored

\* ReportIsTrue: the report of a run that has ended, the operator's only record
\* (RestoreReport), names every app the run wrote to and every app of the backup
\* unless it says it was stopped; what it reports without a warning is restored.
THEOREM ReportsAreTrue ==
    Spec => []ReportIsTrue
<1>1. BaseInv /\ (MadeInv /\ SecretsInv) /\ ReportInv => ReportIsTrue
  <2> SUFFICES ASSUME BaseInv, SecretsInv, ReportInv, at = "done" PROVE ReportIsTrue
    BY DEF ReportIsTrue
  <2>0. /\ ReportShape /\ RowsInv /\ TouchedInv /\ AccountedInv /\ EntsInv /\ WireInv /\ GrantedInv
        /\ at \in Wired /\ at \in Ending /\ at \notin Unsettled
    BY DEF ReportInv, Wired, Ending, Unsettled, Checking
  <2>1. \A i \in DOMAIN created : i \in DOMAIN report.apps
    <3> DEFINE R == Rows
               E == EntryRecs
    <3>1. report.apps \in Seq(R) /\ created \in Seq(E) /\ Len(report.apps) = Len(created)
      BY <2>0 DEF ReportShape, BaseInv, TypeInv, RowsInv
    <3> HIDE DEF R, E
    <3> QED  BY <3>1
  <2>2. \A i \in DOMAIN created : \E e \in ToSet(report.apps) : e.id = created[i].id /\ e.src = created[i].src
    BY <2>0, <2>1 DEF RowsInv, ToSet
  <2>3. \A a \in touched : \/ \E e \in ToSet(report.apps) : e.id = a
                           \/ tenant[a].src \in report.failures
    BY <2>0, <2>2 DEF TouchedInv
  <2>4. \/ Apps \subseteq report.failures \cup report.manual \cup {e.src : e \in ToSet(report.apps)}
        \/ report.cancelled \/ report.expired
    BY <2>0, <2>2 DEF AccountedInv, Named
  <2>5. ASSUME NEW e \in ToSet(report.apps), e.warn = {}, ~ e.incomplete, tenant[e.id].there
        PROVE  IsRestored(e.src, e.id)
    <3>1. PICK i \in DOMAIN report.apps : report.apps[i] = e
      BY DEF ToSet
    <3>2. (\A w \in Warnings \ {"consent"} : Claims(i, w)) /\ Claims(i, "consent")
      BY <2>5, <3>1 DEF Claims
    <3>3. Started(i) /\ Finished(i) /\ Consented(i)
      BY <2>0 DEF WireInv, GrantedInv
    <3> QED  BY <2>0, <3>1, <3>2, <3>3, RowRestored
  <2>6. ASSUME NEW e \in ToSet(report.ents), e.warn = {}, ~ report.cancelled, ~ report.expired
        PROVE  /\ tenant[e.id].role
               /\ e.src \in manifest.groups \cap manifest.approved => tenant[e.id].group
    <3>1. PICK i \in DOMAIN report.ents : report.ents[i] = e
      BY DEF ToSet
    <3>2. EntDone(report.ents[i])
      BY <2>0, <2>6, <3>1 DEF EntsInv
    <3> QED  BY <2>6, <3>1, <3>2 DEF EntDone
  <2> QED  BY <2>3, <2>4, <2>5, <2>6 DEF ReportIsTrue
<1> QED  BY <1>1, BaseInvariance, SecretsInvariance, ReportInvariance, PTL

-----------------------------------------------------------------------------
(* A run in which nothing goes wrong, in a tenant nobody else has changed. *)

Smooth == trouble = spent /\ ~ edited

CountInv == trouble \in Nat /\ spent \in Nat /\ spent <= trouble

\* The clients P are ones some run gave the app of s.
PreOk(s, P) ==
    P \subseteq {b \in DOMAIN tenant : tenant[b].src \in manifest.pre[s]} \cup (manifest.pre[s] \ Apps)

\* What there is in such a tenant the runs have made.
OwnInv ==
    ~ edited =>
        /\ \A a \in DOMAIN tenant :
             /\ tenant[a].made /\ tenant[a].there /\ tenant[a].marks = {}
             /\ manifest.perms[tenant[a].src] = {} => tenant[a].perms = {}
             /\ PreOk(tenant[a].src, tenant[a].pre)
        /\ \A i \in DOMAIN created : PreOk(created[i].src, created[i].pre)
        /\ at \in Checking => PreOk(Source, hit.pre)

\* Nothing stops the run, and nobody is refused.
CalmInv ==
    Smooth =>
        /\ ~ cancelled /\ ~ dead /\ memo \in {"unknown", "ok"}
        /\ refused.apps = {} /\ ~ refused.again
        /\ \A i \in DOMAIN created : created[i].warn = {}

\* Pass 1 takes one app of the backup after the other.
Taken(s) == s \in DOMAIN remap /\ \E i \in DOMAIN created : created[i].src = s

TakenInv ==
    Smooth =>
        /\ at \in {"lookup", "create"} \cup Checking =>
             \A j \in DOMAIN manifest.apps : j < pos => Taken(manifest.apps[j])
        /\ at = "ensure" => \A j \in DOMAIN manifest.apps : j <= pos => Taken(manifest.apps[j])
        /\ at \in Looped1 => \A s \in Apps : Taken(s)

\* An app the run created has neither credential nor owner before it is given
\* them; of an adopted one the run knows, when it comes to either.
FreshInv ==
    Smooth =>
        /\ \A i \in DOMAIN created : Unwired(i) /\ ~ created[i].adopted =>
             ~ tenant[created[i].id].fic /\ ~ tenant[created[i].id].owner
        /\ at = "wire" /\ item > 0 =>
             /\ ~ Entry.adopted => \A w \in {"fic", "owner"} :
                  tenant[Entry.id][w] => \E j \in DOMAIN Before(Entry) : j < item /\ Before(Entry)[j] = w
             /\ item - 1 \in DOMAIN Before(Entry) =>
                  /\ Before(Entry)[item - 1] = "readfics" /\ tenant[Entry.id].fic => hit
                  /\ Before(Entry)[item - 1] = "readowners" /\ tenant[Entry.id].owner => hit

\* No row has a warning but for a consent that is withheld.
CleanRow(e) ==
    ~ e.incomplete /\ e.warn \subseteq {"consent"} /\ (e.warn = {} \/ e.src \in manifest.consents \cap withheld)

\* An app that is wired declares the permissions of the plan, no others.
Exact(c) == tenant[c.id].perms = remap_required_resource_access(c.src)

SettledInv ==
    Smooth =>
        /\ \A i \in DOMAIN report.apps : CleanRow(report.apps[i])
        /\ at \in Wired => \A i \in DOMAIN created : Exact(created[i])
        /\ at = "wire" => \A i \in DOMAIN created : i < pos => Exact(created[i])
        /\ at = "wire" /\ item > 0 =>
             \A j \in DOMAIN Before(Entry) : j < item /\ Before(Entry)[j] = "perms" => Exact(Entry)
        /\ at = "grant" => Entry.src \in manifest.consents

ConvInv == CountInv /\ OwnInv /\ CalmInv /\ TakenInv /\ FreshInv /\ SettledInv
-----------------------------------------------------------------------------
(* What goes wrong is counted.                                             *)

\* An answer that is not an error costs nothing, and the others do.
LEMMA AnswerCost ==
    ASSUME trouble \in Nat
    PROVE  /\ \A o, free : Cost(o, free) \in Nat /\ (Cost(o, free) = 0 => o = "ok" \/ free)
           /\ \A w \in Nat : \A f : Answered(w, f) =>
                /\ trouble' \in Nat /\ trouble' >= trouble
                /\ trouble' = trouble => w = 0 /\ dead' = (dead \/ f)
BY DEF Cost, Answered

LEMMA LookupPaid ==
    ASSUME trouble \in Nat
    PROVE  /\ \A r : LookupCost(r) \in Nat
           /\ \A o, free, r, b : Cost(o, free) + (IF b THEN LookupCost(r) ELSE 0) \in Nat
<1>1. \A o, free : Cost(o, free) \in Nat
  BY DEF Cost
<1> QED  BY <1>1 DEF LookupCost

Paid == trouble' \in Nat /\ trouble' >= trouble

LEMMA Ledger ==
    ASSUME CountInv, [Next]_vars, ~ Begin
    PROVE  /\ Paid /\ spent' = spent /\ (edited => edited')
           /\ Crash \/ Around => trouble' # trouble
<1>0. /\ trouble \in Nat /\ (trouble' = trouble => Paid)
      /\ \A w \in Nat : \A f : Answered(w, f) => Paid
  BY AnswerCost DEF CountInv, Paid
<1>a. /\ \A a, o, change : Write(a, o, change) => Paid
      /\ \A i : EnsurePrincipal(i) => Paid
  <2>1. \A a, o, change : Write(a, o, change) => Paid
    BY <1>0, AnswerCost DEF Write
  <2> QED  BY <2>1 DEF EnsurePrincipal
<1>b. ASSUME NEW a, NEW field, NEW ACTION noted, Add(a, field, noted) PROVE Paid
  BY <1>0, <1>b, AnswerCost DEF Add
<1> DEFINE Past == spent' = spent /\ edited' = edited
<1>1. CASE Crash \/ Around
  <2>1. Trouble /\ spent' = spent /\ (edited => edited')
    <3>1. CASE Crash \/ PressCancel
      BY <3>1 DEF Crash, PressCancel, history
    <3>2. ASSUME NEW a, NEW app, Change(a, app) PROVE Trouble /\ spent' = spent /\ edited'
      BY <3>2 DEF Change
    <3>3. CASE \E a \in DOMAIN tenant : Delete(a) \/ Tamper(a)
      BY <3>2, <3>3 DEF Delete, Tamper
    <3>4. CASE \E s \in Apps : Plant(s)
      BY <3>4 DEF Plant
    <3> QED  BY <1>1, <3>1, <3>3, <3>4 DEF Around
  <2> QED  BY <1>0, <2>1 DEF Trouble, Paid
<1>2. Crash \/ Around => trouble' # trouble
  <2>1. Crash \/ Around => Trouble
    BY DEF Crash, Around, PressCancel, Delete, Tamper, Plant, Change
  <2> QED  BY <1>0, <2>1 DEF Trouble
<1>3. CASE Classify \/ Lookup \/ CheckFics \/ CheckPrincipal \/ Create
  <2>1. Paid
    BY <1>0, <1>3, AnswerCost DEF Classify, Lookup, CheckFics, CheckPrincipal, Create
  <2>2. Past
    BY <1>3 DEF Classify, Lookup, CheckFics, CheckPrincipal, Create, history
  <2> QED  BY <1>2, <2>1, <2>2
<1>4. CASE CheckOwners
  <2>1. Paid
    BY <1>0, <1>4, LookupPaid DEF CheckOwners
  <2>2. Past
    BY <1>4 DEF CheckOwners, history
  <2> QED  BY <1>2, <2>1, <2>2
<1>5. CASE Ensure \/ TakePending
  <2>1. Paid
    BY <1>0, <1>a, <1>5 DEF Ensure, TakePending
  <2>2. Past
    BY <1>5 DEF Ensure, TakePending, history
  <2> QED  BY <1>2, <2>1, <2>2
<1>6. CASE EndLoop \/ JudgePending \/ EndRound \/ EndTake \/ NextWire \/ SkipStep \/ EndWire \/ UNCHANGED vars
  <2>1. trouble' = trouble /\ Past
    BY <1>6 DEF EndLoop, JudgePending, EndRound, EndTake, NextWire, SkipStep, EndWire, history, vars
  <2> QED  BY <1>0, <1>2, <2>1
<1>7. CASE PatchStep \/ ReadStep \/ SecretStep
  <2>1. Paid
    BY <1>0, <1>a, <1>7, AnswerCost DEF PatchStep, ReadStep, SecretStep
  <2>2. Past
    BY <1>7 DEF PatchStep, ReadStep, SecretStep, history
  <2> QED  BY <1>2, <2>1, <2>2
<1>8. CASE FicStep \/ OwnerStep \/ AssignRole \/ JoinGroup
  <2>1. ASSUME FicStep PROVE Paid
    BY <1>0, <1>b, <2>1 DEF FicStep
  <2>2. ASSUME OwnerStep PROVE Paid
    BY <1>0, <1>b, <2>2, LookupPaid DEF OwnerStep
  <2>3. ASSUME AssignRole PROVE Paid
    BY <1>0, <1>b, <2>3, LookupPaid DEF AssignRole
  <2>4. ASSUME JoinGroup PROVE Paid
    BY <1>0, <1>b, <2>4 DEF JoinGroup
  <2>5. Past
    BY <1>8 DEF FicStep, OwnerStep, AssignRole, JoinGroup, history
  <2> QED  BY <1>2, <1>8, <2>1, <2>2, <2>3, <2>4, <2>5
<1>9. CASE Pass3
  <2>1. Paid
    BY <1>0, <1>9, AnswerCost DEF Pass3, NextConsent, Reread, Grant
  <2>2. Past
    BY <1>9 DEF Pass3, NextConsent, Reread, Grant, history
  <2> QED  BY <1>2, <2>1, <2>2
<1>10. CASE NextEnt \/ ApplySettings \/ Pass5
  <2>1. Paid
    BY <1>0, <1>10, AnswerCost DEF NextEnt, ApplySettings, Pass5, ListIdentities, Rebind, Finish
  <2>2. Past
    BY <1>10 DEF NextEnt, ApplySettings, Pass5, ListIdentities, Rebind, Finish, history
  <2> QED  BY <1>2, <2>1, <2>2
<1> QED  BY <1>1, <1>3, <1>4, <1>5, <1>6, <1>7, <1>8, <1>9, <1>10, NextCases DEF Pass1, Pass2, Pass4

LEMMA CountKept ==
    ASSUME CountInv, [Next]_vars
    PROVE  CountInv'
<1>1. CASE Begin
  BY <1>1 DEF Begin, CountInv
<1>2. CASE ~ Begin
  BY <1>2, Ledger DEF CountInv, Paid
<1> QED  BY <1>1, <1>2

\* A run that has gone smoothly so far has gone smoothly all the way.
LEMMA CalmStep ==
    ASSUME CountInv, [Next]_vars, ~ Begin, Smooth'
    PROVE  Smooth /\ trouble' = trouble /\ trouble \in Nat /\ ~ Crash /\ ~ Around
<1>1. /\ trouble' \in Nat /\ trouble' >= trouble /\ spent' = spent /\ (edited => edited')
      /\ trouble \in Nat /\ spent \in Nat /\ spent <= trouble
  BY Ledger DEF CountInv, Paid
<1>2. trouble' = trouble /\ trouble = spent
  BY <1>1 DEF Smooth
<1>3. ~ edited
  BY <1>1 DEF Smooth
<1> QED  BY <1>1, <1>2, <1>3, Ledger DEF Smooth

-----------------------------------------------------------------------------
(* A tenant nobody else has changed.                                       *)

LEMMA OwnStep ==
    ASSUME BaseInv, [Next]_vars, ~ edited'
    PROVE  /\ ~ edited
           /\ \/ tenant' = tenant
              \/ Create /\ Source \in Apps /\ tenant' = Append(tenant, NewApp(Source))
              \/ PatchStep /\ OneAltered(Entry.id, {"perms", "pre", "auth"})
              \/ FicStep /\ OneAltered(Entry.id, {"fic"})
              \/ OwnerStep /\ OneAltered(Entry.id, {"owner"})
              \/ \E a : OneAltered(a, {"sp", "consent", "secrets", "role", "group"})
<1> DEFINE F == {"sp", "consent", "secrets", "role", "group"}
<1>0. TypeInv /\ EntriesInv
  BY DEF BaseInv
<1>1. ASSUME NEW a, NEW G, G \subseteq F, OneAltered(a, G) PROVE \E b : OneAltered(b, F)
  BY <1>1, Widen
<1>2. ~ (\E a \in DOMAIN tenant : Delete(a) \/ Tamper(a)) /\ ~ (\E s \in Apps : Plant(s))
  <2>1. ASSUME NEW a, NEW app, Change(a, app) PROVE FALSE
    BY <2>1 DEF Change
  <2>2. ASSUME NEW a \in DOMAIN tenant, Delete(a) \/ Tamper(a) PROVE FALSE
    BY <2>1, <2>2 DEF Delete, Tamper
  <2>3. ASSUME NEW s \in Apps, Plant(s) PROVE FALSE
    BY <2>3 DEF Plant
  <2> QED  BY <2>2, <2>3
<1> DEFINE Past == edited' = edited
<1>3. CASE Begin \/ Classify \/ EndLoop \/ Lookup \/ CheckOwners \/ CheckFics \/ CheckPrincipal \/ JudgePending
           \/ EndRound \/ EndTake \/ NextWire \/ SkipStep \/ ReadStep \/ EndWire
  <2>1. tenant' = tenant
    BY <1>3 DEF Begin, Classify, EndLoop, Lookup, CheckOwners, CheckFics, CheckPrincipal, JudgePending, EndRound,
       EndTake, NextWire, SkipStep, ReadStep, EndWire, world
  <2>2. Past
    BY <1>3 DEF Begin, Classify, EndLoop, Lookup, CheckOwners, CheckFics, CheckPrincipal, JudgePending, EndRound,
       EndTake, NextWire, SkipStep, ReadStep, EndWire, history
  <2> QED  BY <2>1, <2>2
<1>4. CASE NextConsent \/ Reread \/ NextEnt \/ ApplySettings \/ Pass5 \/ Crash \/ PressCancel \/ UNCHANGED vars
  <2>1. tenant' = tenant
    BY <1>4 DEF NextConsent, Reread, NextEnt, ApplySettings, Pass5, ListIdentities, Rebind, Finish, Crash, PressCancel, world, vars
  <2>2. Past
    BY <1>4 DEF NextConsent, Reread, NextEnt, ApplySettings, Pass5, ListIdentities, Rebind, Finish, Crash, PressCancel, history, vars
  <2> QED  BY <2>1, <2>2
<1>5. CASE Create
  BY <1>5, CreateEffect DEF Create, history
<1>6. CASE Ensure
  <2>1. Len(created) \in DOMAIN created
    BY <1>6 DEF Ensure, BaseInv, PlaceInv, TypeInv
  <2>2. OneAltered(created[Len(created)].id, {"sp"})
    BY <1>0, <1>6, <2>1, EnsureEffect DEF Ensure
  <2> QED  BY <1>1, <1>6, <2>2 DEF Ensure, history
<1>7. CASE TakePending
  BY <1>1, <1>7, TakeEffect DEF TakePending, history
<1>8. CASE PatchStep
  BY <1>8, PatchEffect DEF PatchStep, history
<1>9. CASE FicStep
  BY <1>9, FicEffect DEF FicStep, history
<1>10. CASE OwnerStep
  BY <1>10, OwnerEffect DEF OwnerStep, history
<1>11. CASE SecretStep
  BY <1>1, <1>11, SecretEffect DEF SecretStep, history
<1>12. CASE Grant
  BY <1>1, <1>12, GrantEffect DEF Grant, history
<1>13. CASE AssignRole
  BY <1>1, <1>13, RoleEffect DEF AssignRole, history
<1>14. CASE JoinGroup
  BY <1>1, <1>14, GroupEffect DEF JoinGroup, history
<1> QED  BY <1>2, <1>3, <1>4, <1>5, <1>6, <1>7, <1>8, <1>9, <1>10, <1>11, <1>12, <1>13, <1>14, NextCases
         DEF Pass1, Pass2, Pass3, Pass4, Around

\* Clients some run gave the app of s, still are.
LEMMA PreOkOn ==
    ASSUME BaseInv, [Next]_vars, NEW s, NEW P, PreOk(s, P)
    PROVE  PreOk(s, P)'
<1>1. manifest' = manifest
  BY ManifestStays
<1>2. \A b \in DOMAIN tenant : b \in DOMAIN tenant' /\ tenant'[b].src = tenant[b].src
  BY TenantKeeps
<1> QED  BY <1>1, <1>2 DEF PreOk, Apps

LEMMA PlanOk ==
    ASSUME BaseInv, NEW s
    PROVE  PreOk(s, plan_pre_authorized(s))
<1>1. ASSUME NEW c \in manifest.pre[s] \ LeftOut(s), c \in Apps
      PROVE  remap[c] \in DOMAIN tenant /\ tenant[remap[c]].src = c
  BY <1>1 DEF LeftOut, BaseInv, RemapInv
<1> QED  BY <1>1 DEF PreOk, plan_pre_authorized

LEMMA OwnApps ==
    ASSUME BaseInv, OwnInv, [Next]_vars, ~ edited', NEW a \in DOMAIN tenant', NEW s, s = tenant'[a].src
    PROVE  /\ tenant'[a].made /\ tenant'[a].there /\ tenant'[a].marks = {}
           /\ manifest'.perms[s] = {} => tenant'[a].perms = {}
           /\ PreOk(s, tenant[a].pre)'
<1>0. TypeInv /\ manifest' = manifest /\ ~ edited
  BY ManifestStays, OwnStep DEF BaseInv
<1>1. ASSUME NEW P, PreOk(s, P), tenant'[a].pre = P PROVE PreOk(s, tenant[a].pre)'
  <2>1. PreOk(s, P)'
    BY <1>1, PreOkOn
  <2> QED  BY <1>1, <2>1 DEF PreOk, Apps
<1>2. CASE a \in DOMAIN tenant
  <2>1. s = tenant[a].src
    BY <1>2, TenantKeeps
  <2>2. /\ tenant[a].made /\ tenant[a].there /\ tenant[a].marks = {}
        /\ manifest.perms[s] = {} => tenant[a].perms = {}
        /\ PreOk(s, tenant[a].pre)
    BY <1>0, <1>2, <2>1 DEF OwnInv
  <2>3. CASE tenant'[a] = tenant[a]
    BY <1>0, <1>1, <2>2, <2>3
  <2>4. ASSUME NEW b, NEW F, OneAltered(b, F), F \cap {"there", "marks", "perms", "pre"} = {}
        PROVE  /\ tenant'[a].made = tenant[a].made /\ tenant'[a].there = tenant[a].there
               /\ tenant'[a].marks = tenant[a].marks /\ tenant'[a].perms = tenant[a].perms
               /\ tenant'[a].pre = tenant[a].pre
    <3>1. Alters(tenant[a], tenant'[a], F)
      BY <1>0, <1>2, <2>4, AlteredGrows
    <3> QED  BY <2>4, <3>1 DEF Alters
  <2>5. CASE \E b, F : OneAltered(b, F) /\ F \cap {"there", "marks", "perms", "pre"} = {}
    BY <1>0, <1>1, <2>2, <2>4, <2>5
  <2>6. CASE PatchStep /\ OneAltered(Entry.id, {"perms", "pre", "auth"})
    <3>1. CASE a # Entry.id
      BY <1>0, <1>2, <2>3, <2>6, <3>1, AlteredGrows
    <3>2. CASE a = Entry.id
      <4>1. Alters(tenant[a], tenant'[a], {"perms", "pre", "auth"})
        BY <1>0, <1>2, <2>6, AlteredGrows
      <4>2. Entry.src = s
        BY <2>1, <2>6, <3>2, EntryFacts DEF PatchStep, Wiring, BaseInv, PlaceInv
      <4>3. manifest.perms[s] = {} => remap_required_resource_access(s) = {}
        BY DEF remap_required_resource_access
      <4>4. tenant'[a].perms \in {tenant[a].perms, remap_required_resource_access(s)}
        BY <2>6, <3>2, <4>2, PatchLists
      <4>5. tenant'[a].pre \in {tenant[a].pre, plan_pre_authorized(s)}
        BY <2>6, <3>2, <4>2, PatchLists
      <4>6. PreOk(s, tenant[a].pre)'
        BY <1>1, <2>2, <4>5, PlanOk
      <4> QED  BY <1>0, <2>2, <4>1, <4>3, <4>4, <4>6 DEF Alters
    <3> QED  BY <3>1, <3>2
  <2>7. CASE Source \in Apps /\ tenant' = Append(tenant, NewApp(Source))
    <3>1. tenant'[a] = tenant[a]
      BY <1>0, <1>2, <2>7, NewAppFacts, AppendGrows
    <3> QED  BY <2>3, <3>1
  <2>8. {"fic"} \cap {"there", "marks", "perms", "pre"} = {} /\ {"owner"} \cap {"there", "marks", "perms", "pre"} = {}
        /\ {"sp", "consent", "secrets", "role", "group"} \cap {"there", "marks", "perms", "pre"} = {}
    OBVIOUS
  <2> QED  BY <2>3, <2>5, <2>6, <2>7, <2>8, OwnStep
<1>3. CASE a \notin DOMAIN tenant
  <2>1. Source \in Apps /\ tenant' = Append(tenant, NewApp(Source))
    BY <1>0, <1>3, OwnStep, AlteredGrows
  <2>2. tenant'[a] = NewApp(Source)
    <3>1. DOMAIN tenant' = DOMAIN tenant \cup {Len(tenant) + 1} /\ tenant'[Len(tenant) + 1] = NewApp(Source)
      BY <1>0, <2>1, NewAppFacts, AppendGrows
    <3> QED  BY <1>3, <3>1
  <2>3. NewApp(Source).made /\ NewApp(Source).there /\ NewApp(Source).marks = {} /\ NewApp(Source).perms = {}
        /\ NewApp(Source).pre = {}
    BY DEF NewApp
  <2>4. PreOk(s, {})
    BY DEF PreOk
  <2> QED  BY <1>1, <2>2, <2>3, <2>4
<1> QED  BY <1>2, <1>3

\* The entry Pass 1 makes.
LEMMA KeepMakes ==
    ASSUME TypeInv, NEW a, NEW adopted, NEW secrets, NEW pre, Keep(a, adopted, secrets, pre)
    PROVE  LET c == created'[Len(created) + 1] IN c.warn = {} /\ c.adopted = adopted
<1> DEFINE row == [src |-> Source, id |-> a, adopted |-> adopted, left |-> secrets, pre |-> pre,
                   pending |-> pre # {}, warn |-> {}]
<1>1. created' = Append(created, row) /\ created \in Seq(EntryRecs)
  BY DEF Keep, TypeInv
<1>2. row.warn = {} /\ row.adopted = adopted
  OBVIOUS
<1> HIDE DEF row
<1>3. created'[Len(created) + 1] = row
  BY <1>1
<1> QED  BY <1>2, <1>3

\* How the entries can change.
LEMMA EntriesMove ==
    ASSUME BaseInv, [Next]_vars
    PROVE  \/ Begin /\ created' = <<>> /\ remap' = <<>>
           \/ SameEntries /\ (remap' = remap \/ EndLoop \/ JudgePending)
           \/ CheckPrincipal /\ Keep(hit.id, TRUE, hit.secrets, hit.pre)
           \/ Create /\ tenant' = Append(tenant, NewApp(Source)) /\ Keep(Len(tenant'), FALSE, [k \in Keys |-> 0], {})
           \/ EndRound /\ at' = "take" /\ Retain(Retained) /\ remap' = remap
<1>0. TypeInv
  BY DEF BaseInv
<1>1. CASE Begin
  BY <1>1 DEF Begin
<1>2. CASE CheckPrincipal
  <2>1. CASE Refuse
    BY <1>0, <2>1, SameEntriesStay DEF Refuse
  <2>2. CASE Keep(hit.id, TRUE, hit.secrets, hit.pre)
    BY <1>2, <2>2
  <2> QED  BY <1>2, <2>1, <2>2 DEF CheckPrincipal
<1>3. CASE Create
  <2>1. CASE created' = created /\ remap' = remap
    BY <1>0, <2>1, SameEntriesStay
  <2>2. CASE tenant' = Append(tenant, NewApp(Source)) /\ Keep(Len(tenant'), FALSE, [k \in Keys |-> 0], {})
    BY <1>3, <2>2
  <2> QED  BY <1>3, <2>1, <2>2 DEF Create, Landed
<1>4. CASE EndLoop \/ JudgePending
  <2>1. created' = created
    BY <1>4 DEF EndLoop, JudgePending
  <2> QED  BY <1>0, <1>4, <2>1, SameEntriesStay
<1>5. CASE EndRound
  <2>1. CASE AnotherRound
    <3>1. created' = created /\ remap' = remap
      BY <1>5, <2>1 DEF EndRound
    <3> QED  BY <1>0, <3>1, SameEntriesStay
  <2>2. CASE ~ AnotherRound
    BY <1>5, <2>2 DEF EndRound, Retained
  <2> QED  BY <2>1, <2>2
<1> QED  BY <1>1, <1>2, <1>3, <1>4, <1>5, EntriesStep

\* The candidate being checked.
LEMMA CandidateStep ==
    ASSUME BaseInv, [Next]_vars, at' \in Checking
    PROVE  /\ pos' = pos
           /\ \/ at \in Checking /\ hit' = hit
              \/ Lookup /\ \E a \in Tagged(Source) : hit' = [id |-> a, pre |-> tenant[a].pre, secrets |-> LiveSecrets(a)]
<1>1. CASE Lookup
  BY <1>1 DEF Lookup, Refuse, NextApp, Checking
<1>2. CASE CheckOwners \/ CheckFics
  BY <1>2 DEF CheckOwners, CheckFics, Refuse, NextApp, Checking
<1>3. CASE Around \/ UNCHANGED vars
  BY <1>3, StagesLater
<1>4. CASE Begin \/ Classify \/ EndLoop \/ CheckPrincipal \/ Create \/ Ensure \/ JudgePending \/ EndRound
           \/ TakePending \/ EndTake \/ Crash
  BY <1>4 DEF Begin, Classify, EndLoop, CheckPrincipal, Create, Ensure, JudgePending, EndRound, TakePending, EndTake,
     Crash, Refuse, Keep, NextApp, Checking
<1>5. CASE Pass2 \/ Pass3 \/ Pass4 \/ Pass5
  BY <1>5, StagesLater DEF Checking
<1> QED  BY <1>1, <1>2, <1>3, <1>4, <1>5, NextCases DEF Pass1

LEMMA OwnKept ==
    ASSUME BaseInv, OwnInv, [Next]_vars
    PROVE  OwnInv'
<1> SUFFICES ASSUME ~ edited' PROVE OwnInv'
  BY DEF OwnInv
<1>0. TypeInv /\ manifest' = manifest /\ ~ edited
  BY ManifestStays, OwnStep DEF BaseInv
<1>1. (\A a \in DOMAIN tenant :
         /\ tenant[a].made /\ tenant[a].there /\ tenant[a].marks = {}
         /\ manifest.perms[tenant[a].src] = {} => tenant[a].perms = {}
         /\ PreOk(tenant[a].src, tenant[a].pre))'
  BY OwnApps DEF PreOk, Apps
<1>2. ASSUME NEW s, NEW P, PreOk(s, P) PROVE PreOk(s, P)'
  BY <1>2, PreOkOn
<1>3. (\A i \in DOMAIN created : PreOk(created[i].src, created[i].pre))'
  <2>1. SUFFICES ASSUME NEW i \in DOMAIN created', NEW s, NEW P, s = created'[i].src, P = created'[i].pre
                 PROVE  PreOk(s, P)
    BY <1>2 DEF PreOk, Apps
  <2>2. CASE created' = <<>>
    BY <2>2
  <2>3. CASE SameEntries
    BY <1>0, <2>1, <2>3 DEF SameEntries, OwnInv
  <2>4. ASSUME NEW a, NEW adopted, NEW secrets, NEW pre, Keep(a, adopted, secrets, pre), PreOk(Source, pre)
        PROVE  PreOk(s, P)
    <3>1. /\ DOMAIN created' = DOMAIN created \cup {Len(created) + 1}
          /\ \A j \in DOMAIN created : created'[j] = created[j]
          /\ created'[Len(created) + 1].src = Source /\ created'[Len(created) + 1].pre = pre
      BY <1>0, <2>4, KeepEffect
    <3>2. CASE i \in DOMAIN created
      BY <1>0, <2>1, <3>1, <3>2 DEF OwnInv
    <3>3. CASE i = Len(created) + 1
      BY <2>1, <2>4, <3>1, <3>3
    <3> QED  BY <3>1, <3>2, <3>3
  <2>5. CASE CheckPrincipal /\ Keep(hit.id, TRUE, hit.secrets, hit.pre)
    <3>1. PreOk(Source, hit.pre)
      BY <1>0, <2>5 DEF CheckPrincipal, OwnInv, Checking
    <3> QED  BY <2>4, <2>5, <3>1
  <2>6. CASE Keep(Len(tenant'), FALSE, [k \in Keys |-> 0], {})
    <3>1. PreOk(Source, {})
      BY DEF PreOk
    <3> QED  BY <2>4, <2>6, <3>1
  <2>7. CASE Retain(Retained)
    <3>1. Retained \in SUBSET (DOMAIN created)
      BY DEF Retained
    <3>2. PICK j \in DOMAIN created : created'[i] = created[j]
      BY <1>0, <2>7, <3>1, RetainEffect
    <3> QED  BY <1>0, <2>1, <3>2 DEF OwnInv
  <2> QED  BY <2>2, <2>3, <2>5, <2>6, <2>7, EntriesMove
<1>4. (at \in Checking => PreOk(Source, hit.pre))'
  <2>1. SUFFICES ASSUME at' \in Checking, NEW s, NEW P, s = Source', P = hit'.pre PROVE PreOk(s, P)
    BY <1>2 DEF PreOk, Apps
  <2>2. s = Source
    BY <1>0, <2>1, CandidateStep DEF Source
  <2>3. CASE at \in Checking /\ hit' = hit
    BY <1>0, <2>1, <2>2, <2>3 DEF OwnInv
  <2>4. ASSUME NEW a \in Tagged(Source), hit' = [id |-> a, pre |-> tenant[a].pre, secrets |-> LiveSecrets(a)]
        PROVE  PreOk(s, P)
    <3>1. hit'.pre = tenant[a].pre
      BY <2>4
    <3>2. a \in DOMAIN tenant /\ tenant[a].src = Source
      BY <2>4 DEF Tagged
    <3> QED  BY <1>0, <2>1, <2>2, <3>1, <3>2 DEF OwnInv
  <2> QED  BY <2>1, <2>3, <2>4, CandidateStep
<1> QED  BY <1>1, <1>3, <1>4 DEF OwnInv

-----------------------------------------------------------------------------
(* What the steps of a smooth run do.                                      *)

WholeInv == BaseInv /\ MadeInv /\ SecretsInv /\ ForeignInv /\ ReportInv /\ ConvInv

\* A step of a run that goes smoothly.
Calmly == WholeInv /\ [Next]_vars /\ ~ Begin /\ Smooth'

LEMMA CalmFacts ==
    ASSUME Calmly
    PROVE  /\ Smooth /\ trouble' = trouble /\ trouble \in Nat /\ ~ Crash /\ ~ Around /\ ~ Stopped
           /\ BaseInv /\ TypeInv /\ RemapInv /\ EntriesInv /\ PlaceInv /\ MadeInv /\ SecretsInv /\ ReportInv
           /\ ReportShape /\ RowsInv /\ EntsInv /\ manifest' = manifest
           /\ ~ cancelled /\ ~ dead /\ memo \in {"unknown", "ok"} /\ refused.apps = {} /\ ~ refused.again
           /\ \A i \in DOMAIN created : created[i].warn = {}
           /\ \A a \in DOMAIN tenant : tenant[a].made /\ tenant[a].there /\ tenant[a].marks = {}
<1>1. CountInv /\ BaseInv /\ OwnInv /\ CalmInv
  BY DEF Calmly, WholeInv, ConvInv
<1>2. Smooth /\ trouble' = trouble /\ trouble \in Nat /\ ~ Crash /\ ~ Around
  BY <1>1, CalmStep DEF Calmly
<1>3. /\ ~ cancelled /\ ~ dead /\ memo \in {"unknown", "ok"} /\ refused.apps = {} /\ ~ refused.again
      /\ \A i \in DOMAIN created : created[i].warn = {}
  BY <1>1, <1>2 DEF CalmInv
<1>4. \A a \in DOMAIN tenant : tenant[a].made /\ tenant[a].there /\ tenant[a].marks = {}
  BY <1>1, <1>2 DEF OwnInv, Smooth
<1>5. manifest' = manifest
  BY <1>1, ManifestStays DEF Calmly
<1>6. TypeInv /\ RemapInv /\ EntriesInv /\ PlaceInv
  BY <1>1 DEF BaseInv
<1>7. MadeInv /\ SecretsInv /\ ReportInv /\ ReportShape /\ RowsInv /\ EntsInv
  BY DEF Calmly, WholeInv, ReportInv
<1>8. ~ Stopped
  BY <1>3 DEF Stopped
<1> QED  BY <1>1, <1>2, <1>3, <1>4, <1>5, <1>6, <1>7, <1>8

\* Every answer is a good one.
LEMMA CalmAnswer ==
    ASSUME trouble \in Nat, trouble' = trouble, ~ dead
    PROVE  /\ \A o : Answered(Cost(o, FALSE), o = "fatal") => o = "ok" /\ ~ dead'
           /\ \A a, o : tenant[a].there /\ Answered(Cost(o, ~ tenant[a].there), o = "fatal") => o = "ok" /\ ~ dead'
<1>1. \A w \in Nat : \A f : Answered(w, f) => w = 0 /\ dead' = (dead \/ f)
  BY AnswerCost
<1>2. \A o, free : Cost(o, free) \in Nat /\ (Cost(o, free) = 0 => o = "ok" \/ free)
  BY AnswerCost
<1> QED  BY <1>1, <1>2

LEMMA CalmWrite ==
    ASSUME trouble \in Nat, trouble' = trouble, ~ dead,
           NEW a, NEW o, NEW change, tenant[a].there, Write(a, o, change)
    PROVE  o = "ok" /\ ~ dead' /\ tenant' = [tenant EXCEPT ![a] = change]
BY CalmAnswer DEF Write, Landed

LEMMA CalmAdd ==
    ASSUME trouble \in Nat, trouble' = trouble, ~ dead, TypeInv,
           NEW a \in DOMAIN tenant, tenant[a].there, NEW field \in {"fic", "owner", "role", "group"}, NEW ACTION noted,
           Add(a, field, noted)
    PROVE  ~ dead' /\ (~ tenant[a][field] => report' = report)
<1>1. CASE tenant[a][field]
  <2>1. Answered(Cost("plain", TRUE), "plain" = "fatal")
    BY <1>1 DEF Add
  <2> QED  BY <1>1, <2>1 DEF Answered
<1>2. CASE ~ tenant[a][field]
  <2>1. PICK o : Answered(Cost(o, tenant[a][field] \/ ~ tenant[a].there), o = "fatal") /\ (o = "ok" => report' = report)
    BY <1>2 DEF Add
  <2>2. Cost(o, tenant[a][field] \/ ~ tenant[a].there) = Cost(o, FALSE)
    BY <1>2 DEF Cost
  <2> QED  BY <2>1, <2>2, CalmAnswer
<1> QED  BY <1>1, <1>2

LEMMA CalmLookup ==
    ASSUME memo \in {"unknown", "ok"}
    PROVE  \A r \in Lookups : LookupCost(r) \in Nat /\ (LookupCost(r) = 0 => r = "ok")
BY DEF Lookups, LookupCost, Cost

LEMMA CalmEnsure ==
    ASSUME Calmly, NEW i \in DOMAIN created, EnsurePrincipal(i)
    PROVE  ~ dead' /\ created' = created
<1>1. created[i].id \in DOMAIN tenant
  BY CalmFacts DEF EntriesInv
<1>2. PICK o : /\ Write(created[i].id, o, [tenant[created[i].id] EXCEPT !.sp = TRUE])
               /\ created' = IF o = "ok" THEN created ELSE [created EXCEPT ![i].warn = @ \cup {"sp"}]
  BY DEF EnsurePrincipal
<1>3. o = "ok" /\ ~ dead'
  BY <1>1, <1>2, CalmFacts, CalmWrite
<1> QED  BY <1>2, <1>3

\* Pass 1: every app is created or adopted.
LEMMA CalmCandidates ==
    ASSUME Calmly, Lookup
    PROVE  /\ ~ dead' /\ UNCHANGED <<report, created, remap, pos, memo, refused>>
           /\ at' \in {"create", "owners"}
<1>1. PICK o : /\ Answered(Cost(o, FALSE), o = "fatal")
               /\ \/ /\ o # "ok" \/ Cardinality(Tagged(Source)) > 1
                     /\ Refuse
                  \/ at' = "create" /\ UNCHANGED <<report, created, remap, pos>>
                  \/ \E a \in Tagged(Source) :
                       IF "settings" \in tenant[a].marks
                       THEN Refuse
                       ELSE at' = "owners" /\ UNCHANGED <<report, created, remap, pos>>
  BY DEF Lookup
<1>2. o = "ok" /\ ~ dead'
  BY <1>1, CalmFacts, CalmAnswer
<1>3. \A a \in Tagged(Source) : a \in DOMAIN tenant /\ tenant[a].marks = {}
  BY CalmFacts DEF Tagged
<1>4. \A a, b \in Tagged(Source) : a = b
  BY CalmFacts DEF Tagged, MadeInv
<1>5. ~ (Cardinality(Tagged(Source)) > 1)
  <2>1. CASE Tagged(Source) = {}
    BY <2>1, FS_EmptySet
  <2>2. ASSUME NEW a \in Tagged(Source) PROVE Cardinality(Tagged(Source)) = 1
    <3>1. Tagged(Source) = {a}
      BY <1>4, <2>2
    <3> QED  BY <3>1, FS_Singleton
  <2> QED  BY <2>1, <2>2
<1> QED  BY <1>1, <1>2, <1>3, <1>5 DEF Lookup

LEMMA CalmChecks ==
    ASSUME Calmly
    PROVE  /\ CheckOwners => /\ ~ dead' /\ UNCHANGED <<report, created, remap, pos, refused>> /\ at' = "fics"
                             /\ memo' \in {"unknown", "ok"}
           /\ CheckFics => /\ ~ dead' /\ UNCHANGED <<report, created, remap, pos, refused, memo>> /\ at' = "principal"
<1> SUFFICES ASSUME at \in Checking
             PROVE  /\ CheckOwners => /\ ~ dead' /\ UNCHANGED <<report, created, remap, pos, refused>> /\ at' = "fics"
                                      /\ memo' \in {"unknown", "ok"}
                    /\ CheckFics => /\ ~ dead' /\ UNCHANGED <<report, created, remap, pos, refused, memo>>
                                    /\ at' = "principal"
  BY DEF CheckOwners, CheckFics, Checking
<1>1. hit.id \in DOMAIN tenant /\ tenant[hit.id].there /\ tenant[hit.id].marks = {}
  BY CalmFacts DEF PlaceInv
<1>2. ASSUME CheckOwners
      PROVE  /\ ~ dead' /\ UNCHANGED <<report, created, remap, pos, refused>> /\ at' = "fics"
             /\ memo' \in {"unknown", "ok"}
  <2>1. PICK o \in ReadAnswers(hit.id), r \in Lookups :
           LET asks == o = "ok" /\ tenant[hit.id].owner /\ Source \in manifest.owners IN
           /\ asks \/ r = IF memo = "unknown" THEN "ok" ELSE memo
           /\ Answered(Cost(o, ~tenant[hit.id].there) + (IF asks THEN LookupCost(r) ELSE 0),
                       o = "fatal" \/ (asks /\ r = "fatal"))
           /\ IF asks THEN Remember(r) ELSE UNCHANGED memo
           /\ IF o # "ok" \/ "owner" \in tenant[hit.id].marks \/ (asks /\ r # "ok")
              THEN Refuse
              ELSE at' = "fics" /\ UNCHANGED <<report, created, remap, pos>>
    BY <1>2 DEF CheckOwners
  <2> DEFINE asks == o = "ok" /\ tenant[hit.id].owner /\ Source \in manifest.owners
             first == Cost(o, ~tenant[hit.id].there)
             second == IF asks THEN LookupCost(r) ELSE 0
  <2>2. first \in Nat /\ (first = 0 => o = "ok")
    BY <1>1, CalmFacts, AnswerCost
  <2>3. second \in Nat /\ (second = 0 => ~ asks \/ r = "ok")
    BY CalmFacts, CalmLookup
  <2>4. Answered(first + second, o = "fatal" \/ (asks /\ r = "fatal"))
    BY <2>1
  <2>5. /\ IF asks THEN Remember(r) ELSE UNCHANGED memo
        /\ IF o # "ok" \/ "owner" \in tenant[hit.id].marks \/ (asks /\ r # "ok")
           THEN Refuse
           ELSE at' = "fics" /\ UNCHANGED <<report, created, remap, pos>>
    BY <2>1
  <2> HIDE DEF asks, first, second
  <2>6. first + second = 0 /\ dead' = (dead \/ (o = "fatal" \/ (asks /\ r = "fatal")))
    <3>1. first + second \in Nat
      BY <2>2, <2>3
    <3> QED  BY <2>4, <3>1, CalmFacts, AnswerCost
  <2>7. o = "ok" /\ (~ asks \/ r = "ok")
    BY <2>2, <2>3, <2>6
  <2>8. ~ dead'
    BY <2>6, <2>7, CalmFacts
  <2>9. at' = "fics" /\ UNCHANGED <<report, created, remap, pos>>
    BY <1>1, <2>5, <2>7
  <2>10. memo' \in {"unknown", "ok"}
    BY <2>5, <2>7, CalmFacts DEF Remember
  <2> QED  BY <1>2, <2>8, <2>9, <2>10 DEF CheckOwners
<1>3. ASSUME CheckFics
      PROVE  /\ ~ dead' /\ UNCHANGED <<report, created, remap, pos, refused, memo>> /\ at' = "principal"
  <2>1. PICK o : /\ Answered(Cost(o, ~tenant[hit.id].there), o = "fatal")
                 /\ IF o # "ok" \/ "fic" \in tenant[hit.id].marks
                    THEN Refuse
                    ELSE at' = "principal" /\ UNCHANGED <<report, created, remap, pos>>
    BY <1>3 DEF CheckFics
  <2>2. o = "ok" /\ ~ dead'
    BY <1>1, <2>1, CalmFacts, CalmAnswer
  <2> QED  BY <1>1, <1>3, <2>1, <2>2 DEF CheckFics
<1> QED  BY <1>2, <1>3

LEMMA CalmKeeps ==
    ASSUME Calmly
    PROVE  /\ CheckPrincipal => ~ dead' /\ Keep(hit.id, TRUE, hit.secrets, hit.pre) /\ UNCHANGED <<report, refused, memo>>
           /\ Create => /\ ~ dead' /\ tenant' = Append(tenant, NewApp(Source)) /\ UNCHANGED <<report, refused, memo>>
                        /\ Keep(Len(tenant'), FALSE, [k \in Keys |-> 0], {})
<1>1. ASSUME CheckPrincipal
      PROVE  ~ dead' /\ Keep(hit.id, TRUE, hit.secrets, hit.pre) /\ UNCHANGED <<report, refused, memo>>
  <2>1. tenant[hit.id].marks = {}
    BY <1>1, CalmFacts DEF PlaceInv, CheckPrincipal, Checking
  <2>2. PICK o : /\ Answered(Cost(o, FALSE), o = "fatal")
                 /\ IF o # "ok" \/ (tenant[hit.id].there /\ "principal" \in tenant[hit.id].marks)
                    THEN Refuse
                    ELSE Keep(hit.id, TRUE, hit.secrets, hit.pre) /\ UNCHANGED report
    BY <1>1 DEF CheckPrincipal
  <2>3. o = "ok" /\ ~ dead'
    BY <2>2, CalmFacts, CalmAnswer
  <2> QED  BY <1>1, <2>1, <2>2, <2>3 DEF CheckPrincipal
<1>2. ASSUME Create
      PROVE  /\ ~ dead' /\ tenant' = Append(tenant, NewApp(Source)) /\ UNCHANGED <<report, refused, memo>>
             /\ Keep(Len(tenant'), FALSE, [k \in Keys |-> 0], {})
  <2>1. PICK o : /\ Answered(Cost(o, FALSE), o = "fatal")
                 /\ Landed(o) => tenant' = Append(tenant, NewApp(Source))
                 /\ o = "ok" => Keep(Len(tenant'), FALSE, [k \in Keys |-> 0], {}) /\ UNCHANGED report
    BY <1>2 DEF Create
  <2>2. o = "ok" /\ ~ dead'
    BY <2>1, CalmFacts, CalmAnswer
  <2> QED  BY <1>2, <2>1, <2>2 DEF Create, Landed
<1> QED  BY <1>1, <1>2

\* No candidate is refused for its clients: each of them is an app of the backup
\* that this run has taken, or one from outside that the backup lists.
LEMMA CalmJudges ==
    ASSUME Calmly, JudgePending
    PROVE  UNCHANGED <<refused, remap, report, created, memo, dead>> /\ at' = at
<1>0. /\ pos \in DOMAIN created /\ created[pos] \in EntryRecs /\ ~ edited
  BY CalmFacts DEF JudgePending, TypeInv, Smooth
<1>1. PICK c \in EntryRecs : c = created[pos]
  BY <1>0
<1>2. \A s \in Apps : s \in DOMAIN remap
  <2>1. TakenInv /\ at \in Looped1
    BY DEF Calmly, WholeInv, ConvInv, JudgePending, Looped1
  <2> QED  BY <2>1, CalmFacts DEF TakenInv, Taken
<1>3. PreOk(c.src, c.pre)
  BY <1>0, <1>1 DEF Calmly, WholeInv, ConvInv, OwnInv
<1>4. ASSUME NEW p \in c.pre PROVE p \in plan_pre_authorized(c.src)
  <2>1. CASE p \in manifest.pre[c.src] \ Apps
    BY <2>1 DEF plan_pre_authorized, LeftOut
  <2>2. CASE p \in DOMAIN tenant /\ tenant[p].src \in manifest.pre[c.src]
    <3>1. PICK b : b = tenant[p].src
      OBVIOUS
    <3>2. b \in Apps /\ b \in DOMAIN remap
      <4>1. tenant[p] \in AppRecs
        BY <2>2, CalmFacts DEF TypeInv
      <4>2. tenant[p].src \in Apps
        BY <4>1 DEF AppRecs
      <4> QED  BY <1>2, <3>1, <4>2
    <3>3. remap[b] \in DOMAIN tenant /\ tenant[remap[b]].src = b
      BY <3>2, CalmFacts DEF RemapInv
    <3>4. remap[b] = p
      BY <2>2, <3>1, <3>3, CalmFacts DEF MadeInv
    <3>5. b \in manifest.pre[c.src] \ LeftOut(c.src)
      BY <2>2, <3>1, <3>2 DEF LeftOut
    <3> QED  BY <3>2, <3>4, <3>5 DEF plan_pre_authorized
  <2> QED  BY <1>3, <2>1, <2>2 DEF PreOk
<1>5. foreign_pre_authorized(c) = {}
  BY <1>4 DEF foreign_pre_authorized
<1> QED  BY <1>1, <1>5 DEF JudgePending, stops

\* How the entries can change in a smooth run.
LEMMA CalmEntries ==
    ASSUME Calmly
    PROVE  /\ refused' = refused
           /\ \/ SameEntries /\ remap' = remap /\ \A i \in DOMAIN created : created'[i].warn = {}
              \/ CheckPrincipal /\ Keep(hit.id, TRUE, hit.secrets, hit.pre)
              \/ Create /\ tenant' = Append(tenant, NewApp(Source)) /\ Keep(Len(tenant'), FALSE, [k \in Keys |-> 0], {})
              \/ EndRound /\ at' = "take" /\ Retain(DOMAIN created) /\ remap' = remap
<1>0. /\ TypeInv /\ (created' = created => SameEntries /\ \A i \in DOMAIN created : created'[i].warn = {})
  BY CalmFacts, SameEntriesStay
<1>1. CASE CheckPrincipal \/ Create
  BY <1>1, CalmKeeps
<1>2. CASE JudgePending
  BY <1>0, <1>2, CalmJudges
<1>3. CASE EndLoop
  <2>1. UNCHANGED <<report, refused, remap, created>>
    BY <1>3, CalmFacts DEF EndLoop
  <2> QED  BY <1>0, <2>1
<1>4. CASE EndRound
  <2>1. /\ at' = "take" /\ remap' = remap /\ refused' = refused
        /\ Retain({i \in DOMAIN created : created[i].src \notin refused.apps})
    BY <1>4, CalmFacts DEF EndRound, AnotherRound
  <2>2. {i \in DOMAIN created : created[i].src \notin refused.apps} = DOMAIN created
    BY CalmFacts
  <2> QED  BY <1>4, <2>1, <2>2
<1>5. CASE ~ (CheckPrincipal \/ Create \/ JudgePending \/ EndLoop \/ EndRound)
  <2>1. SameEntries /\ remap' = remap /\ refused' = refused
    BY <1>5, CalmFacts, EntriesStep DEF Calmly
  <2>2. \A i \in DOMAIN created : created'[i].warn = {}
    <3>1. CASE Ensure
      <4>1. Len(created) \in DOMAIN created
        BY <3>1, CalmFacts DEF Ensure, TypeInv, PlaceInv
      <4> QED  BY <1>0, <3>1, <4>1, CalmEnsure DEF Ensure
    <3>2. CASE TakePending
      <4>1. pos \in DOMAIN created
        BY <3>2, CalmFacts, TakeEffect
      <4> QED  BY <1>0, <3>2, <4>1, CalmEnsure DEF TakePending
    <3>3. CASE SecretStep
      <4>1. created' = created \/ created' = [created EXCEPT ![pos].left[Step] = @ - 1]
        BY <3>3 DEF SecretStep
      <4>2. ASSUME NEW i \in DOMAIN created PROVE created'[i].warn = {}
        <5>1. created[i] \in EntryRecs /\ pos \in DOMAIN created
          BY <3>3, CalmFacts, SecretEffect DEF TypeInv
        <5>2. created'[i].warn = created[i].warn
          BY <4>1, <5>1 DEF EntryRecs
        <5> QED  BY <5>2, CalmFacts
      <4> QED  BY <4>2
    <3>4. CASE \/ Classify \/ Lookup \/ CheckOwners \/ CheckFics \/ EndTake
      BY <1>0, <3>4 DEF Classify, Lookup, CheckOwners, CheckFics, EndTake, Refuse
    <3>5. CASE NextWire \/ SkipStep \/ PatchStep \/ ReadStep \/ FicStep \/ OwnerStep \/ EndWire
      BY <1>0, <3>5 DEF NextWire, SkipStep, PatchStep, ReadStep, FicStep, OwnerStep, EndWire
    <3>6. CASE Pass3 \/ Pass4
      BY <1>0, <3>6 DEF Pass3, NextConsent, Reread, Grant, Pass4, NextEnt, ApplySettings, AssignRole, JoinGroup
    <3>7. CASE Pass5
      BY <1>0, <3>7 DEF Pass5, ListIdentities, Rebind, Finish, locals
    <3>8. CASE UNCHANGED vars
      BY <1>0, <3>8 DEF vars, locals
    <3>9. [Next]_vars /\ ~ Begin
      BY DEF Calmly
    <3> QED  BY <1>5, <3>1, <3>2, <3>3, <3>4, <3>5, <3>6, <3>7, <3>8, <3>9, CalmFacts, NextCases DEF Pass1, Pass2
  <2> QED  BY <2>1, <2>2
<1> QED  BY <1>1, <1>2, <1>3, <1>4, <1>5

LEMMA CalmWarns ==
    ASSUME Calmly, NEW i \in DOMAIN created'
    PROVE  created'[i].warn = {}
<1>1. ASSUME NEW a, NEW adopted, NEW secrets, NEW pre, Keep(a, adopted, secrets, pre)
      PROVE  created'[i].warn = {}
  <2>1. /\ DOMAIN created' = DOMAIN created \cup {Len(created) + 1}
        /\ \A j \in DOMAIN created : created'[j] = created[j]
    BY <1>1, CalmFacts, KeepEffect
  <2>2. created'[Len(created) + 1].warn = {}
    BY <1>1, CalmFacts, KeepMakes
  <2> QED  BY <2>1, <2>2, CalmFacts
<1>2. CASE Retain(DOMAIN created)
  <2>1. PICK j \in DOMAIN created : created'[i] = created[j]
    BY <1>2, CalmFacts, RetainEffect
  <2> QED  BY <2>1, CalmFacts
<1>3. CASE SameEntries /\ \A j \in DOMAIN created : created'[j].warn = {}
  BY <1>3 DEF SameEntries
<1> QED  BY <1>1, <1>2, <1>3, CalmEntries

\* The session lives, and the principal the backup names is found.
LEMMA CalmLives ==
    ASSUME Calmly
    PROVE  ~ dead' /\ memo' \in {"unknown", "ok"}
<1>0. /\ ~ dead /\ memo \in {"unknown", "ok"} /\ trouble \in Nat /\ trouble' = trouble /\ ~ Stopped /\ TypeInv
      /\ [Next]_vars /\ ~ Begin /\ ~ Crash /\ ~ Around
  BY CalmFacts DEF Calmly
<1>1. CASE Classify
  BY <1>0, <1>1, CalmAnswer DEF Classify
<1>2. CASE Lookup
  BY <1>0, <1>2, CalmCandidates
<1>3. CASE CheckOwners \/ CheckFics
  BY <1>0, <1>3, CalmChecks
<1>4. CASE CheckPrincipal \/ Create
  BY <1>0, <1>4, CalmKeeps
<1>5. CASE Ensure
  <2>1. Len(created) \in DOMAIN created
    BY <1>5, CalmFacts DEF Ensure, TypeInv, PlaceInv
  <2> QED  BY <1>0, <1>5, <2>1, CalmEnsure DEF Ensure
<1>6. CASE TakePending
  <2>1. pos \in DOMAIN created
    BY <1>6, CalmFacts, TakeEffect
  <2> QED  BY <1>0, <1>6, <2>1, CalmEnsure DEF TakePending
<1>7. CASE JudgePending
  BY <1>0, <1>7, CalmJudges
<1>8. CASE EndLoop \/ EndRound \/ EndTake \/ NextWire \/ SkipStep \/ EndWire \/ NextConsent \/ Finish
  BY <1>0, <1>8 DEF EndLoop, EndRound, EndTake, NextWire, SkipStep, EndWire, NextConsent, Finish, stops, locals
<1>9. CASE ListIdentities \/ Rebind
  <2>1. memo' = memo
    BY <1>9 DEF ListIdentities, Rebind, locals
  <2>2. ~ dead'
    BY <1>0, <1>9, CalmAnswer DEF ListIdentities, Rebind
  <2> QED  BY <1>0, <2>1, <2>2
<1>10. CASE NextEnt
  <2>1. dead' = dead \/ \E o : Answered(Cost(o, FALSE), o = "fatal")
    BY <1>10 DEF NextEnt
  <2>2. ~ dead'
    BY <1>0, <2>1, CalmAnswer
  <2> QED  BY <1>0, <1>10, <2>2 DEF NextEnt
<1>11. ASSUME at = "wire", item > 0 PROVE Entry.id \in DOMAIN tenant /\ tenant[Entry.id].there
  BY <1>11, CalmFacts, EntryFacts DEF PlaceInv
<1>12. CASE PatchStep \/ SecretStep
  <2>1. ~ dead'
    BY <1>0, <1>11, <1>12, CalmWrite DEF PatchStep, SecretStep, Wiring
  <2> QED  BY <1>0, <1>12, <2>1 DEF PatchStep, SecretStep
<1>13. CASE ReadStep
  BY <1>0, <1>11, <1>13, CalmAnswer DEF ReadStep, Wiring
<1>14. CASE FicStep
  <2>1. ~ dead'
    BY <1>0, <1>11, <1>14, CalmAdd DEF FicStep, Wiring
  <2> QED  BY <1>0, <1>14, <2>1 DEF FicStep
<1>15. ASSUME NEW r \in Lookups, LookupCost(r) = 0, Remember(r) PROVE r = "ok" /\ memo' \in {"unknown", "ok"}
  BY <1>0, <1>15, CalmLookup DEF Remember
<1>16. ASSUME NEW r \in Lookups, Answered(LookupCost(r), r = "fatal") PROVE r = "ok" /\ ~ dead'
  <2>1. LookupCost(r) \in Nat
    BY <1>0, CalmLookup
  <2> QED  BY <1>0, <1>16, <2>1, CalmLookup, AnswerCost
<1>17. CASE OwnerStep
  <2>1. PICK r \in Lookups : /\ Remember(r)
                             /\ IF r = "ok" /\ ~ Exists
                                THEN Add(Entry.id, "owner", Warn("owner"))
                                ELSE Answered(LookupCost(r), r = "fatal")
    BY <1>17 DEF OwnerStep
  <2>2. r = "ok"
    BY <1>16, <2>1
  <2>3. ~ dead'
    BY <1>0, <1>11, <1>16, <1>17, <2>1, CalmAdd DEF OwnerStep, Wiring
  <2> QED  BY <2>1, <2>2, <2>3 DEF Remember
<1>18. CASE Reread
  <2>1. Entry.id \in DOMAIN tenant /\ tenant[Entry.id].there
    BY <1>18, CalmFacts, EntryFacts DEF Reread
  <2> QED  BY <1>0, <1>18, <2>1, CalmAnswer DEF Reread
<1>19. CASE Grant
  <2>1. Entry.id \in DOMAIN tenant /\ tenant[Entry.id].there
    BY <1>19, CalmFacts, EntryFacts DEF Grant, PlaceInv
  <2> QED  BY <1>0, <1>19, <2>1, CalmAnswer DEF Grant
<1>20. ASSUME at \in {"settings", "role", "group"} PROVE EntApp \in DOMAIN tenant /\ tenant[EntApp].there
  BY <1>20, CalmFacts, EntFacts DEF PlaceInv
<1>21. CASE AssignRole
  <2>1. PICK r \in Lookups : /\ Remember(r)
                             /\ IF r = "ok"
                                THEN Add(EntApp, "role", WarnEnt("role"))
                                ELSE Answered(LookupCost(r), r = "fatal")
    BY <1>0, <1>21 DEF AssignRole
  <2>2. r = "ok"
    BY <1>16, <2>1
  <2>3. ~ dead'
    BY <1>0, <1>20, <1>21, <2>1, <2>2, CalmAdd DEF AssignRole
  <2> QED  BY <2>1, <2>2, <2>3 DEF Remember
<1>22. CASE JoinGroup
  <2>1. ~ dead'
    BY <1>0, <1>20, <1>22, CalmAdd DEF JoinGroup
  <2> QED  BY <1>0, <1>22, <2>1 DEF JoinGroup
<1>23. CASE UNCHANGED vars
  BY <1>0, <1>23 DEF vars, stops, locals
<1>24. CASE ApplySettings
  <2>1. at = "settings" /\ memo' = memo
    BY <1>24 DEF ApplySettings
  <2>2. tenant[EntApp].there
    BY <1>20, <2>1
  <2>3. PICK o : Answered(Cost(o, o = "plain" /\ ~ tenant[EntApp].there), o = "fatal")
    BY <1>24 DEF ApplySettings
  <2>4. Cost(o, o = "plain" /\ ~ tenant[EntApp].there) = Cost(o, FALSE)
    BY <2>2 DEF Cost
  <2>5. ~ dead'
    BY <1>0, <2>3, <2>4, CalmAnswer
  <2> QED  BY <1>0, <2>1, <2>5
<1> QED  BY <1>0, <1>1, <1>2, <1>3, <1>4, <1>5, <1>6, <1>7, <1>8, <1>9, <1>10, <1>12, <1>13, <1>14, <1>17, <1>18,
            <1>19, <1>21, <1>22, <1>23, <1>24, NextCases DEF Pass1, Pass2, Pass3, Pass4, Pass5

LEMMA CalmKept ==
    ASSUME WholeInv, [Next]_vars
    PROVE  CalmInv'
<1> SUFFICES ASSUME Smooth' PROVE CalmInv'
  BY DEF CalmInv
<1>1. CASE Begin
  <2>1. /\ ~ cancelled' /\ ~ dead' /\ memo' = "unknown" /\ refused' = [apps |-> {}, again |-> FALSE] /\ created' = <<>>
    BY <1>1 DEF Begin
  <2> QED  BY <2>1 DEF CalmInv
<1>2. CASE ~ Begin
  <2>0. Calmly
    BY <1>2 DEF Calmly
  <2>1. ~ cancelled'
    <3>1. cancelled' = cancelled
      <4>1. CASE Classify \/ Pass1
        BY <4>1 DEF Classify, Pass1, EndLoop, Lookup, CheckOwners, CheckFics, CheckPrincipal, Create,
           Ensure, JudgePending, EndRound, TakePending, EndTake, stops
      <4>2. CASE Pass2
        BY <4>2 DEF Pass2, NextWire, SkipStep, PatchStep, ReadStep, FicStep, OwnerStep, SecretStep, EndWire, stops
      <4>3. CASE Pass3 \/ Pass4 \/ Pass5
        BY <4>3 DEF Pass3, NextConsent, Reread, Grant, Pass4, NextEnt, ApplySettings, AssignRole, JoinGroup, Pass5, ListIdentities,
           Rebind, Finish, stops
      <4>4. CASE UNCHANGED vars
        BY <4>4 DEF vars, stops
      <4> QED  BY <1>2, <2>0, <4>1, <4>2, <4>3, <4>4, CalmFacts, NextCases
    <3> QED  BY <2>0, <3>1, CalmFacts
  <2>2. refused'.apps = {} /\ ~ refused'.again
    BY <2>0, CalmFacts, CalmEntries
  <2> QED  BY <2>0, <2>1, <2>2, CalmLives, CalmWarns DEF CalmInv
<1> QED  BY <1>1, <1>2

LEMMA TakenOn ==
    ASSUME Calmly, NEW s, Taken(s)
    PROVE  Taken(s)'
<1>1. PICK i \in DOMAIN created : created[i].src = s
  BY DEF Taken
<1>2. CASE SameEntries /\ remap' = remap
  BY <1>1, <1>2 DEF Taken, SameEntries
<1>3. ASSUME NEW a, NEW adopted, NEW secrets, NEW pre, Keep(a, adopted, secrets, pre)
      PROVE  Taken(s)'
  <2>1. /\ DOMAIN created' = DOMAIN created \cup {Len(created) + 1}
        /\ \A j \in DOMAIN created : created'[j] = created[j]
        /\ DOMAIN remap' = DOMAIN remap \cup {Source}
    BY <1>3, CalmFacts, KeepEffect
  <2> QED  BY <1>1, <2>1 DEF Taken
<1>4. CASE Retain(DOMAIN created) /\ remap' = remap
  <2>1. PICK j \in DOMAIN created' : created'[j] = created[i]
    BY <1>1, <1>4, CalmFacts, RetainEffect
  <2> QED  BY <1>1, <1>4, <2>1 DEF Taken
<1> QED  BY <1>2, <1>3, <1>4, CalmEntries

LEMMA KeepTakes ==
    ASSUME TypeInv, NEW a, NEW adopted, NEW secrets, NEW pre, Keep(a, adopted, secrets, pre), NEW s, s = Source
    PROVE  Taken(s)' /\ \/ at' = "ensure" /\ pos' = pos
                        \/ at' = "lookup" /\ pos' = pos + 1
<1>1. /\ Len(created) + 1 \in DOMAIN created' /\ created'[Len(created) + 1].src = Source
      /\ DOMAIN remap' = DOMAIN remap \cup {Source}
      /\ \/ at' = "ensure" /\ pos' = pos
         \/ at' = "lookup" /\ pos' = pos + 1
  BY KeepEffect
<1> QED  BY <1>1 DEF Taken

\* The loop goes on to the next app when it has taken the one it is at.
LEMMA LoopTakes ==
    ASSUME Calmly, at \in Looping, at' \in Looping, NEW s, s = Source
    PROVE  \/ pos' = pos /\ (at' = "ensure" <=> at = "ensure")
           \/ pos' = pos /\ at' = "ensure" /\ Taken(s)'
           \/ pos' = pos + 1 /\ at' # "ensure" /\ (at = "ensure" \/ Taken(s)')
<1>0. TypeInv /\ BaseInv /\ [Next]_vars /\ ~ Begin /\ ~ Crash /\ ~ Around
  BY CalmFacts DEF Calmly
<1>1. CASE Lookup
  BY <1>1, CalmCandidates DEF Lookup
<1>2. CASE CheckOwners \/ CheckFics
  BY <1>2, CalmChecks DEF CheckOwners, CheckFics
<1>3. CASE CheckPrincipal
  <2>1. Keep(hit.id, TRUE, hit.secrets, hit.pre)
    BY <1>3, CalmKeeps
  <2> QED  BY <1>0, <2>1, KeepTakes
<1>4. CASE Create
  <2>1. Keep(Len(tenant'), FALSE, [k \in Keys |-> 0], {})
    BY <1>4, CalmKeeps
  <2> QED  BY <1>0, <2>1, KeepTakes
<1>5. CASE Ensure
  BY <1>5 DEF Ensure, NextApp
<1>6. CASE UNCHANGED vars
  BY <1>6 DEF vars, locals
<1>7. CASE Classify \/ EndLoop \/ JudgePending \/ EndRound \/ TakePending \/ EndTake
  BY <1>7 DEF Classify, EndLoop, JudgePending, EndRound, TakePending, EndTake, Looping, Checking
<1>8. CASE Pass2 \/ Pass3 \/ Pass4 \/ Pass5
  BY <1>0, <1>8, StagesLater DEF Looping, Checking
<1> QED  BY <1>0, <1>1, <1>2, <1>3, <1>4, <1>5, <1>6, <1>7, <1>8, NextCases DEF Pass1

LEMMA TakenKept ==
    ASSUME WholeInv, [Next]_vars
    PROVE  TakenInv'
<1> SUFFICES ASSUME Smooth' PROVE TakenInv'
  BY DEF TakenInv
<1>1. CASE Begin
  <2>1. at' = "classify"
    BY <1>1 DEF Begin
  <2> QED  BY <2>1 DEF TakenInv, Looped1, Wired, Ending, Checking
<1>2. CASE ~ Begin
  <2>a. Calmly
    BY <1>2 DEF Calmly
  <2>0. /\ manifest' = manifest /\ pos \in Nat /\ manifest.apps \in Seq(Apps) /\ Apps' = Apps
        /\ TakenInv /\ Smooth /\ BaseInv /\ AccountedInv
    BY <2>a, CalmFacts, ManifestFacts DEF TypeInv, Apps, Calmly, WholeInv, ConvInv, ReportInv
  <2>2. ASSUME NEW s, Taken(s) PROVE Taken(s)'
    BY <2>a, <2>2, TakenOn
  <2>3. ASSUME at' \in Looping, NEW j \in DOMAIN manifest.apps, IF at' = "ensure" THEN j <= pos' ELSE j < pos'
        PROVE  Taken(manifest.apps[j])'
    <3>1. SUFFICES ASSUME NEW s, s = manifest.apps[j] PROVE Taken(s)'
      BY <2>0 DEF Taken
    <3>2. at \in Looping \/ Classify
      BY <2>0, <2>3, StageStep DEF Looping
    <3>3. CASE Classify
      <4>1. at' = "lookup" /\ pos' = 1
        BY <2>0, <3>3 DEF Classify, AccountedInv
      <4> QED  BY <2>0, <2>3, <4>1
    <3>4. CASE at \in Looping
      <4>0. j \in Nat
        BY <2>0
      <4>1. (IF at = "ensure" THEN j <= pos ELSE j < pos) => Taken(s)'
        BY <2>0, <2>2, <3>1, <3>4 DEF TakenInv, Looping
      <4>2. CASE pos' = pos /\ (at' = "ensure" <=> at = "ensure")
        BY <2>3, <4>1, <4>2
      <4>3. CASE j < pos
        BY <2>0, <4>0, <4>1, <4>3
      <4>4. CASE j >= pos
        <5>1. ASSUME j = pos PROVE s = Source
          BY <3>1, <5>1 DEF Source
        <5>2. CASE pos' = pos /\ at' = "ensure" /\ ~ (at = "ensure")
          <6>1. j = pos
            BY <2>0, <2>3, <4>0, <4>4, <5>2
          <6> QED  BY <2>a, <2>3, <3>4, <5>1, <5>2, <6>1, LoopTakes
        <5>3. CASE pos' = pos + 1 /\ at' # "ensure"
          <6>1. j = pos
            BY <2>0, <2>3, <4>0, <4>4, <5>3
          <6>2. CASE at = "ensure"
            BY <2>0, <4>1, <6>1, <6>2
          <6>3. CASE at # "ensure"
            <7>1. Taken(s)' \/ pos' = pos
              BY <2>a, <2>3, <3>4, <5>1, <6>1, <6>3, LoopTakes
            <7> QED  BY <2>0, <5>3, <7>1
          <6> QED  BY <6>2, <6>3
        <5> QED  BY <2>a, <2>3, <3>4, <4>2, <5>2, <5>3, LoopTakes
      <4> QED  BY <2>0, <4>0, <4>3, <4>4
    <3> QED  BY <3>2, <3>3, <3>4
  <2>5. ASSUME at' \in Looped1, NEW s \in Apps PROVE Taken(s)'
    <3>2. CASE EndLoop
      <4>1. PICK j \in DOMAIN manifest.apps : s = manifest.apps[j]
        BY DEF Apps, ToSet
      <4>2. j < pos /\ at = "lookup"
        BY <2>a, <2>0, <3>2, CalmFacts DEF EndLoop
      <4>3. Taken(s)
        BY <2>0, <4>1, <4>2 DEF TakenInv
      <4> QED  BY <2>2, <4>3
    <3>3. CASE at \in Looped1
      BY <2>0, <2>2, <3>3 DEF TakenInv
    <3> QED  BY <2>0, <2>5, <3>2, <3>3, AfterLoop
  <2>6. /\ at' \in {"lookup", "create"} \cup Checking => at' \in Looping /\ at' # "ensure"
        /\ at' = "ensure" => at' \in Looping
    BY DEF Looping, Checking
  <2>7. (at' \in {"lookup", "create"} \cup Checking =>
           \A j \in DOMAIN manifest.apps : j < pos' => Taken(manifest.apps[j])')
    BY <2>3, <2>6
  <2>8. at' = "ensure" => \A j \in DOMAIN manifest.apps : j <= pos' => Taken(manifest.apps[j])'
    BY <2>3, <2>6
  <2>9. at' \in Looped1 => \A s \in Apps : Taken(s)'
    BY <2>5
  <2> QED  BY <2>0, <2>7, <2>8, <2>9 DEF TakenInv, Taken
<1> QED  BY <1>1, <1>2

-----------------------------------------------------------------------------
(* No step of the wiring comes twice.                                      *)

Once(t, S) == t \in Seq(S) /\ \A j, k \in DOMAIN t : t[j] = t[k] => j = k

LEMMA OnceMore ==
    ASSUME NEW S, NEW u, Once(u, S), NEW w, w \notin S, NEW b \in BOOLEAN, NEW T, T = S \cup {w}
    PROVE  Once(u \o When(b, <<w>>), T)
<1>0. u \in Seq(S) /\ u \in Seq(T) /\ \A j \in DOMAIN u : u[j] \in S
  BY DEF Once
<1>1. CASE b
  <2>1. When(b, <<w>>) = <<w>>
    BY <1>1 DEF When
  <2>2. PICK v : v = <<w>>
    OBVIOUS
  <2>3. v \in Seq(T) /\ DOMAIN v = {1} /\ v[1] = w
    BY <2>2
  <2>4. \A j, k \in DOMAIN (u \o v) : (u \o v)[j] = (u \o v)[k] => j = k
    <3>1. SUFFICES ASSUME NEW j \in DOMAIN (u \o v), NEW k \in DOMAIN (u \o v), (u \o v)[j] = (u \o v)[k]
                   PROVE  j = k
      OBVIOUS
    <3>2. /\ \A i \in DOMAIN u : (u \o v)[i] = u[i]
          /\ \A i \in DOMAIN (u \o v) : i \notin DOMAIN u => i - Len(u) \in DOMAIN v /\ (u \o v)[i] = v[i - Len(u)]
          /\ u \o v \in Seq(T) /\ Len(u) \in Nat
      BY <1>0, <2>3, Concatenation
    <3>3. \A i \in DOMAIN (u \o v) : i \notin DOMAIN u => i = Len(u) + 1 /\ (u \o v)[i] = w
      BY <2>3, <3>2
    <3>4. CASE j \in DOMAIN u /\ k \in DOMAIN u
      BY <3>1, <3>2, <3>4 DEF Once
    <3>5. CASE j \notin DOMAIN u /\ k \notin DOMAIN u
      BY <3>3, <3>5
    <3>6. CASE (j \in DOMAIN u /\ k \notin DOMAIN u) \/ (j \notin DOMAIN u /\ k \in DOMAIN u)
      BY <1>0, <3>1, <3>2, <3>3, <3>6
    <3> QED  BY <3>4, <3>5, <3>6
  <2>5. u \o v \in Seq(T)
    BY <1>0, <2>3, Concatenation
  <2> QED  BY <2>1, <2>2, <2>4, <2>5 DEF Once
<1>2. CASE ~ b
  <2>1. u \o When(b, <<w>>) = u
    BY <1>0, <1>2, NothingMore DEF When
  <2> QED  BY <1>0, <2>1 DEF Once
<1> QED  BY <1>1, <1>2

LEMMA BeforeOnce ==
    ASSUME NEW c \in EntryRecs
    PROVE  \A j, k \in DOMAIN Before(c) : Before(c)[j] = Before(c)[k] => j = k
<1> DEFINE fics == c.src \in manifest.fics \ withheld
           owners == c.src \in manifest.owners \ withheld
           t1 == When(manifest.perms[c.src] # {}, <<"perms">>)
           t2 == t1 \o When(manifest.pre[c.src] # {}, <<"expose">>)
           t3 == t2 \o When(c.src \in manifest.auth, <<"auth">>)
           t4 == t3 \o When(fics /\ c.adopted, <<"readfics">>)
           t5 == t4 \o When(fics, <<"fic">>)
           t6 == t5 \o When(owners /\ c.adopted, <<"readowners">>)
           t7 == t6 \o When(owners, <<"owner">>)
           S1 == {"perms"}
           S2 == S1 \cup {"expose"}
           S3 == S2 \cup {"auth"}
           S4 == S3 \cup {"readfics"}
           S5 == S4 \cup {"fic"}
           S6 == S5 \cup {"readowners"}
           S7 == S6 \cup {"owner"}
<1>0. Before(c) = t7
  BY DEF Before
<1>1. Once(t1, S1)
  <2>1. <<"perms">> \in Seq(S1) /\ <<>> \in Seq(S1)
    OBVIOUS
  <2> QED  BY <2>1 DEF Once, When
<1>a. c.adopted \in BOOLEAN
  BY DEF EntryRecs
<1>b. (fics /\ c.adopted) \in BOOLEAN /\ fics \in BOOLEAN /\ (owners /\ c.adopted) \in BOOLEAN /\ owners \in BOOLEAN
      /\ (manifest.pre[c.src] # {}) \in BOOLEAN /\ (c.src \in manifest.auth) \in BOOLEAN
  BY <1>a
<1>c. /\ "expose" \notin S1 /\ "auth" \notin S2 /\ "readfics" \notin S3 /\ "fic" \notin S4 /\ "readowners" \notin S5
      /\ "owner" \notin S6
  OBVIOUS
<1>2. Once(t2, S2)
  <2> HIDE DEF t1, S1
  <2> QED  BY <1>1, <1>b, <1>c, OnceMore
<1>3. Once(t3, S3)
  <2> HIDE DEF t2, S2
  <2> QED  BY <1>2, <1>b, <1>c, OnceMore
<1>4. Once(t4, S4)
  <2> HIDE DEF t3, S3
  <2> QED  BY <1>3, <1>b, <1>c, OnceMore
<1>5. Once(t5, S5)
  <2> HIDE DEF t4, S4
  <2> QED  BY <1>4, <1>b, <1>c, OnceMore
<1>6. Once(t6, S6)
  <2> HIDE DEF t5, S5
  <2> QED  BY <1>5, <1>b, <1>c, OnceMore
<1>7. Once(t7, S7)
  <2> HIDE DEF t6, S6
  <2> QED  BY <1>6, <1>b, <1>c, OnceMore
<1> HIDE DEF t7
<1> QED  BY <1>0, <1>7 DEF Once

-----------------------------------------------------------------------------
(* What the apps of a smooth run have, and when.                           *)

\* Nobody but the step for it gives an app a credential or an owner.
LEMMA GivenByStep ==
    ASSUME Calmly, NEW a \in DOMAIN tenant
    PROVE  /\ tenant'[a].fic = tenant[a].fic \/ (FicStep /\ a = Entry.id)
           /\ tenant'[a].owner = tenant[a].owner \/ (OwnerStep /\ a = Entry.id)
<1>0. TypeInv /\ ~ edited'
  BY CalmFacts DEF Calmly, Smooth
<1>1. ASSUME NEW b, NEW F, OneAltered(b, F)
      PROVE  /\ "fic" \notin F => tenant'[a].fic = tenant[a].fic
             /\ "owner" \notin F => tenant'[a].owner = tenant[a].owner
             /\ a # b => tenant'[a] = tenant[a]
  <2>1. Alters(tenant[a], tenant'[a], F) /\ (a # b => tenant'[a] = tenant[a])
    BY <1>0, <1>1, AlteredGrows
  <2> QED  BY <2>1 DEF Alters
<1>2. CASE tenant' = tenant
  BY <1>2
<1>3. CASE Source \in Apps /\ tenant' = Append(tenant, NewApp(Source))
  <2>1. tenant'[a] = tenant[a]
    BY <1>0, <1>3, NewAppFacts, AppendGrows
  <2> QED  BY <2>1
<1>4. CASE PatchStep /\ OneAltered(Entry.id, {"perms", "pre", "auth"})
  BY <1>1, <1>4
<1>5. CASE FicStep /\ OneAltered(Entry.id, {"fic"})
  BY <1>1, <1>5
<1>6. CASE OwnerStep /\ OneAltered(Entry.id, {"owner"})
  BY <1>1, <1>6
<1>7. ASSUME NEW b, OneAltered(b, {"sp", "consent", "secrets", "role", "group"})
      PROVE  tenant'[a].fic = tenant[a].fic /\ tenant'[a].owner = tenant[a].owner
  BY <1>1, <1>7
<1> QED  BY <1>0, <1>2, <1>3, <1>4, <1>5, <1>6, <1>7, CalmFacts, OwnStep DEF Calmly

\* Different entries are of different apps.
LEMMA EntriesDiffer ==
    ASSUME BaseInv, NEW i \in DOMAIN created, NEW j \in DOMAIN created, created[i].id = created[j].id
    PROVE  i = j
BY DEF BaseInv, EntriesInv, OrderInv

LEMMA FreshStays ==
    ASSUME Calmly, NEW i \in DOMAIN created, Unwired(i),
           ~ tenant[created[i].id].fic, ~ tenant[created[i].id].owner
    PROVE  ~ tenant'[created[i].id].fic /\ ~ tenant'[created[i].id].owner
<1>1. created[i].id \in DOMAIN tenant
  BY CalmFacts DEF EntriesInv
<1>2. ~ ((FicStep \/ OwnerStep) /\ created[i].id = Entry.id)
  <2>1. SUFFICES ASSUME FicStep \/ OwnerStep, created[i].id = Entry.id PROVE FALSE
    OBVIOUS
  <2>2. at = "wire" /\ item > 0 /\ pos \in DOMAIN created /\ pos \in Nat /\ i \in Nat /\ item \in Nat
    BY <2>1, CalmFacts, EntryFacts DEF FicStep, OwnerStep, Wiring, PlaceInv, TypeInv
  <2>3. i = pos
    BY <2>1, <2>2, CalmFacts, EntriesDiffer DEF Entry
  <2> QED  BY <2>2, <2>3 DEF Unwired, Checking
<1> QED  BY <1>1, <1>2, GivenByStep

\* The first half of FreshInv.
LEMMA FreshEntries ==
    ASSUME Calmly, NEW i \in DOMAIN created', Unwired(i)', ~ created'[i].adopted
    PROVE  ~ tenant'[created'[i].id].fic /\ ~ tenant'[created'[i].id].owner
<1>0. FreshInv /\ Smooth /\ BaseInv /\ TypeInv /\ PlaceInv /\ EntriesInv /\ [Next]_vars /\ ~ Begin
  BY CalmFacts DEF Calmly, WholeInv, ConvInv
<1>1. ASSUME NEW j \in DOMAIN created, Unwired(j), ~ created[j].adopted
      PROVE  ~ tenant'[created[j].id].fic /\ ~ tenant'[created[j].id].owner
  <2>1. ~ tenant[created[j].id].fic /\ ~ tenant[created[j].id].owner
    BY <1>0, <1>1 DEF FreshInv
  <2> QED  BY <1>1, <2>1, FreshStays
<1>2. CASE SameEntries
  <2>1. i \in DOMAIN created /\ created'[i].id = created[i].id /\ created'[i].adopted = created[i].adopted
    BY <1>2 DEF SameEntries
  <2>2. Unwired(i)
    <3>1. CASE Classify
      BY <1>0, <2>1, <3>1 DEF Classify, PlaceInv
    <3>2. CASE SecretStep
      <4>1. at = "wire" /\ at' = at /\ pos' = pos /\ item > 0 /\ item' = item + 1 /\ item \in Nat
        BY <1>0, <3>2 DEF SecretStep, Wiring, TypeInv
      <4> QED  BY <4>1 DEF Unwired, Checking
    <3>3. CASE ~ Classify /\ ~ SecretStep
      BY <1>0, <2>1, <3>3, UnwiredShrinks, NextCases DEF Pass1, Pass2
    <3> QED  BY <3>1, <3>2, <3>3
  <2> QED  BY <1>1, <2>1, <2>2
<1>3. ASSUME NEW a, NEW adopted, NEW secrets, NEW pre, Keep(a, adopted, secrets, pre), at \in {"create", "principal"},
             adopted \/ (~ tenant'[a].fic /\ ~ tenant'[a].owner)
      PROVE  ~ tenant'[created'[i].id].fic /\ ~ tenant'[created'[i].id].owner
  <2>1. /\ DOMAIN created' = DOMAIN created \cup {Len(created) + 1}
        /\ \A j \in DOMAIN created : created'[j] = created[j]
        /\ created'[Len(created) + 1].id = a /\ created'[Len(created) + 1].adopted = adopted
    BY <1>0, <1>3, KeepEffect, KeepMakes
  <2>2. CASE i \in DOMAIN created
    BY <1>1, <1>3, <2>1, <2>2 DEF Unwired, Checking
  <2>3. CASE i = Len(created) + 1
    BY <1>3, <2>1, <2>3
  <2> QED  BY <2>1, <2>2, <2>3
<1>4. CASE CheckPrincipal /\ Keep(hit.id, TRUE, hit.secrets, hit.pre)
  <2>1. at \in {"create", "principal"}
    BY <1>4 DEF CheckPrincipal
  <2> QED  BY <1>3, <1>4, <2>1
<1>5. CASE Create /\ tenant' = Append(tenant, NewApp(Source)) /\ Keep(Len(tenant'), FALSE, [k \in Keys |-> 0], {})
  <2>1. at \in {"create", "principal"} /\ Source \in Apps
    BY <1>0, <1>5, CreateEffect DEF Create
  <2>2. tenant'[Len(tenant')] = NewApp(Source)
    BY <1>0, <1>5, <2>1, NewAppFacts, AppendGrows
  <2>3. ~ tenant'[Len(tenant')].fic /\ ~ tenant'[Len(tenant')].owner
    BY <2>1, <2>2, NewAppFacts
  <2> QED  BY <1>3, <1>5, <2>1, <2>3
<1>6. CASE EndRound /\ Retain(DOMAIN created)
  <2>1. PICK j \in DOMAIN created : created'[i] = created[j]
    BY <1>0, <1>6, RetainEffect
  <2> QED  BY <1>1, <1>6, <2>1 DEF EndRound, Unwired
<1> QED  BY <1>2, <1>4, <1>5, <1>6, CalmEntries

\* What the run reads of an adopted app is what the app has.
LEMMA ReadSees ==
    ASSUME Calmly, Inner
    PROVE  /\ Step = "readfics" /\ tenant'[Entry.id].fic => hit'
           /\ Step = "readowners" /\ tenant'[Entry.id].owner => hit'
<1>1. CASE ReadStep
  <2>1. tenant' = tenant
    BY <1>1 DEF ReadStep, world
  <2>2. PICK o : /\ Answered(Cost(o, ~tenant[Entry.id].there), o = "fatal")
                 /\ hit' = (o = "ok" /\ IF Step = "readfics" THEN tenant[Entry.id].fic ELSE tenant[Entry.id].owner)
    BY <1>1 DEF ReadStep
  <2>3. tenant[Entry.id].there
    BY <1>1, CalmFacts, EntryFacts DEF ReadStep, Wiring, PlaceInv
  <2>4. o = "ok"
    BY <2>2, <2>3, CalmFacts, CalmAnswer
  <2>5. Step = "readfics" /\ tenant[Entry.id].fic => hit'
    BY <2>2, <2>4, Zenon
  <2>6. Step = "readowners" /\ tenant[Entry.id].owner => hit'
    <3>1. Step = "readowners" => Step # "readfics"
      OBVIOUS
    <3> QED  BY <2>2, <2>4, <3>1, Zenon
  <2> QED  BY <2>1, <2>5, <2>6
<1>2. CASE SkipStep \/ PatchStep \/ FicStep \/ OwnerStep \/ SecretStep
  <2>1. Step \notin {"readfics", "readowners"}
    BY <1>2 DEF SkipStep, PatchStep, FicStep, OwnerStep, SecretStep, Wiring, Looped, Keys
  <2> QED  BY <2>1
<1> QED  BY <1>1, <1>2 DEF Inner

\* The second half, as what holds of the entry being wired.
Expected ==
    /\ ~ Entry.adopted => \A w \in {"fic", "owner"} :
         tenant[Entry.id][w] => \E j \in DOMAIN Before(Entry) : j < item /\ Before(Entry)[j] = w
    /\ item - 1 \in DOMAIN Before(Entry) =>
         /\ Before(Entry)[item - 1] = "readfics" /\ tenant[Entry.id].fic => hit
         /\ Before(Entry)[item - 1] = "readowners" /\ tenant[Entry.id].owner => hit

\* The steps that leave the run in the middle of an app.
LEMMA WiringSteps ==
    ASSUME Calmly, at' = "wire", item' > 0
    PROVE  \/ NextWire /\ item' = 1 /\ pos' = pos /\ pos \in DOMAIN created /\ created' = created /\ tenant' = tenant
              /\ at = "wire" /\ item = 0
           \/ Inner
           \/ UNCHANGED vars
<1>0. [Next]_vars /\ ~ Begin /\ BaseInv /\ TypeInv /\ ReportShape /\ RowsInv /\ ~ Crash /\ ~ Around
  BY CalmFacts DEF Calmly
<1>1. CASE NextWire
  BY <1>0, <1>1, NextWireReport DEF NextWire, world
<1>2. CASE Classify \/ Pass1
  BY <1>0, <1>2, StagesLater DEF EndTake, Early, Unsettled, Checking
<1>3. CASE EndWire
  BY <1>3 DEF EndWire
<1>4. CASE Pass3 \/ Pass4 \/ Pass5
  BY <1>0, <1>4, StagesLater
<1> QED  BY <1>0, <1>1, <1>2, <1>3, <1>4, NextCases DEF Pass2, Inner

LEMMA ExpectedOn ==
    ASSUME Calmly, at' = "wire", item' > 0
    PROVE  Expected'
<1>0. /\ FreshInv /\ Smooth /\ BaseInv /\ TypeInv /\ PlaceInv /\ EntriesInv /\ item \in Nat
  BY CalmFacts DEF Calmly, WholeInv, ConvInv, TypeInv
<1>1. CASE NextWire /\ item' = 1 /\ pos' = pos /\ pos \in DOMAIN created /\ created' = created /\ tenant' = tenant
           /\ at = "wire" /\ item = 0
  <2>1. ~ Entry.adopted => ~ tenant[Entry.id].fic /\ ~ tenant[Entry.id].owner
    BY <1>0, <1>1 DEF FreshInv, Unwired, Entry
  <2>2. Entry' = Entry /\ tenant' = tenant
    BY <1>1 DEF Entry
  <2>3. item' - 1 = 0
    BY <1>1
  <2>4. Before(Entry)' \in Seq(BeforeSteps(Entry)')
    <3>1. manifest' = manifest /\ withheld' = withheld
      BY <1>1, CalmFacts DEF NextWire
    <3>2. Before(Entry) \in Seq(BeforeSteps(Entry)) /\ SameEntries
      BY <1>0, <1>1, EntryFacts, BeforeFacts, SameEntriesStay
    <3>3. Before(Entry)' = Before(Entry)
      BY <1>1, <3>1, <3>2, BeforeSame
    <3>4. BeforeSteps(Entry)' = BeforeSteps(Entry)
      BY <2>2, <3>1 DEF BeforeSteps
    <3> QED  BY <3>2, <3>3, <3>4
  <2>5. ~ (item' - 1 \in DOMAIN (Before(Entry)'))
    BY <2>3, <2>4
  <2>6. (~ Entry.adopted => \A w \in {"fic", "owner"} :
           tenant[Entry.id][w] => \E j \in DOMAIN Before(Entry) : j < item /\ Before(Entry)[j] = w)'
    BY <2>1, <2>2
  <2> QED  BY <2>5, <2>6 DEF Expected
<1>2. CASE Inner \/ (UNCHANGED vars /\ at = "wire" /\ item > 0)
  <2>0. /\ at = "wire" /\ item > 0 /\ pos' = pos /\ manifest' = manifest /\ withheld' = withheld
        /\ item' = item + 1 \/ item' = item
    BY <1>2, InnerFacts DEF vars, locals
  <2>1. pos <= Len(created) /\ pos \in DOMAIN created /\ Entry.id \in DOMAIN tenant /\ Entry \in EntryRecs
    BY <1>0, <2>0, EntryFacts DEF PlaceInv
  <2>2. SameEntries
    <3>1. CASE Inner
      BY <2>0, <3>1, CalmEntries DEF CheckPrincipal, Create, EndRound
    <3>2. CASE UNCHANGED vars
      BY <1>0, <3>2, SameEntriesStay DEF vars, locals
    <3> QED  BY <1>2, <3>1, <3>2
  <2>3. Before(Entry)' = Before(Entry) /\ Entry'.id = Entry.id /\ Entry' = created'[pos]
    BY <2>0, <2>1, <2>2, BeforeSame
  <2>4. Entry'.adopted = Entry.adopted
    BY <2>1, <2>2, <2>3 DEF SameEntries, Entry
  <2>5. Expected
    BY <1>0, <2>0 DEF FreshInv, Expected
  <2>6. Before(Entry) \in Seq(BeforeSteps(Entry))
    BY <2>1, BeforeFacts
  <2>7. ASSUME ~ Entry.adopted, NEW w \in {"fic", "owner"}, tenant'[Entry.id][w]
        PROVE  \E j \in DOMAIN Before(Entry) : j < item' /\ Before(Entry)[j] = w
    <3>1. CASE tenant[Entry.id][w]
      <4>1. PICK j \in DOMAIN Before(Entry) : j < item /\ Before(Entry)[j] = w
        BY <2>5, <2>7, <3>1 DEF Expected
      <4>2. j < item'
        BY <1>0, <2>0, <2>6, <4>1
      <4> QED  BY <4>1, <4>2
    <3>2. CASE ~ tenant[Entry.id][w]
      <4>1. (FicStep /\ w = "fic") \/ (OwnerStep /\ w = "owner")
        BY <2>1, <2>7, <3>2, GivenByStep
      <4>2. Step = w /\ item <= Len(Steps(Entry)) /\ item' = item + 1
        BY <4>1 DEF FicStep, OwnerStep, Wiring
      <4>3. item \in DOMAIN Before(Entry) /\ Before(Entry)[item] = w
        BY <1>0, <2>0, <2>1, <4>2, AtStep DEF Keys
      <4> QED  BY <1>0, <4>2, <4>3
    <3> QED  BY <3>1, <3>2
  <2>8. ASSUME item' - 1 \in DOMAIN Before(Entry)
        PROVE  /\ Before(Entry)[item' - 1] = "readfics" /\ tenant'[Entry.id].fic => hit'
               /\ Before(Entry)[item' - 1] = "readowners" /\ tenant'[Entry.id].owner => hit'
    <3>1. CASE Inner
      <4>1. item' = item + 1 /\ item <= Len(Steps(Entry)) /\ item' - 1 = item
        BY <1>0, <3>1, InnerFacts
      <4>2. Step = Before(Entry)[item]
        BY <1>0, <2>0, <2>1, <2>8, <4>1, AtStep
      <4> QED  BY <3>1, <4>1, <4>2, ReadSees
    <3>2. CASE UNCHANGED vars
      <4>1. item' = item /\ tenant' = tenant /\ hit' = hit
        BY <3>2 DEF vars, locals, world
      <4> QED  BY <2>5, <2>8, <4>1 DEF Expected
    <3> QED  BY <1>2, <3>1, <3>2
  <2>9. (~ Entry.adopted => \A w \in {"fic", "owner"} :
           tenant[Entry.id][w] => \E j \in DOMAIN Before(Entry) : j < item /\ Before(Entry)[j] = w)'
    BY <2>3, <2>4, <2>7
  <2>10. (item - 1 \in DOMAIN Before(Entry) =>
            /\ Before(Entry)[item - 1] = "readfics" /\ tenant[Entry.id].fic => hit
            /\ Before(Entry)[item - 1] = "readowners" /\ tenant[Entry.id].owner => hit)'
    BY <2>3, <2>8
  <2> QED  BY <2>9, <2>10 DEF Expected
<1>3. UNCHANGED vars => at = "wire" /\ item > 0
  BY DEF vars, locals
<1> QED  BY <1>1, <1>2, <1>3, WiringSteps

LEMMA FreshKept ==
    ASSUME WholeInv, [Next]_vars
    PROVE  FreshInv'
<1> SUFFICES ASSUME Smooth' PROVE FreshInv'
  BY DEF FreshInv
<1>1. CASE Begin
  <2>1. created' = <<>> /\ at' = "classify"
    BY <1>1 DEF Begin
  <2> QED  BY <2>1 DEF FreshInv
<1>2. CASE ~ Begin
  <2>1. Calmly
    BY <1>2 DEF Calmly
  <2>2. (\A i \in DOMAIN created : Unwired(i) /\ ~ created[i].adopted =>
           ~ tenant[created[i].id].fic /\ ~ tenant[created[i].id].owner)'
    <3>1. SUFFICES ASSUME NEW i \in DOMAIN created', Unwired(i)', ~ created'[i].adopted
                   PROVE  ~ tenant'[created'[i].id].fic /\ ~ tenant'[created'[i].id].owner
      BY DEF Unwired
    <3> QED  BY <2>1, <3>1, FreshEntries
  <2>3. (at = "wire" /\ item > 0 => Expected)'
    BY <2>1, ExpectedOn
  <2> QED  BY <2>2, <2>3 DEF FreshInv, Expected
<1> QED  BY <1>1, <1>2

-----------------------------------------------------------------------------
(* No step of a smooth run warns.                                          *)

\* Nobody but the PATCH for it replaces the permissions an app declares.
LEMMA PermsByStep ==
    ASSUME Calmly, NEW a \in DOMAIN tenant
    PROVE  tenant'[a].perms = tenant[a].perms \/ (PatchStep /\ a = Entry.id)
<1>0. TypeInv /\ ~ edited'
  BY CalmFacts DEF Calmly, Smooth
<1>1. ASSUME NEW b, NEW F, OneAltered(b, F)
      PROVE  /\ "perms" \notin F => tenant'[a].perms = tenant[a].perms
             /\ a # b => tenant'[a] = tenant[a]
  <2>1. Alters(tenant[a], tenant'[a], F) /\ (a # b => tenant'[a] = tenant[a])
    BY <1>0, <1>1, AlteredGrows
  <2> QED  BY <2>1 DEF Alters
<1>2. CASE tenant' = tenant
  BY <1>2
<1>3. CASE Source \in Apps /\ tenant' = Append(tenant, NewApp(Source))
  <2>1. tenant'[a] = tenant[a]
    BY <1>0, <1>3, NewAppFacts, AppendGrows
  <2> QED  BY <2>1
<1>4. CASE PatchStep /\ OneAltered(Entry.id, {"perms", "pre", "auth"})
  BY <1>1, <1>4
<1>5. CASE FicStep /\ OneAltered(Entry.id, {"fic"})
  BY <1>1, <1>5
<1>6. CASE OwnerStep /\ OneAltered(Entry.id, {"owner"})
  BY <1>1, <1>6
<1>7. ASSUME NEW b, OneAltered(b, {"sp", "consent", "secrets", "role", "group"})
      PROVE  tenant'[a].perms = tenant[a].perms
  BY <1>1, <1>7
<1> QED  BY <1>0, <1>2, <1>3, <1>4, <1>5, <1>6, <1>7, CalmFacts, OwnStep DEF Calmly

LEMMA CalmPatch ==
    ASSUME Calmly, PatchStep
    PROVE  /\ report' = report
           /\ Step = "perms" => tenant'[Entry.id].perms = remap_required_resource_access(Entry.src)
<1> DEFINE a == Entry.id
           x == tenant[a]
           P == Patched(a, Entry.src)
           A == [x EXCEPT !.perms = remap_required_resource_access(Entry.src)]
<1>1. a \in DOMAIN tenant /\ x \in AppRecs /\ x.there
  <2>1. pos <= Len(created)
    BY CalmFacts DEF PatchStep, Wiring, PlaceInv
  <2> QED  BY <2>1, CalmFacts, EntryFacts
<1>2. PICK o : Write(a, o, P[Step]) /\ (o = "ok" => report' = report)
  BY DEF PatchStep
<1>3. o = "ok" /\ tenant' = [tenant EXCEPT ![a] = P[Step]]
  <2> HIDE DEF P
  <2> QED  BY <1>1, <1>2, CalmFacts, CalmWrite
<1>4. P["perms"] = A
  BY DEF Patched
<1>5. A.perms = remap_required_resource_access(Entry.src)
  <2> HIDE DEF x
  <2> QED  BY <1>1 DEF AppRecs
<1> HIDE DEF P, A
<1>6. Step = "perms" => tenant'[a] = A
  BY <1>1, <1>3, <1>4
<1> QED  BY <1>2, <1>3, <1>5, <1>6

\* A credential or an owner is added only to an app that does not have it.
LEMMA NotYet ==
    ASSUME Calmly, NEW w \in {"fic", "owner"}, NEW r \in {"readfics", "readowners"},
           \/ w = "fic" /\ r = "readfics" /\ FicStep
           \/ w = "owner" /\ r = "readowners" /\ OwnerStep,
           ~ Exists
    PROVE  /\ Entry.id \in DOMAIN tenant /\ tenant[Entry.id].there
           /\ ~ tenant[Entry.id][w]
<1>1. /\ at = "wire" /\ item > 0 /\ item <= Len(Steps(Entry)) /\ Step = w
  BY DEF FicStep, OwnerStep, Wiring
<1>2. /\ pos <= Len(created) /\ BaseInv /\ TypeInv /\ EntriesInv /\ item \in Nat
  BY <1>1, CalmFacts DEF PlaceInv, TypeInv
<1>3. Entry.id \in DOMAIN tenant /\ Entry \in EntryRecs /\ tenant[Entry.id].there
  BY <1>2, CalmFacts, EntryFacts
<1>4. item \in DOMAIN Before(Entry) /\ Before(Entry)[item] = w
  BY <1>1, <1>2, AtStep DEF Keys
<1>5. Expected
  BY <1>1, CalmFacts DEF Calmly, WholeInv, ConvInv, FreshInv, Expected
<1>6. CASE Entry.adopted
  <2>1. ~ hit
    BY <1>6 DEF Exists
  <2>2. item - 1 \in DOMAIN Before(Entry) /\ Before(Entry)[item - 1] = r
    BY <1>3, <1>4, <1>6, BeforeOrder DEF Led
  <2>3. CASE w = "fic" /\ r = "readfics"
    <3>1. ~ tenant[Entry.id].fic
      BY <1>5, <2>1, <2>2, <2>3 DEF Expected
    <3> QED  BY <1>3, <2>3, <3>1
  <2>4. CASE w = "owner" /\ r = "readowners"
    <3>1. ~ tenant[Entry.id].owner
      BY <1>5, <2>1, <2>2, <2>4 DEF Expected
    <3> QED  BY <1>3, <2>4, <3>1
  <2> QED  BY <2>3, <2>4
<1>7. CASE ~ Entry.adopted
  <2>1. SUFFICES ASSUME tenant[Entry.id][w] PROVE FALSE
    BY <1>3
  <2>2. PICK j \in DOMAIN Before(Entry) : j < item /\ Before(Entry)[j] = w
    BY <1>5, <1>7, <2>1 DEF Expected
  <2>3. j = item
    BY <1>3, <1>4, <2>2, BeforeOnce
  <2> QED  BY <1>2, <2>2, <2>3
<1> QED  BY <1>6, <1>7

LEMMA CalmGives ==
    ASSUME Calmly
    PROVE  (FicStep \/ OwnerStep \/ SecretStep) => report' = report
<1>0. trouble \in Nat /\ trouble' = trouble /\ ~ dead /\ TypeInv /\ memo \in {"unknown", "ok"}
  BY CalmFacts
<1>1. ASSUME NEW w \in {"fic", "owner"}, NEW ACTION noted, Add(Entry.id, w, noted),
             Entry.id \in DOMAIN tenant, tenant[Entry.id].there, ~ tenant[Entry.id][w]
      PROVE  report' = report
  BY <1>0, <1>1, CalmAdd
<1>2. ASSUME FicStep PROVE report' = report
  <2>1. CASE Exists
    BY <1>2, <2>1 DEF FicStep
  <2>2. CASE ~ Exists
    <3>1. Add(Entry.id, "fic", Warn("fic"))
      BY <1>2, <2>2 DEF FicStep
    <3>2. Entry.id \in DOMAIN tenant /\ tenant[Entry.id].there /\ ~ tenant[Entry.id]["fic"]
      BY <1>2, <2>2, NotYet
    <3> QED  BY <1>1, <3>1, <3>2
  <2> QED  BY <2>1, <2>2
<1>3. ASSUME OwnerStep PROVE report' = report
  <2>1. PICK r \in Lookups :
           IF r = "ok" /\ ~Exists
           THEN Add(Entry.id, "owner", Warn("owner"))
           ELSE /\ Answered(LookupCost(r), r = "fatal")
                /\ IF r = "ok" THEN UNCHANGED report ELSE Warn("owner")
    BY <1>3 DEF OwnerStep
  <2>2. CASE r = "ok" /\ ~ Exists
    <3>1. Add(Entry.id, "owner", Warn("owner"))
      BY <2>1, <2>2
    <3>2. Entry.id \in DOMAIN tenant /\ tenant[Entry.id].there /\ ~ tenant[Entry.id]["owner"]
      BY <1>3, <2>2, NotYet
    <3> QED  BY <1>1, <3>1, <3>2
  <2>3. CASE ~ (r = "ok" /\ ~ Exists)
    <3>1. LookupCost(r) \in Nat
      BY <1>0, CalmLookup
    <3>2. r = "ok"
      BY <1>0, <2>1, <2>3, <3>1, CalmLookup, AnswerCost
    <3> QED  BY <2>1, <2>3, <3>2
  <2> QED  BY <2>2, <2>3
<1>4. ASSUME SecretStep PROVE report' = report
  <2>1. tenant[Entry.id].there
    BY <1>4, CalmFacts, EntryFacts DEF SecretStep, Wiring, PlaceInv
  <2>2. \/ report' = report
        \/ \E o, change : Write(Entry.id, o, change) /\ (o = "ok" => report' = report)
    BY <1>4 DEF SecretStep
  <2> QED  BY <1>0, <2>1, <2>2, CalmWrite
<1> QED  BY <1>2, <1>3, <1>4

\* The API behind every permission to consent to is in the tenant.
ApisHavePrincipals ==
    \A m \in Manifests : \A s \in m.consents : m.perms[s] \cap ToSet(m.apps) \subseteq m.sps

LEMMA CalmGrant ==
    ASSUME Calmly, ApisHavePrincipals, Grant, pos \in DOMAIN created
    PROVE  report' = report
<1>0. /\ SettledInv /\ TakenInv /\ Smooth /\ WireInv /\ GrantedInv /\ manifest \in Manifests /\ at = "grant"
      /\ RowsInv /\ ReportShape /\ TypeInv /\ RemapInv /\ EntriesInv /\ MadeInv
  BY CalmFacts DEF Calmly, WholeInv, ConvInv, ReportInv, TypeInv, Grant
<1>1. hit = remap_required_resource_access(Entry.src) /\ Entry.src \in manifest.consents
  BY <1>0 DEF GrantedInv, SettledInv
<1>2. Entry.src \in Apps
  <2>1. Entry \in EntryRecs
    BY <1>0 DEF TypeInv, Entry
  <2> QED  BY <2>1 DEF EntryRecs
<1>3. Apps \cap Nat = {} /\ manifest.perms[Entry.src] \cap Nat = {} /\ DOMAIN tenant \subseteq Nat
  BY <1>0, <1>2, NamesAssumption DEF Apps, TypeInv
<1>4. \A s \in Apps : Taken(s)
  BY <1>0 DEF TakenInv, Looped1, Wired
<1>5. ASSUME NEW q \in manifest.perms[Entry.src], q \in DOMAIN remap PROVE Resolvable(remap[q])
  <2>1. q \in Apps /\ remap[q] \in DOMAIN tenant /\ tenant[remap[q]].src = q
    BY <1>0, <1>5 DEF RemapInv
  <2>2. q \in manifest.sps
    BY <1>0, <1>1, <1>5, <2>1 DEF ApisHavePrincipals, Apps
  <2>3. PICK i \in DOMAIN created : created[i].src = q
    BY <1>4, <2>1 DEF Taken
  <2>4. created[i].id = remap[q]
    BY <1>0, <2>1, <2>3, CalmFacts DEF EntriesInv, MadeInv
  <2>5. i \in DOMAIN report.apps /\ report.apps[i].src = q /\ report.apps[i].id = remap[q]
    <3>1. Len(report.apps) = Len(created)
      BY <1>0 DEF RowsInv, Wired
    <3>2. i \in DOMAIN report.apps
      BY <1>0, <3>1 DEF ReportShape, TypeInv
    <3> QED  BY <1>0, <2>3, <2>4, <3>2 DEF RowsInv
  <2>6. CleanRow(report.apps[i]) /\ Started(i)
    BY <1>0, <2>5 DEF SettledInv, WireInv
  <2>7. tenant[remap[q]].there
    BY <2>1, CalmFacts
  <2>8. Claims(i, "sp")
    BY <2>5, <2>6, <2>7 DEF CleanRow, Claims
  <2>9. tenant[remap[q]].sp
    BY <2>2, <2>5, <2>6, <2>8 DEF Started
  <2> QED  BY <1>3, <2>1, <2>7, <2>9 DEF Resolvable
<1>6. ASSUME NEW q \in manifest.perms[Entry.src], q \notin DOMAIN remap PROVE Resolvable(q)
  <2>1. q \notin Apps
    BY <1>4, <1>6 DEF Taken
  <2> QED  BY <1>3, <2>1 DEF Resolvable
<1>7. \A p \in ListToGrant : Resolvable(p)
  BY <1>1, <1>5, <1>6 DEF ListToGrant, remap_required_resource_access
<1>8. {p \in ListToGrant : Resolvable(p) \/ p = Entry.id} = ListToGrant
  BY <1>7
<1>9. PICK o : /\ Answered(Cost(o, ~tenant[Entry.id].there), o = "fatal")
               /\ IF o = "ok" /\ {p \in ListToGrant : Resolvable(p) \/ p = Entry.id} = ListToGrant
                  THEN UNCHANGED report ELSE Warn("consent")
  BY DEF Grant
<1>10. tenant[Entry.id].there
  BY CalmFacts DEF EntriesInv, Entry
<1>11. o = "ok"
  BY <1>9, <1>10, CalmFacts, CalmAnswer
<1> QED  BY <1>8, <1>9, <1>11

\* The rows of the report in a smooth run.
LEMMA CalmReread ==
    ASSUME Calmly, Reread
    PROVE  report' = report /\ pos \in DOMAIN created
<1>1. SettledInv /\ Smooth /\ at = "consent" /\ pos <= Len(created)
  BY CalmFacts DEF Calmly, WholeInv, ConvInv, Reread
<1>2. pos \in DOMAIN created /\ Entry.id \in DOMAIN tenant /\ tenant[Entry.id].there
  BY <1>1, CalmFacts, EntryFacts
<1>3. tenant[Entry.id].perms = remap_required_resource_access(Entry.src)
  BY <1>1, <1>2 DEF SettledInv, Exact, Wired, Entry
<1> DEFINE live == tenant[Entry.id].perms
           plan == remap_required_resource_access(Entry.src)
<1>4. PICK o \in ReadAnswers(Entry.id) :
        /\ Answered(Cost(o, ~tenant[Entry.id].there), o = "fatal")
        /\ IF o = "ok" /\ live = plan /\ live # {}
           THEN at' = "grant" /\ UNCHANGED <<pos, report>>
           ELSE report' = IF o = "ok" /\ live = plan THEN report
                          ELSE [report EXCEPT !.apps[pos].warn = @ \cup {"consent"},
                                              !.manual = @ \cup (IF o = "ok" THEN {Entry.src} ELSE {})]
  BY DEF Reread
<1>5. o = "ok" /\ live = plan
  BY <1>2, <1>3, <1>4, CalmFacts, CalmAnswer
<1> HIDE DEF live, plan
<1> QED  BY <1>2, <1>4, <1>5

\* The row of an app whose wiring begins has no warning: every client of the
\* backup has been taken.
LEMMA CalmRow ==
    ASSUME Calmly, at = "wire", pos \in DOMAIN created
    PROVE  LET row == RestoredApp(Entry, FALSE) IN ~ row.incomplete /\ row.warn = {}
<1>1. TakenInv /\ Smooth
  BY CalmFacts DEF Calmly, WholeInv, ConvInv
<1>2. \A s \in Apps : s \in DOMAIN remap
  BY <1>1 DEF TakenInv, Looped1, Taken
<1>3. LeftOut(Entry.src) = {}
  BY <1>2 DEF LeftOut
<1>4. Entry.warn = {}
  BY CalmFacts DEF Entry
<1>5. ~ RestoredApp(Entry, FALSE).incomplete
  BY DEF RestoredApp
<1>6. RestoredApp(Entry, FALSE).warn = Entry.warn \cup {}
  BY <1>3 DEF RestoredApp
<1> QED  BY <1>4, <1>5, <1>6

LEMMA CalmEndWire ==
    ASSUME Calmly, EndWire
    PROVE  RowStep({}, FALSE)
<1>0. Shaped(report) /\ report.apps \in Seq(Rows) /\ report.cancelled \in BOOLEAN /\ pos \in DOMAIN report.apps
  BY CalmFacts, RowFacts DEF ReportShape, EndWire
<1> DEFINE b == FALSE
           rows == [report.apps EXCEPT ![pos].incomplete = @ \/ b]
           r == [report EXCEPT !.apps = rows]
<1>1. report' = r
  <2>1. report' = [report EXCEPT !.apps[pos].incomplete = @ \/ dead]
    BY DEF EndWire
  <2> QED  BY <1>0, <2>1, CalmFacts
<1>2. RowChanged(report.apps, rows, pos, {}, b)
  BY <1>0, RowEdits
<1> HIDE DEF rows
<1>3. Shaped(r) /\ r.apps = rows /\ r.ents = report.ents /\ SameParts(r, report)
  BY <1>0 DEF Shaped, SameParts
<1> HIDE DEF r
<1> QED  BY <1>0, <1>1, <1>2, <1>3 DEF RowStep, PartsGrow, SameParts

LEMMA RowStepClean ==
    ASSUME Calmly, pos \in DOMAIN report.apps, NEW W, RowStep(W, FALSE),
           W = {} \/ (W = {"consent"} /\ report.apps[pos].src \in manifest.consents \cap withheld),
           NEW i \in DOMAIN report.apps, CleanRow(report.apps[i])
    PROVE  LET e == report'.apps[i] IN
           ~ e.incomplete /\ e.warn \subseteq {"consent"} /\ (e.warn = {} \/ e.src \in manifest.consents \cap withheld)
<1>1. /\ report'.apps[i].src = report.apps[i].src
      /\ i # pos => report'.apps[i] = report.apps[i]
      /\ i = pos => /\ report'.apps[i].warn = report.apps[i].warn \cup W
                    /\ report'.apps[i].incomplete = (report.apps[i].incomplete \/ FALSE)
  BY DEF RowStep, RowChanged
<1> QED  BY <1>1 DEF CleanRow

LEMMA CleanOn ==
    ASSUME Calmly, ApisHavePrincipals, NEW i \in DOMAIN report'.apps
    PROVE  CleanRow(report.apps[i])'
<1>0. /\ SettledInv /\ Smooth /\ BaseInv /\ ReportShape /\ RowsInv /\ EntsInv /\ ReportInv /\ TypeInv /\ manifest' = manifest
      /\ [Next]_vars /\ ~ Begin /\ ~ Crash /\ ~ Around /\ ~ Stopped /\ EntriesInv /\ PlaceInv
  BY CalmFacts DEF Calmly, WholeInv, ConvInv
<1> DEFINE Fine(e) ==
             ~ e.incomplete /\ e.warn \subseteq {"consent"} /\ (e.warn = {} \/ e.src \in manifest.consents \cap withheld)
<1>1. SUFFICES Fine(report'.apps[i])
  <2>1. CASE Classify
    <3>1. SameRows /\ report.apps = <<>>
      BY <1>0, <2>1, QuietReport DEF Classify, RowsInv
    <3> QED  BY <3>1 DEF SameRows
  <2>2. CASE ~ Classify
    <3>1. withheld' = withheld
      BY <1>0, <2>2, WithheldStays
    <3> QED  BY <1>0, <3>1 DEF CleanRow
  <2> QED  BY <2>1, <2>2
<1>2. \A j \in DOMAIN report.apps : CleanRow(report.apps[j]) /\ Fine(report.apps[j])
  BY <1>0 DEF SettledInv, CleanRow
<1>3. report'.apps = report.apps => Fine(report'.apps[i])
  BY <1>2
<1>4. CASE Classify \/ Pass1 \/ Pass5 \/ UNCHANGED vars
  BY <1>0, <1>3, <1>4, QuietReport DEF SameRows
<1>5. CASE Pass4
  BY <1>0, <1>3, <1>5, EntsReport DEF Pass4, SameRows, EntAdded, EntWarned
<1>6. ASSUME pos \in DOMAIN report.apps, NEW W, RowStep(W, FALSE),
             W = {} \/ (W = {"consent"} /\ report.apps[pos].src \in manifest.consents \cap withheld)
      PROVE  Fine(report'.apps[i])
  <2>1. i \in DOMAIN report.apps
    BY <1>6 DEF RowStep, RowChanged
  <2> QED  BY <1>2, <1>6, <2>1, RowStepClean
<1>7. CASE SkipStep
  BY <1>0, <1>7 DEF SkipStep
<1>8. CASE PatchStep \/ FicStep \/ OwnerStep \/ SecretStep \/ ReadStep
  <2>1. report' = report
    BY <1>8, CalmPatch, CalmGives DEF ReadStep
  <2> QED  BY <1>3, <2>1
<1>9. CASE EndWire
  <2>1. pos \in DOMAIN report.apps
    BY <1>0, <1>9, RowFacts DEF EndWire
  <2> QED  BY <1>6, <1>9, <2>1, CalmEndWire
<1>10. CASE NextWire
  <2>1. /\ report'.apps \in Seq(Rows) /\ report.apps \in Seq(Rows) /\ Len(report.apps) = pos - 1
        /\ \A j \in DOMAIN report.apps : j \in DOMAIN report'.apps /\ report'.apps[j] = report.apps[j]
    BY <1>0, <1>10, NextWireReport DEF ReportShape
  <2>2. CASE i \in DOMAIN report.apps
    BY <1>2, <2>1, <2>2
  <2>3. CASE i \notin DOMAIN report.apps
    <3>1. CASE pos > Len(created)
      <4>0. created \in Seq(EntryRecs) /\ pos \in Nat \ {0}
        BY <1>0 DEF TypeInv
      <4>3. Len(created) \in Nat /\ ~ (pos \in DOMAIN created)
        BY <3>1, <4>0
      <4>1. Len(report'.apps) = Len(created) /\ pos \in Nat /\ Len(created) \in Nat
        BY <1>0, <1>10, <4>0, <4>3, NextWireReport
      <4>2. i \in 1..Len(report'.apps) /\ i \notin 1..Len(report.apps)
        BY <2>1, <2>3
      <4> QED  BY <2>1, <3>1, <4>1, <4>2
    <3>2. CASE ~ (pos > Len(created))
      <4>1. /\ pos \in DOMAIN created /\ report'.apps[pos] = RestoredApp(Entry, FALSE)
            /\ DOMAIN report'.apps = DOMAIN report.apps \cup {pos}
        BY <1>0, <1>10, <3>2, NextWireReport
      <4>2. i = pos /\ at = "wire"
        BY <1>10, <2>3, <4>1 DEF NextWire
      <4>3. ~ RestoredApp(Entry, FALSE).incomplete /\ RestoredApp(Entry, FALSE).warn = {}
        BY <4>1, <4>2, CalmRow
      <4> QED  BY <4>1, <4>2, <4>3
    <3> QED  BY <3>1, <3>2
  <2> QED  BY <2>2, <2>3
<1>11. CASE NextConsent
  <2>1. CASE at' = "ents"
    <3>1. /\ DOMAIN report'.apps = DOMAIN report.apps
          /\ \A j \in DOMAIN report.apps : report'.apps[j] = report.apps[j]
      BY <1>0, <1>11, <2>1, ConsentStops
    <3> QED  BY <1>2, <3>1
  <2>2. CASE at' # "ents"
    <3>1. /\ pos \in DOMAIN created
          /\ \/ RowStep({}, FALSE)
             \/ RowStep({"consent"}, FALSE) /\ Entry.src \in manifest.consents \cap withheld
      BY <1>0, <1>11, <2>2, ConsentReport
    <3>2. pos \in DOMAIN report.apps /\ report.apps[pos].src = Entry.src
      <4>1. at = "consent" /\ pos <= Len(created)
        BY <1>0, <1>11, <3>1 DEF NextConsent, TypeInv
      <4> QED  BY <1>0, <4>1, ConsentRow
    <3> QED  BY <1>6, <3>1, <3>2
  <2> QED  BY <2>1, <2>2
<1>12. CASE Reread
  BY <1>3, <1>12, CalmReread
<1>13. CASE Grant
  <2>1. pos \in DOMAIN created
    BY <1>0, <1>13, EntryFacts DEF Grant, PlaceInv
  <2> QED  BY <1>3, <1>13, <2>1, CalmGrant
<1> QED  BY <1>0, <1>4, <1>5, <1>7, <1>8, <1>9, <1>10, <1>11, <1>12, <1>13, NextCases DEF Pass2, Pass3

-----------------------------------------------------------------------------
(* The permissions the wired apps declare.                                 *)

\* Once an app's list is the plan's it stays so.
LEMMA ExactOn ==
    ASSUME Calmly, manifest' = manifest, remap' = remap, SameEntries,
           NEW i \in DOMAIN created, Exact(created[i])
    PROVE  Exact(created[i])'
<1>0. TypeInv /\ BaseInv /\ EntriesInv
  BY CalmFacts
<1>1. PICK s, a : s = created[i].src /\ a = created[i].id
  OBVIOUS
<1>2. a \in DOMAIN tenant /\ created'[i].src = s /\ created'[i].id = a
  BY <1>0, <1>1 DEF EntriesInv, SameEntries
<1>3. remap_required_resource_access(s)' = remap_required_resource_access(s)
  BY DEF remap_required_resource_access
<1>4. tenant'[a].perms = remap_required_resource_access(s)
  <2>1. tenant[a].perms = remap_required_resource_access(s)
    BY <1>1 DEF Exact
  <2>2. CASE PatchStep /\ a = Entry.id
    <3>1. pos \in DOMAIN created
      BY <1>0, <2>2, CalmFacts, EntryFacts DEF PatchStep, Wiring, PlaceInv
    <3>2. Entry.src = s
      BY <1>0, <1>1, <2>2, <3>1, EntriesDiffer DEF Entry
    <3> QED  BY <1>0, <2>1, <2>2, <3>2, PatchLists
  <2>3. CASE tenant'[a].perms = tenant[a].perms
    BY <2>1, <2>3
  <2> QED  BY <1>2, <2>2, <2>3, PermsByStep
<1>5. (tenant[created[i].id].perms)' = tenant'[a].perms
  BY <1>2
<1>6. remap_required_resource_access(created[i].src)' = remap_required_resource_access(s)'
  BY <1>2 DEF remap_required_resource_access
<1> QED  BY <1>3, <1>4, <1>5, <1>6 DEF Exact

\* From Pass 2 on the entries and the remap are what they are.
LEMMA LaterSame ==
    ASSUME Calmly, at \in Wired \cup {"wire"}
    PROVE  manifest' = manifest /\ remap' = remap /\ SameEntries
BY CalmFacts, CalmEntries DEF CheckPrincipal, Create, EndRound, Wired, Ending

LEMMA ExactLater ==
    ASSUME Calmly, at \in Wired \cup {"wire"}, NEW i \in DOMAIN created, Exact(created[i])
    PROVE  Exact(created[i])'
BY LaterSame, ExactOn

\* An app whose steps are all done declares the permissions of the plan.
LEMMA WiredIsExact ==
    ASSUME Calmly, EndWire
    PROVE  pos \in DOMAIN created /\ Exact(created[pos])
<1>1. /\ at = "wire" /\ item > 0 /\ item > Len(Steps(Entry)) /\ pos <= Len(created) /\ item \in Nat
      /\ BaseInv /\ TypeInv /\ EntriesInv /\ manifest \in Manifests
  BY CalmFacts DEF EndWire, PlaceInv, TypeInv
<1>2. /\ pos \in DOMAIN created /\ Entry \in EntryRecs /\ Entry.src \in Apps /\ Entry.id \in DOMAIN tenant
      /\ tenant[Entry.id].src = Entry.src
  BY <1>1, EntryFacts
<1>3. SettledInv /\ OwnInv /\ Smooth
  BY CalmFacts DEF Calmly, WholeInv, ConvInv
<1>4. CASE manifest.perms[Entry.src] # {}
  <2> DEFINE u == Before(Entry)
             v == manifest.secrets[Entry.src]
             B == BeforeSteps(Entry)
  <2>1. u \in Seq(B) /\ v \in Seq(Keys) /\ Steps(Entry) = u \o v
    BY <1>1, <1>2, BeforeFacts, ManifestFacts DEF Apps
  <2>2. PICK j \in DOMAIN u : u[j] = "perms"
    BY <1>2, <1>4, BeforeOrder DEF FieldSteps, Asked
  <2>3. j < item
    <3> HIDE DEF u, v, B
    <3>1. Len(u \o v) = Len(u) + Len(v) /\ Len(u) \in Nat /\ Len(v) \in Nat /\ j \in 1..Len(u)
      BY <2>1
    <3> QED  BY <1>1, <2>1, <3>1
  <2>4. Exact(Entry)
    BY <1>1, <1>3, <2>2, <2>3 DEF SettledInv
  <2> QED  BY <1>2, <2>4 DEF Entry
<1>5. CASE manifest.perms[Entry.src] = {}
  <2>1. tenant[Entry.id].perms = {}
    BY <1>2, <1>3, <1>5 DEF OwnInv, Smooth
  <2>2. remap_required_resource_access(Entry.src) = {}
    BY <1>5 DEF remap_required_resource_access
  <2> QED  BY <1>2, <2>1, <2>2 DEF Exact, Entry
<1> QED  BY <1>4, <1>5

LEMMA WireExact ==
    ASSUME Calmly, at' = "wire", NEW i \in DOMAIN created', i < pos'
    PROVE  Exact(created[i])'
<1>0. /\ SettledInv /\ Smooth /\ BaseInv /\ TypeInv /\ [Next]_vars /\ ~ Begin /\ ~ Crash /\ ~ Around
      /\ created \in Seq(EntryRecs) /\ pos \in Nat
  BY CalmFacts DEF Calmly, WholeInv, ConvInv, TypeInv
<1>1. CASE EndTake
  <2>1. pos' = 1 /\ created' = created
    BY <1>1 DEF EndTake
  <2>2. i \in Nat \ {0}
    BY <1>0, <2>1
  <2> QED  BY <2>1, <2>2
<1>2. CASE at = "wire"
  <2>1. SameEntries
    BY <1>2, LaterSame
  <2>2. i \in DOMAIN created /\ i \in Nat
    BY <1>0, <2>1 DEF SameEntries
  <2>3. i < pos \/ (EndWire /\ i = pos)
    <3>1. CASE EndWire
      <4>1. pos' = pos + 1
        BY <3>1 DEF EndWire
      <4> QED  BY <1>0, <2>2, <3>1, <4>1
    <3>2. CASE NextWire
      <4>1. pos' = pos
        BY <3>2 DEF NextWire
      <4> QED  BY <4>1
    <3>3. CASE Inner
      BY <3>3, InnerFacts
    <3>4. CASE UNCHANGED vars
      BY <3>4 DEF vars, locals
    <3>5. ~ Classify /\ ~ Pass1 /\ ~ Pass3 /\ ~ Pass4 /\ ~ Pass5
      BY <1>0, <1>2, StagesLater DEF Early, Unsettled, Checking
    <3> QED  BY <1>0, <3>1, <3>2, <3>3, <3>4, <3>5, NextCases DEF Pass2, Inner
  <2>4. Exact(created[i])
    BY <1>0, <1>2, <2>2, <2>3, WiredIsExact DEF SettledInv
  <2> QED  BY <1>2, <2>2, <2>4, ExactLater
<1>3. at = "wire" \/ EndTake
  <2>1. CASE Classify \/ Pass1
    BY <1>0, <2>1, StagesLater DEF Early, Unsettled, Checking
  <2>2. CASE Pass2
    BY <1>0, <2>2, StagesLater
  <2>3. CASE Pass3 \/ Pass4 \/ Pass5
    BY <1>0, <2>3, StagesLater
  <2>4. CASE UNCHANGED vars
    BY <2>4 DEF vars
  <2> QED  BY <1>0, <2>1, <2>2, <2>3, <2>4, NextCases
<1> QED  BY <1>1, <1>2, <1>3

LEMMA AllExact ==
    ASSUME Calmly, at' \in Wired, NEW i \in DOMAIN created'
    PROVE  Exact(created[i])'
<1>0. /\ SettledInv /\ Smooth /\ BaseInv /\ TypeInv /\ [Next]_vars /\ ~ Begin /\ ~ Crash /\ ~ Around
      /\ ReportShape /\ RowsInv /\ ~ Stopped /\ created \in Seq(EntryRecs) /\ pos \in Nat
  BY CalmFacts DEF Calmly, WholeInv, ConvInv, TypeInv
<1>1. at \in Wired \/ (NextWire /\ at = "wire" /\ at' = "consent")
  <2>1. CASE Classify \/ Pass1
    <3>1. at' \in Early \/ at' = "wire"
      BY <1>0, <2>1, StagesLater DEF EndTake
    <3> QED  BY <3>1 DEF Early, Unsettled, Checking, Wired, Ending
  <2>2. CASE Pass2
    BY <1>0, <2>2, StagesLater DEF Wired, Ending
  <2>3. CASE Pass3 \/ Pass4 \/ Pass5
    BY <1>0, <2>3, StagesLater DEF Wired, Ending
  <2>4. CASE UNCHANGED vars
    BY <2>4 DEF vars
  <2> QED  BY <1>0, <2>1, <2>2, <2>3, <2>4, NextCases
<1>2. SameEntries
  BY <1>1, LaterSame
<1>3. i \in DOMAIN created /\ i \in 1..Len(created) /\ Len(created) \in Nat
  BY <1>0, <1>2 DEF SameEntries
<1>4. Exact(created[i])
  <2>1. CASE at \in Wired
    BY <1>0, <1>3, <2>1 DEF SettledInv
  <2>2. CASE NextWire /\ at = "wire" /\ at' = "consent"
    <3>1. pos > Len(created)
      BY <1>0, <2>2 DEF NextWire
    <3> QED  BY <1>0, <1>3, <2>2, <3>1 DEF SettledInv
  <2> QED  BY <1>1, <2>1, <2>2
<1> QED  BY <1>1, <1>3, <1>4, ExactLater

\* The PATCH of the permissions has settled them.
LEMMA PassedExact ==
    ASSUME Calmly, at' = "wire", item' > 0, NEW j \in DOMAIN (Before(Entry)'), j < item', Before(Entry)'[j] = "perms"
    PROVE  Exact(Entry)'
<1>0. /\ SettledInv /\ Smooth /\ BaseInv /\ TypeInv /\ PlaceInv /\ EntriesInv /\ item \in Nat
  BY CalmFacts DEF Calmly, WholeInv, ConvInv, TypeInv
<1>1. at = "wire" /\ pos' = pos /\ pos \in DOMAIN created /\ withheld' = withheld /\ Entry \in EntryRecs
  <2>1. CASE NextWire /\ pos' = pos /\ pos \in DOMAIN created /\ at = "wire"
    BY <1>0, <2>1 DEF NextWire, TypeInv, Entry
  <2>2. CASE Inner
    BY <1>0, <2>2, InnerFacts, EntryFacts DEF PlaceInv
  <2>3. CASE UNCHANGED vars
    <3>1. at = "wire" /\ item > 0 /\ pos' = pos /\ withheld' = withheld
      BY <2>3 DEF vars, locals
    <3> QED  BY <1>0, <3>1, EntryFacts DEF PlaceInv
  <2> QED  BY <2>1, <2>2, <2>3, WiringSteps
<1>2. manifest' = manifest /\ remap' = remap /\ SameEntries
  BY <1>1, LaterSame
<1>3. Before(Entry)' = Before(Entry) /\ Entry'.src = Entry.src /\ Entry'.id = Entry.id
  BY <1>1, <1>2, BeforeSame
<1>4. j \in DOMAIN Before(Entry) /\ Before(Entry)[j] = "perms" /\ Before(Entry) \in Seq(BeforeSteps(Entry))
  BY <1>1, <1>3, BeforeFacts
<1>5. j \in Nat \ {0}
  <2> DEFINE B == BeforeSteps(Entry)
             u == Before(Entry)
  <2>1. u \in Seq(B) /\ j \in DOMAIN u
    BY <1>4
  <2> HIDE DEF B, u
  <2> QED  BY <2>1
<1>6. ASSUME Exact(Entry) PROVE Exact(Entry)'
  <2>1. PICK i \in DOMAIN created : i = pos
    BY <1>1
  <2>2. Exact(created[i])'
    BY <1>1, <1>6, <2>1, ExactLater DEF Entry
  <2>3. Entry' = created'[i]
    BY <1>1, <2>1 DEF Entry
  <2> QED  BY <2>2, <2>3 DEF Exact, remap_required_resource_access
<1>7. CASE NextWire /\ item' = 1
  BY <1>5, <1>7
<1>8. CASE Inner
  <2>1. item > 0 /\ item <= Len(Steps(Entry)) /\ item' = item + 1 /\ pos <= Len(created)
    BY <1>0, <1>8, InnerFacts DEF PlaceInv
  <2>2. CASE j < item
    BY <1>0, <1>1, <1>4, <1>6, <2>1, <2>2 DEF SettledInv
  <2>3. CASE j = item
    <3>1. Step = "perms"
      BY <1>0, <1>4, <2>1, <2>3, AtStep
    <3>2. PatchStep
      BY <1>8, <3>1 DEF Inner, SkipStep, ReadStep, FicStep, OwnerStep, SecretStep, Wiring, Looped, Keys
    <3>3. tenant'[Entry.id].perms = remap_required_resource_access(Entry.src)
      BY <3>1, <3>2, CalmPatch
    <3> QED  BY <1>2, <1>3, <3>3 DEF Exact, remap_required_resource_access
  <2> QED  BY <1>0, <1>5, <2>1, <2>2, <2>3
<1>9. CASE UNCHANGED vars
  <2>1. item' = item
    BY <1>9 DEF vars, locals
  <2> QED  BY <1>0, <1>1, <1>4, <1>6, <2>1 DEF SettledInv
<1> QED  BY <1>7, <1>8, <1>9, WiringSteps

LEMMA GrantConsents ==
    ASSUME Calmly, at' = "grant"
    PROVE  (Entry.src \in manifest.consents)'
<1>0. /\ SettledInv /\ Smooth /\ BaseInv /\ [Next]_vars /\ ~ Begin /\ ~ Crash /\ ~ Around /\ manifest' = manifest
  BY CalmFacts DEF Calmly, WholeInv, ConvInv
<1>1. CASE Reread
  <2>1. Entry.src \in manifest.consents /\ pos' = pos /\ created' = created
    BY <1>1 DEF Reread
  <2> QED  BY <1>0, <2>1 DEF Entry
<1>2. CASE UNCHANGED vars
  <2>1. at = "grant" /\ pos' = pos /\ created' = created
    BY <1>2 DEF vars, locals
  <2> QED  BY <1>0, <2>1 DEF SettledInv, Entry
<1>3. CASE Classify \/ Pass1
  BY <1>0, <1>3, StagesLater DEF EndTake, Early, Unsettled, Checking
<1>4. CASE Pass2 \/ Pass4 \/ Pass5
  BY <1>0, <1>4, StagesLater
<1>5. CASE NextConsent \/ Grant
  BY <1>5 DEF NextConsent, Grant
<1> QED  BY <1>0, <1>1, <1>2, <1>3, <1>4, <1>5, NextCases DEF Pass3

LEMMA SettledKept ==
    ASSUME ApisHavePrincipals, WholeInv, [Next]_vars
    PROVE  SettledInv'
<1> SUFFICES ASSUME Smooth' PROVE SettledInv'
  BY DEF SettledInv
<1>1. CASE Begin
  <2>1. report'.apps = <<>> /\ at' = "classify"
    BY <1>1 DEF Begin, EmptyReport
  <2>2. at' \notin Wired
    BY <2>1 DEF Wired, Ending
  <2> QED  BY <2>1, <2>2 DEF SettledInv
<1>2. CASE ~ Begin
  <2>1. Calmly
    BY <1>2 DEF Calmly
  <2>2. (\A i \in DOMAIN report.apps : CleanRow(report.apps[i]))'
    BY <2>1, CleanOn
  <2>3. (at \in Wired => \A i \in DOMAIN created : Exact(created[i]))'
    <3>1. SUFFICES ASSUME at' \in Wired, NEW i \in DOMAIN created' PROVE Exact(created[i])'
      BY DEF Wired, Ending
    <3> QED  BY <2>1, <3>1, AllExact
  <2>4. (at = "wire" => \A i \in DOMAIN created : i < pos => Exact(created[i]))'
    BY <2>1, WireExact
  <2>5. (at = "wire" /\ item > 0 =>
           \A j \in DOMAIN Before(Entry) : j < item /\ Before(Entry)[j] = "perms" => Exact(Entry))'
    BY <2>1, PassedExact
  <2>6. (at = "grant" => Entry.src \in manifest.consents)'
    BY <2>1, GrantConsents
  <2> QED  BY <2>2, <2>3, <2>4, <2>5, <2>6 DEF SettledInv
<1> QED  BY <1>1, <1>2

-----------------------------------------------------------------------------
(* A run in which nothing goes wrong finishes the restore.                 *)

\* The invariant of such a run.  It is meant where the APIs the backup consents
\* to and itself contains had a service principal there.
THEOREM ConvInvariance ==
    ASSUME ApisHavePrincipals
    PROVE  Spec => []ConvInv
<1>1. Init => ConvInv
  <2> SUFFICES ASSUME Init PROVE ConvInv
    OBVIOUS
  <2>1. /\ at = "idle" /\ created = <<>> /\ tenant = <<>> /\ report.apps = <<>> /\ trouble = 0 /\ spent = 0
        /\ ~ cancelled /\ ~ dead /\ memo = "unknown" /\ refused.apps = {} /\ ~ refused.again
    BY DEF Init, EmptyReport
  <2>2. at \notin Checking /\ at \notin Looped1 /\ at \notin Wired
    BY <2>1 DEF Checking, Looped1, Wired, Ending
  <2>3. CountInv /\ CalmInv
    BY <2>1 DEF CountInv, CalmInv
  <2>4. OwnInv /\ TakenInv
    BY <2>1, <2>2 DEF OwnInv, TakenInv
  <2>5. FreshInv /\ SettledInv
    BY <2>1, <2>2 DEF FreshInv, SettledInv
  <2> QED  BY <2>3, <2>4, <2>5 DEF ConvInv
<1>2. BaseInv /\ (MadeInv /\ SecretsInv) /\ ForeignInv /\ ReportInv /\ ConvInv /\ [Next]_vars => ConvInv'
  <2> SUFFICES ASSUME BaseInv, MadeInv, SecretsInv, ForeignInv, ReportInv, ConvInv, [Next]_vars PROVE ConvInv'
    OBVIOUS
  <2>1. WholeInv
    BY DEF WholeInv
  <2>2. CountInv' /\ OwnInv'
    BY CountKept, OwnKept DEF ConvInv
  <2>3. CalmInv' /\ TakenInv' /\ FreshInv'
    BY <2>1, CalmKept, TakenKept, FreshKept
  <2>4. SettledInv'
    BY <2>1, SettledKept
  <2> QED  BY <2>2, <2>3, <2>4 DEF ConvInv
<1> QED  BY <1>1, <1>2, BaseInvariance, SecretsInvariance, ForeignInvariance, ReportInvariance, PTL DEF Spec

\* RerunConverges: adoption (decide_adoption, the re-runnable steps of
\* wire_application) finishes what interrupted runs left.  Whatever happened
\* before, if nothing goes wrong in a run and nobody else has changed the tenant,
\* then every app of the backup is restored when the run is done, and the report
\* has no complaint but for withheld consent.
THEOREM RerunsConverge ==
    ASSUME ApisHavePrincipals
    PROVE  Spec => []RerunConverges
<1>1. BaseInv /\ (MadeInv /\ SecretsInv) /\ ReportInv /\ ConvInv => RerunConverges
  <2> SUFFICES ASSUME BaseInv, SecretsInv, ReportInv, ConvInv, at = "done", Smooth
               PROVE  /\ \A s \in Apps : \E a \in Tagged(s) : IsRestored(s, a)
                      /\ \A e \in ToSet(report.apps) :
                           ~e.incomplete /\ (e.warn = {} \/ e.src \in manifest.consents \cap withheld)
    BY DEF RerunConverges, Smooth
  <2>0. /\ ReportShape /\ RowsInv /\ WireInv /\ GrantedInv /\ OwnInv /\ TakenInv /\ SettledInv /\ EntriesInv
        /\ at \in Wired /\ at \in Ending /\ at \in Looped1 /\ ~ edited
    BY DEF ReportInv, ConvInv, BaseInv, Wired, Ending, Looped1, Smooth
  <2>1. \A i \in DOMAIN created : i \in DOMAIN report.apps
    <3> DEFINE R == Rows
               E == EntryRecs
    <3>1. report.apps \in Seq(R) /\ created \in Seq(E) /\ Len(report.apps) = Len(created)
      BY <2>0 DEF ReportShape, BaseInv, TypeInv, RowsInv
    <3> HIDE DEF R, E
    <3> QED  BY <3>1
  <2>2. \A i \in DOMAIN report.apps : CleanRow(report.apps[i])
    BY <2>0 DEF SettledInv
  <2>3. ASSUME NEW s \in Apps PROVE \E a \in Tagged(s) : IsRestored(s, a)
    <3>1. PICK i \in DOMAIN created : created[i].src = s
      BY <2>0 DEF TakenInv, Taken
    <3>2. /\ i \in DOMAIN report.apps /\ report.apps[i].src = s /\ report.apps[i].id = created[i].id
          /\ CleanRow(report.apps[i])
      BY <2>0, <2>1, <2>2, <3>1 DEF RowsInv
    <3>3. created[i].id \in DOMAIN tenant /\ tenant[created[i].id].src = s /\ tenant[created[i].id].there
      BY <2>0, <3>1 DEF EntriesInv, OwnInv
    <3>4. created[i].id \in Tagged(s)
      BY <3>3 DEF Tagged
    <3>5. \A w \in Warnings \ {"consent"} : Claims(i, w)
      BY <3>2, <3>3 DEF CleanRow, Claims
    <3>6. Claims(i, "consent") \/ report.apps[i].src \in withheld
      BY <3>2, <3>3 DEF CleanRow, Claims
    <3>7. Started(i) /\ Finished(i) /\ Consented(i)
      BY <2>0, <3>2 DEF WireInv, GrantedInv
    <3>8. IsRestored(report.apps[i].src, report.apps[i].id)
      BY <2>0, <3>2, <3>5, <3>6, <3>7, RowRestored
    <3> QED  BY <3>2, <3>4, <3>8
  <2>4. ASSUME NEW e \in ToSet(report.apps)
        PROVE  ~e.incomplete /\ (e.warn = {} \/ e.src \in manifest.consents \cap withheld)
    <3>1. PICK i \in DOMAIN report.apps : report.apps[i] = e
      BY DEF ToSet
    <3> QED  BY <2>2, <3>1 DEF CleanRow
  <2> QED  BY <2>3, <2>4
<1> QED  BY <1>1, BaseInvariance, SecretsInvariance, ReportInvariance, ConvInvariance, PTL
=============================================================================
