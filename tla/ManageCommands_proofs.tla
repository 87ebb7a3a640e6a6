----------------------- MODULE ManageCommands_proofs ------------------------
(***************************************************************************)
(* For any repository, any number of objects, pages, retries and other      *)
(* clients: what the management commands do to privileges and objects, and  *)
(* what they report.                                                        *)
(*                                                                         *)
(* The steps that a command has left are its place in the program.  What    *)
(* they can be comes from the table of commands; the invariant says for     *)
(* each place what the command knows there.                                *)
(***************************************************************************)
EXTENDS ManageCommands, FiniteSetTheorems, SequenceTheorems, TLAPS

Preludes == {"input", "ask", "usage", "read", "tryRead"}
Objective == Preludes \cup {"page", "pages", "create", "update", "act", "delete", "rotate",
                            "known"}
Steps == Objective \cup {"readHeld", "showHeld", "grant", "put", "askLowering",
                         "expressible", "found", "name", "declare", "keep"}
Outcomes == {"none", "running", "ok", "failed", "usage", "declined"}

Final(s) == s[Len(s)]

\* A command about objects makes its change, or reads its last listing, in its
\* last step, and a loss comes after -y or after a step that asks.
ObjectPlan(s, agreed) ==
    /\ s \in Seq(Objective) /\ s # <<>>
    /\ \A i \in 1 .. Len(s) - 1 : s[i] \in Preludes
    /\ Final(s) \in {"delete", "rotate"} =>
         agreed \/ \E i \in 1 .. Len(s) - 1 : s[i] \in {"ask", "usage"}

-----------------------------------------------------------------------------
(* The places of privileges set, revoke and replace                         *)

Grant1 == <<"grant">>
Grant2 == <<"name", "grant">>
Grant3 == <<"askLowering", "name", "grant">>
Grant4 == <<"readHeld", "askLowering", "name", "grant">>
Grant5 == <<"input", "readHeld", "askLowering", "name", "grant">>
GrantY == <<"input", "name", "grant">>

Put1 == <<"put">>

Revoke2 == <<"keep", "put">>
Revoke3 == <<"ask", "keep", "put">>
Revoke4 == <<"found", "ask", "keep", "put">>
Revoke5 == <<"expressible", "found", "ask", "keep", "put">>
Revoke6 == <<"readHeld", "expressible", "found", "ask", "keep", "put">>
Revoke7 == <<"input", "readHeld", "expressible", "found", "ask", "keep", "put">>
RevokeY3 == <<"found", "keep", "put">>
RevokeY4 == <<"expressible", "found", "keep", "put">>
RevokeY5 == <<"readHeld", "expressible", "found", "keep", "put">>
RevokeY6 == <<"input", "readHeld", "expressible", "found", "keep", "put">>

Replace2 == <<"ask", "put">>
Replace3 == <<"declare", "ask", "put">>
Replace4 == <<"input", "declare", "ask", "put">>
ReplaceY2 == <<"declare", "put">>
ReplaceY3 == <<"input", "declare", "put">>

ShowHeld == <<"showHeld">>

GrantPlans   == {Grant1, Grant2, Grant3, Grant4, Grant5, GrantY}
RevokePlans  == {Revoke2, Revoke3, Revoke4, Revoke5, Revoke6, Revoke7,
                 RevokeY3, RevokeY4, RevokeY5, RevokeY6}
ReplacePlans == {Replace2, Replace3, Replace4, ReplaceY2, ReplaceY3}
PrivilegePlans == GrantPlans \cup RevokePlans \cup ReplacePlans \cup {Put1}

-----------------------------------------------------------------------------
(* The invariant                                                            *)

\* The number of objects before i in the listing
Before(i) == Cardinality({j \in objects : j < i})

\* Every variable has its type.
TypeOK ==
    /\ privileges \in [Targets -> Ranks] /\ objects \subseteq Ids /\ secret \in 0 .. MaxRotated
    /\ othersLeft \in 0 .. MaxOthers
    /\ todo \in Seq(Steps) /\ tries \in 1 .. MaxRetries + 1 /\ outcome \in Outcomes
    /\ consent \in BOOLEAN
    /\ DOMAIN wanted \subseteq Targets /\ \A t \in DOMAIN wanted : wanted[t] \in {0} \cup Levels
    /\ held \in [Targets -> Ranks] /\ body \in [Targets -> Ranks]
    /\ page \in Nat /\ got \in [Ids -> Nat]
    /\ lost \in BOOLEAN /\ effects \in 0 .. 2
    /\ touched \subseteq Targets /\ atStart \subseteq Ids
    /\ grown \in BOOLEAN /\ shrunk \in BOOLEAN

\* Where the command is
Placed ==
    outcome = "running" =>
        \/ wanted # <<>> /\ todo \in PrivilegePlans
        \/ wanted = <<>> /\ body = None /\ (todo = ShowHeld \/ ObjectPlan(todo, consent))

\* A change is made by the last step, and by it alone, so that before it nothing
\* has changed.
Undone ==
    /\ outcome = "none" => effects = 0 /\ body = None
    /\ outcome = "running" /\ Step \notin Writes => effects = 0
    /\ outcome = "running" /\ ~lost => effects = 0
    /\ ExitTellsEffect

\* What was read is what the service still holds, but for what others changed.
Read1 ==
    todo \in {Grant3, Revoke2, Revoke3, Revoke4, Revoke5, RevokeY3, RevokeY4} =>
        \A t \in Targets \ touched : held[t] = privileges[t]

\* set lowers nothing unasked ...
Granting ==
    /\ todo \in {Grant1, Grant2, GrantY} =>
         consent \/ \A t \in DOMAIN wanted \ touched : privileges[t] <= wanted[t]
    /\ todo = Grant1 => body = StatedEntries

\* ... revoke knows that it can express what it keeps ...
Revoking ==
    /\ todo \in RevokePlans => /\ DOMAIN wanted \subseteq Nameable
                               /\ \A t \in DOMAIN wanted : wanted[t] = 0
    /\ todo \in {Revoke2, Revoke3, Revoke4, RevokeY3} => held[Alien] = 0
    /\ todo \in {Revoke2, RevokeY3, RevokeY4, RevokeY5, RevokeY6} => consent

\* ... replace is about every target ...
Replacing ==
    /\ todo \in ReplacePlans => DOMAIN wanted = Targets
    /\ todo = Replace2 => body = StatedEntries
    /\ todo \in {ReplaceY2, ReplaceY3} => consent

\* ... and what either writes is what is asked for and what the rest hold.
Putting ==
    todo = Put1 => /\ consent
                   /\ \A t \in DOMAIN wanted : body[t] = wanted[t]
                   /\ \A t \in Targets \ (DOMAIN wanted \cup touched) : body[t] = privileges[t]

Known1 == outcome = "running" /\ wanted # <<>> =>
              Read1 /\ Granting /\ Revoking /\ Replacing /\ Putting

\* The pages so far have the objects of the first places: those that were there
\* at the start unless one went, and each once unless one came.
Paging ==
    /\ page = 0 => got = [i \in Ids |-> 0]
    /\ outcome = "none" => page = 0
    /\ outcome = "running" /\ Step # "pages" => page = 0
    /\ outcome = "running" /\ effects = 0 /\ ~shrunk => atStart \subseteq objects
    /\ ~shrunk => \A i \in atStart : Before(i) < page * PageSize => got[i] > 0
    /\ ~grown => \A i \in Ids : /\ got[i] <= 1
                                /\ i \in objects /\ got[i] > 0 => Before(i) < page * PageSize
    /\ ListIsComplete

IInv == TypeOK /\ Placed /\ Undone /\ Known1 /\ Paging /\ ReportIsTrue

-----------------------------------------------------------------------------
(* The table of commands                                                    *)

LEMMA Concat ==
    ASSUME NEW S, NEW s \in Seq(S), NEW t \in Seq(S), NEW u \in Seq(S),
           Len(u) = Len(s) + Len(t),
           \A i \in 1 .. Len(s) : u[i] = s[i],
           \A i \in 1 .. Len(t) : u[Len(s) + i] = t[i]
    PROVE  s \o t = u
<1>1. /\ s \o t \in Seq(S) /\ Len(s \o t) = Len(u)
      /\ \A i \in 1 .. Len(u) : (s \o t)[i] = IF i <= Len(s) THEN s[i] ELSE t[i - Len(s)]
  BY ConcatProperties
<1>2. Len(s) \in Nat /\ Len(t) \in Nat
  OBVIOUS
<1>3. ASSUME NEW i \in 1 .. Len(u) PROVE (s \o t)[i] = u[i]
  <2>1. CASE i <= Len(s)
    BY <1>1, <1>2, <2>1
  <2>2. CASE i > Len(s)
    <3>1. i - Len(s) \in 1 .. Len(t)
      BY <1>2, <2>2
    <3>. QED BY <1>1, <1>2, <2>2, <3>1
  <2>. QED BY <1>2, <2>1, <2>2
<1>. QED BY <1>1, <1>3, SeqEqual

LEMMA Concat11 ==
    ASSUME NEW a, NEW b
    PROVE  <<a>> \o <<b>> = <<a, b>>
<1> DEFINE S == {a, b}
           s == <<a>>
           t == <<b>>
           u == <<a, b>>
<1>1. s \in Seq(S) /\ t \in Seq(S) /\ u \in Seq(S) /\ Len(u) = Len(s) + Len(t)
  OBVIOUS
<1>2. \A i \in 1 .. Len(s) : u[i] = s[i]
  OBVIOUS
<1>3. \A i \in 1 .. Len(t) : u[Len(s) + i] = t[i]
  OBVIOUS
<1> HIDE DEF S, s, t, u
<1>4. s \o t = u
  BY <1>1, <1>2, <1>3, Concat
<1>. QED BY <1>4 DEF s, t, u

LEMMA Concat12 ==
    ASSUME NEW a, NEW b, NEW c
    PROVE  <<a>> \o <<b, c>> = <<a, b, c>>
<1> DEFINE S == {a, b, c}
           s == <<a>>
           t == <<b, c>>
           u == <<a, b, c>>
<1>1. /\ s \in Seq(S) /\ t \in Seq(S) /\ u \in Seq(S) /\ Len(u) = Len(s) + Len(t)
      /\ \A i \in 1 .. Len(s) : u[i] = s[i]
      /\ \A i \in 1 .. Len(t) : u[Len(s) + i] = t[i]
  OBVIOUS
<1> HIDE DEF S, s, t, u
<1>2. s \o t = u
  BY <1>1, Concat
<1>. QED BY <1>2 DEF s, t, u

LEMMA Concat21 ==
    ASSUME NEW a, NEW b, NEW c
    PROVE  <<a, b>> \o <<c>> = <<a, b, c>>
<1> DEFINE S == {a, b, c}
           s == <<a, b>>
           t == <<c>>
           u == <<a, b, c>>
<1>1. /\ s \in Seq(S) /\ t \in Seq(S) /\ u \in Seq(S) /\ Len(u) = Len(s) + Len(t)
      /\ \A i \in 1 .. Len(s) : u[i] = s[i]
      /\ \A i \in 1 .. Len(t) : u[Len(s) + i] = t[i]
  OBVIOUS
<1> HIDE DEF S, s, t, u
<1>2. s \o t = u
  BY <1>1, Concat
<1>. QED BY <1>2 DEF s, t, u

LEMMA Concat31 ==
    ASSUME NEW a, NEW b, NEW c, NEW d
    PROVE  <<a, b, c>> \o <<d>> = <<a, b, c, d>>
<1> DEFINE S == {a, b, c, d}
           s == <<a, b, c>>
           t == <<d>>
           u == <<a, b, c, d>>
<1>1. /\ s \in Seq(S) /\ t \in Seq(S) /\ u \in Seq(S) /\ Len(u) = Len(s) + Len(t)
      /\ \A i \in 1 .. Len(s) : u[i] = s[i]
      /\ \A i \in 1 .. Len(t) : u[Len(s) + i] = t[i]
  OBVIOUS
<1> HIDE DEF S, s, t, u
<1>2. s \o t = u
  BY <1>1, Concat
<1>. QED BY <1>2 DEF s, t, u

LEMMA Concat32 ==
    ASSUME NEW a, NEW b, NEW c, NEW d, NEW e
    PROVE  <<a, b, c>> \o <<d, e>> = <<a, b, c, d, e>>
<1> DEFINE S == {a, b, c, d, e}
           s == <<a, b, c>>
           t == <<d, e>>
           u == <<a, b, c, d, e>>
<1>1. /\ s \in Seq(S) /\ t \in Seq(S) /\ u \in Seq(S) /\ Len(u) = Len(s) + Len(t)
      /\ \A i \in 1 .. Len(s) : u[i] = s[i]
      /\ \A i \in 1 .. Len(t) : u[Len(s) + i] = t[i]
  OBVIOUS
<1> HIDE DEF S, s, t, u
<1>2. s \o t = u
  BY <1>1, Concat
<1>. QED BY <1>2 DEF s, t, u

LEMMA Concat41 ==
    ASSUME NEW a, NEW b, NEW c, NEW d, NEW e
    PROVE  <<a, b, c, d>> \o <<e>> = <<a, b, c, d, e>>
<1> DEFINE S == {a, b, c, d, e}
           s == <<a, b, c, d>>
           t == <<e>>
           u == <<a, b, c, d, e>>
<1>1. /\ s \in Seq(S) /\ t \in Seq(S) /\ u \in Seq(S) /\ Len(u) = Len(s) + Len(t)
      /\ \A i \in 1 .. Len(s) : u[i] = s[i]
      /\ \A i \in 1 .. Len(t) : u[Len(s) + i] = t[i]
  OBVIOUS
<1> HIDE DEF S, s, t, u
<1>2. s \o t = u
  BY <1>1, Concat
<1>. QED BY <1>2 DEF s, t, u

LEMMA Concat42 ==
    ASSUME NEW a, NEW b, NEW c, NEW d, NEW e, NEW f
    PROVE  <<a, b, c, d>> \o <<e, f>> = <<a, b, c, d, e, f>>
<1> DEFINE S == {a, b, c, d, e, f}
           s == <<a, b, c, d>>
           t == <<e, f>>
           u == <<a, b, c, d, e, f>>
<1>1. /\ s \in Seq(S) /\ t \in Seq(S) /\ u \in Seq(S) /\ Len(u) = Len(s) + Len(t)
      /\ \A i \in 1 .. Len(s) : u[i] = s[i]
      /\ \A i \in 1 .. Len(t) : u[Len(s) + i] = t[i]
  OBVIOUS
<1> HIDE DEF S, s, t, u
<1>2. s \o t = u
  BY <1>1, Concat
<1>. QED BY <1>2 DEF s, t, u

LEMMA Concat52 ==
    ASSUME NEW a, NEW b, NEW c, NEW d, NEW e, NEW f, NEW g
    PROVE  <<a, b, c, d, e>> \o <<f, g>> = <<a, b, c, d, e, f, g>>
<1> DEFINE S == {a, b, c, d, e, f, g}
           s == <<a, b, c, d, e>>
           t == <<f, g>>
           u == <<a, b, c, d, e, f, g>>
<1>1. /\ s \in Seq(S) /\ t \in Seq(S) /\ u \in Seq(S) /\ Len(u) = Len(s) + Len(t)
      /\ \A i \in 1 .. Len(s) : u[i] = s[i]
      /\ \A i \in 1 .. Len(t) : u[Len(s) + i] = t[i]
  OBVIOUS
<1> HIDE DEF S, s, t, u
<1>2. s \o t = u
  BY <1>1, Concat
<1>. QED BY <1>2 DEF s, t, u

LEMMA NoneBefore == ASSUME NEW S, NEW s \in Seq(S) PROVE <<>> \o s = s
BY ConcatEmptySeq

LEMMA Single ==
    ASSUME NEW w \in Objective, NEW agreed \in BOOLEAN, agreed \/ w \notin {"delete", "rotate"}
    PROVE  ObjectPlan(<<w>>, agreed)
BY DEF ObjectPlan, Final

LEMMA Double ==
    ASSUME NEW v \in Preludes, NEW w \in Objective, NEW agreed \in BOOLEAN,
           agreed \/ w \notin {"delete", "rotate"} \/ v \in {"ask", "usage"}
    PROVE  ObjectPlan(<<v, w>>, agreed)
BY DEF ObjectPlan, Final, Objective

LEMMA Triple ==
    ASSUME NEW u \in Preludes, NEW v \in Preludes, NEW w \in Objective, NEW agreed \in BOOLEAN,
           agreed \/ w \notin {"delete", "rotate"} \/ u \in {"ask", "usage"}
    PROVE  ObjectPlan(<<u, v, w>>, agreed)
BY DEF ObjectPlan, Final, Objective

LEMMA ConsentThen ==
    ASSUME NEW o \in Options, NEW w \in Objective
    PROVE  ObjectPlan(Consent(o) \o <<w>>, o.yes)
<1>0. o.yes \in BOOLEAN
  BY DEF Options
<1>1. CASE o.yes
  <2>1. <<w>> \in Seq(Objective)
    OBVIOUS
  <2>2. Consent(o) \o <<w>> = <<w>>
    BY <1>1, <2>1, NoneBefore DEF Consent
  <2>. QED BY <1>0, <1>1, <2>2, Single
<1>2. CASE ~o.yes
  <2>1. Consent(o) \o <<w>> = <<"ask", w>>
    BY <1>2, Concat11 DEF Consent
  <2>. QED BY <1>0, <2>1, Double DEF Preludes
<1>. QED BY <1>1, <1>2

LEMMA TypedConsentThen ==
    ASSUME NEW o \in Options, NEW w \in Objective
    PROVE  ObjectPlan(TypedConsent(o) \o <<w>>, o.yes)
<1>0. o.yes \in BOOLEAN /\ o.terminal \in BOOLEAN
  BY DEF Options
<1>1. CASE o.yes
  <2>1. <<w>> \in Seq(Objective)
    OBVIOUS
  <2>2. TypedConsent(o) \o <<w>> = <<w>>
    BY <1>1, <2>1, NoneBefore DEF TypedConsent
  <2>. QED BY <1>0, <1>1, <2>2, Single
<1>2. CASE ~o.yes /\ o.terminal
  <2>1. TypedConsent(o) \o <<w>> = <<"ask", w>>
    BY <1>2, Concat11 DEF TypedConsent
  <2>. QED BY <1>0, <2>1, Double DEF Preludes
<1>3. CASE ~o.yes /\ ~o.terminal
  <2>1. TypedConsent(o) \o <<w>> = <<"usage", w>>
    BY <1>3, Concat11 DEF TypedConsent
  <2>. QED BY <1>0, <2>1, Double DEF Preludes
<1>. QED BY <1>0, <1>1, <1>2, <1>3

LEMMA ListingPlan == ASSUME NEW o \in Options PROVE ObjectPlan(Listing(o), o.yes)
BY Single DEF Listing, Objective, Options

LEMMA PackageTable ==
    ASSUME NEW o \in Options, NEW s \in PackageCommands(o)
    PROVE  ObjectPlan(s, o.yes)
<1> USE DEF Objective, Preludes
<1>0. o.yes \in BOOLEAN /\ o.one \in BOOLEAN /\ o.pageAll \in BOOLEAN
  BY DEF Options
<1>1. ObjectPlan(PackageDelete(o), o.yes) /\ ObjectPlan(PackageMove(o), o.yes)
  BY ConsentThen DEF PackageDelete, PackageMove, PackagesApi
<1>2. /\ ObjectPlan(PackageCopy, o.yes) /\ ObjectPlan(PackageResync, o.yes)
      /\ ObjectPlan(PackageStatus, o.yes) /\ ObjectPlan(PackageDependencies, o.yes)
      /\ ObjectPlan(QuarantineAdd, o.yes) /\ ObjectPlan(QuarantineRemove, o.yes)
      /\ ObjectPlan(TagsList, o.yes) /\ ObjectPlan(TagsAdd, o.yes)
      /\ ObjectPlan(TagsClear, o.yes) /\ ObjectPlan(TagsRemove, o.yes)
      /\ ObjectPlan(TagsReplace, o.yes)
  BY <1>0, Single DEF PackageCopy, PackageResync, PackageStatus, PackageDependencies,
     QuarantineAdd, QuarantineRemove, TagsList, TagsAdd, TagsClear, TagsRemove, TagsReplace,
     PackagesApi
<1>3. ObjectPlan(PackagesList(o), o.yes)
  BY ListingPlan DEF PackagesList
<1>4. ObjectPlan(MetadataList(o), o.yes)
  <2>1. /\ <<"read">> \o <<"read">> = <<"read", "read">>
        /\ <<"read">> \o <<"page">> = <<"read", "page">>
        /\ <<"read">> \o <<"pages">> = <<"read", "pages">>
    BY Concat11
  <2>2. MetadataList(o) \in {<<"read", "read">>, <<"read", "page">>, <<"read", "pages">>}
    BY <1>0, <2>1 DEF MetadataList, Listing, PackagesApi, MetadataApi
  <2>. QED BY <1>0, <2>2, Double
<1>5. ObjectPlan(MetadataAdd, o.yes) /\ ObjectPlan(MetadataUpdate, o.yes)
  BY <1>0, Triple DEF MetadataAdd, MetadataUpdate, PackagesApi, MetadataApi
<1>6. ObjectPlan(MetadataRemove(o), o.yes)
  <2>1. CASE o.yes
    <3>1. <<"read", "delete">> \in Seq(Objective)
      OBVIOUS
    <3>2. MetadataRemove(o) = <<"read", "delete">>
      BY <2>1, <3>1, NoneBefore DEF MetadataRemove, Consent, PackagesApi, MetadataApi
    <3>. QED BY <1>0, <2>1, <3>2, Double
  <2>2. CASE ~o.yes
    <3>1. MetadataRemove(o) = <<"ask", "read", "delete">>
      BY <2>2, Concat12 DEF MetadataRemove, Consent, PackagesApi, MetadataApi
    <3>. QED BY <1>0, <3>1, Triple
  <2>. QED BY <2>1, <2>2
<1>. QED
  BY <1>1, <1>2, <1>3, <1>4, <1>5, <1>6 DEF PackageCommands

LEMMA AdminTable ==
    ASSUME NEW o \in Options, NEW s \in AdminCommands(o)
    PROVE  ObjectPlan(s, o.yes)
<1> USE DEF Objective, Preludes
<1>0. o.yes \in BOOLEAN /\ o.one \in BOOLEAN /\ o.pageAll \in BOOLEAN /\ o.dryRun \in BOOLEAN
  BY DEF Options
<1>1. /\ ObjectPlan(RepositoriesDelete(o), o.yes) /\ ObjectPlan(EntitlementsDelete(o), o.yes)
      /\ ObjectPlan(EntitlementsRefresh(o), o.yes) /\ ObjectPlan(EntitlementsSync(o), o.yes)
      /\ ObjectPlan(UpstreamDelete(o), o.yes) /\ ObjectPlan(LicensePolicyDelete(o), o.yes)
      /\ ObjectPlan(VulnerabilityPolicyDelete(o), o.yes)
      /\ ObjectPlan(DenyPolicyDelete(o), o.yes)
  BY ConsentThen DEF RepositoriesDelete, EntitlementsDelete, EntitlementsRefresh,
     EntitlementsSync, UpstreamDelete, LicensePolicyDelete, VulnerabilityPolicyDelete,
     DenyPolicyDelete, ReposApi, EntitlementsApi, UpstreamsApi, LicensePolicyApi,
     VulnerabilityPolicyApi, DenyPolicyApi
<1>2. /\ ObjectPlan(GpgGet, o.yes) /\ ObjectPlan(EntitlementsCreate, o.yes)
      /\ ObjectPlan(EntitlementsUpdate, o.yes) /\ ObjectPlan(DenyPolicyGet, o.yes)
  BY <1>0, Single DEF GpgGet, EntitlementsCreate, EntitlementsUpdate, DenyPolicyGet, ReposApi,
     EntitlementsApi, DenyPolicyApi
<1>3. /\ ObjectPlan(RepositoriesCreate, o.yes) /\ ObjectPlan(RepositoriesUpdate, o.yes)
      /\ ObjectPlan(EntitlementsRestrict, o.yes)
      /\ ObjectPlan(UpstreamCreate, o.yes) /\ ObjectPlan(UpstreamUpdate, o.yes)
      /\ ObjectPlan(LicensePolicyCreate, o.yes) /\ ObjectPlan(LicensePolicyUpdate, o.yes)
      /\ ObjectPlan(VulnerabilityPolicyCreate, o.yes)
      /\ ObjectPlan(VulnerabilityPolicyUpdate, o.yes)
      /\ ObjectPlan(DenyPolicyCreate, o.yes) /\ ObjectPlan(DenyPolicyUpdate, o.yes)
  BY <1>0, Double DEF RepositoriesCreate, RepositoriesUpdate, EntitlementsRestrict,
     UpstreamCreate, UpstreamUpdate, LicensePolicyCreate, LicensePolicyUpdate,
     VulnerabilityPolicyCreate, VulnerabilityPolicyUpdate, DenyPolicyCreate,
     DenyPolicyUpdate, ReposApi, EntitlementsApi, UpstreamsApi, LicensePolicyApi,
     VulnerabilityPolicyApi, DenyPolicyApi
<1>4. /\ ObjectPlan(RepositoriesGet(o), o.yes) /\ ObjectPlan(EntitlementsList(o), o.yes)
      /\ ObjectPlan(UpstreamList(o), o.yes) /\ ObjectPlan(LicensePolicyList(o), o.yes)
      /\ ObjectPlan(VulnerabilityPolicyList(o), o.yes) /\ ObjectPlan(DenyPolicyList(o), o.yes)
  BY <1>0, ListingPlan, Single DEF RepositoriesGet, EntitlementsList, UpstreamList,
     LicensePolicyList, VulnerabilityPolicyList, DenyPolicyList
<1>5. ObjectPlan(GpgUpload(o), o.yes)
  <2>1. GpgUpload(o) \in {<<"input", "read">>, <<"input", "act">>}
    BY <1>0, Concat11 DEF GpgUpload, GpgDryRun, ReposApi
  <2>. QED BY <1>0, <2>1, Double
<1>6. ObjectPlan(GpgRegenerate(o), o.yes)
  BY <1>0, Single, TypedConsentThen DEF GpgRegenerate, GpgDryRun, ReposApi
<1>. QED
  BY <1>1, <1>2, <1>3, <1>4, <1>5, <1>6 DEF AdminCommands

LEMMA ReportTable ==
    ASSUME NEW o \in Options, NEW s \in ReportCommands(o)
    PROVE  ObjectPlan(s, o.yes)
<1> USE DEF Objective, Preludes
<1>0. o.yes \in BOOLEAN /\ o.verbose \in BOOLEAN
  BY DEF Options
<1>1. /\ ObjectPlan(Distros, o.yes) /\ ObjectPlan(QuotaLimits, o.yes)
      /\ ObjectPlan(QuotaHistory, o.yes) /\ ObjectPlan(CheckRates, o.yes)
      /\ ObjectPlan(CheckService, o.yes)
  BY <1>0, Single DEF Distros, QuotaLimits, QuotaHistory, CheckRates, CheckService, ReportApi
<1>2. /\ ObjectPlan(EntitlementsMetrics, o.yes) /\ ObjectPlan(PackagesMetrics, o.yes)
      /\ ObjectPlan(Vulnerabilities, o.yes)
  BY <1>0, Double DEF EntitlementsMetrics, PackagesMetrics, Vulnerabilities, ReportApi
<1>3. ObjectPlan(WhoAmI(o), o.yes)
  <2>1. CASE o.verbose
    <3>1. <<"read">> \o <<"tryRead">> = <<"read", "tryRead">>
      BY Concat11
    <3>2. <<"read", "tryRead">> \o <<"known">> = <<"read", "tryRead", "known">>
      BY Concat21
    <3>3. WhoAmI(o) = <<"read", "tryRead", "known">>
      BY <2>1, <3>1, <3>2 DEF WhoAmI, ReportApi
    <3>. QED BY <1>0, <3>3, Triple
  <2>2. CASE ~o.verbose
    <3>1. <<"read">> \in Seq(Objective)
      OBVIOUS
    <3>2. <<"read">> \o <<>> = <<"read">>
      BY <3>1, ConcatEmptySeq
    <3>3. <<"read">> \o <<"known">> = <<"read", "known">>
      BY Concat11
    <3>4. WhoAmI(o) = <<"read", "known">>
      BY <2>2, <3>2, <3>3 DEF WhoAmI, ReportApi
    <3>. QED BY <1>0, <3>4, Double
  <2>. QED BY <2>1, <2>2
<1>. QED BY <1>1, <1>2, <1>3 DEF ReportCommands

\* Every command about objects, under every option
LEMMA ObjectTable ==
    ASSUME NEW o \in Options, NEW s \in ObjectCommands(o)
    PROVE  ObjectPlan(s, o.yes)
BY PackageTable, AdminTable, ReportTable DEF ObjectCommands

\* The commands about privileges: each is at its first place.
LEMMA SetTable ==
    ASSUME NEW o \in Options
    PROVE  PrivilegesSet(o) = IF o.yes THEN GrantY ELSE Grant5
<1>1. CASE o.yes
  <2>1. <<"input">> \o <<>> = <<"input">>
    BY ConcatEmptySeq, <<"input">> \in Seq({"input"})
  <2>2. <<"input">> \o <<"name", "grant">> = <<"input", "name", "grant">>
    BY Concat12
  <2>. QED BY <1>1, <2>1, <2>2 DEF PrivilegesSet, ReposApi, GrantY
<1>2. CASE ~o.yes
  <2>1. <<"input">> \o <<"readHeld", "askLowering">> = <<"input", "readHeld", "askLowering">>
    BY Concat12
  <2>2. <<"input", "readHeld", "askLowering">> \o <<"name", "grant">>
        = <<"input", "readHeld", "askLowering", "name", "grant">>
    BY Concat32
  <2>. QED BY <1>2, <2>1, <2>2 DEF PrivilegesSet, ReposApi, Grant5
<1>. QED BY <1>1, <1>2

LEMMA RevokeTable ==
    ASSUME NEW o \in Options
    PROVE  PrivilegesRevoke(o) = IF o.yes THEN RevokeY6 ELSE Revoke7
<1> DEFINE first == <<"input", "readHeld", "expressible", "found">>
<1>1. CASE o.yes
  <2>1. first \o <<>> = first
    BY ConcatEmptySeq, first \in Seq({"input", "readHeld", "expressible", "found"})
  <2>2. first \o <<"keep", "put">> = RevokeY6
    BY Concat42 DEF RevokeY6
  <2>. QED BY <1>1, <2>1, <2>2 DEF PrivilegesRevoke, ReposApi, Consent
<1>2. CASE ~o.yes
  <2>1. first \o <<"ask">> = <<"input", "readHeld", "expressible", "found", "ask">>
    BY Concat41
  <2>2. <<"input", "readHeld", "expressible", "found", "ask">> \o <<"keep", "put">> = Revoke7
    BY Concat52 DEF Revoke7
  <2>. QED BY <1>2, <2>1, <2>2 DEF PrivilegesRevoke, ReposApi, Consent
<1>. QED BY <1>1, <1>2

LEMMA ReplaceTable ==
    ASSUME NEW o \in Options
    PROVE  PrivilegesReplace(o) = IF o.yes THEN ReplaceY3
                                  ELSE IF o.stdin THEN <<"usage">> ELSE Replace4
<1>1. CASE o.yes
  <2>1. <<"input", "declare">> \o <<>> = <<"input", "declare">>
    BY ConcatEmptySeq, <<"input", "declare">> \in Seq({"input", "declare"})
  <2>2. <<"input", "declare">> \o <<"put">> = ReplaceY3
    BY Concat21 DEF ReplaceY3
  <2>. QED BY <1>1, <2>1, <2>2 DEF PrivilegesReplace, ReposApi, Consent
<1>2. CASE ~o.yes /\ ~o.stdin
  <2>1. <<"input", "declare">> \o <<"ask">> = <<"input", "declare", "ask">>
    BY Concat21
  <2>2. <<"input", "declare", "ask">> \o <<"put">> = Replace4
    BY Concat31 DEF Replace4
  <2>. QED BY <1>2, <2>1, <2>2 DEF PrivilegesReplace, ReposApi, Consent
<1>3. CASE ~o.yes /\ o.stdin
  BY <1>3 DEF PrivilegesReplace
<1>. QED BY <1>1, <1>2, <1>3

-----------------------------------------------------------------------------
(* From one place to the next                                               *)

\* Heads, tails and lengths of the places
LEMMA Places ==
    /\ Head(Grant5) = "input" /\ Tail(Grant5) = Grant4 /\ Len(Grant5) = 5
    /\ Head(Grant4) = "readHeld" /\ Tail(Grant4) = Grant3 /\ Len(Grant4) = 4
    /\ Head(Grant3) = "askLowering" /\ Tail(Grant3) = Grant2 /\ Len(Grant3) = 3
    /\ Head(GrantY) = "input" /\ Tail(GrantY) = Grant2 /\ Len(GrantY) = 3
    /\ Head(Grant2) = "name" /\ Tail(Grant2) = Grant1 /\ Len(Grant2) = 2
    /\ Head(Grant1) = "grant" /\ Len(Grant1) = 1
    /\ Head(Revoke7) = "input" /\ Tail(Revoke7) = Revoke6 /\ Len(Revoke7) = 7
    /\ Head(Revoke6) = "readHeld" /\ Tail(Revoke6) = Revoke5 /\ Len(Revoke6) = 6
    /\ Head(Revoke5) = "expressible" /\ Tail(Revoke5) = Revoke4 /\ Len(Revoke5) = 5
    /\ Head(Revoke4) = "found" /\ Tail(Revoke4) = Revoke3 /\ Len(Revoke4) = 4
    /\ Head(Revoke3) = "ask" /\ Tail(Revoke3) = Revoke2 /\ Len(Revoke3) = 3
    /\ Head(RevokeY6) = "input" /\ Tail(RevokeY6) = RevokeY5 /\ Len(RevokeY6) = 6
    /\ Head(RevokeY5) = "readHeld" /\ Tail(RevokeY5) = RevokeY4 /\ Len(RevokeY5) = 5
    /\ Head(RevokeY4) = "expressible" /\ Tail(RevokeY4) = RevokeY3 /\ Len(RevokeY4) = 4
    /\ Head(RevokeY3) = "found" /\ Tail(RevokeY3) = Revoke2 /\ Len(RevokeY3) = 3
    /\ Head(Revoke2) = "keep" /\ Tail(Revoke2) = Put1 /\ Len(Revoke2) = 2
    /\ Head(Replace4) = "input" /\ Tail(Replace4) = Replace3 /\ Len(Replace4) = 4
    /\ Head(Replace3) = "declare" /\ Tail(Replace3) = Replace2 /\ Len(Replace3) = 3
    /\ Head(Replace2) = "ask" /\ Tail(Replace2) = Put1 /\ Len(Replace2) = 2
    /\ Head(ReplaceY3) = "input" /\ Tail(ReplaceY3) = ReplaceY2 /\ Len(ReplaceY3) = 3
    /\ Head(ReplaceY2) = "declare" /\ Tail(ReplaceY2) = Put1 /\ Len(ReplaceY2) = 2
    /\ Head(Put1) = "put" /\ Len(Put1) = 1
    /\ Head(ShowHeld) = "showHeld" /\ Len(ShowHeld) = 1
<1>1. /\ Head(Grant5) = "input" /\ Tail(Grant5) = Grant4 /\ Len(Grant5) = 5
      /\ Head(Grant4) = "readHeld" /\ Tail(Grant4) = Grant3 /\ Len(Grant4) = 4
      /\ Head(Grant3) = "askLowering" /\ Tail(Grant3) = Grant2 /\ Len(Grant3) = 3
      /\ Head(GrantY) = "input" /\ Tail(GrantY) = Grant2 /\ Len(GrantY) = 3
      /\ Head(Grant2) = "name" /\ Tail(Grant2) = Grant1 /\ Len(Grant2) = 2
      /\ Head(Grant1) = "grant" /\ Len(Grant1) = 1
  BY DEF Grant1, Grant2, Grant3, Grant4, Grant5, GrantY
<1>2. /\ Head(Revoke7) = "input" /\ Tail(Revoke7) = Revoke6 /\ Len(Revoke7) = 7
      /\ Head(Revoke6) = "readHeld" /\ Tail(Revoke6) = Revoke5 /\ Len(Revoke6) = 6
      /\ Head(Revoke5) = "expressible" /\ Tail(Revoke5) = Revoke4 /\ Len(Revoke5) = 5
      /\ Head(Revoke4) = "found" /\ Tail(Revoke4) = Revoke3 /\ Len(Revoke4) = 4
      /\ Head(Revoke3) = "ask" /\ Tail(Revoke3) = Revoke2 /\ Len(Revoke3) = 3
      /\ Head(Revoke2) = "keep" /\ Tail(Revoke2) = Put1 /\ Len(Revoke2) = 2
  BY DEF Revoke2, Revoke3, Revoke4, Revoke5, Revoke6, Revoke7, Put1
<1>3. /\ Head(RevokeY6) = "input" /\ Tail(RevokeY6) = RevokeY5 /\ Len(RevokeY6) = 6
      /\ Head(RevokeY5) = "readHeld" /\ Tail(RevokeY5) = RevokeY4 /\ Len(RevokeY5) = 5
      /\ Head(RevokeY4) = "expressible" /\ Tail(RevokeY4) = RevokeY3 /\ Len(RevokeY4) = 4
      /\ Head(RevokeY3) = "found" /\ Tail(RevokeY3) = Revoke2 /\ Len(RevokeY3) = 3
  BY DEF Revoke2, RevokeY3, RevokeY4, RevokeY5, RevokeY6
<1>4. /\ Head(Replace4) = "input" /\ Tail(Replace4) = Replace3 /\ Len(Replace4) = 4
      /\ Head(Replace3) = "declare" /\ Tail(Replace3) = Replace2 /\ Len(Replace3) = 3
      /\ Head(Replace2) = "ask" /\ Tail(Replace2) = Put1 /\ Len(Replace2) = 2
      /\ Head(ReplaceY3) = "input" /\ Tail(ReplaceY3) = ReplaceY2 /\ Len(ReplaceY3) = 3
      /\ Head(ReplaceY2) = "declare" /\ Tail(ReplaceY2) = Put1 /\ Len(ReplaceY2) = 2
      /\ Head(Put1) = "put" /\ Len(Put1) = 1
      /\ Head(ShowHeld) = "showHeld" /\ Len(ShowHeld) = 1
  BY DEF Replace2, Replace3, Replace4, ReplaceY2, ReplaceY3, Put1, ShowHeld
<1>. QED BY <1>1, <1>2, <1>3, <1>4

LEMMA PlacesType == PrivilegePlans \cup {ShowHeld, <<"usage">>} \subseteq Seq(Steps) \ {<<>>}
BY DEF PrivilegePlans, GrantPlans, RevokePlans, ReplacePlans, Steps, Objective, Preludes,
   Grant1, Grant2, Grant3, Grant4, Grant5, GrantY, Revoke2, Revoke3, Revoke4, Revoke5, Revoke6,
   Revoke7, RevokeY3, RevokeY4, RevokeY5, RevokeY6, Replace2, Replace3, Replace4, ReplaceY2,
   ReplaceY3, Put1, ShowHeld

\* What a command about objects does last it has agreed to, and a step that is
\* not its last changes nothing.
LEMMA ObjectStep ==
    ASSUME NEW s, NEW agreed \in BOOLEAN, ObjectPlan(s, agreed)
    PROVE  /\ s \in Seq(Steps) /\ s # <<>> /\ Head(s) \in Objective
           /\ Head(s) \notin Preludes => Len(s) = 1
           /\ Len(s) = 1 /\ Head(s) \in {"delete", "rotate"} => agreed
           /\ Len(s) # 1 => ObjectPlan(Tail(s), agreed \/ Head(s) \in {"ask", "usage"})
<1>1. /\ s \in Seq(Objective) /\ s # <<>> /\ \A i \in 1 .. Len(s) - 1 : s[i] \in Preludes
      /\ Len(s) \in Nat \ {0} /\ Head(s) = s[1]
      /\ s[Len(s)] \in {"delete", "rotate"} =>
           agreed \/ \E i \in 1 .. Len(s) - 1 : s[i] \in {"ask", "usage"}
  BY DEF ObjectPlan, Final
<1>2. s \in Seq(Steps) /\ Head(s) \in Objective
  BY <1>1 DEF Steps
<1>3. CASE Len(s) = 1
  BY <1>1, <1>2, <1>3
<1>4. CASE Len(s) # 1
  <2> DEFINE t == Tail(s)
             further == agreed \/ Head(s) \in {"ask", "usage"}
  <2>0. /\ t \in Seq(Objective) /\ Len(t) = Len(s) - 1
        /\ \A i \in 1 .. Len(t) : t[i] = s[i + 1]
    BY <1>1, HeadTailProperties
  <2> HIDE DEF t
  <2>1. /\ t \in Seq(Objective) /\ Len(t) = Len(s) - 1 /\ t # <<>>
        /\ \A i \in 1 .. Len(t) : t[i] = s[i + 1]
    BY <1>1, <1>4, <2>0, EmptySeq
  <2>2. \A i \in 1 .. Len(t) - 1 : t[i] \in Preludes
    BY <1>1, <2>1
  <2>3. ASSUME t[Len(t)] \in {"delete", "rotate"}
        PROVE  further \/ \E i \in 1 .. Len(t) - 1 : t[i] \in {"ask", "usage"}
    <3>1. t[Len(t)] = s[Len(s)]
      BY <1>1, <1>4, <2>1
    <3>2. CASE agreed
      BY <3>2
    <3>3. CASE ~agreed
      <4>1. PICK i \in 1 .. Len(s) - 1 : s[i] \in {"ask", "usage"}
        BY <1>1, <2>3, <3>1, <3>3
      <4>2. CASE i = 1
        BY <1>1, <4>1, <4>2
      <4>3. CASE i # 1
        <5>1. i - 1 \in 1 .. Len(t) - 1 /\ t[i - 1] = s[i]
          BY <1>1, <2>1, <4>3
        <5>. QED BY <4>1, <5>1
      <4>. QED BY <4>2, <4>3
    <3>. QED BY <3>2, <3>3
  <2>4. ObjectPlan(t, further)
    BY <2>1, <2>2, <2>3 DEF ObjectPlan, Final
  <2>5. Head(s) \in Preludes
    <3>1. Len(s) \in Nat \ {0}
      BY <1>1
    <3>2. 1 \in 1 .. Len(s) - 1
      BY <1>4, <3>1
    <3>. QED BY <1>1, <3>2, Zenon
  <2>6. ObjectPlan(Tail(s), agreed \/ Head(s) \in {"ask", "usage"})
    BY <2>4, Zenon DEF t
  <2>. QED BY <1>1, <1>2, <1>4, <2>5, <2>6, Zenon
<1>. QED BY <1>3, <1>4

-----------------------------------------------------------------------------
(* The objects and their pages                                              *)

LEMMA Counts ==
    ASSUME NEW S \in SUBSET Ids
    PROVE  IsFiniteSet(S) /\ Cardinality(S) \in Nat
<1>1. IsFiniteSet(Ids)
  BY ManageAssumption, FS_Interval DEF Ids
<1>. QED BY <1>1, FS_Subset, FS_CardinalityType

\* The place of an object falls with those that go and rises with those that come.
LEMMA BeforeFalls ==
    ASSUME NEW S \in SUBSET Ids, NEW T \in SUBSET S, NEW i \in Ids
    PROVE  /\ Cardinality({j \in S : j < i}) \in Nat
           /\ Cardinality({j \in T : j < i}) <= Cardinality({j \in S : j < i})
           /\ i \in S => Cardinality({j \in S : j < i}) < Cardinality(S)
<1> DEFINE below == {j \in S : j < i}
<1>1. below \subseteq S /\ IsFiniteSet(S) /\ IsFiniteSet(below) /\ Cardinality(below) \in Nat
      /\ Cardinality(S) \in Nat
  BY Counts
<1>2. {j \in T : j < i} \in SUBSET below
  OBVIOUS
<1>3. Cardinality({j \in T : j < i}) <= Cardinality(below)
  BY <1>1, <1>2, FS_Subset
<1>4. ASSUME i \in S PROVE Cardinality(below) < Cardinality(S)
  <2>1. i \notin below
    BY ManageAssumption DEF Ids
  <2>2. below # S
    BY <1>4, <2>1
  <2>3. Cardinality(below) <= Cardinality(S) /\ Cardinality(below) # Cardinality(S)
    BY <1>1, <2>2, FS_Subset
  <2>. QED BY <1>1, <2>3
<1>. QED BY <1>1, <1>3, <1>4

\* The pages that the service tells hold all objects.
LEMMA PagesSuffice ==
    ASSUME NEW n \in Nat, NEW k \in Nat, k >= (n + PageSize - 1) \div PageSize
    PROVE  n <= k * PageSize
<1> DEFINE q == (n + PageSize - 1) \div PageSize
<1>1. PageSize \in Nat \ {0} /\ n + PageSize - 1 \in Nat
  BY ManageAssumption
<1>2. q \in Int /\ n + PageSize - 1 < (q + 1) * PageSize
  BY <1>1
<1> HIDE DEF q
<1>3. (q + 1) * PageSize = q * PageSize + PageSize
  BY <1>1, <1>2
<1>4. q <= k
  BY DEF q
<1>5. q * PageSize <= k * PageSize
  BY <1>1, <1>2, <1>4
<1>. QED BY <1>1, <1>2, <1>3, <1>5

-----------------------------------------------------------------------------
(* The start                                                                *)

LEMMA NoneType == None \in [Targets -> Ranks] /\ \A t \in Targets : None[t] = 0
BY DEF None, Ranks, Future

LEMMA InitIInv == Init => IInv
<1> SUFFICES ASSUME Init PROVE IInv
  OBVIOUS
<1>1. TypeOK
  <2>1. /\ privileges \in [Targets -> Ranks] /\ objects \subseteq Ids /\ todo \in Seq(Steps)
        /\ DOMAIN wanted \subseteq Targets /\ \A t \in DOMAIN wanted : wanted[t] \in {0} \cup Levels
    BY NoneType DEF Init
  <2>2. secret \in 0 .. MaxRotated /\ othersLeft \in 0 .. MaxOthers /\ tries \in 1 .. MaxRetries + 1
    BY ManageAssumption DEF Init
  <2>3. outcome \in Outcomes /\ effects \in 0 .. 2
    BY DEF Init, Outcomes
  <2>4. page \in Nat /\ got \in [Ids -> Nat] /\ held \in [Targets -> Ranks] /\ body \in [Targets -> Ranks]
    BY NoneType DEF Init
  <2>5. /\ touched \subseteq Targets /\ atStart \subseteq Ids /\ consent \in BOOLEAN
        /\ lost \in BOOLEAN /\ grown \in BOOLEAN /\ shrunk \in BOOLEAN
    BY Zenon DEF Init
  <2>. QED BY <2>1, <2>2, <2>3, <2>4, <2>5 DEF TypeOK
<1>2. Placed /\ Undone /\ Known1 /\ ReportIsTrue
  BY DEF Init, Placed, Undone, ExitTellsEffect, Known1, ReportIsTrue
<1>3. Paging
  <2>1. \A i \in Ids : Before(i) \in Nat
    BY <1>1, BeforeFalls DEF Before, TypeOK
  <2>2. 0 * PageSize = 0
    BY ManageAssumption
  <2>. QED BY <2>1, <2>2 DEF Init, Paging, ListIsComplete
<1>. QED BY <1>1, <1>2, <1>3 DEF IInv

LEMMA Asked ==
    ASSUME wanted' \in Requested
    PROVE  /\ todo' \in {Grant5, GrantY} =>
                /\ DOMAIN wanted' \subseteq Nameable /\ DOMAIN wanted' # {}
                /\ \A t \in DOMAIN wanted' : wanted'[t] \in Levels
           /\ todo' \in {Revoke7, RevokeY6} =>
                /\ DOMAIN wanted' \subseteq Nameable /\ DOMAIN wanted' # {}
                /\ \A t \in DOMAIN wanted' : wanted'[t] = 0
           /\ todo' \in {Replace4, ReplaceY3} =>
                /\ DOMAIN wanted' = Targets
                /\ \A t \in DOMAIN wanted' : wanted'[t] \in {0} \cup Levels
           /\ todo' = ShowHeld \/ todo' \in Seq(Objective) => wanted' = <<>>
<1>1. todo' \in {Grant5, GrantY} => Has("name") /\ ~Has("found") /\ ~Has("declare")
  <2>1. 4 \in DOMAIN Grant5 /\ Grant5[4] = "name" /\ 2 \in DOMAIN GrantY /\ GrantY[2] = "name"
    BY DEF Grant5, GrantY
  <2>2. /\ \A i \in DOMAIN Grant5 : Grant5[i] \notin {"found", "declare"}
        /\ \A i \in DOMAIN GrantY : GrantY[i] \notin {"found", "declare"}
    BY DEF Grant5, GrantY
  <2>. QED BY <2>1, <2>2 DEF Has
<1>2. todo' \in {Revoke7, RevokeY6} => Has("found") /\ ~Has("name") /\ ~Has("declare")
  <2>1. /\ 4 \in DOMAIN Revoke7 /\ Revoke7[4] = "found"
        /\ 4 \in DOMAIN RevokeY6 /\ RevokeY6[4] = "found"
    BY DEF Revoke7, RevokeY6
  <2>2. /\ \A i \in DOMAIN Revoke7 : Revoke7[i] \notin {"name", "declare"}
        /\ \A i \in DOMAIN RevokeY6 : RevokeY6[i] \notin {"name", "declare"}
    BY DEF Revoke7, RevokeY6
  <2>. QED BY <2>1, <2>2 DEF Has
<1>3. todo' \in {Replace4, ReplaceY3} => Has("declare") /\ ~Has("name") /\ ~Has("found")
  <2>1. /\ 2 \in DOMAIN Replace4 /\ Replace4[2] = "declare"
        /\ 2 \in DOMAIN ReplaceY3 /\ ReplaceY3[2] = "declare"
    BY DEF Replace4, ReplaceY3
  <2>2. /\ \A i \in DOMAIN Replace4 : Replace4[i] \notin {"name", "found"}
        /\ \A i \in DOMAIN ReplaceY3 : ReplaceY3[i] \notin {"name", "found"}
    BY DEF Replace4, ReplaceY3
  <2>. QED BY <2>1, <2>2 DEF Has
<1>4. todo' = ShowHeld \/ todo' \in Seq(Objective) => ~Has("name") /\ ~Has("found") /\ ~Has("declare")
  <2>1. CASE todo' = ShowHeld
    BY <2>1 DEF Has, ShowHeld
  <2>2. CASE todo' \in Seq(Objective)
    BY <2>2, ElementOfSeq DEF Has, Objective, Preludes
  <2>. QED BY <2>1, <2>2
<1>5. ASSUME Has("name"), ~Has("found"), ~Has("declare")
      PROVE  /\ DOMAIN wanted' \subseteq Nameable /\ DOMAIN wanted' # {}
             /\ \A t \in DOMAIN wanted' : wanted'[t] \in Levels
  <2>1. wanted' \in UNION {{[t \in T |-> l] : l \in Levels} : T \in (SUBSET Nameable) \ {{}}}
    BY <1>5 DEF Requested
  <2>2. PICK T \in (SUBSET Nameable) \ {{}}, l \in Levels : wanted' = [t \in T |-> l]
    BY <2>1
  <2>3. DOMAIN wanted' = T /\ \A t \in T : wanted'[t] = l
    BY <2>2
  <2>. QED BY <2>2, <2>3
<1>6. ASSUME Has("found"), ~Has("name"), ~Has("declare")
      PROVE  /\ DOMAIN wanted' \subseteq Nameable /\ DOMAIN wanted' # {}
             /\ \A t \in DOMAIN wanted' : wanted'[t] = 0
  <2>1. wanted' \in {[t \in T |-> 0] : T \in (SUBSET Nameable) \ {{}}}
    BY <1>6 DEF Requested
  <2>2. PICK T \in (SUBSET Nameable) \ {{}} : wanted' = [t \in T |-> 0]
    BY <2>1
  <2>3. DOMAIN wanted' = T /\ \A t \in T : wanted'[t] = 0
    BY <2>2
  <2>. QED BY <2>2, <2>3
<1>7. ASSUME Has("declare"), ~Has("name"), ~Has("found")
      PROVE  /\ DOMAIN wanted' = Targets
             /\ \A t \in DOMAIN wanted' : wanted'[t] \in {0} \cup Levels
  <2>1. wanted' \in [Targets -> {0} \cup Levels]
    BY <1>7 DEF Requested
  <2>. QED BY <2>1
<1>8. ~Has("name") /\ ~Has("found") /\ ~Has("declare") => wanted' = <<>>
  BY DEF Requested
<1>. QED BY <1>1, <1>2, <1>3, <1>4, <1>5, <1>6, <1>7, <1>8

\* Where a command starts
LEMMA Begins ==
    ASSUME Start
    PROVE  /\ consent' \in BOOLEAN
           /\ \/ todo' = ShowHeld \/ ObjectPlan(todo', consent')
              \/ todo' = IF consent' THEN GrantY ELSE Grant5
              \/ todo' = IF consent' THEN RevokeY6 ELSE Revoke7
              \/ todo' = IF consent' THEN ReplaceY3 ELSE Replace4
<1>1. PICK o \in Options :
        (todo' \in PrivilegeCommands(o) \/ todo' \in ObjectCommands(o)) /\ consent' = o.yes
  BY DEF Start
<1>2. o.yes \in BOOLEAN
  BY DEF Options
<1>3. CASE todo' \in ObjectCommands(o)
  BY <1>1, <1>2, <1>3, ObjectTable
<1>4. CASE todo' \in PrivilegeCommands(o)
  <2>1. PrivilegesList = ShowHeld
    BY DEF PrivilegesList, ShowHeld, ReposApi
  <2>2. ObjectPlan(<<"usage">>, o.yes)
    BY <1>2, Single DEF Objective, Preludes
  <2>. QED
    BY <1>1, <1>2, <1>4, <2>1, <2>2, SetTable, RevokeTable, ReplaceTable DEF PrivilegeCommands
<1>. QED BY <1>1, <1>3, <1>4

LEMMA StartIInv == IInv /\ Start => IInv'
<1> SUFFICES ASSUME IInv, Start PROVE IInv'
  OBVIOUS
<1>0. /\ UNCHANGED <<service, othersLeft, tries, held, body, listing, lost, effects, touched,
                     grown, shrunk>>
      /\ outcome = "none" /\ outcome' = "running" /\ atStart' = objects
      /\ wanted' \in Requested /\ effects = 0 /\ body = None /\ page = 0
      /\ TypeOK
  BY DEF Start, IInv, Undone, Paging
<1>1. /\ wanted' # <<>> => todo' \in PrivilegePlans
      /\ wanted' = <<>> => todo' = ShowHeld \/ ObjectPlan(todo', consent')
      /\ todo' \in Seq(Steps)
      /\ DOMAIN wanted' \subseteq Targets /\ \A t \in DOMAIN wanted' : wanted'[t] \in {0} \cup Levels
  <2>1. CASE todo' = ShowHeld \/ ObjectPlan(todo', consent')
    <3>1. todo' = ShowHeld \/ todo' \in Seq(Objective)
      BY <2>1 DEF ObjectPlan
    <3>2. wanted' = <<>>
      BY <1>0, <3>1, Asked
    <3>. QED BY <2>1, <3>2, Begins, ObjectStep, PlacesType
  <2>2. CASE todo' \in {GrantY, Grant5, RevokeY6, Revoke7, ReplaceY3, Replace4}
    <3>1. /\ DOMAIN wanted' \subseteq Targets /\ DOMAIN wanted' # {}
          /\ \A t \in DOMAIN wanted' : wanted'[t] \in {0} \cup Levels
      BY <1>0, <2>2, Asked DEF Targets
    <3>2. todo' \in PrivilegePlans
      BY <2>2 DEF PrivilegePlans, GrantPlans, RevokePlans, ReplacePlans
    <3>. QED BY <3>1, <3>2, PlacesType
  <2>. QED BY <2>1, <2>2, Begins
<1>2. TypeOK'
  <2>1. consent' \in BOOLEAN
    BY Begins
  <2>2. outcome' \in Outcomes /\ atStart' \subseteq Ids
    BY <1>0 DEF TypeOK, Outcomes
  <2>. QED BY <1>0, <1>1, <2>1, <2>2 DEF TypeOK, service, listing
<1>3. Placed'
  BY <1>0, <1>1 DEF Placed
<1>4. Undone' /\ ReportIsTrue'
  BY <1>0 DEF Undone, ExitTellsEffect, ReportIsTrue
<1>5. Known1'
  <2> SUFFICES ASSUME wanted' # <<>> PROVE (Read1 /\ Granting /\ Revoking /\ Replacing /\ Putting)'
    BY DEF Known1
  <2>1. \/ todo' = IF consent' THEN GrantY ELSE Grant5
        \/ todo' = IF consent' THEN RevokeY6 ELSE Revoke7
        \/ todo' = IF consent' THEN ReplaceY3 ELSE Replace4
    <3>1. todo' # ShowHeld /\ todo' \notin Seq(Objective)
      BY <1>0, Asked
    <3>. QED BY <3>1, Begins DEF ObjectPlan
  <2>3. (Read1 /\ Putting)'
    BY <2>1, Places DEF Read1, Putting
  <2>4. Granting'
    BY <2>1, Places DEF Granting
  <2>5. Revoking'
    <3>1. todo' \in RevokePlans => todo' \in {Revoke7, RevokeY6}
      BY <2>1, Places DEF RevokePlans
    <3>2. /\ todo' \notin {Revoke2, Revoke3, Revoke4, RevokeY3, RevokeY4, RevokeY5}
          /\ todo' = RevokeY6 => consent'
      BY <2>1, Places
    <3>. QED BY <1>0, <3>1, <3>2, Asked DEF Revoking
  <2>6. Replacing'
    BY <1>0, <2>1, Places, Asked DEF Replacing, ReplacePlans
  <2>. QED BY <2>3, <2>4, <2>5, <2>6
<1>6. Paging'
  <2>1. objects' \in SUBSET Ids /\ page' = 0 /\ got' = [i \in Ids |-> 0] /\ atStart' = objects'
    BY <1>0 DEF IInv, TypeOK, Paging, service, listing
  <2>2. \A i \in Ids : Before(i)' \in Nat
    BY <2>1, BeforeFalls DEF Before
  <2>3. 0 * PageSize = 0
    BY ManageAssumption
  <2>. QED BY <1>0, <2>1, <2>2, <2>3 DEF Paging, ListIsComplete
<1>. QED BY <1>2, <1>3, <1>4, <1>5, <1>6 DEF IInv

-----------------------------------------------------------------------------
(* Steps that change nothing of the service                                 *)

LEMMA AtPlace ==
    ASSUME IInv, outcome = "running"
    PROVE  /\ todo \in Seq(Steps) /\ todo # <<>> /\ Step \in Steps
           /\ wanted = <<>> => /\ body = None /\ DOMAIN wanted = {}
                               /\ todo = ShowHeld \/ ObjectPlan(todo, consent)
           /\ wanted # <<>> => todo \in PrivilegePlans /\ Read1 /\ Granting /\ Revoking
                               /\ Replacing /\ Putting
<1>1. todo \in Seq(Steps) /\ consent \in BOOLEAN
  BY DEF IInv, TypeOK
<1>2. todo # <<>>
  BY <1>1, ObjectStep, PlacesType DEF IInv, Placed
<1>3. Step \in Steps
  BY <1>1, <1>2, HeadTailProperties DEF Step
<1>. QED BY <1>1, <1>2, <1>3 DEF IInv, Placed, Known1

LEMMA DoneFacts ==
    ASSUME IInv, outcome = "running", Done
    PROVE  /\ todo' = Tail(todo) /\ todo' \in Seq(Steps) /\ tries' \in 1 .. MaxRetries + 1
           /\ outcome' \in {"ok", "running"} /\ outcome' \in Outcomes
           /\ outcome' = "ok" <=> Len(todo) = 1
BY AtPlace, HeadTailProperties, ManageAssumption DEF Done, Outcomes

\* The last of a command about objects, and the one that shows privileges
LEMMA DoneObject ==
    ASSUME IInv, outcome = "running", Done, wanted = <<>>,
           \/ consent' = consent /\ Step \notin {"ask", "usage"}
           \/ consent' = TRUE /\ Step = "ask"
    PROVE  outcome' = "running" => ObjectPlan(todo', consent')
<1>1. CASE todo = ShowHeld
  BY <1>1, Places DEF Done
<1>2. CASE ObjectPlan(todo, consent)
  <2>1. consent \in BOOLEAN
    BY DEF IInv, TypeOK
  <2>2. Len(todo) # 1 => ObjectPlan(Tail(todo), consent \/ Step \in {"ask", "usage"})
    BY <1>2, <2>1, ObjectStep DEF Step
  <2>3. (consent \/ Step \in {"ask", "usage"}) = consent'
    BY <2>1
  <2>4. Len(todo) # 1 => ObjectPlan(Tail(todo), consent')
    BY <2>2, <2>3, Zenon
  <2>. QED BY <2>4, DoneFacts
<1>. QED BY <1>1, <1>2, AtPlace

LEMMA QuietPaging ==
    ASSUME IInv, outcome = "running", outcome' # "none",
           UNCHANGED <<objects, effects, page, got, atStart, grown, shrunk>>,
           Step # "pages" \/ (todo' = todo /\ outcome' # "ok")
    PROVE  Paging'
<1>1. \A i \in Ids : Before(i)' = Before(i)
  BY DEF Before
<1>2. /\ page = 0 => got = [i \in Ids |-> 0]
      /\ Step # "pages" => page = 0
      /\ effects = 0 /\ ~shrunk => atStart \subseteq objects
      /\ ~shrunk => \A i \in atStart : Before(i) < page * PageSize => got[i] > 0
      /\ ~grown => \A i \in Ids : /\ got[i] <= 1
                                  /\ i \in objects /\ got[i] > 0 => Before(i) < page * PageSize
      /\ atStart \subseteq Ids /\ page \in Nat
  BY DEF IInv, Paging, TypeOK
<1>3. /\ (outcome = "running" /\ Step # "pages" => page = 0)'
      /\ ListIsComplete'
  BY <1>2 DEF Step, ListIsComplete
<1>. QED BY <1>1, <1>2, <1>3 DEF Paging

LEMMA QuietUndone ==
    ASSUME IInv, outcome = "running", outcome' # "none", UNCHANGED <<effects, lost>>,
           Step \notin Writes \/ (todo' = todo /\ outcome' \in {"running", "failed"})
    PROVE  Undone'
BY DEF IInv, Undone, ExitTellsEffect, Step, TypeOK

Quiet == UNCHANGED <<service, othersLeft, wanted, held, body, listing, lost, effects, changed>>

\* The same step again, or an end
LEMMA StayIInv ==
    ASSUME IInv, outcome = "running", Quiet, todo' = todo, tries' \in 1 .. MaxRetries + 1,
           \/ outcome' = "running" /\ consent' = consent
           \/ outcome' = "failed" /\ consent' \in BOOLEAN
           \/ outcome' \in {"usage", "declined"} /\ Step \notin Writes /\ consent' \in BOOLEAN
    PROVE  IInv'
<1>1. TypeOK'
  BY DEF IInv, TypeOK, Quiet, service, listing, changed, Outcomes
<1>2. Paging'
  BY QuietPaging DEF Quiet, service, listing, changed
<1>3. Undone'
  BY QuietUndone DEF Quiet
<1>4. Placed' /\ Known1' /\ ReportIsTrue'
  BY DEF IInv, Placed, Known1, Read1, Granting, Revoking, Replacing, Putting, StatedEntries,
     ReportIsTrue, Quiet, service, changed
<1>. QED BY <1>1, <1>2, <1>3, <1>4 DEF IInv

Moves(from, to) == todo = from /\ todo' = to

\* Which place comes after which
LEMMA NextPlace ==
    ASSUME todo \in PrivilegePlans, todo' = Tail(todo)
    PROVE  /\ Step = "input" => \/ Moves(Grant5, Grant4) \/ Moves(GrantY, Grant2)
                                \/ Moves(Revoke7, Revoke6) \/ Moves(RevokeY6, RevokeY5)
                                \/ Moves(Replace4, Replace3) \/ Moves(ReplaceY3, ReplaceY2)
           /\ Step = "readHeld" => \/ Moves(Grant4, Grant3) \/ Moves(Revoke6, Revoke5)
                                   \/ Moves(RevokeY5, RevokeY4)
           /\ Step = "askLowering" => Moves(Grant3, Grant2)
           /\ Step = "expressible" => Moves(Revoke5, Revoke4) \/ Moves(RevokeY4, RevokeY3)
           /\ Step = "found" => Moves(Revoke4, Revoke3) \/ Moves(RevokeY3, Revoke2)
           /\ Step = "ask" => Moves(Revoke3, Revoke2) \/ Moves(Replace2, Put1)
           /\ Step = "name" => Moves(Grant2, Grant1)
           /\ Step = "keep" => Moves(Revoke2, Put1)
           /\ Step = "declare" => Moves(Replace3, Replace2) \/ Moves(ReplaceY2, Put1)
           /\ Step \in {"input", "readHeld", "askLowering", "expressible", "found", "ask", "name",
                        "keep", "declare", "grant", "put"}
           /\ Len(todo) = 1 <=> Step \in {"grant", "put"}
           /\ Step = "grant" => todo = Grant1
           /\ Step = "put" => todo = Put1
<1>1. CASE todo \in GrantPlans
  <2>1. CASE todo = Grant1
    <3>1. Step = "grant" /\ Len(todo) = 1
      BY <2>1, Places DEF Step
    <3>. QED BY <2>1, <3>1
  <2>2. CASE todo = Grant2
    <3>1. Step = "name" /\ Moves(Grant2, Grant1) /\ Len(todo) # 1
      BY <2>2, Places DEF Step, Moves
    <3>. QED BY <2>2, <3>1
  <2>3. CASE todo = Grant3
    <3>1. Step = "askLowering" /\ Moves(Grant3, Grant2) /\ Len(todo) # 1
      BY <2>3, Places DEF Step, Moves
    <3>. QED BY <2>3, <3>1
  <2>4. CASE todo = Grant4
    <3>1. Step = "readHeld" /\ Moves(Grant4, Grant3) /\ Len(todo) # 1
      BY <2>4, Places DEF Step, Moves
    <3>. QED BY <2>4, <3>1
  <2>5. CASE todo = Grant5
    <3>1. Step = "input" /\ Moves(Grant5, Grant4) /\ Len(todo) # 1
      BY <2>5, Places DEF Step, Moves
    <3>. QED BY <2>5, <3>1
  <2>6. CASE todo = GrantY
    <3>1. Step = "input" /\ Moves(GrantY, Grant2) /\ Len(todo) # 1
      BY <2>6, Places DEF Step, Moves
    <3>. QED BY <2>6, <3>1
  <2>. QED BY <1>1, <2>1, <2>2, <2>3, <2>4, <2>5, <2>6 DEF GrantPlans
<1>2. CASE todo \in RevokePlans
  <2>1. CASE todo = Revoke2
    <3>1. Step = "keep" /\ Moves(Revoke2, Put1) /\ Len(todo) # 1
      BY <2>1, Places DEF Step, Moves
    <3>. QED BY <2>1, <3>1
  <2>2. CASE todo = Revoke3
    <3>1. Step = "ask" /\ Moves(Revoke3, Revoke2) /\ Len(todo) # 1
      BY <2>2, Places DEF Step, Moves
    <3>. QED BY <2>2, <3>1
  <2>3. CASE todo = Revoke4
    <3>1. Step = "found" /\ Moves(Revoke4, Revoke3) /\ Len(todo) # 1
      BY <2>3, Places DEF Step, Moves
    <3>. QED BY <2>3, <3>1
  <2>4. CASE todo = Revoke5
    <3>1. Step = "expressible" /\ Moves(Revoke5, Revoke4) /\ Len(todo) # 1
      BY <2>4, Places DEF Step, Moves
    <3>. QED BY <2>4, <3>1
  <2>5. CASE todo = Revoke6
    <3>1. Step = "readHeld" /\ Moves(Revoke6, Revoke5) /\ Len(todo) # 1
      BY <2>5, Places DEF Step, Moves
    <3>. QED BY <2>5, <3>1
  <2>6. CASE todo = Revoke7
    <3>1. Step = "input" /\ Moves(Revoke7, Revoke6) /\ Len(todo) # 1
      BY <2>6, Places DEF Step, Moves
    <3>. QED BY <2>6, <3>1
  <2>7. CASE todo = RevokeY3
    <3>1. Step = "found" /\ Moves(RevokeY3, Revoke2) /\ Len(todo) # 1
      BY <2>7, Places DEF Step, Moves
    <3>. QED BY <2>7, <3>1
  <2>8. CASE todo = RevokeY4
    <3>1. Step = "expressible" /\ Moves(RevokeY4, RevokeY3) /\ Len(todo) # 1
      BY <2>8, Places DEF Step, Moves
    <3>. QED BY <2>8, <3>1
  <2>9. CASE todo = RevokeY5
    <3>1. Step = "readHeld" /\ Moves(RevokeY5, RevokeY4) /\ Len(todo) # 1
      BY <2>9, Places DEF Step, Moves
    <3>. QED BY <2>9, <3>1
  <2>10. CASE todo = RevokeY6
    <3>1. Step = "input" /\ Moves(RevokeY6, RevokeY5) /\ Len(todo) # 1
      BY <2>10, Places DEF Step, Moves
    <3>. QED BY <2>10, <3>1
  <2>. QED BY <1>2, <2>1, <2>2, <2>3, <2>4, <2>5, <2>6, <2>7, <2>8, <2>9, <2>10 DEF RevokePlans
<1>3. CASE todo \in ReplacePlans \cup {Put1}
  <2>1. CASE todo = Replace2
    <3>1. Step = "ask" /\ Moves(Replace2, Put1) /\ Len(todo) # 1
      BY <2>1, Places DEF Step, Moves
    <3>. QED BY <2>1, <3>1
  <2>2. CASE todo = Replace3
    <3>1. Step = "declare" /\ Moves(Replace3, Replace2) /\ Len(todo) # 1
      BY <2>2, Places DEF Step, Moves
    <3>. QED BY <2>2, <3>1
  <2>3. CASE todo = Replace4
    <3>1. Step = "input" /\ Moves(Replace4, Replace3) /\ Len(todo) # 1
      BY <2>3, Places DEF Step, Moves
    <3>. QED BY <2>3, <3>1
  <2>4. CASE todo = ReplaceY2
    <3>1. Step = "declare" /\ Moves(ReplaceY2, Put1) /\ Len(todo) # 1
      BY <2>4, Places DEF Step, Moves
    <3>. QED BY <2>4, <3>1
  <2>5. CASE todo = ReplaceY3
    <3>1. Step = "input" /\ Moves(ReplaceY3, ReplaceY2) /\ Len(todo) # 1
      BY <2>5, Places DEF Step, Moves
    <3>. QED BY <2>5, <3>1
  <2>6. CASE todo = Put1
    <3>1. Step = "put" /\ Len(todo) = 1
      BY <2>6, Places DEF Step
    <3>. QED BY <2>6, <3>1
  <2>. QED BY <1>3, <2>1, <2>2, <2>3, <2>4, <2>5, <2>6 DEF ReplacePlans
<1>. QED BY <1>1, <1>2, <1>3 DEF PrivilegePlans

\* The places differ.
LEMMA Apart ==
    /\ \A p \in GrantPlans : p \notin RevokePlans /\ p \notin ReplacePlans /\ p # Put1
    /\ \A p \in RevokePlans : p \notin ReplacePlans /\ p # Put1
    /\ Put1 \notin ReplacePlans
    /\ Grant1 \notin {Grant2, Grant3, Grant4, Grant5, GrantY}
    /\ Grant2 \notin {Grant3, Grant4, Grant5, GrantY}
    /\ Grant3 \notin {Grant4, Grant5, GrantY}
    /\ Grant4 \notin {Grant5, GrantY} /\ Grant5 # GrantY
    /\ Revoke2 \notin {Revoke3, Revoke4, Revoke5, Revoke6, Revoke7, RevokeY3, RevokeY4, RevokeY5, RevokeY6}
    /\ Revoke3 \notin {Revoke4, Revoke5, Revoke6, Revoke7, RevokeY3, RevokeY4, RevokeY5, RevokeY6}
    /\ Revoke4 \notin {Revoke5, Revoke6, Revoke7, RevokeY3, RevokeY4, RevokeY5, RevokeY6}
    /\ Revoke5 \notin {Revoke6, Revoke7, RevokeY3, RevokeY4, RevokeY5, RevokeY6}
    /\ Revoke6 \notin {Revoke7, RevokeY3, RevokeY4, RevokeY5, RevokeY6}
    /\ Revoke7 \notin {RevokeY3, RevokeY4, RevokeY5, RevokeY6}
    /\ RevokeY3 \notin {RevokeY4, RevokeY5, RevokeY6}
    /\ RevokeY4 \notin {RevokeY5, RevokeY6} /\ RevokeY5 # RevokeY6
    /\ Replace2 \notin {Replace3, Replace4, ReplaceY2, ReplaceY3}
    /\ Replace3 \notin {Replace4, ReplaceY2, ReplaceY3}
    /\ Replace4 \notin {ReplaceY2, ReplaceY3} /\ ReplaceY2 # ReplaceY3
<1>1. \A p \in GrantPlans : Final(p) = "grant"
  <2>1. Final(Grant1) = "grant" /\ Final(Grant2) = "grant" /\ Final(Grant3) = "grant"
    BY DEF Final, Grant1, Grant2, Grant3
  <2>2. Final(Grant4) = "grant" /\ Final(Grant5) = "grant" /\ Final(GrantY) = "grant"
    BY DEF Final, Grant4, Grant5, GrantY
  <2>. QED BY <2>1, <2>2 DEF GrantPlans
<1>2. /\ \A p \in RevokePlans \cup ReplacePlans \cup {Put1} : Final(p) = "put"
  BY DEF RevokePlans, ReplacePlans, Final, Put1, Revoke2, Revoke3, Revoke4, Revoke5, Revoke6,
     Revoke7, RevokeY3, RevokeY4, RevokeY5, RevokeY6, Replace2, Replace3, Replace4, ReplaceY2,
     ReplaceY3
<1>3. /\ \A p \in RevokePlans : Len(p) > 1 /\ p[Len(p) - 1] = "keep"
      /\ \A p \in ReplacePlans : Len(p) > 1 /\ p[Len(p) - 1] # "keep"
      /\ Len(Put1) = 1
  BY DEF RevokePlans, ReplacePlans, Put1, Revoke2, Revoke3, Revoke4, Revoke5, Revoke6, Revoke7,
     RevokeY3, RevokeY4, RevokeY5, RevokeY6, Replace2, Replace3, Replace4, ReplaceY2, ReplaceY3
<1>4. Grant1 \notin {Grant2, Grant3, Grant4, Grant5, GrantY}
  BY DEF Grant1, Grant2, Grant3, Grant4, Grant5, GrantY
<1>5. Grant2 \notin {Grant3, Grant4, Grant5, GrantY}
  BY DEF Grant2, Grant3, Grant4, Grant5, GrantY
<1>6. Grant3 \notin {Grant4, Grant5, GrantY}
  BY DEF Grant3, Grant4, Grant5, GrantY
<1>7. Grant4 \notin {Grant5, GrantY} /\ Grant5 # GrantY
  BY DEF Grant4, Grant5, GrantY
<1>8. Revoke2 \notin {Revoke3, Revoke4, Revoke5, Revoke6, Revoke7, RevokeY3, RevokeY4, RevokeY5, RevokeY6}
  BY DEF Revoke2, Revoke3, Revoke4, Revoke5, Revoke6, Revoke7, RevokeY3, RevokeY4, RevokeY5, RevokeY6
<1>9. Revoke3 \notin {Revoke4, Revoke5, Revoke6, Revoke7, RevokeY3, RevokeY4, RevokeY5, RevokeY6}
  BY DEF Revoke3, Revoke4, Revoke5, Revoke6, Revoke7, RevokeY3, RevokeY4, RevokeY5, RevokeY6
<1>10. Revoke4 \notin {Revoke5, Revoke6, Revoke7, RevokeY3, RevokeY4, RevokeY5, RevokeY6}
  BY DEF Revoke4, Revoke5, Revoke6, Revoke7, RevokeY3, RevokeY4, RevokeY5, RevokeY6
<1>11. Revoke5 \notin {Revoke6, Revoke7, RevokeY3, RevokeY4, RevokeY5, RevokeY6}
  BY DEF Revoke5, Revoke6, Revoke7, RevokeY3, RevokeY4, RevokeY5, RevokeY6
<1>12. Revoke6 \notin {Revoke7, RevokeY3, RevokeY4, RevokeY5, RevokeY6}
  BY DEF Revoke6, Revoke7, RevokeY3, RevokeY4, RevokeY5, RevokeY6
<1>13. Revoke7 \notin {RevokeY3, RevokeY4, RevokeY5, RevokeY6}
  BY DEF Revoke7, RevokeY3, RevokeY4, RevokeY5, RevokeY6
<1>14. RevokeY3 \notin {RevokeY4, RevokeY5, RevokeY6}
  BY DEF RevokeY3, RevokeY4, RevokeY5, RevokeY6
<1>15. RevokeY4 \notin {RevokeY5, RevokeY6} /\ RevokeY5 # RevokeY6
  BY DEF RevokeY4, RevokeY5, RevokeY6
<1>16. Replace2 \notin {Replace3, Replace4, ReplaceY2, ReplaceY3}
  BY DEF Replace2, Replace3, Replace4, ReplaceY2, ReplaceY3
<1>17. Replace3 \notin {Replace4, ReplaceY2, ReplaceY3}
  BY DEF Replace3, Replace4, ReplaceY2, ReplaceY3
<1>18. Replace4 \notin {ReplaceY2, ReplaceY3} /\ ReplaceY2 # ReplaceY3
  BY DEF Replace4, ReplaceY2, ReplaceY3
<1>19. /\ \A p \in GrantPlans : p \notin RevokePlans /\ p \notin ReplacePlans /\ p # Put1
       /\ \A p \in RevokePlans : p \notin ReplacePlans /\ p # Put1
       /\ Put1 \notin ReplacePlans
  <2>1. "grant" # "put"
    OBVIOUS
  <2>2. \A p \in GrantPlans : p \notin RevokePlans \cup ReplacePlans \cup {Put1}
    BY <1>1, <1>2, <2>1, Zenon
  <2>3. \A p \in RevokePlans : p \notin ReplacePlans
    BY <1>3, Zenon
  <2>4. ASSUME Put1 \in RevokePlans \cup ReplacePlans PROVE FALSE
    <3>1. Len(Put1) > 1
      BY <1>3, <2>4
    <3>2. Len(Put1) = 1
      BY <1>3
    <3>. QED BY <3>1, <3>2
  <2>. QED BY <2>2, <2>3, <2>4
<1>. QED
  BY <1>4, <1>5, <1>6, <1>7, <1>8, <1>9, <1>10, <1>11, <1>12, <1>13, <1>14, <1>15, <1>16,
     <1>17, <1>18, <1>19

\* A question, a check of the input or of what was read lets the command go on.
LEMMA GoOnIInv ==
    ASSUME IInv, outcome = "running", Quiet, Done,
           Step \notin Writes \cup {"pages", "showHeld", "readHeld", "name", "declare", "keep"},
           \/ consent' = consent /\ Step \notin {"ask", "usage"}
           \/ consent' = TRUE /\ Step \in {"ask", "askLowering"},
           Step = "askLowering" => consent' \/ Lowered = {},
           Step = "expressible" => held[Alien] = 0
    PROVE  IInv'
<1>0. /\ UNCHANGED <<privileges, objects, secret, othersLeft, wanted, held, body, page, got, lost,
                     effects, touched, atStart, grown, shrunk>>
      /\ consent' \in BOOLEAN
  BY DEF Quiet, service, listing, changed, IInv, TypeOK
<1>1. TypeOK'
  BY <1>0, DoneFacts DEF IInv, TypeOK
<1>2. Paging'
  BY <1>0, QuietPaging, DoneFacts
<1>3. Undone'
  BY <1>0, QuietUndone, DoneFacts
<1>4. CASE wanted = <<>>
  <2>1. Placed' /\ Known1'
    <3>1. Step # "askLowering"
      BY <1>4, AtPlace, ObjectStep, Places DEF Step, Objective, Preludes, IInv, TypeOK
    <3>2. outcome' = "running" => ObjectPlan(todo', consent')
      BY <1>4, <3>1, DoneObject
    <3>. QED BY <1>0, <1>4, <3>2, AtPlace DEF Placed, Known1
  <2>2. ReportIsTrue'
    BY <1>0, <1>4, AtPlace, NoneType DEF ReportIsTrue
  <2>. QED BY <1>1, <1>2, <1>3, <2>1, <2>2 DEF IInv
<1>5. CASE wanted # <<>>
  <2>1. /\ todo \in PrivilegePlans /\ todo' = Tail(todo) /\ outcome' = "running"
        /\ Read1 /\ Granting /\ Revoking /\ Replacing /\ Putting
    BY <1>5, AtPlace, DoneFacts, NextPlace DEF Writes
  <2>10. /\ todo \in {RevokeY3, RevokeY4, RevokeY5, RevokeY6, ReplaceY3} => consent
         /\ consent => consent'
    BY <2>1 DEF Revoking, Replacing
  <2>2. \/ Moves(Grant5, Grant4)
        \/ Moves(GrantY, Grant2)
        \/ Moves(Revoke7, Revoke6)
        \/ Moves(RevokeY6, RevokeY5) /\ consent'
        \/ Moves(Replace4, Replace3)
        \/ Moves(ReplaceY3, ReplaceY2) /\ consent'
        \/ Moves(Grant3, Grant2) /\ (consent' \/ Lowered = {})
        \/ Moves(Revoke5, Revoke4) /\ held[Alien] = 0
        \/ Moves(RevokeY4, RevokeY3) /\ held[Alien] = 0 /\ consent'
        \/ Moves(Revoke4, Revoke3)
        \/ Moves(RevokeY3, Revoke2) /\ consent'
        \/ Moves(Revoke3, Revoke2) /\ consent'
        \/ Moves(Replace2, Put1) /\ consent'
    <3>1. Step \in {"input", "askLowering", "expressible", "found", "ask"}
      BY <2>1, NextPlace DEF Writes
    <3>2. CASE Step = "input"
      <4>1. \/ Moves(Grant5, Grant4) \/ Moves(GrantY, Grant2) \/ Moves(Revoke7, Revoke6)
            \/ Moves(RevokeY6, RevokeY5) \/ Moves(Replace4, Replace3)
            \/ Moves(ReplaceY3, ReplaceY2)
        BY <2>1, <3>2, NextPlace
      <4>. QED BY <2>10, <4>1 DEF Moves
    <3>3. CASE Step = "askLowering"
      BY <2>1, <3>3, NextPlace
    <3>4. CASE Step = "expressible"
      <4>1. Moves(Revoke5, Revoke4) \/ Moves(RevokeY4, RevokeY3)
        BY <2>1, <3>4, NextPlace
      <4>. QED BY <2>10, <3>4, <4>1 DEF Moves
    <3>5. CASE Step = "found"
      <4>1. Moves(Revoke4, Revoke3) \/ Moves(RevokeY3, Revoke2)
        BY <2>1, <3>5, NextPlace
      <4>. QED BY <2>10, <4>1 DEF Moves
    <3>6. CASE Step = "ask"
      BY <2>1, <3>6, NextPlace
    <3>. QED BY <3>1, <3>2, <3>3, <3>4, <3>5, <3>6
  <2>3. /\ todo' \in PrivilegePlans
        /\ todo' \notin {Grant3, Revoke5, RevokeY4, Grant1}
        /\ todo' = Revoke4 => todo = Revoke5
        /\ todo' \in {Revoke3, RevokeY3, Revoke2} =>
              todo \in {Revoke3, Revoke4, Revoke5, RevokeY3, RevokeY4}
    BY <2>2, Places DEF Moves, PrivilegePlans, GrantPlans, RevokePlans, ReplacePlans
  <2>4. Read1'
    BY <1>0, <2>1, <2>3 DEF Read1
  <2>5. Granting'
    <3>1. todo' \in {Grant1, Grant2, GrantY} => todo' = Grant2 /\ todo \in {GrantY, Grant3}
      BY <2>2, Apart DEF Moves, GrantPlans, RevokePlans, ReplacePlans
    <3>2. ASSUME todo = Grant3, todo' = Grant2, ~consent', NEW t \in DOMAIN wanted \ touched
          PROVE  privileges[t] <= wanted[t]
      <4>1. Lowered = {}
        BY <2>2, <3>2, Apart DEF Moves, GrantPlans, RevokePlans, ReplacePlans
      <4>2. ~(Rank(held[t]) > Rank(wanted[t])) /\ held[t] = privileges[t]
        BY <2>1, <3>2, <4>1 DEF Lowered, Read1, IInv, TypeOK
      <4>3. privileges[t] \in Ranks /\ wanted[t] \in {0} \cup Levels
        BY <3>2 DEF IInv, TypeOK
      <4>. QED BY <4>2, <4>3 DEF Rank, Ranks, Levels, Read, Admin, Future
    <3>. QED BY <1>0, <2>1, <2>10, <2>3, <3>1, <3>2 DEF Granting
  <2>6. Revoking'
    BY <1>0, <2>1, <2>2, Apart DEF Revoking, Moves, GrantPlans, RevokePlans, ReplacePlans
  <2>7. Replacing'
    BY <1>0, <2>1, <2>2, Apart DEF Replacing, Moves, GrantPlans, RevokePlans, ReplacePlans, StatedEntries
  <2>8. Putting'
    <3>1. todo' = Put1 => todo = Replace2 /\ consent'
      BY <2>2, Apart DEF Moves, GrantPlans, RevokePlans, ReplacePlans
    <3>2. todo = Replace2 => DOMAIN wanted = Targets /\ body = StatedEntries
      BY <2>1 DEF Replacing, ReplacePlans
    <3>. QED BY <1>0, <3>1, <3>2 DEF Putting, StatedEntries
  <2>9. ReportIsTrue' /\ Placed'
    BY <1>0, <1>5, <2>1, <2>3 DEF ReportIsTrue, Placed
  <2>. QED BY <1>1, <1>2, <1>3, <2>4, <2>5, <2>6, <2>7, <2>8, <2>9 DEF IInv, Known1
<1>. QED BY <1>4, <1>5

\* The command ends where it is.
LEMMA ExitIInv ==
    ASSUME IInv, outcome = "running", Quiet, consent' \in BOOLEAN, NEW how,
           Exit(how), how = "failed" \/ (how \in {"usage", "declined"} /\ Step \notin Writes)
    PROVE  IInv'
<1>1. todo' = todo /\ tries' \in 1 .. MaxRetries + 1 /\ outcome' = how
  BY DEF Exit, IInv, TypeOK
<1>. QED BY <1>1, StayIInv

LEMMA InputIInv == IInv /\ Input => IInv'
<1> SUFFICES ASSUME IInv, Input PROVE IInv'
  OBVIOUS
<1>1. /\ outcome = "running" /\ Step = "input" /\ Quiet /\ consent' = consent
      /\ consent' \in BOOLEAN /\ (Done \/ Exit("usage"))
  BY DEF Input, Running, Quiet, IInv, TypeOK
<1>2. CASE Done
  BY <1>1, <1>2, GoOnIInv DEF Writes
<1>3. CASE Exit("usage")
  BY <1>1, <1>3, ExitIInv DEF Writes
<1>. QED BY <1>1, <1>2, <1>3

LEMMA UsageIInv == IInv /\ Usage => IInv'
<1> SUFFICES ASSUME IInv, Usage PROVE IInv'
  OBVIOUS
<1>1. /\ outcome = "running" /\ Step = "usage" /\ Quiet /\ consent' \in BOOLEAN /\ Exit("usage")
  BY DEF Usage, Running, Quiet, IInv, TypeOK
<1>. QED BY <1>1, ExitIInv DEF Writes

LEMMA KnownIInv == IInv /\ Known => IInv'
<1> SUFFICES ASSUME IInv, Known PROVE IInv'
  OBVIOUS
<1>1. /\ outcome = "running" /\ Step = "known" /\ Quiet /\ consent' = consent
      /\ consent' \in BOOLEAN /\ (Done \/ Exit("failed"))
  BY DEF Known, Running, Quiet, IInv, TypeOK
<1>2. CASE Done
  BY <1>1, <1>2, GoOnIInv DEF Writes
<1>3. CASE Exit("failed")
  BY <1>1, <1>3, ExitIInv
<1>. QED BY <1>1, <1>2, <1>3

LEMMA AnswerIInv ==
    ASSUME IInv, outcome = "running", Step \in {"ask", "askLowering"}, NEW yes \in BOOLEAN,
           Answer(yes)
    PROVE  IInv'
<1>1. Quiet /\ consent' = yes /\ IF yes THEN Done ELSE Exit("declined")
  BY DEF Answer, Quiet
<1>2. CASE yes
  BY <1>1, <1>2, GoOnIInv DEF Writes
<1>3. CASE ~yes
  BY <1>1, <1>3, ExitIInv DEF Writes
<1>. QED BY <1>2, <1>3

LEMMA QuestionsIInv == IInv /\ Questions => IInv'
<1> SUFFICES ASSUME IInv, Questions PROVE IInv'
  OBVIOUS
<1>1. CASE Ask
  BY <1>1, AnswerIInv DEF Ask, Running
<1>2. CASE AskLowering
  <2>1. CASE Lowered = {}
    <3>1. /\ outcome = "running" /\ Step = "askLowering" /\ Quiet /\ consent' = consent /\ Done
      BY <1>2, <2>1 DEF AskLowering, Running, Quiet
    <3>. QED BY <2>1, <3>1, GoOnIInv DEF Writes
  <2>2. CASE Lowered # {}
    BY <1>2, <2>2, AnswerIInv DEF AskLowering, Running
  <2>. QED BY <2>1, <2>2
<1>. QED BY <1>1, <1>2 DEF Questions

LEMMA ExpressibleIInv == IInv /\ Expressible => IInv'
<1> SUFFICES ASSUME IInv, Expressible PROVE IInv'
  OBVIOUS
<1>1. /\ outcome = "running" /\ Step = "expressible" /\ Quiet /\ consent' = consent
      /\ consent' \in BOOLEAN /\ IF held[Alien] = 0 THEN Done ELSE Exit("failed")
  BY DEF Expressible, Running, Quiet, IInv, TypeOK
<1>2. CASE held[Alien] = 0
  BY <1>1, <1>2, GoOnIInv DEF Writes
<1>3. CASE held[Alien] # 0
  BY <1>1, <1>3, ExitIInv
<1>. QED BY <1>2, <1>3

\* Another attempt, or what failing means for the step
LEMMA RetryFacts ==
    ASSUME IInv, Retry
    PROVE  \/ todo' = todo /\ tries' \in 1 .. MaxRetries + 1 /\ outcome' = outcome
           \/ Step = "tryRead" /\ Done
           \/ Exit("failed")
<1>1. tries \in 1 .. MaxRetries + 1
  BY DEF IInv, TypeOK
<1>2. tries > 1 => tries - 1 \in 1 .. MaxRetries + 1
  BY <1>1, ManageAssumption
<1>. QED BY <1>2 DEF Retry

LEMMA NotServedIInv == IInv /\ (NotServed \/ Refused) => IInv'
<1> SUFFICES ASSUME IInv, NotServed \/ Refused PROVE IInv'
  OBVIOUS
<1>1. outcome = "running" /\ Quiet /\ consent' = consent /\ consent' \in BOOLEAN
  BY DEF NotServed, Refused, Quiet, IInv, TypeOK
<1>2. CASE todo' = todo /\ tries' \in 1 .. MaxRetries + 1 /\ outcome' = outcome
  BY <1>1, <1>2, StayIInv
<1>3. CASE Step = "tryRead" /\ Done
  BY <1>1, <1>3, GoOnIInv DEF Writes
<1>4. CASE Exit("failed")
  BY <1>1, <1>4, ExitIInv
<1>. QED BY <1>2, <1>3, <1>4, RetryFacts DEF NotServed, Refused

-----------------------------------------------------------------------------
(* Reading privileges, and what is to be written                            *)

LEMMA Private ==
    ASSUME IInv, outcome = "running",
           Step \in {"readHeld", "grant", "put", "found", "name", "declare", "keep"}
    PROVE  wanted # <<>> /\ todo \in PrivilegePlans
<1>1. CASE wanted = <<>>
  BY <1>1, AtPlace, ObjectStep, Places DEF Step, Objective, Preludes, IInv, TypeOK
<1>. QED BY <1>1, AtPlace

LEMMA PlaceFound ==
    ASSUME todo \in PrivilegePlans, Step = "found" PROVE todo \in {Revoke4, RevokeY3}
<1>1. CASE todo \in GrantPlans
  BY <1>1, Places DEF GrantPlans, Step
<1>2. CASE todo \in RevokePlans
  BY <1>2, Places DEF RevokePlans, Step
<1>3. CASE todo \in ReplacePlans \cup {Put1}
  BY <1>3, Places DEF ReplacePlans, Step
<1>. QED BY <1>1, <1>2, <1>3 DEF PrivilegePlans

LEMMA FoundIInv == IInv /\ Found => IInv'
<1> SUFFICES ASSUME IInv, Found PROVE IInv'
  OBVIOUS
<1>0. /\ outcome = "running" /\ Step = "found" /\ consent' = consent /\ consent' \in BOOLEAN
      /\ wanted # <<>> /\ todo \in PrivilegePlans
  BY Private DEF Found, Running, IInv, TypeOK
<1>1. CASE \E t \in DOMAIN wanted : held[t] # 0
  <2>1. Done /\ Quiet
    BY <1>1 DEF Found, Quiet
  <2>. QED BY <1>0, <2>1, GoOnIInv DEF Writes
<1>2. CASE \A t \in DOMAIN wanted : held[t] = 0
  <2>1. /\ Exit("ok") /\ body' = held
        /\ UNCHANGED <<privileges, objects, secret, othersLeft, consent, wanted, held, page, got,
                       lost, effects, touched, atStart, grown, shrunk>>
    BY <1>2 DEF Found, service, listing, changed
  <2>2. outcome' = "ok" /\ UNCHANGED <<todo, tries>>
    BY <2>1 DEF Exit
  <2>3. todo \in {Revoke4, RevokeY3}
    BY <1>0, PlaceFound
  <2>4. /\ \A t \in Targets \ touched : held[t] = privileges[t]
        /\ \A t \in DOMAIN wanted : wanted[t] = 0
    BY <1>0, <2>3, AtPlace DEF Read1, Revoking, RevokePlans
  <2>5. TypeOK'
    BY <2>1, <2>2 DEF IInv, TypeOK, Outcomes
  <2>6. Placed' /\ Known1'
    BY <2>2 DEF Placed, Known1
  <2>7. Undone' /\ Paging'
    BY <1>0, <2>1, <2>2, QuietPaging, QuietUndone DEF Writes
  <2>8. ReportIsTrue'
    BY <1>2, <2>1, <2>4 DEF ReportIsTrue
  <2>. QED BY <2>5, <2>6, <2>7, <2>8 DEF IInv
<1>. QED BY <1>1, <1>2

LEMMA EntryTypes ==
    ASSUME TypeOK
    PROVE  StatedEntries \in [Targets -> Ranks] /\ KeptEntries \in [Targets -> Ranks]
BY DEF TypeOK, StatedEntries, KeptEntries, Ranks, Levels, Read, Admin, Future

LEMMA EntriesIInv == IInv /\ Entries => IInv'
<1> SUFFICES ASSUME IInv, Entries PROVE IInv'
  OBVIOUS
<1>0. /\ outcome = "running" /\ Done /\ Step \in {"name", "declare", "keep"}
      /\ body' = IF Step = "keep" THEN KeptEntries ELSE StatedEntries
      /\ UNCHANGED <<privileges, objects, secret, othersLeft, consent, wanted, held, page, got,
                     lost, effects, touched, atStart, grown, shrunk>>
  BY DEF Entries, Running, service, listing, changed
<1>1. /\ wanted # <<>> /\ todo \in PrivilegePlans /\ todo' = Tail(todo) /\ outcome' = "running"
      /\ Read1 /\ Granting /\ Revoking /\ Replacing /\ Putting
  BY <1>0, Private, AtPlace, DoneFacts, NextPlace
<1>2. \/ Step = "name" /\ Moves(Grant2, Grant1)
      \/ Step = "keep" /\ Moves(Revoke2, Put1)
      \/ Step = "declare" /\ Moves(Replace3, Replace2)
      \/ Step = "declare" /\ Moves(ReplaceY2, Put1)
  BY <1>0, <1>1, NextPlace
<1>3. TypeOK'
  BY <1>0, EntryTypes, DoneFacts DEF IInv, TypeOK
<1>4. Undone' /\ Paging'
  BY <1>0, <1>1, QuietPaging, QuietUndone DEF Writes
<1>5. ReportIsTrue' /\ Placed'
  BY <1>0, <1>1, <1>2
     DEF ReportIsTrue, Placed, Moves, PrivilegePlans, GrantPlans, RevokePlans, ReplacePlans
<1>6. Known1'
  <2> USE Apart DEF Moves, GrantPlans, RevokePlans, ReplacePlans
  <2>1. CASE Step = "name" /\ Moves(Grant2, Grant1)
    <3>1. body' = StatedEntries' /\ todo' = Grant1
      BY <1>0, <2>1 DEF StatedEntries
    <3>2. consent' \/ \A t \in DOMAIN wanted' \ touched' : privileges'[t] <= wanted'[t]
      BY <1>0, <1>1, <2>1 DEF Granting
    <3>. QED BY <3>1, <3>2 DEF Known1, Read1, Granting, Revoking, Replacing, Putting
  <2>2. CASE Step = "keep" /\ Moves(Revoke2, Put1)
    <3>1. /\ consent /\ DOMAIN wanted \subseteq Nameable /\ held[Alien] = 0
          /\ \A t \in DOMAIN wanted : wanted[t] = 0
          /\ \A t \in Targets \ touched : held[t] = privileges[t]
      BY <1>1, <2>2 DEF Read1, Revoking
    <3>2. body' = KeptEntries /\ todo' = Put1
      BY <1>0, <2>2
    <3>3. \A t \in DOMAIN wanted : body'[t] = wanted[t]
      BY <3>1, <3>2 DEF KeptEntries, Targets
    <3>4. \A t \in Targets \ (DOMAIN wanted \cup touched) : body'[t] = privileges[t]
      BY <3>1, <3>2 DEF KeptEntries, Targets
    <3>5. Putting'
      BY <1>0, <3>1, <3>3, <3>4 DEF Putting
    <3>. QED BY <3>2, <3>5 DEF Known1, Read1, Granting, Revoking, Replacing
  <2>3. CASE Step = "declare" /\ Moves(Replace3, Replace2)
    <3>1. body' = StatedEntries' /\ todo' = Replace2 /\ DOMAIN wanted' = Targets
      BY <1>0, <1>1, <2>3 DEF StatedEntries, Replacing
    <3>. QED BY <3>1 DEF Known1, Read1, Granting, Revoking, Replacing, Putting
  <2>4. CASE Step = "declare" /\ Moves(ReplaceY2, Put1)
    <3>1. /\ body' = StatedEntries' /\ todo' = Put1 /\ DOMAIN wanted' = Targets /\ consent'
      BY <1>0, <1>1, <2>4 DEF StatedEntries, Replacing
    <3>2. Putting'
      BY <3>1 DEF Putting, StatedEntries
    <3>. QED BY <3>1, <3>2 DEF Known1, Read1, Granting, Revoking, Replacing
  <2>. QED BY <1>2, <2>1, <2>2, <2>3, <2>4
<1>. QED BY <1>3, <1>4, <1>5, <1>6 DEF IInv

LEMMA ReadIInv == IInv /\ ReadAnswered => IInv'
<1> SUFFICES ASSUME IInv, ReadAnswered PROVE IInv'
  OBVIOUS
<1>0. /\ outcome = "running" /\ Done /\ consent' = consent /\ consent' \in BOOLEAN
      /\ Step \in {"read", "tryRead", "page", "readHeld", "showHeld"}
      /\ UNCHANGED <<privileges, objects, secret, othersLeft, wanted, page, got,
                     lost, effects, atStart, grown, shrunk>>
  BY DEF ReadAnswered, service, listing, IInv, TypeOK
<1>1. CASE Step \notin {"readHeld", "showHeld"}
  <2>1. Quiet
    BY <1>0, <1>1 DEF ReadAnswered, Quiet, service, listing, changed
  <2>. QED BY <1>0, <1>1, <2>1, GoOnIInv DEF Writes
<1>2. Undone' /\ Paging'
  BY <1>0, DoneFacts, QuietPaging, QuietUndone DEF Writes
<1>3. CASE Step = "readHeld"
  <2>1. held' = privileges /\ touched' = {} /\ body' = body
    BY <1>3 DEF ReadAnswered
  <2>2. /\ wanted # <<>> /\ todo \in PrivilegePlans /\ todo' = Tail(todo)
        /\ outcome' = "running" /\ Revoking /\ Replacing
    BY <1>0, <1>3, Private, AtPlace, DoneFacts, NextPlace
  <2>3. Moves(Grant4, Grant3) \/ Moves(Revoke6, Revoke5) \/ Moves(RevokeY5, RevokeY4)
    BY <1>3, <2>2, NextPlace
  <2>4. TypeOK'
    BY <1>0, <2>1, DoneFacts DEF IInv, TypeOK
  <2>5. ReportIsTrue' /\ Placed'
    BY <1>0, <2>2, <2>3
       DEF ReportIsTrue, Placed, Moves, PrivilegePlans, GrantPlans, RevokePlans
  <2>6. Read1' /\ Granting' /\ Replacing' /\ Putting'
    BY <1>0, <2>1, <2>3, Apart
       DEF Moves, Read1, Granting, Replacing, Putting, GrantPlans, RevokePlans, ReplacePlans
  <2>7. Revoking'
    BY <1>0, <2>2, <2>3, Apart DEF Moves, Revoking, GrantPlans, RevokePlans, ReplacePlans
  <2>. QED BY <1>2, <2>4, <2>5, <2>6, <2>7 DEF IInv, Known1
<1>4. CASE Step = "showHeld"
  <2>1. held' = privileges /\ touched' = {} /\ body' = privileges
    BY <1>4 DEF ReadAnswered
  <2>2. wanted = <<>> /\ DOMAIN wanted = {} /\ outcome' = "ok"
    BY <1>0, <1>4, AtPlace, DoneFacts, NextPlace, ObjectStep, Places
       DEF Step, Objective, Preludes, IInv, TypeOK
  <2>3. TypeOK'
    BY <1>0, <2>1, DoneFacts DEF IInv, TypeOK
  <2>4. Placed' /\ Known1' /\ ReportIsTrue'
    BY <1>0, <2>1, <2>2 DEF Placed, Known1, ReportIsTrue
  <2>. QED BY <1>2, <2>3, <2>4 DEF IInv
<1>. QED BY <1>0, <1>1, <1>3, <1>4

-----------------------------------------------------------------------------
(* Changes                                                                  *)

\* A change is the last step; what it may lose has been agreed to.
LEMMA Writing ==
    ASSUME IInv, outcome = "running", Step \in Writes
    PROVE  /\ Len(todo) = 1 /\ page = 0 /\ got = [i \in Ids |-> 0]
           /\ Step \in {"delete", "rotate"} => consent
           /\ Step \in {"grant", "put"} => wanted # <<>>
           /\ wanted # <<>> => \/ Step = "grant" /\ todo = Grant1
                               \/ Step = "put" /\ todo = Put1
<1>1. page = 0 /\ got = [i \in Ids |-> 0]
  BY DEF IInv, Paging, Writes
<1>2. CASE wanted = <<>>
  <2>1. todo # ShowHeld
    BY Places DEF Step, Writes
  <2>2. ObjectPlan(todo, consent) /\ consent \in BOOLEAN
    BY <1>2, <2>1, AtPlace DEF IInv, TypeOK
  <2>3. /\ Step \in Objective /\ (Step \notin Preludes => Len(todo) = 1)
        /\ Len(todo) = 1 /\ Step \in {"delete", "rotate"} => consent
    BY <2>2, ObjectStep DEF Step
  <2>. QED BY <1>1, <1>2, <2>3 DEF Objective, Preludes, Writes
<1>3. CASE wanted # <<>>
  <2>1. todo \in PrivilegePlans
    BY <1>3, AtPlace
  <2>2. \/ Step = "grant" /\ todo = Grant1
        \/ Step = "put" /\ todo = Put1
    <3>1. CASE todo \in GrantPlans
      <4>1. Step \in {"name", "askLowering", "readHeld", "input"} \/ todo = Grant1
        BY <3>1, Places DEF GrantPlans, Step
      <4>. QED BY <4>1, Places DEF Step, Writes
    <3>2. CASE todo \in RevokePlans
      BY <3>2, Places DEF RevokePlans, Step, Writes
    <3>3. CASE todo \in ReplacePlans \cup {Put1}
      BY <3>3, Places DEF ReplacePlans, Step, Writes
    <3>. QED BY <2>1, <3>1, <3>2, <3>3 DEF PrivilegePlans
  <2>. QED BY <1>1, <1>3, <2>2, Places
<1>. QED BY <1>2, <1>3

\* What the service does
LEMMA Executed ==
    ASSUME IInv, outcome = "running", Step \in Writes, Execute(Step)
    PROVE  /\ privileges' \in [Targets -> Ranks] /\ objects' \subseteq Ids
           /\ secret' \in 0 .. MaxRotated /\ effects' \in 1 .. 2
           /\ effects = 0 => effects' = 1
           /\ Step # "delete" => objects \subseteq objects'
           /\ Step # "rotate" => secret' = secret
           /\ Step \notin {"grant", "put"} => privileges' = privileges
           /\ Step = "grant" =>
                privileges' = [t \in Targets |-> IF t \in DOMAIN wanted THEN body[t] ELSE privileges[t]]
           /\ Step = "put" => privileges' = body
<1> USE DEF Execute, service, Writes
<1>1. TypeOK
  BY DEF IInv
<1>2. effects' \in 1 .. 2 /\ (effects = 0 => effects' = 1)
  BY <1>1 DEF TypeOK
<1>3. CASE Step = "create"
  BY <1>1, <1>2, <1>3 DEF TypeOK
<1>4. CASE Step \in {"update", "act"}
  BY <1>1, <1>2, <1>4 DEF TypeOK
<1>5. CASE Step = "delete"
  BY <1>1, <1>2, <1>5 DEF TypeOK
<1>6. CASE Step = "rotate"
  BY <1>1, <1>2, <1>6, ManageAssumption DEF TypeOK
<1>7. CASE Step = "grant"
  BY <1>1, <1>2, <1>7 DEF TypeOK
<1>8. CASE Step = "put"
  BY <1>1, <1>2, <1>8 DEF TypeOK
<1>. QED BY <1>3, <1>4, <1>5, <1>6, <1>7, <1>8

\* A change is none of a listing's business.
LEMMA WritePaging ==
    ASSUME IInv, outcome = "running", Step \in Writes, Execute(Step), outcome' # "none",
           UNCHANGED <<page, got, atStart, grown, shrunk>>
    PROVE  Paging'
<1>1. /\ page' = 0 /\ got' = [i \in Ids |-> 0] /\ objects' \in SUBSET Ids /\ effects' # 0
      /\ atStart' \subseteq Ids
  BY Writing, Executed DEF IInv, TypeOK
<1>2. \A i \in Ids : Before(i)' \in Nat
  BY <1>1, BeforeFalls DEF Before
<1>3. 0 * PageSize = 0
  BY ManageAssumption
<1>. QED BY <1>1, <1>2, <1>3 DEF Paging, ListIsComplete

\* What the service holds after a change to privileges, of the targets named and
\* of what is written
LEMMA Held ==
    ASSUME IInv, outcome = "running", Step \in Writes, Execute(Step)
    PROVE  /\ \A t \in DOMAIN wanted : body[t] = wanted[t] /\ privileges'[t] = wanted[t]
           /\ \A t \in Targets : body[t] # 0 => privileges'[t] = body[t]
           /\ Step = "grant" => body = StatedEntries
           /\ Step = "put" => privileges' = body /\ consent
<1>1. TypeOK
  BY DEF IInv
<1>2. CASE wanted = <<>>
  BY <1>2, AtPlace, Writing, NoneType
<1>3. CASE wanted # <<>>
  <2>1. CASE Step = "grant" /\ todo = Grant1
    <3>1. body = StatedEntries
      BY <1>3, <2>1, AtPlace DEF Granting
    <3>. QED BY <1>1, <2>1, <3>1, Executed DEF StatedEntries, TypeOK
  <2>2. CASE Step = "put" /\ todo = Put1
    <3>1. consent /\ \A t \in DOMAIN wanted : body[t] = wanted[t]
      BY <1>3, <2>2, AtPlace DEF Putting
    <3>. QED BY <1>1, <2>2, <3>1, Executed DEF TypeOK
  <2>. QED BY <1>3, <2>1, <2>2, Writing
<1>. QED BY <1>2, <1>3

LEMMA AnsweredIInv == IInv /\ Answered => IInv'
<1> SUFFICES ASSUME IInv, Answered PROVE IInv'
  OBVIOUS
<1>0. /\ outcome = "running" /\ Step \in Writes /\ Execute(Step) /\ Done /\ outcome' = "ok"
      /\ UNCHANGED <<othersLeft, consent, wanted, held, body, page, got, lost,
                     touched, atStart, grown, shrunk>>
  BY Writing, DoneFacts DEF Answered, listing, changed
<1>1. TypeOK'
  BY <1>0, Executed, DoneFacts DEF IInv, TypeOK
<1>2. Placed' /\ Known1'
  BY <1>0 DEF Placed, Known1
<1>3. Undone'
  BY <1>0, Executed DEF IInv, Undone, ExitTellsEffect
<1>4. Paging'
  BY <1>0, WritePaging
<1>5. ReportIsTrue'
  BY <1>0, Held DEF ReportIsTrue
<1>. QED BY <1>1, <1>2, <1>3, <1>4, <1>5 DEF IInv

LEMMA LostIInv == IInv /\ AnswerLost => IInv'
<1> SUFFICES ASSUME IInv, AnswerLost PROVE IInv'
  OBVIOUS
<1>0. /\ outcome = "running" /\ Step \in Writes /\ Execute(Step) /\ lost' = TRUE
      /\ UNCHANGED <<othersLeft, consent, wanted, held, body, page, got,
                     touched, atStart, grown, shrunk>>
  BY DEF AnswerLost, listing, changed
<1>1. todo' = todo /\ tries' \in 1 .. MaxRetries + 1 /\ outcome' \in {"running", "failed"}
  BY <1>0, RetryFacts DEF AnswerLost, Writes, Exit, IInv, TypeOK
<1>2. TypeOK'
  BY <1>0, <1>1, Executed DEF IInv, TypeOK, Outcomes
<1>3. Placed' /\ ReportIsTrue'
  BY <1>0, <1>1 DEF IInv, Placed, ReportIsTrue
<1>4. Undone'
  BY <1>0, <1>1 DEF Undone, ExitTellsEffect, Step
<1>5. Paging'
  BY <1>0, <1>1, WritePaging
<1>6. Known1'
  <2> SUFFICES ASSUME outcome' = "running", wanted # <<>>
               PROVE  Read1' /\ Granting' /\ Revoking' /\ Replacing' /\ Putting'
    BY <1>0 DEF Known1
  <2>1. Granting /\ Putting
    BY <1>0, AtPlace
  <2>2. CASE Step = "grant" /\ todo = Grant1
    <3>1. body' = StatedEntries'
      BY <1>0, <2>2, Held DEF StatedEntries
    <3>2. \A t \in DOMAIN wanted : privileges'[t] <= wanted[t]
      BY <1>0, Held DEF IInv, TypeOK, Levels, Read, Admin
    <3>. QED
      BY <1>0, <1>1, <2>2, <3>1, <3>2, Apart
         DEF Read1, Granting, Revoking, Replacing, Putting, GrantPlans, RevokePlans, ReplacePlans
  <2>3. CASE Step = "put" /\ todo = Put1
    <3>1. Putting'
      BY <1>0, <2>1, <2>3, Held DEF Putting
    <3>. QED
      BY <1>0, <1>1, <2>3, <3>1, Apart
         DEF Read1, Granting, Revoking, Replacing, GrantPlans, RevokePlans, ReplacePlans
  <2>. QED BY <1>0, <2>2, <2>3, Writing
<1>. QED BY <1>2, <1>3, <1>4, <1>5, <1>6 DEF IInv

-----------------------------------------------------------------------------
(* Pages, and other clients                                                 *)

LEMMA PagesFacts ==
    ASSUME IInv, outcome = "running", Step = "pages"
    PROVE  wanted = <<>> /\ body = None /\ Len(todo) = 1 /\ effects = 0 /\ ObjectPlan(todo, consent)
<1>1. effects = 0
  BY DEF IInv, Undone, Writes
<1>2. CASE wanted # <<>>
  <2>1. todo \in PrivilegePlans
    BY <1>2, AtPlace
  <2>2. Head(todo) \in {"input", "readHeld", "askLowering", "expressible", "found", "ask", "name",
                        "keep", "declare", "grant", "put"}
    <3>1. CASE todo \in GrantPlans
      BY <3>1, Places DEF GrantPlans
    <3>2. CASE todo \in RevokePlans
      BY <3>2, Places DEF RevokePlans
    <3>3. CASE todo \in ReplacePlans \cup {Put1}
      BY <3>3, Places DEF ReplacePlans
    <3>. QED BY <2>1, <3>1, <3>2, <3>3 DEF PrivilegePlans
  <2>. QED BY <2>2 DEF Step
<1>3. CASE wanted = <<>>
  <2>1. body = None /\ ObjectPlan(todo, consent) /\ consent \in BOOLEAN
    BY <1>3, AtPlace, Places DEF Step, IInv, TypeOK
  <2>2. Head(todo) \notin Preludes
    BY DEF Step, Preludes
  <2>. QED BY <1>1, <1>3, <2>1, <2>2, ObjectStep
<1>. QED BY <1>2, <1>3

LEMMA PageIInv == IInv /\ NextPageAnswered => IInv'
<1> SUFFICES ASSUME IInv, NextPageAnswered PROVE IInv'
  OBVIOUS
<1>0. /\ outcome = "running" /\ Step = "pages" /\ page' = page + 1
      /\ got' = [i \in Ids |-> got[i] + IF i \in PageOf(page') THEN 1 ELSE 0]
      /\ UNCHANGED <<privileges, objects, secret, othersLeft, consent, wanted, held, body, lost,
                     effects, touched, atStart, grown, shrunk>>
      /\ TypeOK /\ page \in Nat /\ PageSize \in Nat \ {0}
  BY ManageAssumption DEF NextPageAnswered, Running, service, changed, IInv, TypeOK
<1>1. wanted = <<>> /\ body = None /\ Len(todo) = 1 /\ effects = 0 /\ ObjectPlan(todo, consent)
  BY <1>0, PagesFacts
<1>2. \/ LastPage(page') /\ Done /\ outcome' = "ok"
      \/ ~LastPage(page') /\ tries' = MaxRetries + 1 /\ UNCHANGED <<todo, outcome>>
  BY <1>0, <1>1, DoneFacts DEF NextPageAnswered
<1>3. TypeOK'
  <2>1. todo' \in Seq(Steps) /\ tries' \in 1 .. MaxRetries + 1 /\ outcome' \in Outcomes
    BY <1>0, <1>2, DoneFacts, ManageAssumption DEF TypeOK
  <2>2. page' \in Nat /\ got' \in [Ids -> Nat]
    BY <1>0 DEF TypeOK
  <2>. QED BY <1>0, <2>1, <2>2 DEF TypeOK
<1>4. Placed' /\ Known1' /\ Undone'
  BY <1>0, <1>1, <1>2, NextPlace DEF Placed, Known1, Undone, ExitTellsEffect, Step, IInv
<1>5. ReportIsTrue'
  BY <1>0, <1>1, AtPlace, NoneType DEF ReportIsTrue
<1>6. Paging'
  <2>1. \A i \in Ids : Before(i) \in Nat /\ Before(i)' = Before(i)
                       /\ (i \in objects => Before(i) < Cardinality(objects))
    BY <1>0, BeforeFalls DEF Before, TypeOK
  <2>2. page' * PageSize = page * PageSize + PageSize /\ page * PageSize \in Nat
    BY <1>0
  <2>3. \A i \in Ids : i \in PageOf(page') <=>
           i \in objects /\ page * PageSize <= Before(i) /\ Before(i) < page' * PageSize
    <3>1. page' - 1 = page
      BY <1>0
    <3>. QED BY <1>0, <3>1 DEF PageOf, Before, TypeOK
  <2>4. /\ ~shrunk => atStart \subseteq objects
        /\ ~shrunk => \A i \in atStart : Before(i) < page * PageSize => got[i] > 0
        /\ ~grown => \A i \in Ids : /\ got[i] <= 1
                                    /\ i \in objects /\ got[i] > 0 => Before(i) < page * PageSize
        /\ atStart \subseteq Ids /\ got \in [Ids -> Nat]
    BY <1>0, <1>1 DEF IInv, Paging, TypeOK
  <2>5. \A i \in Ids : /\ i \in PageOf(page') => got'[i] = got[i] + 1
                       /\ i \notin PageOf(page') => got'[i] = got[i]
    BY <1>0, <2>4
  <2>6. ASSUME ~shrunk, NEW i \in atStart, Before(i) < page' * PageSize PROVE got'[i] > 0
    <3>1. i \in Ids /\ i \in objects /\ Before(i) \in Nat /\ got[i] \in Nat
      BY <2>1, <2>4, <2>6
    <3>2. CASE Before(i) < page * PageSize
      BY <2>4, <2>5, <2>6, <3>1, <3>2
    <3>3. CASE page * PageSize <= Before(i)
      BY <2>3, <2>5, <2>6, <3>1, <3>3
    <3>. QED BY <2>2, <3>1, <3>2, <3>3
  <2>7. ASSUME ~grown, NEW i \in Ids
        PROVE  got'[i] <= 1 /\ (i \in objects /\ got'[i] > 0 => Before(i) < page' * PageSize)
    <3>1. /\ got[i] \in Nat /\ got[i] <= 1 /\ Before(i) \in Nat
          /\ i \in objects /\ got[i] > 0 => Before(i) < page * PageSize
      BY <2>1, <2>4, <2>7
    <3>2. CASE i \in PageOf(page')
      <4>1. i \in objects /\ page * PageSize <= Before(i) /\ Before(i) < page' * PageSize
        BY <2>3, <3>2
      <4>2. got[i] = 0
        BY <2>2, <3>1, <4>1
      <4>. QED BY <2>5, <3>2, <4>1, <4>2
    <3>3. CASE i \notin PageOf(page')
      BY <1>0, <2>2, <2>5, <3>1, <3>3
    <3>. QED BY <3>2, <3>3
  <2>8. ASSUME LastPage(page'), ~shrunk, NEW i \in atStart PROVE got'[i] > 0
    <3>1. Cardinality(objects) \in Nat
      BY <1>0, Counts DEF TypeOK
    <3>2. Cardinality(objects) <= page' * PageSize
      <4>1. page' \in Nat /\ page' >= (Cardinality(objects) + PageSize - 1) \div PageSize
        BY <1>0, <2>8 DEF LastPage, PageTotal
      <4>. QED BY <3>1, <4>1, PagesSuffice
    <3>3. i \in Ids /\ i \in objects /\ Before(i) < Cardinality(objects) /\ Before(i) \in Nat
      BY <2>1, <2>4, <2>8
    <3>4. Before(i) < page' * PageSize
      BY <2>2, <1>0, <3>1, <3>2, <3>3
    <3>. QED BY <2>6, <2>8, <3>4
  <2>9. page' # 0 /\ outcome' # "none"
    BY <1>0, <1>2
  <2>10. ListIsComplete'
    BY <1>0, <1>2, <2>7, <2>8 DEF ListIsComplete
  <2>11. (outcome = "running" /\ Step # "pages" => page = 0)'
    BY <1>0, <1>2 DEF Step
  <2>. QED
    BY <1>0, <2>1, <2>4, <2>6, <2>7, <2>9, <2>10, <2>11 DEF Paging
<1>. QED BY <1>3, <1>4, <1>5, <1>6 DEF IInv

LEMMA OthersIInv == IInv /\ Others => IInv'
<1> SUFFICES ASSUME IInv, Others PROVE IInv'
  OBVIOUS
<1>0. /\ outcome = "running" /\ othersLeft > 0 /\ othersLeft' = othersLeft - 1 /\ TypeOK
      /\ UNCHANGED <<secret, todo, tries, outcome, consent, wanted, held, body, page, got, lost,
                     effects, atStart>>
  BY DEF Others, program, listing, IInv
<1>1. Placed' /\ Undone' /\ ReportIsTrue'
  BY <1>0 DEF IInv, Placed, Undone, ExitTellsEffect, Step, ReportIsTrue
<1>2. othersLeft' \in 0 .. MaxOthers
  BY <1>0, ManageAssumption DEF TypeOK
<1>3. CASE OthersSetPrivilege
  <2>1. PICK t \in Targets, l \in Ranks :
          /\ privileges' = [privileges EXCEPT ![t] = l] /\ touched' = touched \cup {t}
    BY <1>3 DEF OthersSetPrivilege
  <2>2. UNCHANGED <<objects, grown, shrunk>>
    BY <1>3 DEF OthersSetPrivilege
  <2>3. TypeOK'
    BY <1>0, <1>2, <2>1, <2>2 DEF TypeOK
  <2>4. Paging'
    <3>1. \A i \in Ids : Before(i)' = Before(i)
      BY <2>2 DEF Before
    <3>. QED BY <1>0, <2>2, <3>1 DEF IInv, Paging, ListIsComplete, Step, TypeOK
  <2>5. Known1'
    <3>1. \A u \in Targets \ touched' : u \in Targets \ touched /\ privileges'[u] = privileges[u]
      BY <1>0, <2>1 DEF TypeOK
    <3> SUFFICES ASSUME wanted # <<>>
                 PROVE  Read1' /\ Granting' /\ Revoking' /\ Replacing' /\ Putting'
      BY <1>0 DEF Known1
    <3>2. /\ Read1 /\ Granting /\ Revoking /\ Replacing /\ Putting
          /\ DOMAIN wanted \subseteq Targets
      BY <1>0, AtPlace DEF TypeOK
    <3>3. Read1'
      BY <1>0, <3>1, <3>2 DEF Read1
    <3>4. Granting'
      BY <1>0, <3>1, <3>2 DEF Granting, StatedEntries
    <3>5. Revoking' /\ Replacing'
      BY <1>0, <3>2 DEF Revoking, Replacing, StatedEntries
    <3>6. Putting'
      BY <1>0, <3>1, <3>2 DEF Putting
    <3>. QED BY <3>3, <3>4, <3>5, <3>6
  <2>. QED BY <1>1, <2>3, <2>4, <2>5 DEF IInv
<1>4. CASE OthersChangeObjects /\ wanted = <<>>
  <2>1. UNCHANGED <<privileges, touched>> /\ objects' \subseteq Ids
    BY <1>0, <1>4 DEF OthersChangeObjects, TypeOK
  <2>2. \/ objects \subseteq objects' /\ grown' = TRUE /\ shrunk' = shrunk
        \/ objects' \subseteq objects /\ shrunk' = TRUE /\ grown' = grown
    BY <1>4 DEF OthersChangeObjects
  <2>3. TypeOK' /\ Known1'
    BY <1>0, <1>2, <1>4, <2>1, <2>2 DEF TypeOK, Known1
  <2>4. \A i \in Ids : /\ Before(i) \in Nat /\ Before(i)' \in Nat
                       /\ objects \subseteq objects' => Before(i) <= Before(i)'
                       /\ objects' \subseteq objects => Before(i)' <= Before(i)
    BY <1>0, <2>1, BeforeFalls DEF Before, TypeOK
  <2>5. page * PageSize \in Nat
    BY <1>0, ManageAssumption DEF TypeOK
  <2>6. /\ page = 0 => got = [i \in Ids |-> 0]
        /\ Step # "pages" => page = 0
        /\ effects = 0 /\ ~shrunk => atStart \subseteq objects
        /\ ~shrunk => \A i \in atStart : Before(i) < page * PageSize => got[i] > 0
        /\ ~grown => \A i \in Ids : /\ got[i] <= 1
                                    /\ i \in objects /\ got[i] > 0 => Before(i) < page * PageSize
        /\ atStart \subseteq Ids
    BY <1>0 DEF IInv, Paging, TypeOK
  <2>7. ASSUME ~shrunk', NEW i \in atStart, Before(i)' < page * PageSize PROVE got[i] > 0
    BY <2>2, <2>4, <2>5, <2>6, <2>7
  <2>8. ASSUME ~grown', NEW i \in Ids
        PROVE  got[i] <= 1 /\ (i \in objects' /\ got[i] > 0 => Before(i)' < page * PageSize)
    BY <2>2, <2>4, <2>5, <2>6, <2>8
  <2>9. effects = 0 /\ ~shrunk' => atStart \subseteq objects'
    BY <2>2, <2>6
  <2>10. Paging'
    BY <1>0, <2>6, <2>7, <2>8, <2>9 DEF Paging, ListIsComplete, Step
  <2>. QED BY <1>1, <2>3, <2>10 DEF IInv
<1>. QED BY <1>3, <1>4 DEF Others

-----------------------------------------------------------------------------
(* Every step, and what follows                                             *)

LEMMA StutterIInv == IInv /\ UNCHANGED vars => IInv'
<1> SUFFICES ASSUME IInv, UNCHANGED vars PROVE IInv'
  OBVIOUS
<1>1. UNCHANGED <<privileges, objects, secret, othersLeft, todo, tries, outcome, consent, wanted,
                  held, body, page, got, lost, effects, touched, atStart, grown, shrunk>>
  BY DEF vars, service, program, listing, changed
<1>2. TypeOK' /\ Placed' /\ Undone' /\ ReportIsTrue'
  BY <1>1 DEF IInv, TypeOK, Placed, Undone, ExitTellsEffect, Step, ReportIsTrue
<1>3. Known1'
  BY <1>1 DEF IInv, Known1, Read1, Granting, Revoking, Replacing, Putting, StatedEntries
<1>4. Paging'
  <2>1. \A i \in Ids : Before(i)' = Before(i)
    BY <1>1 DEF Before
  <2>. QED BY <1>1, <2>1 DEF IInv, Paging, ListIsComplete, Step, TypeOK
<1>. QED BY <1>2, <1>3, <1>4 DEF IInv

LEMMA StepIInv == IInv /\ [Next]_vars => IInv'
<1>1. IInv /\ Work => IInv'
  BY InputIInv, UsageIInv, EntriesIInv, ExpressibleIInv, FoundIInv, KnownIInv, AnsweredIInv,
     ReadIInv, PageIInv, LostIInv, NotServedIInv DEF Work, Request
<1>. QED BY <1>1, StartIInv, QuestionsIInv, OthersIInv, StutterIInv DEF Next

\* Every reachable state: the invariant holds.
THEOREM Invariance == Spec => []IInv
BY InitIInv, StepIInv, PTL DEF Spec

\* Every variable keeps its type in every behaviour of the commands.
THEOREM TypeCorrect == Spec => []TypeOK
<1>1. IInv => TypeOK
  BY DEF IInv
<1>. QED BY Invariance, <1>1, PTL

\* A privileges command that succeeded tells the truth, whatever its attempts
\* and its retries, but for the targets that another client changed meanwhile.
THEOREM ReportHolds == Spec => []ReportIsTrue
<1>1. IInv => ReportIsTrue
  BY DEF IInv
<1>. QED BY Invariance, <1>1, PTL

\* When no answer was lost, the exit status of every command of the table tells
\* whether it made its one change.
THEOREM ExitHolds == Spec => []ExitTellsEffect
<1>1. IInv => ExitTellsEffect
  BY DEF IInv, Undone
<1>. QED BY Invariance, <1>1, PTL

\* However many objects a listing has and however large a page is, all pages
\* together have every object that stayed, and none twice if none was added.
THEOREM ListHolds == Spec => []ListIsComplete
<1>1. IInv => ListIsComplete
  BY DEF IInv, Paging
<1>. QED BY Invariance, <1>1, PTL

\* Only a request that the service executes changes what it holds, unless it is
\* another client's.
LEMMA OwnChange ==
    ASSUME IInv, Next, Own, ~UNCHANGED service
    PROVE  outcome = "running" /\ Step \in Writes /\ Execute(Step)
<1>1. ~Others
  BY DEF Others, Own, IInv, TypeOK
<1>2. ~Start /\ ~Questions
  BY DEF Start, Questions, Ask, AskLowering, Answer
<1>3. Answered \/ AnswerLost
  BY <1>1, <1>2 DEF Next, Work, Input, Usage, Entries, Expressible, Found, Known, Request,
     ReadAnswered, NextPageAnswered, NotServed, Refused
<1>. QED BY <1>3 DEF Answered, AnswerLost

\* A grant leaves the targets alone that are not named; a put writes them back as
\* they were read, which is what they hold unless another client changed them.
THEOREM KeepHolds == Spec => UnnamedKeepAccess
<1>1. ASSUME IInv, [Next]_vars
      PROVE  [Own => \A t \in Targets \ DOMAIN wanted :
                         privileges'[t] # privileges[t] => t \in touched]_vars
  <2>1. SUFFICES ASSUME Next, Own, NEW t \in Targets \ DOMAIN wanted,
                        privileges'[t] # privileges[t]
        PROVE  t \in touched
    BY <1>1
  <2>2. outcome = "running" /\ Step \in Writes /\ Execute(Step)
    BY <1>1, <2>1, OwnChange DEF service
  <2>3. Step = "put" /\ privileges' = body
    BY <1>1, <2>1, <2>2, Executed
  <2>4. wanted # <<>> /\ todo = Put1
    BY <1>1, <2>2, <2>3, Writing
  <2>5. Putting
    BY <1>1, <2>2, <2>4 DEF IInv, Known1
  <2>. QED BY <2>1, <2>3, <2>4, <2>5 DEF Putting
<1>. QED BY Invariance, <1>1, PTL DEF Spec, UnnamedKeepAccess

\* Whatever a command deletes, voids or lowers, the user agreed to.
THEOREM LossHolds == Spec => LossIsConsented
<1>1. ASSUME IInv, [Next]_vars
      PROVE  [Own /\ ~consent =>
                /\ objects \subseteq objects' /\ secret' = secret
                /\ \A t \in Targets \ touched : privileges'[t] >= privileges[t]]_vars
  <2>1. SUFFICES ASSUME Next, Own, ~consent
        PROVE  /\ objects \subseteq objects' /\ secret' = secret
               /\ \A t \in Targets \ touched : privileges'[t] >= privileges[t]
    BY <1>1
  <2>2. privileges \in [Targets -> Ranks]
    BY <1>1 DEF IInv, TypeOK
  <2>3. \A r \in Ranks : r >= r
    BY DEF Ranks, Future
  <2>4. CASE UNCHANGED service
    BY <2>2, <2>3, <2>4 DEF service
  <2>5. CASE ~UNCHANGED service
    <3>1. outcome = "running" /\ Step \in Writes /\ Execute(Step)
      BY <1>1, <2>1, <2>5, OwnChange
    <3>2. Step \notin {"delete", "rotate", "put"}
      BY <1>1, <2>1, <3>1, Writing, Held
    <3>3. objects \subseteq objects' /\ secret' = secret
      BY <1>1, <3>1, <3>2, Executed
    <3>4. CASE Step = "grant"
      <4>1. wanted # <<>> /\ todo = Grant1
        BY <1>1, <3>1, <3>4, Writing
      <4>2. Granting
        BY <1>1, <3>1, <4>1 DEF IInv, Known1
      <4>3. \A t \in DOMAIN wanted \ touched : privileges[t] <= wanted[t]
        BY <2>1, <4>1, <4>2 DEF Granting
      <4>4. \A t \in DOMAIN wanted : privileges'[t] = wanted[t]
        BY <1>1, <3>1, Held
      <4>5. \A t \in Targets \ DOMAIN wanted : privileges'[t] = privileges[t]
        BY <1>1, <3>1, <3>4, Executed
      <4>6. DOMAIN wanted \subseteq Targets /\ \A t \in DOMAIN wanted : wanted[t] \in Ranks
        BY <1>1 DEF IInv, TypeOK, Levels, Ranks, Read, Admin, Future
      <4>7. \A a, b \in Ranks : a <= b => b >= a
        BY DEF Ranks, Future
      <4>. QED BY <2>2, <2>3, <3>3, <4>3, <4>4, <4>5, <4>6, <4>7
    <3>5. CASE Step # "grant"
      <4>1. privileges' = privileges
        BY <1>1, <3>1, <3>2, <3>5, Executed
      <4>. QED BY <2>2, <2>3, <3>3, <4>1
    <3>. QED BY <3>4, <3>5
  <2>. QED BY <2>4, <2>5
<1>. QED BY Invariance, <1>1, PTL DEF Spec, LossIsConsented
=============================================================================
