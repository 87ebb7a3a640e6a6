---------------------------- MODULE ApiCommands -----------------------------
(***************************************************************************)
(* What the management commands do: each command is the sequence of steps  *)
(* that its options select.  A step is a question, a check of the command  *)
(* line, or one request; the requests are those of the wrappers of         *)
(* core/api/, each of which sends one request and waits out the rate limit. *)
(* ManageCommands says what every step does.                                *)
(*                                                                         *)
(* Requests: read, page and pages (a listing of one page, of all of them), *)
(* readHeld and showHeld (the privileges of a repository), create, update,  *)
(* act (a change that removes nothing), delete, rotate (a change that      *)
(* makes an existing secret invalid), grant (the PATCH of privileges),     *)
(* put (the PUT of all privileges), tryRead (a failure is ignored).        *)
(***************************************************************************)
EXTENDS Sequences

\* The options that select steps.  yes: -y; dryRun: -n; pageAll: --page-all;
\* one: a single resource is named; verbose; terminal: stdin is a terminal;
\* stdin: the input file is "-".
Options == [yes : BOOLEAN, dryRun : BOOLEAN, pageAll : BOOLEAN, one : BOOLEAN,
            verbose : BOOLEAN, terminal : BOOLEAN, stdin : BOOLEAN]

Requests == {"read", "tryRead", "page", "pages", "readHeld", "showHeld", "create",
             "update", "act", "delete", "rotate", "grant", "put"}

-----------------------------------------------------------------------------
(* The wrappers of core/api                                                 *)

ReposApi == [create |-> "create", update |-> "update", delete |-> "delete",
             getKey |-> "read", setKey |-> "act", regenerateKey |-> "rotate",
             showPrivileges |-> "showHeld", readPrivileges |-> "readHeld",
             updatePrivileges |-> "grant", replacePrivileges |-> "put"]

EntitlementsApi == [create |-> "create", delete |-> "delete", update |-> "update",
                    refresh |-> "rotate", sync |-> "rotate", restrict |-> "update"]

VulnerabilityPolicyApi == [create |-> "create", update |-> "update", delete |-> "delete"]
LicensePolicyApi       == [create |-> "create", update |-> "update", delete |-> "delete"]
DenyPolicyApi          == [create |-> "create", get |-> "read", update |-> "update",
                           delete |-> "delete"]

PackagesApi == [copy |-> "act", move |-> "delete", delete |-> "delete", resync |-> "act",
                quarantine |-> "act", restore |-> "act", tag |-> "act",
                status |-> "read", dependencies |-> "read", tags |-> "read",
                slugPerm |-> "read"]

UpstreamsApi == [create |-> "create", update |-> "update", delete |-> "delete"]

MetadataApi == [get |-> "read", create |-> "create", update |-> "update",
                delete |-> "delete"]

ReportApi == [distros |-> "read", quota |-> "read", history |-> "read",
              metrics |-> "read", scans |-> "read", scan |-> "read",
              self |-> "read", tokens |-> "tryRead", rates |-> "read",
              status |-> "read"]

-----------------------------------------------------------------------------
(* Shared parts of the commands                                             *)

\* confirm_operation
Consent(o) == IF o.yes THEN <<>> ELSE <<"ask">>

\* paginate_results: one page, or all of them
Listing(o) == IF o.pageAll THEN <<"pages">> ELSE <<"page">>

\* confirm_regenerate
TypedConsent(o) == IF o.yes THEN <<>> ELSE IF o.terminal THEN <<"ask">> ELSE <<"usage">>

\* gpg_dry_run
GpgDryRun == <<ReposApi.getKey>>

-----------------------------------------------------------------------------
(* repositories                                                             *)

RepositoriesGet(o) == IF o.one /\ o.pageAll THEN <<"usage">> ELSE Listing(o)

RepositoriesCreate == <<"input", ReposApi.create>>

RepositoriesUpdate == <<"input", ReposApi.update>>

RepositoriesDelete(o) == Consent(o) \o <<ReposApi.delete>>

GpgGet == <<ReposApi.getKey>>

GpgUpload(o) == <<"input">> \o IF o.dryRun THEN GpgDryRun ELSE <<ReposApi.setKey>>

\* Mutant: the dry run is only looked at after the question.
GpgRegenerateDryAsked(o) ==
    IF o.dryRun THEN <<ReposApi.regenerateKey>>
                ELSE TypedConsent(o) \o <<ReposApi.regenerateKey>>

GpgRegenerate(o) ==
    IF o.dryRun THEN GpgDryRun ELSE TypedConsent(o) \o <<ReposApi.regenerateKey>>

PrivilegesList == <<ReposApi.showPrivileges>>

PrivilegesSet(o) ==
    <<"input">> \o (IF o.yes THEN <<>> ELSE <<ReposApi.readPrivileges, "askLowering">>)
    \o <<"name", ReposApi.updatePrivileges>>

\* Mutant: entries that the CLI cannot express are left out of what is kept.
PrivilegesRevokeAnyway(o) ==
    <<"input", ReposApi.readPrivileges, "found">> \o Consent(o)
    \o <<"keep", ReposApi.replacePrivileges>>

PrivilegesRevoke(o) ==
    <<"input", ReposApi.readPrivileges, "expressible", "found">> \o Consent(o)
    \o <<"keep", ReposApi.replacePrivileges>>

PrivilegesReplace(o) ==
    IF o.stdin /\ ~o.yes THEN <<"usage">>
    ELSE <<"input", "declare">> \o Consent(o) \o <<ReposApi.replacePrivileges>>

-----------------------------------------------------------------------------
(* entitlements                                                             *)

EntitlementsList(o)    == Listing(o)
EntitlementsCreate     == <<EntitlementsApi.create>>
EntitlementsDelete(o)  == Consent(o) \o <<EntitlementsApi.delete>>
EntitlementsUpdate     == <<EntitlementsApi.update>>
EntitlementsRefresh(o) == Consent(o) \o <<EntitlementsApi.refresh>>
EntitlementsSync(o)    == Consent(o) \o <<EntitlementsApi.sync>>
EntitlementsRestrict   == <<"input", EntitlementsApi.restrict>>

-----------------------------------------------------------------------------
(* packages: delete, copy, move and resync (without the wait, which is     *)
(* PushPipeline's), status, dependencies, quarantine, tags                  *)

PackageDelete(o)    == Consent(o) \o <<PackagesApi.delete>>
PackageCopy         == <<PackagesApi.copy>>
PackageMove(o)      == Consent(o) \o <<PackagesApi.move>>
PackageResync       == <<PackagesApi.resync>>
PackageStatus       == <<PackagesApi.status>>
PackageDependencies == <<PackagesApi.dependencies>>
PackagesList(o)     == Listing(o)
QuarantineAdd       == <<PackagesApi.quarantine>>
QuarantineRemove    == <<PackagesApi.restore>>
TagsList            == <<PackagesApi.tags>>
TagsAdd             == <<PackagesApi.tag>>
TagsClear           == <<PackagesApi.tag>>
TagsRemove          == <<PackagesApi.tag>>
TagsReplace         == <<PackagesApi.tag>>

-----------------------------------------------------------------------------
(* metadata of a package, which v2 of the API knows by its permanent slug   *)

MetadataList(o) ==
    <<PackagesApi.slugPerm>> \o IF o.one THEN <<MetadataApi.get>> ELSE Listing(o)

MetadataAdd == <<"input", PackagesApi.slugPerm, MetadataApi.create>>

MetadataUpdate == <<"input", PackagesApi.slugPerm, MetadataApi.update>>

\* Mutant: the permanent slug is read once more, after the change.
MetadataRemoveReadsLast(o) ==
    Consent(o) \o <<PackagesApi.slugPerm, MetadataApi.delete, PackagesApi.slugPerm>>

MetadataRemove(o) == Consent(o) \o <<PackagesApi.slugPerm, MetadataApi.delete>>

-----------------------------------------------------------------------------
(* upstreams and policies                                                   *)

UpstreamList(o)   == Listing(o)
UpstreamCreate    == <<"input", UpstreamsApi.create>>
UpstreamUpdate    == <<"input", UpstreamsApi.update>>
UpstreamDelete(o) == Consent(o) \o <<UpstreamsApi.delete>>

LicensePolicyList(o)   == Listing(o)
LicensePolicyCreate    == <<"input", LicensePolicyApi.create>>
LicensePolicyUpdate    == <<"input", LicensePolicyApi.update>>
LicensePolicyDelete(o) == Consent(o) \o <<LicensePolicyApi.delete>>

VulnerabilityPolicyList(o)   == Listing(o)
VulnerabilityPolicyCreate    == <<"input", VulnerabilityPolicyApi.create>>
VulnerabilityPolicyUpdate    == <<"input", VulnerabilityPolicyApi.update>>
VulnerabilityPolicyDelete(o) == Consent(o) \o <<VulnerabilityPolicyApi.delete>>

DenyPolicyList(o)   == Listing(o)
DenyPolicyCreate    == <<"input", DenyPolicyApi.create>>
DenyPolicyGet       == <<DenyPolicyApi.get>>
DenyPolicyUpdate    == <<"input", DenyPolicyApi.update>>
DenyPolicyDelete(o) == Consent(o) \o <<DenyPolicyApi.delete>>

-----------------------------------------------------------------------------
(* reports                                                                  *)

Distros             == <<ReportApi.distros>>
QuotaLimits         == <<ReportApi.quota>>
QuotaHistory        == <<ReportApi.history>>
EntitlementsMetrics == <<"input", ReportApi.metrics>>
PackagesMetrics     == <<"input", ReportApi.metrics>>
Vulnerabilities     == <<ReportApi.scans, ReportApi.scan>>
CheckRates          == <<ReportApi.rates>>
CheckService        == <<ReportApi.status>>

\* whoami exits with 1 when the server does not know the caller.
WhoAmI(o) == <<ReportApi.self>> \o (IF o.verbose THEN <<ReportApi.tokens>> ELSE <<>>)
             \o <<"known">>

-----------------------------------------------------------------------------
(* Every command                                                            *)

PackageCommands(o) ==
    {PackageDelete(o), PackageCopy, PackageMove(o), PackageResync, PackageStatus,
     PackageDependencies, PackagesList(o), QuarantineAdd, QuarantineRemove, TagsList,
     TagsAdd, TagsClear, TagsRemove, TagsReplace, MetadataList(o), MetadataAdd,
     MetadataUpdate, MetadataRemove(o)}

AdminCommands(o) ==
    {RepositoriesGet(o), RepositoriesCreate, RepositoriesUpdate, RepositoriesDelete(o),
     GpgGet, GpgUpload(o), GpgRegenerate(o), EntitlementsList(o), EntitlementsCreate,
     EntitlementsDelete(o), EntitlementsUpdate, EntitlementsRefresh(o),
     EntitlementsSync(o), EntitlementsRestrict, UpstreamList(o), UpstreamCreate,
     UpstreamUpdate, UpstreamDelete(o), LicensePolicyList(o), LicensePolicyCreate,
     LicensePolicyUpdate, LicensePolicyDelete(o), VulnerabilityPolicyList(o),
     VulnerabilityPolicyCreate, VulnerabilityPolicyUpdate,
     VulnerabilityPolicyDelete(o), DenyPolicyList(o), DenyPolicyCreate, DenyPolicyGet,
     DenyPolicyUpdate, DenyPolicyDelete(o)}

ReportCommands(o) ==
    {Distros, QuotaLimits, QuotaHistory, EntitlementsMetrics, PackagesMetrics,
     Vulnerabilities, CheckRates, CheckService, WhoAmI(o)}

PrivilegeCommands(o) ==
    {PrivilegesList, PrivilegesSet(o), PrivilegesRevoke(o), PrivilegesReplace(o)}

ObjectCommands(o) == PackageCommands(o) \cup AdminCommands(o) \cup ReportCommands(o)
=============================================================================
