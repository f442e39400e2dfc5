-------------------------------- MODULE ApiRoutes --------------------------------
(***************************************************************************)
(* The routes of the API, as the decorators of its controllers declare them,  *)
(* and the hooks of apps/web/src/lib/api/queries/index.ts that use them: each  *)
(* is a query with a key in the cache of TanStack Query, or a mutation that    *)
(* invalidates keys.  A path is a sequence of segments, ":id" a parameter.     *)
(***************************************************************************)
EXTENDS Naturals, Sequences

-------------------------------------------------------------------------------
(* The controllers, with their routes in the order they are registered in.     *)

Routes(prefix, routes) ==
    [i \in DOMAIN routes |-> [method |-> routes[i][1], path |-> <<prefix>> \o routes[i][2]]]

TenantsRoutes == Routes("tenants", <<
    <<"GET", <<"me">>>>, <<"PATCH", <<"me">>>>, <<"GET", <<"me", "settings">>>>,
    <<"PATCH", <<"me", "settings", ":id">>>>>>)

IamRoutes == Routes("iam", <<
    <<"POST", <<"auth", "exchange">>>>, <<"POST", <<"auth", "login">>>>,
    <<"POST", <<"auth", "refresh">>>>, <<"POST", <<"auth", "logout">>>>,
    <<"POST", <<"mfa", "enroll">>>>, <<"GET", <<"me">>>>, <<"GET", <<"users">>>>,
    <<"POST", <<"users">>>>, <<"PATCH", <<"users", ":id">>>>,
    <<"DELETE", <<"users", ":id">>>>, <<"GET", <<"roles">>>>, <<"POST", <<"roles">>>>,
    <<"POST", <<"role-assignments">>>>, <<"DELETE", <<"role-assignments", ":id">>>>>>)

HierarchyRoutes == Routes("hierarchy", <<
    <<"POST", <<"nodes">>>>, <<"GET", <<"nodes">>>>, <<"GET", <<"tree">>>>,
    <<"GET", <<"nodes", ":id">>>>, <<"PATCH", <<"nodes", ":id">>>>,
    <<"POST", <<"nodes", ":id", "move">>>>, <<"DELETE", <<"nodes", ":id">>>>,
    <<"POST", <<"bulk-import">>>>, <<"GET", <<"rollup", ":id">>>>>>)

FilesRoutes == Routes("files", <<
    <<"POST", <<"upload">>>>, <<"GET", <<>>>>, <<"GET", <<":id">>>>,
    <<"GET", <<":id", "extractions">>>>, <<"GET", <<":id", "signed-url">>>>,
    <<"GET", <<":id", "download">>>>, <<"DELETE", <<":id">>>>,
    <<"POST", <<":id", "reprocess">>>>, <<"POST", <<"extraction-callback">>>>>>)

ExtractionRoutes == Routes("extraction", <<
    <<"GET", <<"queue">>>>, <<"GET", <<"fields", ":id">>>>,
    <<"PATCH", <<"fields", ":id">>>>, <<"POST", <<"fields", ":id", "approve">>>>,
    <<"POST", <<"fields", ":id", "reject">>>>, <<"POST", <<"bulk-approve">>>>,
    <<"GET", <<"stats">>>>>>)

MetricsRoutes == Routes("metrics", <<
    <<"GET", <<"registry">>>>, <<"GET", <<"registry", ":id">>>>, <<"POST", <<"events">>>>,
    <<"GET", <<"events">>>>, <<"PATCH", <<"events", ":id">>>>,
    <<"POST", <<"events", ":id", "submit">>>>, <<"POST", <<"events", ":id", "approve">>>>,
    <<"POST", <<"events", ":id", "reject">>>>, <<"POST", <<"events", ":id", "lock">>>>,
    <<"POST", <<"events", "bulk-import">>>>>>)

CalculationsRoutes == Routes("calculations", <<
    <<"GET", <<"formulas">>>>, <<"POST", <<"formulas">>>>, <<"POST", <<"run">>>>,
    <<"GET", <<"runs">>>>, <<"GET", <<"runs", ":id">>>>, <<"POST", <<"scope1">>>>,
    <<"POST", <<"scope2">>>>, <<"POST", <<"scope3", ":id">>>>>>)

BrsrRoutes == Routes("brsr", <<
    <<"GET", <<"mappings">>>>, <<"POST", <<"resolve">>>>, <<"GET", <<"sections">>>>,
    <<"POST", <<"preview">>>>, <<"POST", <<"generate">>>>>>)

CarbonRoutes == Routes("carbon", <<
    <<"GET", <<"emissions">>>>, <<"POST", <<"scope3", "run">>>>, <<"GET", <<"sbti">>>>,
    <<"POST", <<"sbti">>>>, <<"PATCH", <<"sbti", ":id">>>>, <<"DELETE", <<"sbti", ":id">>>>,
    <<"GET", <<"abatement">>>>, <<"POST", <<"abatement">>>>,
    <<"PATCH", <<"abatement", ":id">>>>, <<"DELETE", <<"abatement", ":id">>>>,
    <<"POST", <<"macc">>>>, <<"GET", <<"credits">>>>, <<"POST", <<"credits">>>>,
    <<"PATCH", <<"credits", ":id">>>>, <<"DELETE", <<"credits", ":id">>>>,
    <<"GET", <<"net-zero">>>>>>)

ReportsRoutes == Routes("reports", <<
    <<"GET", <<>>>>, <<"GET", <<":id">>>>, <<"GET", <<":id", "pdf">>>>,
    <<"GET", <<":id", "xlsx">>>>, <<"GET", <<":id", "xbrl">>>>,
    <<"POST", <<":id", "approve">>>>, <<"POST", <<":id", "file">>>>>>)

SuppliersRoutes == Routes("suppliers", <<
    <<"GET", <<>>>>, <<"GET", <<"scorecard">>>>, <<"GET", <<":id">>>>, <<"POST", <<>>>>,
    <<"PATCH", <<":id">>>>, <<"DELETE", <<":id">>>>, <<"POST", <<":id", "invite">>>>,
    <<"POST", <<":id", "score">>>>, <<"GET", <<"public", ":id">>>>,
    <<"POST", <<"public", ":id", "responses">>>>>>)

MaterialityRoutes == Routes("materiality", <<
    <<"GET", <<"topics">>>>, <<"POST", <<"topics">>>>, <<"GET", <<"stakeholders">>>>,
    <<"POST", <<"stakeholders">>>>, <<"POST", <<"surveys">>>>,
    <<"POST", <<"surveys", ":id", "launch">>>>,
    <<"POST", <<"surveys", ":id", "responses">>>>,
    <<"POST", <<"surveys", ":id", "close">>>>, <<"POST", <<"assessments">>>>,
    <<"GET", <<"assessments", ":id">>>>, <<"POST", <<"assessments", ":id", "sign">>>>>>)

AssuranceRoutes == Routes("assurance", <<
    <<"POST", <<"snapshots">>>>, <<"GET", <<"snapshots">>>>,
    <<"GET", <<"snapshots", ":id", "walkthrough", ":id">>>>,
    <<"POST", <<"snapshots", ":id", "sample">>>>, <<"GET", <<"exceptions">>>>,
    <<"POST", <<"exceptions">>>>, <<"PATCH", <<"exceptions", ":id", "respond">>>>>>)

AuditRoutes == Routes("audit", <<
    <<"GET", <<"logs">>>>, <<"GET", <<"logs", "export">>>>>>)

CopilotRoutes == Routes("copilot", <<
    <<"POST", <<"conversations">>>>, <<"GET", <<"conversations">>>>,
    <<"GET", <<"conversations", ":id", "messages">>>>,
    <<"POST", <<"conversations", ":id", "messages">>>>>>)

DashboardRoutes == Routes("dashboard", <<
    <<"GET", <<"kpis">>>>, <<"GET", <<"activity">>>>, <<"GET", <<"anomalies">>>>>>)

Controllers == {TenantsRoutes, IamRoutes, HierarchyRoutes, FilesRoutes, ExtractionRoutes, MetricsRoutes,
                CalculationsRoutes, BrsrRoutes, CarbonRoutes, ReportsRoutes, SuppliersRoutes,
                MaterialityRoutes, AssuranceRoutes, AuditRoutes, CopilotRoutes, DashboardRoutes}

\* A request is served by the first route that matches it.
Matches(route, method, path) ==
    /\ route.method = method /\ Len(route.path) = Len(path)
    /\ \A i \in DOMAIN path : route.path[i] \in {path[i], ":id"}

ServedBy(method, path) ==
    UNION {LET matching == {i \in DOMAIN c : Matches(c[i], method, path)}
           IN  {c[i] : i \in {j \in matching : \A k \in matching : j <= k}} : c \in Controllers}

-------------------------------------------------------------------------------
(* The hooks.  "filters" stands for a filter object in a key.                  *)

\* Those that hooks use, without a query string.
ENDPOINTS ==
    [tenantMe |-> <<"tenants", "me">>, tenantSettings |-> <<"tenants", "me", "settings">>,
     users |-> <<"iam", "users">>, roles |-> <<"iam", "roles">>,
     hierarchy |-> <<"hierarchy", "tree">>, hierarchyNodes |-> <<"hierarchy", "nodes">>,
     hierarchyNode |-> <<"hierarchy", "nodes", ":id">>, files |-> <<"files">>,
     file |-> <<"files", ":id">>, fileUpload |-> <<"files", "upload">>,
     fileReprocess |-> <<"files", ":id", "reprocess">>,
     fileExtraction |-> <<"files", ":id", "extractions">>,
     extractionQueue |-> <<"extraction", "queue">>,
     extractionStats |-> <<"extraction", "stats">>,
     extractionField |-> <<"extraction", "fields", ":id">>,
     extractionFieldApprove |-> <<"extraction", "fields", ":id", "approve">>,
     extractionFieldReject |-> <<"extraction", "fields", ":id", "reject">>,
     metricRegistry |-> <<"metrics", "registry">>, metricEvents |-> <<"metrics", "events">>,
     metricEventSubmit |-> <<"metrics", "events", ":id", "submit">>,
     metricEventApprove |-> <<"metrics", "events", ":id", "approve">>,
     calculations |-> <<"calculations", "runs">>,
     calculationRun |-> <<"calculations", "runs", ":id">>,
     calculationsRun |-> <<"calculations", "run">>, frameworks |-> <<"brsr", "mappings">>,
     brsrSections |-> <<"brsr", "sections">>,
     emissionsOverview |-> <<"carbon", "emissions">>, scope3 |-> <<"carbon", "emissions">>,
     netZero |-> <<"carbon", "net-zero">>, macc |-> <<"carbon", "macc">>,
     abatement |-> <<"carbon", "abatement">>, carbonCredits |-> <<"carbon", "credits">>,
     reports |-> <<"reports">>, report |-> <<"reports", ":id">>,
     reportGenerate |-> <<"reports">>, suppliers |-> <<"suppliers">>,
     supplier |-> <<"suppliers", ":id">>,
     supplierInvite |-> <<"suppliers", ":id", "invite">>,
     materialityTopics |-> <<"materiality", "topics">>,
     stakeholders |-> <<"materiality", "stakeholders">>,
     snapshots |-> <<"assurance", "snapshots">>,
     exceptions |-> <<"assurance", "exceptions">>, auditLog |-> <<"audit", "logs">>,
     copilotConversations |-> <<"copilot", "conversations">>,
     copilotMessages |-> <<"copilot", "conversations", ":id", "messages">>,
     dashboardKpis |-> <<"dashboard", "kpis">>,
     dashboardActivity |-> <<"dashboard", "activity">>,
     dashboardAnomalies |-> <<"dashboard", "anomalies">>]

\* useQuery with a key, and what it gets.
Query(key, endpoints) == [key |-> key, gets |-> endpoints]

\* useMutation: one request, and the keys that onSuccess invalidates.
Mutation(method, endpoint, keys) == [method |-> method, endpoint |-> endpoint, keys |-> keys]

TenantQueries == {Query(<<"tenant">>, {"tenantMe"}), Query(<<"tenant", "settings">>, {"tenantSettings"}),
                  Query(<<"users">>, {"users"}), Query(<<"roles">>, {"roles"})}
TenantMutations == {Mutation("PATCH", "tenantSettings", {<<"tenant">>, <<"tenant", "settings">>})}

HierarchyQueries == {Query(<<"hierarchy">>, {"hierarchy"}),
                     Query(<<"hierarchy", ":id">>, {"hierarchyNode"})}
HierarchyMutations == {Mutation("POST", "hierarchyNodes", {<<"hierarchy">>}),
                       Mutation("PATCH", "hierarchyNode", {<<"hierarchy">>}),
                       Mutation("DELETE", "hierarchyNode", {<<"hierarchy">>})}

FileQueries == {Query(<<"files", "filters">>, {"files"}), Query(<<"file", ":id">>, {"file"})}
FileMutations == {Mutation("POST", "fileUpload", {<<"files">>}),
                  Mutation("POST", "fileReprocess", {<<"file", ":id">>, <<"files">>})}

\* useExtractedFields without a file has the key of a file named "all".
ExtractionQueries == {Query(<<"extraction-queue", "filters">>, {"extractionQueue"}),
                      Query(<<"extraction-stats">>, {"extractionStats"}),
                      Query(<<"extraction", ":id">>, {"fileExtraction"}),
                      Query(<<"extraction", "all">>, {"extractionQueue"})}
ReviewKeys == {<<"extraction-queue">>, <<"extraction-stats">>}
ExtractionMutations == {Mutation("POST", "extractionFieldApprove", ReviewKeys),
                        Mutation("POST", "extractionFieldReject", ReviewKeys),
                        Mutation("PATCH", "extractionField", {<<"extraction-queue">>})}

MetricQueries == {Query(<<"metric-registry">>, {"metricRegistry"}),
                  Query(<<"metric-events", "filters">>, {"metricEvents"})}
MetricMutations == {Mutation("POST", "metricEventSubmit", {<<"metric-events">>}),
                    Mutation("POST", "metricEventApprove", {<<"metric-events">>})}

CalculationQueries == {Query(<<"calculations">>, {"calculations"}),
                       Query(<<"calculation", ":id">>, {"calculationRun"})}
CalculationMutations == {Mutation("POST", "calculationsRun", {<<"calculations">>})}

FrameworkQueries == {Query(<<"frameworks">>, {"frameworks"}), Query(<<"brsr-sections">>, {"brsrSections"})}

CarbonQueries == {Query(<<"emissions-overview">>, {"emissionsOverview"}), Query(<<"scope3">>, {"scope3"}),
                  Query(<<"net-zero">>, {"netZero"}), Query(<<"macc">>, {"macc"}),
                  Query(<<"abatement">>, {"abatement"}), Query(<<"carbon-credits">>, {"carbonCredits"})}

ReportQueries == {Query(<<"reports">>, {"reports"}), Query(<<"report", ":id">>, {"report"})}
ReportMutations == {Mutation("POST", "reportGenerate", {<<"reports">>})}

SupplierQueries == {Query(<<"suppliers">>, {"suppliers"}), Query(<<"supplier", ":id">>, {"supplier"})}
SupplierMutations == {Mutation("POST", "supplierInvite", {<<"suppliers">>})}

\* useMateriality gets two lists at once, and an empty one for each that fails.
MaterialityQueries == {Query(<<"materiality-topics">>, {"materialityTopics"}),
                       Query(<<"materiality">>, {"materialityTopics", "stakeholders"})}

OversightQueries == {Query(<<"snapshots">>, {"snapshots"}), Query(<<"exceptions">>, {"exceptions"}),
                     Query(<<"audit-log", "filters">>, {"auditLog"}),
                     Query(<<"copilot-conversations">>, {"copilotConversations"}),
                     Query(<<"dashboard-kpis">>, {"dashboardKpis"}),
                     Query(<<"dashboard-activity">>, {"dashboardActivity"}),
                     Query(<<"dashboard-anomalies">>, {"dashboardAnomalies"})}
CopilotMutations == {Mutation("POST", "copilotConversations", {<<"copilot-conversations">>}),
                     Mutation("POST", "copilotMessages", {<<"copilot-conversations">>})}

\* invalidateQueries(k) finds key: it begins with k.
Begins(key, k) == Len(k) <= Len(key) /\ SubSeq(key, 1, Len(k)) = k

Queries == UNION {TenantQueries, HierarchyQueries, FileQueries, ExtractionQueries, MetricQueries,
                  CalculationQueries, FrameworkQueries, CarbonQueries, ReportQueries,
                  SupplierQueries, MaterialityQueries, OversightQueries}
Mutations == UNION {TenantMutations, HierarchyMutations, FileMutations, ExtractionMutations,
                    MetricMutations, CalculationMutations, ReportMutations, SupplierMutations,
                    CopilotMutations}

-------------------------------------------------------------------------------
(* Properties.                                                                *)

\* Each route is reached by the requests it declares: none registered before it in its
\* controller takes them, as GET suppliers/:id would
\* take GET suppliers/scorecard.
RouteIsReached(route) == ServedBy(route.method, route.path) = {route}

\* What no route serves, so that the hook always fails: the settings are changed one by
\* one (PATCH tenants/me/settings/:key), a MACC is a POST, reports are generated under
\* brsr/generate.
Unserved == {<<"PATCH", "tenantSettings">>, <<"GET", "macc">>, <<"POST", "reportGenerate">>}

\* Each request of a hook, those apart, is served by a route of the API.
HookIsServed(hook) ==
    LET served(method, endpoint) ==
            <<method, endpoint>> \in Unserved <=> ServedBy(method, ENDPOINTS[endpoint]) = {}
    IN  IF "gets" \in DOMAIN hook THEN \A e \in hook.gets : served("GET", e)
        ELSE served(hook.method, hook.endpoint)

\* Two queries do not share a cache entry: a key, and a key with a parameter whatever
\* its value is, belongs to one query, but for ids that are "all".  And what a mutation
\* invalidates is the key of a query or a prefix of one, never a key nobody has.
KeysAreDistinct(hook) ==
    IF "gets" \in DOMAIN hook
    THEN \A q \in Queries : q.key = hook.key => q = hook
    ELSE \A k \in hook.keys : \E q \in Queries : Begins(q.key, k)
===============================================================================
