----------------------------- MODULE MCApiServices -----------------------------
(* Services of the API that do not share state, on small instances: a behaviour *)
(* is about one of them, its part, and leaves the variables of the others alone. *)
EXTENDS Sessions, Sequences, TLC

CONSTANTS Tenants, Writers, MaxRows, MaxNow, BatchSize,
          Surveys, Responses, Assessments, Signers, NoSurvey, NoSigner,
          Invites, MaxResponses,
          Events, Actors, Values, NoActor, Snapshots, Exceptions, Responders,
          Home,       \* the replica that issues tokens
          Pages,
          TabTokens,  \* how many refresh tokens a browser gets (a bound)
          Params, Watched, MaxVersion, NoData,
          Codes, Labels, LabelsOf, BeginsWith, Seeded, Imports, NoCode,
          Ledgers     \* tables of metric events

VARIABLES part,
          now, row, ins, anchoring, anchors, export, disorder,
          node, uploaded,
          survey, response, assessment, pending, late, reopened,
          supplier, invite, answers, score, serving, doubled,
          event, req, submitters, snapshot, exception, responding,
          cookie, visit, shown, getter, aged, page, refresher, excuse, left,
          watched, observed, entry, fetch, version, writing, ownChange,
          sample

\* A group with one company and one site of it, and files with rows in odd orders, with
\* a parent that may not be, with a code that is taken, with a cycle, and with a code with
\* a dot, whose path another node may have.
MCCodes == {"g", "p1", "p10", "s1", "p1.x", "x", "h", "k"}
MCLabelsOf == [c \in MCCodes |-> IF c = "p1.x" THEN <<"p1", "x">> ELSE <<c>>]
MCLabels == MCCodes \ {"p1.x"}
MCBeginsWith == {<<"p1", "p10">>}
MCSeeded == ("g" :> [parent |-> NoCode, path |-> <<"g">>, type |-> "GROUP"])
              @@ ("p1" :> [parent |-> "g", path |-> <<"g", "p1">>, type |-> "LEGAL_ENTITY"])
              @@ ("s1" :> [parent |-> "p1", path |-> <<"g", "p1", "s1">>, type |-> "SITE"])

CsvRow(code, parentCode, type) == [code |-> code, parentCode |-> parentCode, type |-> type]

MCImports == {<<CsvRow("k", "h", "BUSINESS_UNIT"), CsvRow("h", NoCode, "GROUP"), CsvRow("p10", "g", "COMPANY")>>,
              <<CsvRow("k", "s1", "PROCESS"), CsvRow("h", NoCode, "FACILITY")>>,
              <<CsvRow("p10", "g", "COMPANY"), CsvRow("p1", "g", "COMPANY")>>,
              <<CsvRow("p1.x", "g", "COMPANY")>>,
              <<CsvRow("k", "h", "COMPANY"), CsvRow("h", "k", "COMPANY")>>}

Audit == INSTANCE AuditTrail
Hierarchy == INSTANCE HierarchyTree
Survey == INSTANCE Materiality
Portal == INSTANCE SupplierPortal
Assurance == INSTANCE AssuranceSnapshot
Tab == INSTANCE WebSession
Rollup == INSTANCE EmissionRollups
Cache == INSTANCE QueryCache

\* The entries that are looked at: a list, and what is shown of one file.
MCWatched == {<<"files", "all">>, <<"file", "f1">>}

\* One or two metric events of two nodes, around the turn of a fiscal year, and the
\* month or year in which somebody looks at them.
FirstOfMonth(m) == 4 * (12 * 2024 + m - 1)
Between(m, n) == [from |-> FirstOfMonth(m), to |-> FirstOfMonth(n) + 1]
Periods == {Between(2, 2), Between(3, 3), Between(3, 4), Between(4, 4), Between(16, 16),
            [from |-> FirstOfMonth(3), to |-> FirstOfMonth(3) + 3]}
Rows(value) == {[key |-> k, node |-> n, status |-> s, from |-> p.from, to |-> p.to, value |-> value] :
                   k \in Rollup!Keys \ {"ghg_scope3_cat2"}, n \in {"n1", "n2"},
                   s \in {"APPROVED", "DRAFT"}, p \in Periods}
Approved == {d \in Rows(3) : d.status = "APPROVED"}
MCLedgers == {<<d>> : d \in Rows(3)} \cup {<<d, e>> : d \in Approved, e \in Rows(5)}

ASSUME Assumptions == /\ Audit!AuditAssumption
                      /\ SessionsAssumption
                      /\ Hierarchy!HierarchyAssumption
                      /\ Survey!MaterialityAssumption
                      /\ Portal!SupplierAssumption
                      /\ Tab!WebAssumption
                      /\ Cache!CacheAssumption
                      /\ \A events \in Ledgers : Rollup!IsLedger(events)

\* Requests, and calls that write the log, are told apart by nothing but their names.
Symmetry == Permutations(Requests \cup Writers)

auditVars == <<now, row, ins, anchoring, anchors, export, disorder>>
hierarchyVars == <<node, uploaded>>
surveyVars == <<survey, response, assessment, pending, late, reopened>>
portalVars == <<supplier, invite, answers, score, serving, doubled>>
metricVars == <<event, req, submitters>>
assuranceVars == <<snapshot, exception, responding>>

tabVars == <<cookie, visit, shown, getter, aged, page, refresher, excuse, left>>
cacheVars == <<watched, observed, entry, fetch, version, writing, ownChange>>

\* No browser: the variables of Tab where a behaviour is about another part.
NoTab == /\ cookie = Tab!SignedOut /\ shown = Tab!SignedOut
         /\ visit = [r \in Requests |-> Tab!NoVisit] /\ page = [q \in Pages |-> Tab!NotSent]
         /\ getter = Tab!NoToken /\ refresher = Tab!NoRefresh
         /\ aged = {} /\ excuse = FALSE /\ left = {}

MCInit == /\ \/ /\ part \in {"audit", "iam", "hierarchy", "survey", "portal", "snapshots",
                              "exceptions", "cache"}
                /\ sample = <<>> /\ Init /\ NoTab
             \/ part = "rollup" /\ sample \in Ledgers /\ Init /\ NoTab
             \/ part = "tab" /\ sample = <<>> /\ Tab!WebInit /\ token[1].home = Home
          /\ Audit!Init
          /\ Hierarchy!Init
          /\ Survey!Init
          /\ Portal!Init
          /\ Assurance!AssuranceInit
          /\ Cache!Init
          /\ part # "cache" => watched = <<"files", "all">>

\* Bounds.  Failed logins are counted while there is a token left to issue, and one
\* replica, Home, serves all logins and issues all tokens; another may get any of the
\* tokens, to be refreshed or to be logged out, but keeps in mind the first family only,
\* and until the last token is issued.
CountsEarly == \A p \in Replicas, u \in Users : failed[p][u].count > 0 => ~Issued(MaxTokens)

OneReplicaIssues ==
    \A q \in Replicas \ {Home} :
        /\ \A j \in Jtis : Issued(j) => token[j].home # q
        /\ \A r \in Requests : call[r] # Idle => call[r].at # q
        /\ \A u \in Users : failed[q][u] = NoFailures
        /\ revokedFamilies[q] \subseteq (IF Issued(MaxTokens) THEN {} ELSE {1})

\* A browser gets TabTokens tokens, and either the user is deactivated or Home restarts.
\* Calls that overlap are of the session and before the last token expires, and meanwhile
\* a request of the client waits, sent for the first time, if there is one; a page or the
\* copilot asks while the client has none.
TabIsSmall == /\ ~Issued(TabTokens + 1)
              /\ active = Users \/ jtis[Home][1] # "unknown"
              /\ Cardinality(Tab!Visiting) > 1 =>
                     /\ TabTokens \notin aged
                     /\ \A r \in Tab!Visiting : visit[r].kind = "session"
                     /\ \A q \in Pages : page[q] # Tab!NotSent => page[q].step = "waiting" /\ page[q].retries = 0
              /\ (\E r \in Tab!Visiting : visit[r].kind # "session") =>
                     \A q \in Pages : page[q] = Tab!NotSent

\* Of the parts, only these change v.
Only(parts, v) == part \in parts \/ (part \notin parts /\ UNCHANGED v)

MCNext ==
    /\ UNCHANGED <<part, sample>>
    /\ Only({"audit"}, auditVars)
    /\ Only({"iam", "tab"}, vars)
    /\ Only({"tab"}, tabVars)
    /\ Only({"hierarchy"}, hierarchyVars)
    /\ Only({"survey"}, surveyVars)
    /\ Only({"portal"}, portalVars)
    /\ Only({"snapshots", "exceptions"}, <<metricVars, assuranceVars>>)
    /\ Only({"cache"}, cacheVars)
    /\ \/ part = "audit" /\ Audit!Next
       \/ part = "iam" /\ Next /\ CountsEarly' /\ OneReplicaIssues'
       \/ part = "tab" /\ Tab!WebNext /\ TabIsSmall'
       \/ part = "hierarchy" /\ Hierarchy!Next
       \/ part = "survey" /\ Survey!Next
       \/ part = "portal" /\ Portal!Next
       \/ part = "snapshots" /\ (Assurance!Take \/ (Assurance!Next /\ UNCHANGED assuranceVars))
       \/ part = "exceptions" /\ (Assurance!Take \/ Assurance!Raise \/ Assurance!Respond)
       \/ part = "cache" /\ Cache!Next
       \/ part = "rollup"

MCSpec == MCInit /\ [][MCNext]_<<part, sample, auditVars, vars, tabVars, hierarchyVars, surveyVars,
                             portalVars, metricVars, assuranceVars, cacheVars>>

\* The audit log: its types, and AuditIsSound of AuditTrail.  Every row is linked to the
\* genesis hash through rows of its tenant, a tenant whose inserts neither overlapped nor
\* came out of order has one chain, an anchor logged for a day stays the root of all its
\* rows, and an export misses no row that was there when it began.
AuditIsSound == part = "audit" => Audit!TypeOK /\ Audit!AuditIsSound

\* A browser tab: the types, BrowserSessionIsSound of WebSession and OwnChangesAreShown of
\* QueryCache.  Its session ends in an error for a reason only, a request is sent four
\* times at most, and a request that waits for a new session waits for a call that will
\* answer; and its pages show the tab's own changes, or data that is to be asked for again.
BrowserSessionIsSound == /\ part = "tab" => Tab!WebTypeOK /\ Tab!BrowserSessionIsSound
                         /\ part = "cache" => Cache!TypeOK /\ Cache!OwnChangesAreShown

\* The entity tree: the types, and HierarchyIsSound of HierarchyTree.  The path of a node
\* is that of its parents, rollups by path sum the subtree and no sibling, an import adds
\* the same nodes in any order of its rows, and a move that is let through moves nothing.
HierarchyIsSound == part = "hierarchy" => Hierarchy!TypeOK /\ Hierarchy!HierarchyIsSound

\* Surveys, invitations, snapshots and exceptions: the types, and what their requests that
\* overlap may not do.  An assessment counts every response but those let in while the
\* survey was open and stored later; an invitation is answered once unless two answers
\* overlapped; the hash of a snapshot can be recomputed later, unless a request was under
\* way that had read an event before; and closedAt is set on the closed exceptions only.
EngagementsAreSound ==
    /\ part = "survey" => Survey!TypeOK /\ Survey!AssessmentCountsAll
    /\ part = "portal" => Portal!TypeOK /\ Portal!AnsweredOnce
    /\ part \in {"snapshots", "exceptions"} => /\ Assurance!AssuranceTypeOK
                                              /\ Assurance!SnapshotCanBeVerified
                                              /\ Assurance!ClosedAtIsOfClosed

\* The pages that add up metric events agree with each other, where they may: PagesAgree,
\* ScopesAgree, YearHoldsItsEvent, AnswersAreStable and PathwayMeetsTarget of
\* EmissionRollups.
RollupsAgree ==
    part = "rollup" =>
        LET today == FirstOfMonth(4)
            year == Rollup!WholeYear(12 * 2023 + 3)
        IN  /\ Rollup!PagesAgree(sample, today)
            /\ \A nodes \in {{}, {"n1"}}, asked \in {year, Rollup!Unasked} :
                  Rollup!ScopesAgree(sample, nodes, asked, today)
            /\ Rollup!YearHoldsItsEvent(sample, today)
            /\ \A aggregation \in {"SUM", "MIN", "MAX", "LATEST", "FIRST"} :
                  Rollup!AnswersAreStable(sample, <<"ghg_scope2_market", "ghg_scope1_total">>,
                                          aggregation, {"n1", "n2"}, year)
            /\ \A years \in {0, 1, 3} :
                  Rollup!PathwayMeetsTarget(sample, [baselineYear |-> 2024, targetYear |-> 2024 + years,
                                                     reductionPercent |-> 42])

\* What is over stays over, whatever requests overlap; of each service, what no request
\* under way at the time can excuse.  A deactivated user gets no token, a locked account
\* stays locked, a closed survey and a closed exception are not opened again, a signature
\* is not replaced by a later one, an archived supplier is not revived, the score of a
\* year is not replaced by that of an older response, a tab that signed out stays so, and
\* its pages go back to no older data.
WhatIsOverStaysOver == /\ DeactivatedGetsNothing /\ LockHolds
                       /\ Survey!ClosedSurveysStay /\ Survey!SignaturesStay
                       /\ Portal!ArchivedStays /\ Portal!ScoreMovesOn
                       /\ Assurance!ClosedExceptionsStay
                       /\ Tab!SignOutHolds
                       /\ Cache!ShownNeverGoesBack
===============================================================================
