------------------------------- MODULE QueryCache -------------------------------
(***************************************************************************)
(* What a page of the web application shows: the cache entry of one query of  *)
(* lib/api/queries/index.ts, while pages that use it come and go, the tab's    *)
(* mutations invalidate keys, and others change the data behind the API.       *)
(* The cache is TanStack Query with the options that the hooks give.           *)
(***************************************************************************)
EXTENDS ApiRoutes

CONSTANTS Requests,      \* the mutations a tab may have under way at once
          Params,        \* the ids a parameter of a hook may be
          Watched,       \* the keys, with ids, whose entries are looked at
          MaxVersion     \* how often the data changes (a bound)

CONSTANT NoData            \* no data

CacheAssumption == MaxVersion \in Nat /\ NoData \notin Nat

VARIABLES watched,   \* the key of the query that is looked at
          observed,  \* is a page shown that uses it?
          entry,     \* its entry in the cache
          fetch,     \* the request for it under way
          version,   \* how often the data has changed
          writing,   \* the mutations under way
          ownChange  \* history: the latest own change that invalidated the query

cacheVars == <<watched, observed, entry, fetch, version, writing, ownChange>>

\* data is the version of the data that is shown, old says that it was stored more than
\* staleTime ago.  outrun is history: the data was asked for before an own change and
\* stored after it.
Entry == [data : Nat \cup {NoData}, invalidated : BOOLEAN, old : BOOLEAN, outrun : BOOLEAN]
Empty == [data |-> NoData, invalidated |-> FALSE, old |-> FALSE, outrun |-> FALSE]

Fetch == [phase : {"none", "asked", "answered"}, seen : Nat, outrun : BOOLEAN]
Idle == [phase |-> "none", seen |-> 0, outrun |-> FALSE]
Asked == [Idle EXCEPT !.phase = "asked"]

\* hits says that onSuccess invalidates the query.
Writing == [phase : {"none", "sent", "applied"}, hits : BOOLEAN, made : Nat]
NotWriting == [phase |-> "none", hits |-> FALSE, made |-> 0]

TypeOK == /\ watched \in Watched /\ observed \in BOOLEAN
          /\ entry \in Entry /\ fetch \in Fetch /\ version \in Nat /\ ownChange \in Nat
          /\ writing \in [Requests -> Writing]

Init == /\ watched \in Watched /\ observed = FALSE
        /\ entry = Empty /\ fetch = Idle /\ version = 0 /\ ownChange = 0
        /\ writing = [r \in Requests |-> NotWriting]

-------------------------------------------------------------------------------
(* Queries.                                                                   *)

\* isStale of an observer with the staleTime of the hooks.
Stale == entry.data = NoData \/ entry.invalidated \/ entry.old

\* A page with the hook is shown: it gets stale data again, and joins a request that is
\* under way.
Mount == /\ ~observed /\ observed' = TRUE
         /\ fetch' = IF Stale /\ fetch.phase = "none" THEN Asked ELSE fetch
         /\ UNCHANGED <<watched, entry, version, writing, ownChange>>

\* The page is left.  A request goes on, as queryFn does not take the signal.
Unmount == /\ observed /\ observed' = FALSE
           /\ UNCHANGED <<watched, entry, fetch, version, writing, ownChange>>

\* The API reads the data.
Answer == /\ fetch.phase = "asked"
          /\ fetch' = [fetch EXCEPT !.phase = "answered", !.seen = version]
          /\ UNCHANGED <<watched, observed, entry, version, writing, ownChange>>

\* The answer is stored, which ends an invalidation, whenever that was.
Arrive == /\ fetch.phase = "answered"
          /\ entry' = [data |-> fetch.seen, invalidated |-> FALSE, old |-> FALSE,
                       outrun |-> fetch.outrun]
          /\ fetch' = Idle
          /\ UNCHANGED <<watched, observed, version, writing, ownChange>>

\* The request fails: it is asked again, as often as "retry" says and while the page is
\* shown, or given up, and the entry stays what it was.
FetchFails == /\ fetch.phase # "none"
              /\ \/ observed /\ fetch' = [fetch EXCEPT !.phase = "asked", !.seen = 0]
                 \/ fetch' = Idle
              /\ UNCHANGED <<watched, observed, entry, version, writing, ownChange>>

\* staleTime passes.
GrowOld == /\ entry.data # NoData /\ ~entry.old
           /\ entry' = [entry EXCEPT !.old = TRUE]
           /\ UNCHANGED <<watched, observed, fetch, version, writing, ownChange>>

\* An entry that nobody used for five minutes is dropped.
Collect == /\ ~observed /\ fetch.phase = "none"
           /\ entry' = Empty
           /\ UNCHANGED <<watched, observed, fetch, version, writing, ownChange>>

-------------------------------------------------------------------------------
(* Mutations.                                                                 *)

\* A key of onSuccess with the id the mutation was called with, and the queries that
\* invalidateQueries finds by it.
KeyOf(key, id) == [i \in DOMAIN key |-> IF key[i] = ":id" THEN id ELSE key[i]]
Invalidates(m, id) == \E key \in m.keys : Begins(watched, KeyOf(key, id))

Mutate(r) == /\ writing[r].phase = "none"
             /\ \E hits \in BOOLEAN :
                   /\ \E m \in Mutations, id \in Params : Invalidates(m, id) = hits
                   /\ writing' = [writing EXCEPT ![r] = [phase |-> "sent", hits |-> hits, made |-> 0]]
             /\ UNCHANGED <<watched, observed, entry, fetch, version, ownChange>>

\* The API changes the data, for this tab or for somebody else.
Apply(r) == /\ writing[r].phase = "sent" /\ version < MaxVersion
            /\ version' = version + 1
            /\ writing' = [writing EXCEPT ![r].phase = "applied", ![r].made = version']
            /\ UNCHANGED <<watched, observed, entry, fetch, ownChange>>

OthersChange == /\ version < MaxVersion /\ version' = version + 1
                /\ UNCHANGED <<watched, observed, entry, fetch, writing, ownChange>>

\* The mutation, or its answer, is lost: onSuccess is not called.
MutationFails(r) == /\ writing[r].phase # "none"
                    /\ writing' = [writing EXCEPT ![r] = NotWriting]
                    /\ UNCHANGED <<watched, observed, entry, fetch, version, ownChange>>

\* What invalidateQueries makes of the request for the query: it asks again if a page is
\* shown, but a request for data that was never there is not asked again, and neither is
\* one whose page was left.
Refetched == IF observed /\ (entry.data # NoData \/ fetch.phase = "none") THEN Asked
             ELSE [fetch EXCEPT !.outrun = fetch.phase # "none"]

\* onSuccess.
Succeed(r) == /\ writing[r].phase = "applied"
              /\ writing' = [writing EXCEPT ![r] = NotWriting]
              /\ \/ /\ writing[r].hits
                    /\ ownChange' = IF writing[r].made > ownChange THEN writing[r].made ELSE ownChange
                    /\ entry' = [entry EXCEPT !.invalidated = TRUE]
                    /\ fetch' = Refetched
                 \/ ~writing[r].hits /\ UNCHANGED <<entry, fetch, ownChange>>
              /\ UNCHANGED <<watched, observed, version>>

Next == \/ Mount \/ Unmount \/ Answer \/ Arrive \/ FetchFails \/ GrowOld \/ Collect \/ OthersChange
        \/ \E r \in Requests : Mutate(r) \/ Apply(r) \/ MutationFails(r) \/ Succeed(r)

Spec == Init /\ [][Next]_cacheVars

-------------------------------------------------------------------------------
(* Properties.                                                                *)

\* Who changed something and was told so sees it: what is shown is not older than the
\* tab's last change that invalidates the query, unless it is marked for another request.
\* The exception is data that was under way when the change came, and that nothing asked
\* for again: it is stored as if it were new.
OwnChangesAreShown == entry.data # NoData /\ ~entry.invalidated /\ ~entry.outrun =>
                         entry.data >= ownChange

\* What a page shows is never replaced by something older, whatever requests overlap.
ShownNeverGoesBack == [][entry.data # NoData /\ entry'.data # NoData => entry'.data >= entry.data]_cacheVars
===============================================================================
