------------------------------ MODULE RouterEntry ------------------------------
(***************************************************************************)
(* entry.RouterEntry (internal/entry/router_entry.go): one configured      *)
(* router as the HTTP handlers and the collectors share it.                *)
(*                                                                         *)
(* A scrape asks IsReady, lets its collectors use the entry, and calls     *)
(* IsDone.  Scrapes overlap (two HTTP requests), and the collectors of a   *)
(* scrape outlive it when its handler timed out.  A handler that times out *)
(* before all its routers are ready starts no collector, calls IsDone for  *)
(* those that are ready by then, and for those that get ready later        *)
(* nobody does.  The connections are reduced to being up or not: every     *)
(* call of Connection takes its own lock (module Connection), so each is   *)
(* one step here.                                                          *)
(*                                                                         *)
(* Of the lease cache the model keeps which version of the router's lease  *)
(* table it was filled from.                                               *)
(***************************************************************************)
EXTENDS Integers, FiniteSets

CONSTANTS
  Scrapes,        \* the scrapes of this router that may be under way together
  Collectors,     \* the collectors that resolve clients (wlan.go, capsman.go)
  Children,       \* remote entries set on this one: a subset of {"dhcp", "capsman"};
                  \* none in the exporter, which never calls SetDHCPEntry or SetCAPsMANEntry
  PersistentPool, \* persistent_router_connection_pool
  PersistentCache,\* persistent_dhcp_cache
  Detach,         \* TRUE: a handler may time out before its collectors end
  NoCache,        \* the nil dhcpCache
  Nobody,         \* dhcpFetchMu is free
  MaxTable        \* bound: versions of the router's lease table

ASSUME RouterEntryAssumption ==
  /\ Children \subseteq {"dhcp", "capsman"}
  /\ PersistentPool \in BOOLEAN
  /\ PersistentCache \in BOOLEAN
  /\ Detach \in BOOLEAN
  /\ NoCache \notin Nat
  /\ MaxTable \in Nat
  /\ Nobody \notin Scrapes \X Collectors

Links == {"primary"} \cup Children
Tasks == Scrapes \X Collectors

VARIABLES
  up,         \* the connections, of the primary and the children, that are up
  left,       \* history: those that were up when a scrape got ready too late,
              \* and have not been down since
  table,      \* the current version of the router's lease table
  dhcpCache,  \* the version the cache holds, or NoCache
  fetchMu,    \* the collector task that holds dhcpFetchMu, or Nobody
  phase,      \* where each scrape is
  todo,       \* the connections its current loop has still to visit
  view,       \* the connections connectionState has found up
  began,      \* history: the version of the lease table when the entry was last taken
              \* into use, by a scrape while there was no other
  task,       \* where each collector task is
  fetched,    \* the leases a task has fetched and not stored yet
  looked      \* what a task's lookup has found

scrapeVars == <<phase, todo, view, began>>
taskVars == <<fetchMu, task, fetched, looked>>
vars == <<up, left, table, dhcpCache, scrapeVars, taskVars>>

Phases == {"idle", "look", "connect", "look again", "ready", "disconnect", "clear"}
TaskStates == {"none", "ensure", "locked", "fetching", "store", "lookup", "done"}

TypeOK ==
  /\ up \in SUBSET Links /\ left \in SUBSET up
  /\ table \in 0..MaxTable
  /\ dhcpCache \in (0..MaxTable) \cup {NoCache}
  /\ fetchMu \in Tasks \cup {Nobody}
  /\ phase \in [Scrapes -> Phases]
  /\ todo \in [Scrapes -> SUBSET Links]
  /\ view \in [Scrapes -> SUBSET Links]
  /\ began \in 0..MaxTable
  /\ task \in [Tasks -> TaskStates]
  /\ fetched \in [Tasks -> (0..MaxTable) \cup {NoCache}]
  /\ looked \in [Tasks -> (0..MaxTable) \cup {NoCache}]

Init ==
  /\ up = {} /\ left = {}
  /\ table = 0
  /\ dhcpCache = NoCache
  /\ fetchMu = Nobody
  /\ phase = [s \in Scrapes |-> "idle"]
  /\ todo = [s \in Scrapes |-> {}]
  /\ view = [s \in Scrapes |-> {}]
  /\ began = 0
  /\ task = [t \in Tasks |-> "none"]
  /\ fetched = [t \in Tasks |-> NoCache]
  /\ looked = [t \in Tasks |-> NoCache]

TasksOf(s) == {s} \X Collectors

\* A scrape is under way.
InUse == \E s \in Scrapes : phase[s] # "idle"

Move(s, from, to) == phase[s] = from /\ phase' = [phase EXCEPT ![s] = to]

\* The loops visit the primary connection first.
Visits(s, l) == l \in todo[s] /\ (l = "primary" \/ "primary" \notin todo[s])

-----------------------------------------------------------------------------
(* IsReady *)

BeginScrape(s) ==
  /\ Move(s, "idle", "look")
  /\ \A t \in TasksOf(s) : task[t] = "none"
  /\ todo' = [todo EXCEPT ![s] = Links]
  /\ view' = [view EXCEPT ![s] = {}]
  /\ began' = IF InUse THEN began ELSE table
  /\ UNCHANGED <<up, left, table, dhcpCache, taskVars>>

\* connectionState reads the connections one after the other, each under its
\* own lock.
Look(s) ==
  /\ phase[s] \in {"look", "look again"}
  /\ \E l \in Links :
       /\ Visits(s, l)
       /\ view' = [view EXCEPT ![s] = IF l \in up THEN @ \cup {l} ELSE @]
       /\ todo' = [todo EXCEPT ![s] = @ \ {l}]
  /\ UNCHANGED <<up, left, table, dhcpCache, phase, began, taskVars>>

\* The aggregate of what connectionState read.  A child that is not set
\* counts as connected.
ConnectionState(seen) ==
  LET ok(child) == child \notin Children \/ child \in seen
  IN IF "primary" \in seen /\ ok("dhcp") /\ ok("capsman") THEN "connected"
     ELSE IF "primary" \in seen \/ ok("dhcp") \/ ok("capsman") THEN "partially"
     ELSE "not connected"

FirstState(s) ==
  /\ todo[s] = {}
  /\ IF ConnectionState(view[s]) = "connected"
     THEN Move(s, "look", "look again")
     ELSE Move(s, "look", "connect")
  /\ todo' = [todo EXCEPT ![s] = Links]
  /\ view' = [view EXCEPT ![s] = {}]
  /\ UNCHANGED <<up, left, table, dhcpCache, began, taskVars>>

\* Connect: a connection that is down is dialed, unless it is in backoff;
\* either way an error is only logged.
TryConnect(s) ==
  /\ phase[s] = "connect"
  /\ \E l \in Links :
       /\ Visits(s, l)
       /\ up' = up \cup {l} \/ UNCHANGED up
       /\ todo' = [todo EXCEPT ![s] = @ \ {l}]
  /\ UNCHANGED <<left, table, dhcpCache, phase, view, began, taskVars>>

ConnectReturns(s) ==
  /\ todo[s] = {}
  /\ Move(s, "connect", "look again")
  /\ todo' = [todo EXCEPT ![s] = Links]
  /\ UNCHANGED <<up, left, table, dhcpCache, view, began, taskVars>>

\* IsReady returns TRUE, and the other routers of the request are ready in time,
\* too: the collectors of the scrape start.
IsReady(s) ==
  /\ todo[s] = {}
  /\ ConnectionState(view[s]) # "not connected"
  /\ Move(s, "look again", "ready")
  /\ task' = [t \in Tasks |-> IF t[1] = s THEN "ensure" ELSE task[t]]
  /\ UNCHANGED <<up, left, table, dhcpCache, todo, view, began, fetchMu, fetched, looked>>

\* IsReady returns TRUE, but another router keeps the request until its timeout:
\* no collector starts, and the handler calls IsDone.
IsReadyInVain(s) ==
  /\ todo[s] = {}
  /\ ConnectionState(view[s]) # "not connected"
  /\ Move(s, "look again", "ready")
  /\ UNCHANGED <<up, left, table, dhcpCache, todo, view, began, taskVars>>

\* IsReady returns TRUE when the handler has timed out and called IsDone for the
\* routers that were ready: the goroutine adds this one to a list nobody reads.
IsReadyTooLate(s) ==
  /\ todo[s] = {}
  /\ ConnectionState(view[s]) # "not connected"
  /\ Move(s, "look again", "idle")
  /\ left' = up
  /\ UNCHANGED <<up, table, dhcpCache, todo, view, began, taskVars>>

\* IsReady returns FALSE: the handler skips the router and never calls IsDone.
IsNotReady(s) ==
  /\ todo[s] = {}
  /\ ConnectionState(view[s]) = "not connected"
  /\ Move(s, "look again", "idle")
  /\ UNCHANGED <<up, left, table, dhcpCache, todo, view, began, taskVars>>

-----------------------------------------------------------------------------
(* EnsureDHCPRecords and DHCPRecord, as a collector calls them *)

At(t, from, to) == task[t] = from /\ task' = [task EXCEPT ![t] = to]

\* Mutant: dhcpFetchMu is not taken.
LockFetchUnguarded(t) ==
  /\ At(t, "ensure", "locked")
  /\ fetchMu' = t
  /\ UNCHANGED <<up, left, table, dhcpCache, scrapeVars, fetched, looked>>

LockFetch(t) ==
  /\ fetchMu = Nobody
  /\ At(t, "ensure", "locked")
  /\ fetchMu' = t
  /\ UNCHANGED <<up, left, table, dhcpCache, scrapeVars, fetched, looked>>

\* The cache is looked at under e.mu: a populated one is used as it is.
FindCacheEmpty(t) ==
  /\ dhcpCache = NoCache
  /\ At(t, "locked", "fetching")
  /\ UNCHANGED <<up, left, table, dhcpCache, scrapeVars, fetchMu, fetched, looked>>

FindCachePopulated(t) ==
  /\ dhcpCache # NoCache
  /\ At(t, "locked", "lookup")
  /\ fetchMu' = Nobody
  /\ UNCHANGED <<up, left, table, dhcpCache, scrapeVars, fetched, looked>>

\* The connection the leases are read from (DHCPEntry).
LeaseLink == IF "dhcp" \in Children THEN "dhcp" ELSE "primary"

FetchReplies(t) ==
  /\ LeaseLink \in up
  /\ At(t, "fetching", "store")
  /\ fetched' = [fetched EXCEPT ![t] = table]
  /\ UNCHANGED <<up, left, table, dhcpCache, scrapeVars, fetchMu, looked>>

\* Mutant: the early return leaves the mutex locked.
FetchFailsLocked(t) ==
  /\ At(t, "fetching", "lookup")
  /\ UNCHANGED <<up, left, table, dhcpCache, scrapeVars, fetchMu, fetched, looked>>

\* No connection, or an error: logged, and the cache stays as it is.
FetchFails(t) ==
  /\ At(t, "fetching", "lookup")
  /\ fetchMu' = Nobody
  /\ UNCHANGED <<up, left, table, dhcpCache, scrapeVars, fetched, looked>>

\* SetDHCPRecords replaces the whole cache, and the mutex is released.
SetDHCPRecords(t) ==
  /\ At(t, "store", "lookup")
  /\ dhcpCache' = fetched[t]
  /\ fetched' = [fetched EXCEPT ![t] = NoCache]
  /\ fetchMu' = Nobody
  /\ UNCHANGED <<up, left, table, scrapeVars, looked>>

DHCPRecord(t) ==
  /\ At(t, "lookup", "done")
  /\ looked' = [looked EXCEPT ![t] = dhcpCache]
  /\ UNCHANGED <<up, left, table, dhcpCache, scrapeVars, fetchMu, fetched>>

\* A collector that has returned, of a scrape whose handler has returned.
TaskEnds(t) ==
  /\ phase[t[1]] = "idle"
  /\ At(t, "done", "none")
  /\ looked' = [looked EXCEPT ![t] = NoCache]
  /\ UNCHANGED <<up, left, table, dhcpCache, scrapeVars, fetchMu, fetched>>

-----------------------------------------------------------------------------
(* IsDone *)

\* Mutant: the flag is read the wrong way round.
BeginIsDoneInverted(s) ==
  /\ Detach \/ \A t \in TasksOf(s) : task[t] \in {"none", "done"}
  /\ Move(s, "ready", IF PersistentPool THEN "disconnect" ELSE "clear")
  /\ todo' = [todo EXCEPT ![s] = IF PersistentPool THEN Links ELSE {}]
  /\ UNCHANGED <<up, left, table, dhcpCache, view, began, taskVars>>

BeginIsDone(s) ==
  /\ Detach \/ \A t \in TasksOf(s) : task[t] \in {"none", "done"}
  /\ Move(s, "ready", IF PersistentPool THEN "clear" ELSE "disconnect")
  /\ todo' = [todo EXCEPT ![s] = IF PersistentPool THEN {} ELSE Links]
  /\ UNCHANGED <<up, left, table, dhcpCache, view, began, taskVars>>

DisconnectOne(s) ==
  /\ phase[s] = "disconnect"
  /\ \E l \in Links :
       /\ Visits(s, l)
       /\ up' = up \ {l} /\ left' = left \ {l}
       /\ todo' = [todo EXCEPT ![s] = @ \ {l}]
  /\ UNCHANGED <<table, dhcpCache, phase, view, began, taskVars>>

DisconnectedAll(s) ==
  /\ todo[s] = {}
  /\ Move(s, "disconnect", "clear")
  /\ UNCHANGED <<up, left, table, dhcpCache, todo, view, began, taskVars>>

\* Mutant: the cache is never cleared.
KeepCache(s) ==
  /\ Move(s, "clear", "idle")
  /\ UNCHANGED <<up, left, table, dhcpCache, todo, view, began, taskVars>>

\* The entry's own cache is cleared, not that of a remote DHCP entry.
ClearCache(s) ==
  /\ Move(s, "clear", "idle")
  /\ dhcpCache' = IF PersistentCache \/ "dhcp" \in Children THEN dhcpCache ELSE NoCache
  /\ UNCHANGED <<up, left, table, todo, view, began, taskVars>>

-----------------------------------------------------------------------------
(* The router *)

\* An idle session is reaped, or a Run fails and closes it.
LinkDrops(l) ==
  /\ l \in up
  /\ up' = up \ {l} /\ left' = left \ {l}
  /\ UNCHANGED <<table, dhcpCache, scrapeVars, taskVars>>

\* A client gets, renews or loses a lease; MaxTable bounds how often.
LeasesChange ==
  /\ table < MaxTable
  /\ table' = table + 1
  /\ UNCHANGED <<up, left, dhcpCache, scrapeVars, taskVars>>

ScrapeStep(s) ==
  \/ BeginScrape(s) \/ Look(s) \/ FirstState(s) \/ TryConnect(s) \/ ConnectReturns(s)
  \/ IsReady(s) \/ IsReadyInVain(s) \/ IsReadyTooLate(s) \/ IsNotReady(s)
  \/ BeginIsDone(s) \/ DisconnectOne(s) \/ DisconnectedAll(s) \/ ClearCache(s)

TaskStep(t) ==
  \/ LockFetch(t) \/ FindCacheEmpty(t) \/ FindCachePopulated(t) \/ FetchReplies(t) \/ FetchFails(t)
  \/ SetDHCPRecords(t) \/ DHCPRecord(t) \/ TaskEnds(t)

Next ==
  \/ \E s \in Scrapes : ScrapeStep(s)
  \/ \E t \in Tasks : TaskStep(t)
  \/ \E l \in Links : LinkDrops(l)
  \/ LeasesChange

Spec == Init /\ [][Next]_vars

-----------------------------------------------------------------------------
(* Safety *)

\* "Concurrent callers are serialized so the lease table is fetched once":
\* leases that are fetched are never stored over leases that are already
\* cached, whatever scrapes and timeouts overlap; only IsDone takes a
\* populated cache away.
FetchedOnce ==
  [][dhcpCache # NoCache => dhcpCache' \in {dhcpCache, NoCache}]_vars

\* When handlers wait for their collectors and the cache is not persistent, the
\* leases a scrape names its clients from were fetched since the entry came into
\* use: overlapping scrapes share them, and the IsDone of the last one leaves
\* nothing that a later scrape could find, whatever the order of their fetches,
\* failures and ends.
LookupsCurrent ==
  \A t \in Tasks : phase[t[1]] # "idle" /\ looked[t] # NoCache => looked[t] >= began

\* Without the persistent pool a router nobody scrapes has no connection but one
\* that a scrape ready too late has left, and that only until the next IsDone:
\* no other order of the steps of overlapping scrapes, and no answer of IsReady,
\* leaves a connection behind.
NoIdleConnection ==
  ~PersistentPool /\ (\A s \in Scrapes : phase[s] = "idle") => up \subseteq left

\* "IsReady returns true if the entry is connected enough to be scraped": as
\* every collector asks the primary connection, IsReady supposes that it has
\* just seen that one up.
ReadyMeansConnected ==
  \A s \in Scrapes : phase[s] = "ready" => "primary" \in view[s]

-----------------------------------------------------------------------------
(* Liveness: a Run is bounded by the context of the scrape, so a fetch      *)
(* always ends; the fetch mutex is handed to whoever waits for it.          *)

Fairness ==
  /\ \A s \in Scrapes :
       /\ WF_vars(Look(s) \/ FirstState(s) \/ TryConnect(s) \/ ConnectReturns(s))
       /\ WF_vars(IsReady(s) \/ IsReadyInVain(s) \/ IsReadyTooLate(s) \/ IsNotReady(s))
       /\ WF_vars(BeginIsDone(s) \/ DisconnectOne(s) \/ DisconnectedAll(s) \/ ClearCache(s))
  /\ \A t \in Tasks :
       /\ SF_vars(LockFetch(t))
       /\ WF_vars(\/ FindCacheEmpty(t) \/ FindCachePopulated(t)
                  \/ FetchFails(t) \/ SetDHCPRecords(t) \/ DHCPRecord(t))

FairSpec == Spec /\ Fairness

\* A scrape that found the router ready in time always calls IsDone and ends: no
\* collector waits for ever for the leases another one fetches.
ScrapeEnds == \A s \in Scrapes : phase[s] = "ready" ~> phase[s] = "idle"
=============================================================================
