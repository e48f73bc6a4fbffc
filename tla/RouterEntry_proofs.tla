-------------------------- MODULE RouterEntry_proofs --------------------------
(***************************************************************************)
(* Proofs about RouterEntry, for every set of overlapping scrapes and      *)
(* collectors, with and without remote entries and persistence.            *)
(***************************************************************************)
EXTENDS RouterEntry, TLAPS

\* The next version of the lease table is within the bound.
LEMMA NextTable ==
  ASSUME NEW max \in Nat, NEW n \in 0..max, n < max
  PROVE  n + 1 \in 0..max
OBVIOUS

\* Versions of the lease table are ordered by age.
LEMMA TableOrder ==
  ASSUME NEW max \in Nat, NEW a \in 0..max, NEW n \in 0..max
  PROVE  n <= n /\ (a <= n => a <= n + 1)
OBVIOUS

\* The variables always hold values of their types.
THEOREM TypeCorrect == Spec => []TypeOK
<1> USE RouterEntryAssumption
<1>1. Init => TypeOK
  BY DEF Init, TypeOK, Phases, TaskStates, Links
<1>2. TypeOK /\ [Next]_vars => TypeOK'
  <2> SUFFICES ASSUME TypeOK, [Next]_vars PROVE TypeOK'
    OBVIOUS
  <2> USE DEF TypeOK, Phases, TaskStates, Move, At, scrapeVars, taskVars
  <2>1. ASSUME NEW s \in Scrapes, ScrapeStep(s) PROVE TypeOK'
    <3>1. CASE BeginScrape(s) BY <3>1 DEF BeginScrape
    <3>2. CASE Look(s)
      <4>1. PICK l \in Links : /\ view' = [view EXCEPT ![s] = IF l \in up THEN @ \cup {l} ELSE @]
                              /\ todo' = [todo EXCEPT ![s] = @ \ {l}]
        BY <3>2 DEF Look
      <4>2. view' \in [Scrapes -> SUBSET Links] /\ todo' \in [Scrapes -> SUBSET Links]
        BY <4>1
      <4> QED
        BY <3>2, <4>2 DEF Look
    <3>3. CASE FirstState(s) BY <3>3 DEF FirstState
    <3>4. CASE TryConnect(s)
      <4>1. up' \in SUBSET Links /\ left' \in SUBSET up' /\ todo' \in [Scrapes -> SUBSET Links]
        BY <3>4 DEF TryConnect
      <4> QED
        BY <3>4, <4>1 DEF TryConnect
    <3>5. CASE ConnectReturns(s) BY <3>5 DEF ConnectReturns
    <3>6. CASE IsReady(s) BY <3>6 DEF IsReady
    <3>12. CASE IsReadyInVain(s) BY <3>12 DEF IsReadyInVain
    <3>13. CASE IsReadyTooLate(s) BY <3>13 DEF IsReadyTooLate
    <3>7. CASE IsNotReady(s) BY <3>7 DEF IsNotReady
    <3>8. CASE BeginIsDone(s) BY <3>8 DEF BeginIsDone
    <3>9. CASE DisconnectOne(s)
      <4>1. up' \in SUBSET Links /\ left' \in SUBSET up' /\ todo' \in [Scrapes -> SUBSET Links]
        BY <3>9 DEF DisconnectOne
      <4> QED
        BY <3>9, <4>1 DEF DisconnectOne
    <3>10. CASE DisconnectedAll(s) BY <3>10 DEF DisconnectedAll
    <3>11. CASE ClearCache(s) BY <3>11 DEF ClearCache
    <3> QED
      BY <2>1, <3>1, <3>2, <3>3, <3>4, <3>5, <3>6, <3>7, <3>8, <3>9, <3>10, <3>11, <3>12,
        <3>13 DEF ScrapeStep
  <2>2. ASSUME NEW t \in Tasks, TaskStep(t) PROVE TypeOK'
    <3>1. CASE LockFetch(t) BY <3>1 DEF LockFetch
    <3>2. CASE FindCacheEmpty(t) BY <3>2 DEF FindCacheEmpty
    <3>8. CASE FindCachePopulated(t) BY <3>8 DEF FindCachePopulated
    <3>3. CASE FetchReplies(t) BY <3>3 DEF FetchReplies
    <3>4. CASE FetchFails(t) BY <3>4 DEF FetchFails
    <3>5. CASE SetDHCPRecords(t) BY <3>5 DEF SetDHCPRecords
    <3>6. CASE DHCPRecord(t) BY <3>6 DEF DHCPRecord
    <3>7. CASE TaskEnds(t) BY <3>7 DEF TaskEnds
    <3> QED
      BY <2>2, <3>1, <3>2, <3>3, <3>4, <3>5, <3>6, <3>7, <3>8 DEF TaskStep
  <2>3. ASSUME NEW l \in Links, LinkDrops(l) PROVE TypeOK'
    BY <2>3 DEF LinkDrops
  <2>4. CASE LeasesChange
    <3>1. /\ table' = table + 1
          /\ table \in 0..MaxTable
          /\ table < MaxTable
          /\ MaxTable \in Nat
      BY <2>4 DEF LeasesChange
    <3>2. table' \in 0..MaxTable
      BY <3>1, NextTable
    <3> QED
      BY <2>4, <3>2 DEF LeasesChange
  <2>5. CASE UNCHANGED vars
    BY <2>5 DEF vars
  <2> QED
    BY <2>1, <2>2, <2>3, <2>4, <2>5 DEF Next
<1> QED
  BY <1>1, <1>2, PTL DEF Spec

-----------------------------------------------------------------------------
(* The fetch mutex is held from LockFetch to the end of the fetch, and a   *)
(* task that fetches found the cache empty; only the holder fills it.  The *)
(* collectors of a scrape start when IsReady has returned.                 *)
FetchInv ==
  /\ \A t \in Tasks : phase[t[1]] \in {"look", "connect", "look again"} => task[t] = "none"
  /\ \A t \in Tasks :
       /\ task[t] \in {"locked", "fetching", "store"} <=> fetchMu = t
       /\ task[t] \in {"fetching", "store"} => dhcpCache = NoCache

\* A task belongs to a scrape, and is one of its tasks.
LEMMA TaskOwner ==
  /\ \A t \in Tasks : t[1] \in Scrapes /\ t # Nobody
  /\ \A t \in Tasks, s \in Scrapes : t[1] = s <=> t \in TasksOf(s)
BY RouterEntryAssumption DEF Tasks, TasksOf

LEMMA FetchInvStep == TypeOK /\ FetchInv /\ [Next]_vars => FetchInv'
<1> SUFFICES ASSUME TypeOK, FetchInv, [Next]_vars PROVE FetchInv'
  OBVIOUS
<1> USE TaskOwner DEF TypeOK, FetchInv, Move, At, scrapeVars, taskVars
<1>1. ASSUME NEW s \in Scrapes, ScrapeStep(s) PROVE FetchInv'
  <2>1. CASE BeginScrape(s) BY <2>1 DEF BeginScrape
  <2>2. CASE Look(s) BY <2>2 DEF Look
  <2>3. CASE FirstState(s)
    <3>1. PICK to \in {"look again", "connect"} : Move(s, "look", to)
      BY <2>3 DEF FirstState
    <3> QED
      BY <2>3, <3>1 DEF FirstState
  <2>4. CASE TryConnect(s) BY <2>4 DEF TryConnect
  <2>5. CASE ConnectReturns(s) BY <2>5 DEF ConnectReturns
  <2>6. CASE IsReady(s) BY <2>6 DEF IsReady
  <2>12. CASE IsReadyInVain(s) BY <2>12 DEF IsReadyInVain
  <2>13. CASE IsReadyTooLate(s) BY <2>13 DEF IsReadyTooLate
  <2>7. CASE IsNotReady(s) BY <2>7 DEF IsNotReady
  <2>8. CASE BeginIsDone(s) BY <2>8 DEF BeginIsDone
  <2>9. CASE DisconnectOne(s) BY <2>9 DEF DisconnectOne
  <2>10. CASE DisconnectedAll(s) BY <2>10 DEF DisconnectedAll
  <2>11. CASE ClearCache(s) BY <2>11 DEF ClearCache
  <2> QED
    BY <1>1, <2>1, <2>2, <2>3, <2>4, <2>5, <2>6, <2>7, <2>8, <2>9, <2>10, <2>11, <2>12,
      <2>13 DEF ScrapeStep
<1>2. ASSUME NEW t \in Tasks, TaskStep(t) PROVE FetchInv'
  <2>1. CASE LockFetch(t) BY <2>1 DEF LockFetch
  <2>2. CASE FindCacheEmpty(t) BY <2>2 DEF FindCacheEmpty
  <2>8. CASE FindCachePopulated(t) BY <2>8 DEF FindCachePopulated
  <2>3. CASE FetchReplies(t) BY <2>3 DEF FetchReplies
  <2>4. CASE FetchFails(t) BY <2>4 DEF FetchFails
  <2>5. CASE SetDHCPRecords(t)
    <3> HIDE TaskOwner DEF TypeOK, FetchInv
    <3>1. task \in [Tasks -> TaskStates]
      BY DEF TypeOK
    <3>2. /\ task[t] = "store" /\ task'[t] = "lookup" /\ fetchMu' = Nobody
          /\ \A u \in Tasks \ {t} : task'[u] = task[u]
          /\ UNCHANGED phase
      BY <2>5, <3>1 DEF SetDHCPRecords
    <3>3. \A u \in Tasks \ {t} : task[u] \notin {"locked", "fetching", "store"}
      BY <3>2 DEF FetchInv
    <3>4. ASSUME NEW u \in Tasks, phase'[u[1]] \in {"look", "connect", "look again"}
          PROVE  task'[u] = "none"
      <4>1. task[u] = "none"
        BY <3>2, <3>4 DEF FetchInv
      <4> QED
        BY <3>2, <4>1
    <3>5. ASSUME NEW u \in Tasks
          PROVE  /\ task'[u] \in {"locked", "fetching", "store"} <=> fetchMu' = u
                 /\ task'[u] \in {"fetching", "store"} => dhcpCache' = NoCache
      <4>1. task'[u] \notin {"locked", "fetching", "store"}
        BY <3>2, <3>3
      <4>2. fetchMu' # u
        BY <3>2, TaskOwner
      <4> QED
        BY <4>1, <4>2
    <3> QED
      BY <3>4, <3>5 DEF FetchInv
  <2>6. CASE DHCPRecord(t) BY <2>6 DEF DHCPRecord
  <2>7. CASE TaskEnds(t) BY <2>7 DEF TaskEnds
  <2> QED
    BY <1>2, <2>1, <2>2, <2>3, <2>4, <2>5, <2>6, <2>7, <2>8 DEF TaskStep
<1>3. ASSUME NEW l \in Links, LinkDrops(l) PROVE FetchInv'
  BY <1>3 DEF LinkDrops
<1>4. CASE LeasesChange
  BY <1>4 DEF LeasesChange
<1>5. CASE UNCHANGED vars
  BY <1>5 DEF vars
<1> QED
  BY <1>1, <1>2, <1>3, <1>4, <1>5 DEF Next

\* Leases that were fetched are never stored over cached ones: the lease
\* table is fetched once, whoever asks for it.
THEOREM LeasesFetchedOnce == Spec => FetchedOnce
<1> DEFINE Kept == dhcpCache # NoCache => dhcpCache' \in {dhcpCache, NoCache}
<1>1. Init => TypeOK /\ FetchInv
  <2> SUFFICES ASSUME Init PROVE TypeOK /\ FetchInv
    OBVIOUS
  <2>1. TypeOK
    BY RouterEntryAssumption DEF Init, TypeOK, Phases, TaskStates, Links
  <2>2. FetchInv
    BY RouterEntryAssumption DEF Init, FetchInv, Tasks
  <2> QED
    BY <2>1, <2>2
<1>2. TypeOK /\ FetchInv /\ [Next]_vars => [Kept]_vars
  <2> SUFFICES ASSUME TypeOK, FetchInv, Next PROVE Kept
    BY DEF vars
  <2> USE DEF FetchInv, Move, At, scrapeVars, taskVars
  <2>1. ASSUME NEW s \in Scrapes, ScrapeStep(s) PROVE Kept
    <3>1. CASE ClearCache(s)
      BY <3>1 DEF ClearCache
    <3>2. CASE ~ClearCache(s)
      BY <2>1, <3>2 DEF ScrapeStep, BeginScrape, Look, FirstState, TryConnect,
        ConnectReturns, IsReady, IsReadyInVain, IsReadyTooLate, IsNotReady, BeginIsDone,
        DisconnectOne, DisconnectedAll
    <3> QED
      BY <3>1, <3>2
  <2>2. ASSUME NEW t \in Tasks, TaskStep(t) PROVE Kept
    <3>1. CASE SetDHCPRecords(t)
      BY <3>1 DEF SetDHCPRecords
    <3>2. CASE ~SetDHCPRecords(t)
      BY <2>2, <3>2 DEF TaskStep, LockFetch, FindCacheEmpty, FindCachePopulated,
        FetchReplies, FetchFails, DHCPRecord, TaskEnds
    <3> QED
      BY <3>1, <3>2
  <2>3. CASE \E l \in Links : LinkDrops(l)
    BY <2>3 DEF LinkDrops
  <2>4. CASE LeasesChange
    BY <2>4 DEF LeasesChange
  <2> QED
    BY <2>1, <2>2, <2>3, <2>4 DEF Next
<1>3. Spec => []TypeOK
  BY TypeCorrect
<1>4. FetchInv /\ TypeOK /\ [Next]_vars => FetchInv'
  BY FetchInvStep
<1> QED
  BY <1>1, <1>2, <1>3, <1>4, PTL DEF Spec, FetchedOnce

-----------------------------------------------------------------------------
(* Without the persistent pool every connection that is up was left by a    *)
(* scrape ready too late, or is held by one that will still find it and     *)
(* disconnect it.                                                           *)
Holds(s, l) ==
  \/ phase[s] = "connect" /\ l \notin todo[s]
  \/ phase[s] = "look again" /\ l \in todo[s] \cup view[s]
  \/ phase[s] = "ready"
  \/ phase[s] = "disconnect" /\ l \in todo[s]

HeldInv == PersistentPool \/ \A l \in up \ left : \E s \in Scrapes : Holds(s, l)

\* It is enough that a step of s keeps what s holds, leaves the other scrapes
\* alone and brings up only what s holds.
LEMMA HeldByOne ==
  ASSUME NEW s \in Scrapes, HeldInv,
         \A l \in up' \ left' : l \in up => l \notin left,
         \A u \in Scrapes \ {s}, l \in up : Holds(u, l) => Holds(u, l)',
         \A l \in up' \ left' : l \in up /\ Holds(s, l) => Holds(s, l)',
         \A l \in up' : l \notin up => Holds(s, l)'
  PROVE  HeldInv'
<1> SUFFICES ASSUME ~PersistentPool, NEW l \in up' \ left'
             PROVE  \E u \in Scrapes : Holds(u, l)'
  BY DEF HeldInv
<1>1. CASE l \notin up
  BY <1>1
<1>2. CASE l \in up
  <2>1. PICK u \in Scrapes : Holds(u, l)
    BY <1>2 DEF HeldInv
  <2> QED
    BY <1>2, <2>1
<1> QED
  BY <1>1, <1>2

LEMMA HeldStep == TypeOK /\ HeldInv /\ [Next]_vars => HeldInv'
<1> SUFFICES ASSUME TypeOK, HeldInv, [Next]_vars PROVE HeldInv'
  OBVIOUS
<1> USE DEF TypeOK, Phases, Links, Move
<1>1. ASSUME NEW s \in Scrapes, ScrapeStep(s) PROVE HeldInv'
  <2>0. \A l \in up' \ left' : l \in up => l \notin left
    BY <1>1 DEF ScrapeStep, BeginScrape, Look, FirstState, TryConnect, ConnectReturns,
      IsReady, IsReadyInVain, IsReadyTooLate, IsNotReady, BeginIsDone, DisconnectOne,
      DisconnectedAll, ClearCache
  <2>1. \A u \in Scrapes \ {s} :
          phase'[u] = phase[u] /\ todo'[u] = todo[u] /\ view'[u] = view[u]
    BY <1>1 DEF ScrapeStep, BeginScrape, Look, FirstState, TryConnect, ConnectReturns,
      IsReady, IsReadyInVain, IsReadyTooLate, IsNotReady, BeginIsDone, DisconnectOne, DisconnectedAll, ClearCache
  <2>2. \A u \in Scrapes \ {s}, l \in up : Holds(u, l) => Holds(u, l)'
    BY <2>1 DEF Holds
  <2>3. ASSUME NEW l \in up', l \notin up PROVE Holds(s, l)'
    BY <1>1, <2>3 DEF ScrapeStep, BeginScrape, Look, FirstState, TryConnect, ConnectReturns,
      IsReady, IsReadyInVain, IsReadyTooLate, IsNotReady, BeginIsDone, DisconnectOne,
      DisconnectedAll, ClearCache, Holds
  <2>4. ASSUME ~PersistentPool, NEW l \in up' \ left', l \in up, Holds(s, l) PROVE Holds(s, l)'
    <3>1. CASE BeginScrape(s) BY <2>4, <3>1 DEF BeginScrape, Holds
    <3>2. CASE Look(s)
      <4>1. PICK k \in Links : /\ view' = [view EXCEPT ![s] = IF k \in up THEN @ \cup {k} ELSE @]
                              /\ todo' = [todo EXCEPT ![s] = @ \ {k}]
        BY <3>2 DEF Look
      <4>2. view'[s] = (IF k \in up THEN view[s] \cup {k} ELSE view[s]) /\ todo'[s] = todo[s] \ {k}
        BY <4>1
      <4> QED
        BY <2>4, <3>2, <4>2 DEF Look, Holds
    <3>3. CASE FirstState(s) BY <2>4, <3>3 DEF FirstState, Holds
    <3>4. CASE TryConnect(s) BY <2>4, <3>4 DEF TryConnect, Holds
    <3>5. CASE ConnectReturns(s) BY <2>4, <3>5 DEF ConnectReturns, Holds
    <3>6. CASE IsReady(s) BY <2>4, <3>6 DEF IsReady, Holds
    <3>12. CASE IsReadyInVain(s) BY <2>4, <3>12 DEF IsReadyInVain, Holds
    <3>13. CASE IsReadyTooLate(s) BY <2>4, <3>13 DEF IsReadyTooLate
    <3>7. CASE IsNotReady(s)
      BY <2>4, <3>7, RouterEntryAssumption DEF IsNotReady, ConnectionState, Holds
    <3>8. CASE BeginIsDone(s) BY <2>4, <3>8 DEF BeginIsDone, Holds
    <3>9. CASE DisconnectOne(s) BY <2>4, <3>9 DEF DisconnectOne, Holds
    <3>10. CASE DisconnectedAll(s) BY <2>4, <3>10 DEF DisconnectedAll, Holds
    <3>11. CASE ClearCache(s) BY <2>4, <3>11 DEF ClearCache, Holds
    <3> QED
      BY <1>1, <3>1, <3>2, <3>3, <3>4, <3>5, <3>6, <3>7, <3>8, <3>9, <3>10, <3>11,
        <3>12, <3>13 DEF ScrapeStep
  <2>5. CASE PersistentPool
    BY <2>5 DEF HeldInv
  <2>6. CASE ~PersistentPool
    BY <2>0, <2>2, <2>3, <2>4, <2>6, HeldByOne
  <2> QED
    BY <2>5, <2>6
<1>2. ASSUME NEW t \in Tasks, TaskStep(t) PROVE HeldInv'
  <2>1. UNCHANGED <<up, left, phase, todo, view>>
    BY <1>2 DEF TaskStep, LockFetch, FindCacheEmpty, FindCachePopulated, FetchReplies,
      FetchFails, SetDHCPRecords, DHCPRecord, TaskEnds, scrapeVars
  <2> QED
    BY <2>1 DEF HeldInv, Holds
<1>3. ASSUME NEW l \in Links, LinkDrops(l) PROVE HeldInv'
  BY <1>3 DEF LinkDrops, HeldInv, Holds, scrapeVars
<1>4. CASE LeasesChange
  BY <1>4 DEF LeasesChange, HeldInv, Holds, scrapeVars
<1>5. CASE UNCHANGED vars
  BY <1>5 DEF vars, HeldInv, Holds, scrapeVars
<1> QED
  BY <1>1, <1>2, <1>3, <1>4, <1>5 DEF Next

\* A router nobody scrapes has no connection but what a scrape ready too late has
\* left, when the pool is not persistent.
THEOREM IdleDisconnected == Spec => []NoIdleConnection
<1>1. Init => HeldInv
  BY DEF Init, HeldInv
<1>2. HeldInv => NoIdleConnection
  BY DEF HeldInv, Holds, NoIdleConnection
<1>3. HeldInv /\ TypeOK /\ [Next]_vars => HeldInv'
  BY HeldStep
<1> QED
  BY <1>1, <1>2, <1>3, TypeCorrect, PTL DEF Spec

-----------------------------------------------------------------------------
(* Handlers that wait for their collectors: a collector between its fetch  *)
(* and its lookup belongs to a scrape that is ready, and a populated cache *)
(* to a scrape that will still clear it, so that the entry comes into use  *)
(* with an empty cache, and every version found since is a later one.      *)
TasksReady == \A t \in Tasks : task[t] \in TaskStates \ {"none", "done"} => phase[t[1]] = "ready"
LookedDone == \A t \in Tasks : looked[t] # NoCache => task[t] = "done"
FetchedNew == \A t \in Tasks : fetched[t] # NoCache => task[t] = "store" /\ fetched[t] >= began
CacheNew ==
  dhcpCache # NoCache =>
    /\ dhcpCache >= began
    /\ \E s \in Scrapes : phase[s] \in {"ready", "disconnect", "clear"}

LeaseInv == TasksReady /\ LookedDone /\ FetchedNew /\ CacheNew /\ began <= table /\ LookupsCurrent

\* A scrape moves on, and no lease with it: it has no collector at work when
\* it leaves "ready", keeps what a populated cache needs, and was in use.
LEMMA LeasesKept ==
  ASSUME LeaseInv, UNCHANGED <<table, dhcpCache, began, taskVars>>, NEW s \in Scrapes,
         \A u \in Scrapes \ {s} : phase'[u] = phase[u],
         phase[s] = "ready" => \A t \in Tasks : t[1] = s => task[t] \in {"none", "done"},
         phase[s] \in {"ready", "disconnect", "clear"} => phase'[s] \in {"disconnect", "clear"},
         phase[s] # "idle"
  PROVE  LeaseInv'
<1> USE DEF LeaseInv, taskVars
<1>1. TasksReady'
  <2> SUFFICES ASSUME NEW t \in Tasks, task[t] \in TaskStates \ {"none", "done"}
               PROVE  phase'[t[1]] = "ready"
    BY DEF TasksReady
  <2>1. phase[t[1]] = "ready" /\ t[1] \in Scrapes
    BY TaskOwner DEF TasksReady
  <2>2. t[1] # s
    BY <2>1
  <2> QED
    BY <2>1, <2>2
<1>2. LookedDone' /\ FetchedNew' /\ (began <= table)'
  BY DEF LookedDone, FetchedNew
<1>3. CacheNew'
  BY DEF CacheNew
<1>4. LookupsCurrent'
  BY TaskOwner DEF LookupsCurrent
<1> QED
  BY <1>1, <1>2, <1>3, <1>4

\* A task goes on: only its own entries change, and the cache is kept or filled
\* with what it has fetched.
LEMMA LeasesRead ==
  ASSUME TypeOK, LeaseInv, UNCHANGED <<table, scrapeVars>>, NEW t \in Tasks,
         \A u \in Tasks \ {t} :
           task'[u] = task[u] /\ fetched'[u] = fetched[u] /\ looked'[u] = looked[u],
         phase[t[1]] = "ready" \/ task'[t] \in {"none", "done"},
         looked'[t] \in {NoCache, looked[t], dhcpCache} /\ (looked'[t] # NoCache => task'[t] = "done"),
         fetched'[t] \in {NoCache, fetched[t], table} /\ (fetched'[t] # NoCache => task'[t] = "store"),
         \/ UNCHANGED dhcpCache
         \/ dhcpCache' = fetched[t] /\ phase[t[1]] = "ready"
  PROVE  LeaseInv'
<1> USE DEF LeaseInv, scrapeVars
<1>0. table >= began /\ table \in 0..MaxTable /\ t[1] \in Scrapes
  BY TaskOwner DEF TypeOK
<1>1. TasksReady'
  BY DEF TasksReady
<1>2. LookedDone' /\ (began <= table)'
  BY DEF LookedDone
<1>3. FetchedNew'
  <2> SUFFICES ASSUME NEW u \in Tasks, fetched'[u] # NoCache
               PROVE  task'[u] = "store" /\ fetched'[u] >= began
    BY DEF FetchedNew
  <2> QED
    BY <1>0 DEF FetchedNew
<1>4. CacheNew'
  BY <1>0 DEF CacheNew, FetchedNew
<1>5. LookupsCurrent'
  BY DEF LookupsCurrent, CacheNew
<1> QED
  BY <1>1, <1>2, <1>3, <1>4, <1>5

\* What is neither in a scrape's phase nor in a task does not matter.
LEMMA LeasesSame ==
  LeaseInv /\ UNCHANGED <<table, dhcpCache, phase, began, taskVars>> => LeaseInv'
BY DEF LeaseInv, TasksReady, LookedDone, FetchedNew, CacheNew, LookupsCurrent, taskVars

LEMMA LeaseStep ==
  ASSUME ~Detach, ~PersistentCache, "dhcp" \notin Children,
         TypeOK, FetchInv, LeaseInv, [Next]_vars
  PROVE  LeaseInv'
<1>1. ASSUME NEW s \in Scrapes, ScrapeStep(s) PROVE LeaseInv'
  <2>1. phase \in [Scrapes -> Phases]
    BY DEF TypeOK
  <2>2. CASE BeginScrape(s)
    <3>1. /\ \A t \in Tasks : t[1] = s => task[t] = "none"
          /\ \A u \in Scrapes \ {s} : phase'[u] = phase[u]
          /\ phase[s] = "idle" /\ UNCHANGED <<table, dhcpCache, taskVars>>
          /\ began' = IF InUse THEN began ELSE table
      BY <2>1, <2>2, TaskOwner DEF BeginScrape, Move
    <3>2. TasksReady' /\ LookedDone'
      BY <3>1, TaskOwner DEF LeaseInv, TasksReady, LookedDone, taskVars, TaskStates
    <3>3. \A t \in Tasks : t[1] = s => looked[t] = NoCache
      BY <3>1 DEF LeaseInv, LookedDone
    <3>4. CASE InUse
      <4>1. FetchedNew' /\ CacheNew' /\ (began <= table)'
        BY <3>1, <3>4 DEF LeaseInv, FetchedNew, CacheNew, taskVars
      <4>2. LookupsCurrent'
        BY <3>1, <3>3, <3>4, TaskOwner DEF LeaseInv, LookupsCurrent, taskVars
      <4> QED
        BY <3>2, <4>1, <4>2 DEF LeaseInv
    <3>5. CASE ~InUse
      <4>1. dhcpCache = NoCache
        BY <3>5 DEF InUse, LeaseInv, CacheNew
      <4>2. \A t \in Tasks : fetched[t] = NoCache
        BY <3>5, TaskOwner DEF InUse, LeaseInv, FetchedNew, TasksReady, TaskStates
      <4>3. FetchedNew' /\ CacheNew'
        BY <3>1, <4>1, <4>2 DEF FetchedNew, CacheNew, taskVars
      <4>4. \A t \in Tasks : t[1] # s => phase'[t[1]] = "idle"
        BY <3>1, <3>5, TaskOwner DEF InUse
      <4>5. LookupsCurrent'
        BY <3>1, <3>3, <4>4 DEF LookupsCurrent, taskVars
      <4>6. (began <= table)'
        BY <3>1, <3>5, TableOrder, RouterEntryAssumption DEF TypeOK
      <4> QED
        BY <3>2, <4>3, <4>5, <4>6 DEF LeaseInv
    <3> QED
      BY <3>4, <3>5
  <2>3. CASE Look(s) \/ TryConnect(s) \/ DisconnectOne(s)
    BY <2>3, LeasesSame DEF Look, TryConnect, DisconnectOne
  <2>4. CASE FirstState(s) \/ ConnectReturns(s) \/ IsReadyInVain(s) \/ IsReadyTooLate(s) \/ IsNotReady(s)
    <3>1. PICK to \in {"look again", "connect", "ready", "idle"} :
            \E from \in {"look", "connect", "look again"} : Move(s, from, to)
      BY <2>4 DEF FirstState, ConnectReturns, IsReadyInVain, IsReadyTooLate, IsNotReady
    <3>2. UNCHANGED <<table, dhcpCache, began, taskVars>>
      BY <2>4 DEF FirstState, ConnectReturns, IsReadyInVain, IsReadyTooLate, IsNotReady
    <3> QED
      BY <2>1, <3>1, <3>2, LeasesKept DEF Move
  <2>5. CASE BeginIsDone(s)
    <3>1. \A t \in Tasks : t[1] = s => task[t] \in {"none", "done"}
      BY <2>5, TaskOwner DEF BeginIsDone
    <3>2. PICK to \in {"clear", "disconnect"} : Move(s, "ready", to)
      BY <2>5 DEF BeginIsDone
    <3> QED
      BY <2>1, <2>5, <3>1, <3>2, LeasesKept DEF Move, BeginIsDone
  <2>6. CASE DisconnectedAll(s)
    BY <2>1, <2>6, LeasesKept DEF Move, DisconnectedAll
  <2>7. CASE IsReady(s)
    <3>1. /\ phase[s] = "look again" /\ phase'[s] = "ready"
          /\ \A u \in Scrapes \ {s} : phase'[u] = phase[u]
          /\ UNCHANGED <<table, dhcpCache, began, fetched, looked>>
          /\ \A t \in Tasks : task'[t] = IF t[1] = s THEN "ensure" ELSE task[t]
      BY <2>1, <2>7 DEF IsReady, Move
    <3>2. \A t \in Tasks : t[1] = s => task[t] = "none"
      BY <3>1 DEF FetchInv
    <3>3. \A t \in Tasks : t[1] = s => looked[t] = NoCache /\ fetched[t] = NoCache
      BY <3>2 DEF LeaseInv, LookedDone, FetchedNew
    <3>4. TasksReady'
      BY <3>1, TaskOwner DEF LeaseInv, TasksReady
    <3>5. LookedDone' /\ FetchedNew'
      BY <3>1, <3>3 DEF LeaseInv, LookedDone, FetchedNew
    <3>6. CacheNew' /\ (began <= table)'
      BY <3>1 DEF LeaseInv, CacheNew
    <3>7. LookupsCurrent'
      BY <3>1, <3>3, TaskOwner DEF LeaseInv, LookupsCurrent
    <3> QED
      BY <3>4, <3>5, <3>6, <3>7 DEF LeaseInv
  <2>8. CASE ClearCache(s)
    <3>1. /\ phase[s] = "clear" /\ phase'[s] = "idle" /\ dhcpCache' = NoCache
          /\ \A u \in Scrapes \ {s} : phase'[u] = phase[u]
          /\ UNCHANGED <<table, began, taskVars>>
      BY <2>1, <2>8 DEF ClearCache, Move
    <3>2. TasksReady'
      BY <3>1, TaskOwner DEF LeaseInv, TasksReady, taskVars
    <3>3. LookedDone' /\ FetchedNew' /\ CacheNew' /\ (began <= table)'
      BY <3>1 DEF LeaseInv, LookedDone, FetchedNew, CacheNew, taskVars
    <3>4. LookupsCurrent'
      BY <3>1, TaskOwner DEF LeaseInv, LookupsCurrent, taskVars
    <3> QED
      BY <3>2, <3>3, <3>4 DEF LeaseInv
  <2> QED
    BY <1>1, <2>2, <2>3, <2>4, <2>5, <2>6, <2>7, <2>8 DEF ScrapeStep
<1>2. ASSUME NEW t \in Tasks, TaskStep(t) PROVE LeaseInv'
  <2>1. task \in [Tasks -> TaskStates] /\ fetched \in [Tasks -> (0..MaxTable) \cup {NoCache}]
        /\ looked \in [Tasks -> (0..MaxTable) \cup {NoCache}]
    BY DEF TypeOK
  <2>2. /\ task[t] \in {"ensure", "locked", "fetching", "store", "lookup"} => phase[t[1]] = "ready"
        /\ looked[t] # NoCache => task[t] = "done"
        /\ fetched[t] # NoCache => task[t] = "store"
    BY DEF LeaseInv, TasksReady, LookedDone, FetchedNew, TaskStates
  <2> USE LeasesRead, <2>1, <2>2 DEF At
  <2>3. CASE LockFetch(t) BY <2>3 DEF LockFetch
  <2>4. CASE FindCacheEmpty(t) BY <2>4 DEF FindCacheEmpty
  <2>5. CASE FindCachePopulated(t) BY <2>5 DEF FindCachePopulated
  <2>6. CASE FetchReplies(t) BY <2>6 DEF FetchReplies
  <2>7. CASE FetchFails(t) BY <2>7 DEF FetchFails
  <2>8. CASE SetDHCPRecords(t) BY <2>8 DEF SetDHCPRecords
  <2>9. CASE DHCPRecord(t) BY <2>9 DEF DHCPRecord
  <2>10. CASE TaskEnds(t) BY <2>10 DEF TaskEnds
  <2> QED
    BY <1>2, <2>3, <2>4, <2>5, <2>6, <2>7, <2>8, <2>9, <2>10 DEF TaskStep
<1>3. ASSUME NEW l \in Links, LinkDrops(l) PROVE LeaseInv'
  BY <1>3, LeasesSame DEF LinkDrops, scrapeVars
<1>4. CASE LeasesChange
  <2>1. began <= table + 1
    BY TableOrder, RouterEntryAssumption DEF LeaseInv, TypeOK
  <2>2. table' = table + 1 /\ UNCHANGED <<dhcpCache, scrapeVars, taskVars>>
    BY <1>4 DEF LeasesChange
  <2>3. (began <= table)'
    BY <2>1, <2>2 DEF scrapeVars
  <2>4. TasksReady' /\ LookedDone' /\ FetchedNew' /\ CacheNew' /\ LookupsCurrent'
    BY <2>2 DEF LeaseInv, TasksReady, LookedDone, FetchedNew, CacheNew, LookupsCurrent,
      scrapeVars, taskVars
  <2> QED
    BY <2>3, <2>4 DEF LeaseInv
<1>5. CASE UNCHANGED vars
  BY <1>5, LeasesSame DEF vars, scrapeVars
<1> QED
  BY <1>1, <1>2, <1>3, <1>4, <1>5 DEF Next

\* When handlers wait for their collectors and nothing is persistent, what a
\* scrape names its clients from was fetched since the entry came into use.
THEOREM LeasesCurrent ==
  ASSUME ~Detach, ~PersistentCache, "dhcp" \notin Children
  PROVE  Spec => []LookupsCurrent
<1>1. Init => TypeOK /\ FetchInv /\ LeaseInv
  <2> SUFFICES ASSUME Init PROVE TypeOK /\ FetchInv /\ LeaseInv
    OBVIOUS
  <2>1. TypeOK
    BY RouterEntryAssumption DEF Init, TypeOK, Phases, TaskStates, Links
  <2>2. FetchInv
    BY RouterEntryAssumption DEF Init, FetchInv, Tasks
  <2>3. LeaseInv
    BY RouterEntryAssumption DEF Init, LeaseInv, TasksReady, LookedDone, FetchedNew, CacheNew,
      LookupsCurrent, Tasks, TaskStates
  <2> QED
    BY <2>1, <2>2, <2>3
<1>2. TypeOK /\ FetchInv /\ [Next]_vars => FetchInv'
  BY FetchInvStep
<1>3. TypeOK /\ FetchInv /\ LeaseInv /\ [Next]_vars => LeaseInv'
  BY LeaseStep
<1>4. LeaseInv => LookupsCurrent
  BY DEF LeaseInv
<1> QED
  BY <1>1, <1>2, <1>3, <1>4, TypeCorrect, PTL DEF Spec
=============================================================================
