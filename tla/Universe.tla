------------------------------- MODULE Universe -------------------------------
(***************************************************************************)
(* The static universe (regions, systems, items, stations) and the table   *)
(* of locations, where stations and player structures are found by name.   *)
(* Three jobs write them: the foundation import, from CCP's static data    *)
(* and a catalog of structures; the import of market orders, which meets   *)
(* places it does not know; and the synchronisation of a character, which  *)
(* discovers structures and names those that are not named yet.  A player  *)
(* may turn the tracking of a structure on, and an operator may clear the  *)
(* universe.  Every job is one transaction; what it has inserted is        *)
(* visible to others when it commits, and until then makes whoever inserts *)
(* the same place wait.                                                    *)
(*                                                                         *)
(* Regions, systems and items come and go together.  A name is real, or a  *)
(* placeholder ("Station 60003760").  ESI may describe a structure without *)
(* its name; a placeholder stands for it then, and is written like a name. *)
(***************************************************************************)
EXTENDS Integers, FiniteSets

CONSTANTS
    Stations,     \* NPC stations
    Structures,   \* player structures
    Catalog,      \* the structures that public_structure_catalog.json may have
    Access,       \* those that the character may dock at
    First,        \* what is published at first
    MaxFailures,  \* bound: failures of a job or of a request for names, names left out
    MaxClears     \* bound: clearings

ASSUME UniverseAssumption ==
    /\ IsFiniteSet(Stations) /\ IsFiniteSet(Structures)
    /\ Stations \cap Structures = {}
    /\ Catalog \subseteq Structures /\ Access \subseteq Structures
    /\ First \subseteq Stations \cup Catalog
    /\ {MaxFailures, MaxClears} \subseteq Nat

VARIABLES
    universe,    \* are there regions, systems and items
    station,     \* stations: the name of each
    place,       \* locations: the name of each
    accessible,  \* character_accessible_structures: is it known, is it tracked
    unnamed,     \* those of them that are there by a placeholder
    kept,        \* do other tables refer to items or locations
    published,   \* the stations of CCP's current release, the structures of the catalog
    imp, orders, sync,  \* the sessions of the three jobs
    failures, clears    \* the bounded counters

sessions == <<imp, orders, sync>>
counters == <<failures, clears>>
vars == <<universe, station, place, accessible, unnamed, kept, published, imp, orders, sync,
          failures, clears>>

-----------------------------------------------------------------------------
(* Rows and sessions                                                       *)

Places == Stations \cup Structures
Names == {"none", "placeholder", "real"}  \* none: there is no row

Published == Stations \cup Catalog
Import == [pc : {"idle", "insert"},
           seed : SUBSET Published,   \* what it has read
           named : SUBSET Stations,   \* the stations whose names ESI has told
           done : SUBSET Published]   \* what it has inserted or updated
NoImport == [pc |-> "idle", seed |-> {}, named |-> {}, done |-> {}]

Orders == [pc : {"idle", "look", "insert"},
           todo : SUBSET Places,      \* places of orders that it found no location of
           at : SUBSET Places,        \* the one it is about to insert
           gone : BOOLEAN,            \* the system it has looked up was deleted since
           wrote : SUBSET Places]     \* those it has inserted
NoOrders == [pc |-> "idle", todo |-> {}, at |-> {}, gone |-> FALSE, wrote |-> {}]

\* What a session of the ORM will send for a location when it commits.
Plans == {"nothing", "insert", "insert twice", "update"}
Sync == [pc : {"idle", "commit"},
         heard : SUBSET Structures,      \* the structures that ESI has described
         bare : SUBSET Structures,       \* those that it described without a name
         plan : [Structures -> Plans],
         gone : BOOLEAN]                 \* the rows it loaded were deleted since
NoSync == [pc |-> "idle", heard |-> {}, bare |-> {}, gone |-> FALSE,
           plan |-> [t \in Structures |-> "nothing"]]

UniverseTypeOK ==
    /\ universe \in BOOLEAN /\ kept \in BOOLEAN
    /\ station \in [Stations -> Names]
    /\ place \in [Places -> Names]
    /\ accessible \in [Structures -> {"no", "seen", "tracked"}] /\ unnamed \in SUBSET Structures
    /\ published \in SUBSET Published
    /\ imp \in Import /\ orders \in Orders /\ sync \in Sync
    /\ failures \in 0..MaxFailures /\ clears \in 0..MaxClears

Init ==
    /\ universe = FALSE /\ kept = FALSE
    /\ station = [s \in Stations |-> "none"]
    /\ place = [p \in Places |-> "none"]
    /\ accessible = [t \in Structures |-> "no"] /\ unnamed = {}
    /\ published = First
    /\ imp = NoImport /\ orders = NoOrders /\ sync = NoSync
    /\ failures = 0 /\ clears = 0

Missing(p) == place[p] = "none"
Failing == failures < MaxFailures /\ failures' = failures + 1

-----------------------------------------------------------------------------
(* The foundation import                                                   *)

\* The archive is downloaded, and ESI is asked for the names that it lacks; a batch of names
\* that fails leaves placeholders.
ImportRead ==
    /\ imp.pc = "idle"
    /\ \E named \in SUBSET (published \cap Stations) :
        /\ imp' = [pc |-> "insert", seed |-> published, named |-> named, done |-> {}]
        /\ IF named = published \cap Stations THEN UNCHANGED failures ELSE Failing
    /\ UNCHANGED <<universe, station, place, accessible, unnamed, kept, published, orders, sync, clears>>

\* Of its rows, those of stations come before those of structures.
ImportNext ==
    LET todo == imp.seed \ imp.done
    IN IF todo \cap Stations # {} THEN todo \cap Stations ELSE todo

\* Row by row, after the regions and systems.  A row that another session has inserted is
\* waited for; a row that is inserted or updated is locked until the import ends.
ImportInsert(p) ==
    /\ imp.pc = "insert" /\ p \in ImportNext /\ p \notin orders.wrote
    /\ imp' = [imp EXCEPT !.done = @ \cup {p}]
    /\ UNCHANGED <<universe, station, place, accessible, unnamed, kept, published, orders, sync, counters>>

ImportWaits == ImportNext # {} /\ ImportNext \subseteq orders.wrote
ImportHolds(p) == p \in imp.done /\ (p \in Stations \/ Missing(p))

\* Mutant: EXCLUDED.name, whatever the row has.
RenamedAlways(old, s) == IF s \in imp.named THEN "real" ELSE "placeholder"

\* Mutant: ON CONFLICT DO NOTHING.
RenamedOnce(old, s) ==
    IF old = "none" THEN IF s \in imp.named THEN "real" ELSE "placeholder" ELSE old

\* ON CONFLICT DO UPDATE: a placeholder does not replace a name.
Renamed(old, s) == IF s \in imp.named \/ old = "real" THEN "real" ELSE "placeholder"

\* A structure of the catalog is inserted ON CONFLICT DO NOTHING.
ImportCommit ==
    /\ imp.pc = "insert" /\ ImportNext = {}
    /\ universe' = TRUE
    /\ station' = [s \in Stations |-> IF s \in imp.seed THEN Renamed(station[s], s) ELSE station[s]]
    /\ place' = [p \in Places |->
                    CASE p \in imp.seed \cap Stations -> Renamed(place[p], p)
                      [] p \in imp.seed \ Stations /\ Missing(p) -> "real"
                      [] OTHER -> place[p]]
    /\ imp' = NoImport
    /\ UNCHANGED <<accessible, unnamed, kept, published, orders, sync, counters>>

\* A request or a statement fails, the run is cancelled, or its process dies.
ImportFail ==
    /\ imp.pc # "idle" /\ Failing
    /\ imp' = NoImport
    /\ UNCHANGED <<universe, station, place, accessible, unnamed, kept, published, orders, sync, clears>>

-----------------------------------------------------------------------------
(* The import of market orders                                             *)

\* The orders of the regions are listed, and the locations of their places looked up.
OrdersStart ==
    /\ orders.pc = "idle" /\ universe
    /\ \E listed \in SUBSET Places :
        orders' = [NoOrders EXCEPT !.pc = "look", !.todo = {p \in listed : Missing(p)}]
    /\ UNCHANGED <<universe, station, place, accessible, unnamed, kept, published, imp, sync, counters>>

Skipped(p) == [orders EXCEPT !.todo = @ \ {p}]

\* A second look; a structure whose system is not known is skipped, and so is a station that
\* ESI does not know.  A station whose system is not known fails the run.
OrdersLook(p) ==
    /\ orders.pc = "look" /\ p \in orders.todo
    /\ orders' \in
         IF ~Missing(p) THEN {Skipped(p)}
         ELSE IF universe
              THEN {[orders EXCEPT !.pc = "insert", !.at = {p}]}
                      \cup {Skipped(q) : q \in {p} \cap Stations}
              ELSE IF p \in Structures THEN {Skipped(p)} ELSE {NoOrders, Skipped(p)}
    /\ UNCHANGED <<universe, station, place, accessible, unnamed, kept, published, imp, sync, counters>>

\* Mutant: as if it had looked when it inserts.
OrdersInsertLate(p) ==
    /\ orders.pc = "insert" /\ p \in orders.at /\ ~ImportHolds(p) /\ Missing(p)
    /\ orders' = [orders EXCEPT !.pc = "look", !.todo = @ \ {p}, !.at = {}, !.wrote = @ \cup {p}]
    /\ UNCHANGED <<universe, station, place, accessible, unnamed, kept, published, imp, sync, counters>>

\* The INSERT, of a station with its location, waits for a session that has inserted the
\* place, and is refused if that commits or if its system is gone.
OrdersInsert(p) ==
    /\ orders.pc = "insert" /\ p \in orders.at /\ ~ImportHolds(p)
    /\ orders' = IF Missing(p) /\ ~orders.gone
                 THEN [orders EXCEPT !.pc = "look", !.todo = @ \ {p}, !.at = {},
                                     !.wrote = @ \cup {p}]
                 ELSE NoOrders
    /\ UNCHANGED <<universe, station, place, accessible, unnamed, kept, published, imp, sync, counters>>

\* Mutant: the station is left to the foundation import.
OrdersCommitLocations ==
    /\ orders.pc = "look" /\ orders.todo = {}
    /\ place' = [p \in Places |->
                    IF p \notin orders.wrote THEN place[p]
                    ELSE IF p \in Stations THEN "real" ELSE "placeholder"]
    /\ orders' = NoOrders
    /\ UNCHANGED <<universe, station, accessible, unnamed, kept, published, imp, sync, counters>>

\* A station is inserted by the name that ESI tells, a structure by a placeholder.
OrdersCommit ==
    /\ orders.pc = "look" /\ orders.todo = {}
    /\ place' = [p \in Places |->
                    IF p \notin orders.wrote THEN place[p]
                    ELSE IF p \in Stations THEN "real" ELSE "placeholder"]
    /\ station' = [s \in Stations |-> IF s \in orders.wrote THEN "real" ELSE station[s]]
    /\ orders' = NoOrders
    /\ UNCHANGED <<universe, accessible, unnamed, kept, published, imp, sync, counters>>

OrdersFail ==
    /\ orders.pc # "idle" /\ Failing
    /\ orders' = NoOrders
    /\ UNCHANGED <<universe, station, place, accessible, unnamed, kept, published, imp, sync, clears>>

\* Each waits for the other: PostgreSQL rolls one of them back.
Deadlock ==
    /\ ImportWaits
    /\ orders.pc = "insert" /\ \E p \in orders.at : ImportHolds(p)
    /\ \/ imp' = NoImport /\ UNCHANGED orders
       \/ orders' = NoOrders /\ UNCHANGED imp
    /\ UNCHANGED <<universe, station, place, accessible, unnamed, kept, published, sync, counters>>

-----------------------------------------------------------------------------
(* The synchronisation of a character                                      *)

Called(t, placeholders) == IF t \in placeholders THEN "placeholder" ELSE "real"

\* _persist_discovered_structures, without a flush: a structure that is tracked is looked up a
\* second time, and the location that was just added is not found.  Whatever the location is
\* called, it gets the name that was discovered.
Planned(t, name) ==
    CASE place[t] = name -> "nothing"
      [] Missing(t) /\ accessible[t] = "tracked" -> "insert twice"
      [] Missing(t) /\ accessible[t] # "tracked" -> "insert"
      [] OTHER -> "update"

\* The session that writes the locations of some structures, once it has their names.
Discovered(heard, bare, located) ==
    [pc |-> "commit", heard |-> heard, bare |-> bare, gone |-> FALSE,
     plan |-> [t \in Structures |->
                  IF t \in located THEN Planned(t, Called(t, bare)) ELSE "nothing"]]

\* Structures that ESI describes, some of them without a name or a system that is known; and
\* those of the locations with a placeholder that it names when asked one by one (what it has
\* just described without a name it does not).  Without either there is nothing to write.
SyncDiscover ==
    /\ sync.pc = "idle"
    /\ \E heard \in SUBSET Access, told \in SUBSET {t \in Access : place[t] = "placeholder"} :
       /\ heard \cup told # {}
       /\ \E bare \in SUBSET (heard \ told), resolved \in IF universe THEN SUBSET heard ELSE {{}} :
          /\ sync' = Discovered(heard, bare, resolved \cup told)
          /\ IF bare = {} THEN UNCHANGED failures ELSE Failing
    /\ UNCHANGED <<universe, station, place, accessible, unnamed, kept, published, imp, orders, clears>>

Inserts(t) == sync.plan[t] \in {"insert", "insert twice"}
SyncWaits == \E t \in Structures : Inserts(t) /\ (t \in orders.wrote \/ ImportHolds(t))

SyncClashes ==
    \E t \in Structures :
        \/ sync.plan[t] = "insert twice"
        \/ Inserts(t) /\ ~Missing(t)
        \/ sync.plan[t] # "nothing" /\ sync.gone

\* The assets and orders of the character may refer to locations.
SyncCommit ==
    /\ sync.pc = "commit" /\ ~SyncWaits /\ ~SyncClashes
    /\ place' = [p \in Places |->
                    IF p \in Structures /\ sync.plan[p] # "nothing"
                    THEN Called(p, sync.bare) ELSE place[p]]
    /\ accessible' = [t \in Structures |->
                         IF t \in sync.heard /\ accessible[t] = "no" THEN "seen" ELSE accessible[t]]
    /\ unnamed' = (unnamed \ sync.heard) \cup sync.bare
    /\ kept' \in {kept, TRUE}
    /\ sync' = NoSync
    /\ UNCHANGED <<universe, station, published, imp, orders, counters>>

\* A constraint is violated, or the row to be updated or its system is gone: nothing is kept.
SyncRefused ==
    /\ sync.pc = "commit" /\ ~SyncWaits /\ SyncClashes
    /\ sync' = NoSync
    /\ UNCHANGED <<universe, station, place, accessible, unnamed, kept, published, imp, orders, counters>>

SyncFail ==
    /\ sync.pc # "idle" /\ Failing
    /\ sync' = NoSync
    /\ UNCHANGED <<universe, station, place, accessible, unnamed, kept, published, imp, orders, clears>>

-----------------------------------------------------------------------------
(* Players, operators, and the rest of the system                          *)

\* enable_character_structure_tracking, by the name that the character's row has; the
\* structure's system may not be known.
Track(t) ==
    /\ accessible[t] # "no" /\ t \notin orders.wrote /\ ~ImportHolds(t)
    /\ accessible' = [accessible EXCEPT ![t] = "tracked"]
    /\ place' \in {place} \cup IF universe THEN {[place EXCEPT ![t] = Called(t, unnamed)]} ELSE {}
    /\ UNCHANGED <<universe, station, unnamed, kept, published, sessions, counters>>

\* _clear_foundation_data deletes in one transaction, which is refused as long as a row that
\* it does not delete refers to an item or a location, and waits for sessions that inserted.
Clear ==
    /\ clears < MaxClears /\ clears' = clears + 1
    /\ ~kept /\ orders.wrote = {} /\ imp.done = {}
    /\ universe' = FALSE
    /\ station' = [s \in Stations |-> "none"]
    /\ place' = [p \in Places |-> "none"]
    /\ sync' = [sync EXCEPT !.gone = sync.pc # "idle"]
    /\ orders' = [orders EXCEPT !.gone = orders.pc = "insert"]
    /\ UNCHANGED <<accessible, unnamed, kept, published, imp, failures>>

\* Other jobs fill tables that refer to the universe, or these are cleared.
OthersWrite ==
    /\ kept' = ~kept /\ (kept \/ universe)
    /\ UNCHANGED <<universe, station, place, accessible, unnamed, published, sessions, counters>>

\* CCP publishes a release with every station, and the catalog gets its last structures.
Release ==
    /\ published # Published /\ published' = Published
    /\ UNCHANGED <<universe, station, place, accessible, unnamed, kept, sessions, counters>>

ImportStep == (\E p \in Published : ImportInsert(p)) \/ ImportCommit
OrdersStep == (\E p \in Places : OrdersLook(p) \/ OrdersInsert(p)) \/ OrdersCommit
SyncStep == SyncCommit \/ SyncRefused

Next ==
    \/ ImportRead \/ ImportStep \/ ImportFail \/ OrdersStart \/ OrdersStep \/ OrdersFail \/ Deadlock
    \/ SyncDiscover \/ SyncStep \/ SyncFail
    \/ \E t \in Structures : Track(t)
    \/ Clear \/ OthersWrite \/ Release

\* Jobs that have begun go on, and one that waits for a transaction gets its turn when that
\* ends, whoever inserts the place next.  Nobody has to begin one: only operators import the
\* foundation, alone or with the full refresh.
Spec ==
    /\ Init /\ [][Next]_vars
    /\ SF_vars(ImportStep) /\ SF_vars(OrdersStep) /\ SF_vars(SyncStep) /\ WF_vars(Deadlock)

-----------------------------------------------------------------------------
(* Properties                                                              *)

\* DEVLOG.md: "placeholder seed data can no longer overwrite already-resolved names".  Whoever
\* writes, and whatever it has read before, a station's name is only lost with its row.  A
\* structure's can be: a description without a name (client.py:498) puts the placeholder in
\* its place (characters/service.py:540, :607), now or when its tracking is turned on.  But it
\* takes that: as long as ESI tells the structure's name, no job and no player loses it.
Keeping ==
    /\ \A s \in Stations : /\ station[s] = "real" => station'[s] # "placeholder"
                           /\ place[s] = "real" => place'[s] # "placeholder"
    /\ \A t \in Structures : place[t] = "real" /\ place'[t] = "placeholder" => t \in unnamed'
NamesKept == [][Keeping]_vars

\* Every station has a location of the same name, and every location of a station is one,
\* although two jobs create them and one job each in a transaction of its own.
Twins == \A s \in Stations : place[s] = station[s]

\* DEVLOG.md: "resolved station/location names can repair placeholder" names.  If operators
\* import the foundation and succeed, again and again, then after the last failure and the last
\* clearing every station that CCP publishes is there by its name, and stays so.
NamesComeIn ==
    []<><<ImportCommit>>_vars =>
        <>[](universe /\ \A s \in published \cap Stations : place[s] = "real" /\ station[s] = "real")

\* Sessions that wait for each other's rows, in either order, all end.
SessionsEnd == []<>(imp.pc = "idle") /\ []<>(orders.pc = "idle") /\ []<>(sync.pc = "idle")

-----------------------------------------------------------------------------
(* The inductive invariant, proved in FreshTradeSyncProofs                 *)

\* A place that the import of orders has inserted is in no one's sight and in no other
\* session's hands until it commits.
InsertsPrivate == \A p \in orders.wrote : Missing(p) /\ p \notin imp.done

\* A row that a synchronisation is about to update is there, or known to be gone.
UpdatesFound ==
    \A t \in Structures : sync.plan[t] = "update" =>
        sync.pc = "commit" /\ (~sync.gone => ~Missing(t))

IInv == UniverseTypeOK /\ Twins /\ InsertsPrivate /\ UpdatesFound
=============================================================================
