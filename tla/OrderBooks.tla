------------------------------ MODULE OrderBooks ------------------------------
(***************************************************************************)
(* The order books of one region and of one player structure in it, both   *)
(* selected as targets.  esi_market_orders_sync lists the region page by   *)
(* page and replaces the live orders of the whole region, recording what   *)
(* left the books of the targets as trades; structure_snapshot_sync lists  *)
(* the structure, keeps the list as a snapshot, replaces the structure's   *)
(* live orders and compares the last two snapshots, each in a transaction  *)
(* of its own.  One run of either kind is at work at a time: the two kinds *)
(* may overlap, two starts of one kind that do (OneRunPerStarter of        *)
(* SyncJobs allows them) are set aside.                                    *)
(*                                                                         *)
(* An order is its number, which is also its place in the lists of ESI.    *)
(* A book gives an order the volume that remains, 0 if it has no row.      *)
(***************************************************************************)
EXTENDS Integers, Sequences, FiniteSets, FiniteSetsExt

CONSTANTS
    Orders,           \* numbers of the orders there will be
    StructureOrders,  \* those placed in the structure; the others are at the station
    Listed,           \* those of the structure that the list of the region shows as well
    Late,             \* those placed after the start
    Volume,           \* the volume each order is placed with
    PageSize,         \* orders on a page of a list
    Period,           \* days that the demand periods look back
    Retention,        \* days that the trades at the targets are kept
    RegionRuns, StructureRuns,  \* bound: runs of either kind
    MaxMoves,         \* bound: orders placed, trades and withdrawals
    MaxDays,          \* bound: days
    MaxFailures       \* bound: runs that are cancelled, fail or die

ASSUME BooksAssumption ==
    /\ Orders \subseteq Nat /\ IsFiniteSet(Orders)
    /\ Listed \subseteq StructureOrders /\ StructureOrders \subseteq Orders
    /\ {Volume, PageSize, Period} \subseteq Nat \ {0}
    /\ Late \subseteq Orders
    /\ {Retention, RegionRuns, StructureRuns, MaxMoves, MaxDays, MaxFailures} \subseteq Nat

VARIABLES
    market,    \* EVE: the volume that remains of each order
    posted,    \* EVE: the orders that have been placed
    moves,     \* bounded counter
    traded,    \* EVE: the units of each order that were traded
    day,
    live,      \* esi_market_orders, a book
    trades,    \* npc_station_order_deltas, for station and structure
    snaps,     \* structure_snapshots with their orders, by time
    changes,   \* structure_order_deltas
    periods,   \* the traded units of the demand periods, 0 for no row
    reg, str,  \* the runs at work
    regRuns, strRuns, failures,  \* the bounded counters
    ever, entered  \* history: every trade recorded, every volume that came into live

eve == <<market, posted, moves, traded>>
tables == <<live, trades, snaps, changes, periods>>
history == <<ever, entered>>
vars == <<market, posted, moves, traded, day, live, trades, snaps, changes, periods, reg, str,
          regRuns, strRuns, failures, ever, entered>>

-----------------------------------------------------------------------------
(* Lists and books                                                         *)

Stations == Orders \ StructureOrders
Books == [Orders -> 0..Volume]
NoBook == [o \in Orders |-> 0]
In(book) == {o \in Orders : book[o] > 0}
Of(book, S) == [o \in Orders |-> IF o \in S THEN book[o] ELSE 0]

\* What ESI answers for a page of the list of S: orders move up as others leave.
Page(S, n) ==
    LET shown == In(Of(market, S))
        place(o) == Cardinality({p \in shown : p <= o})
    IN  {[page |-> n, order |-> o, volume |-> market[o]] :
            o \in {p \in shown : PageSize * (n - 1) < place(p) /\ place(p) <= PageSize * n}}

\* X-Pages.
Pages(S) == Max({1, (Cardinality(In(Of(market, S))) + PageSize - 1) \div PageSize})

\* SELECT DISTINCT ON (order_id): the books that rows can be taken for.
Distinct(rows) ==
    {book \in [Orders -> {0} \cup {r.volume : r \in rows}] :
        \A o \in Orders :
            IF \E r \in rows : r.order = o
            THEN \E r \in rows : r.order = o /\ r.volume = book[o]
            ELSE book[o] = 0}

Repeats(rows) == \E r, q \in rows : r # q /\ r.order = q.order

\* The runs.
NoRun == [pc |-> "idle", rows |-> {}, next |-> 1, pages |-> 1, book |-> NoBook,
          doomed |-> {}, found |-> {}, day |-> 0]

Units(D) == MapThenSumSet(LAMBDA d : d.units, D)
\* Of a window of whole days that ends now, the day it begins in is over.
Within(D, S, first) == {d \in D : d.order \in S /\ d.day > first}

\* The rows that a transaction has deleted and not yet committed.
Locks(run) == IF run.pc = "insert" THEN run.doomed ELSE {}

Kinds == {"station", "structure", "snapshots"}

Init ==
    /\ market = [o \in Orders |-> IF o \in Late THEN 0 ELSE Volume]
    /\ posted = Orders \ Late /\ moves = 0 /\ traded = NoBook /\ day = 1
    /\ live = NoBook /\ trades = {} /\ snaps = <<>> /\ changes = {}
    /\ periods = [k \in Kinds |-> 0]
    /\ reg = NoRun /\ str = NoRun
    /\ regRuns = 0 /\ strRuns = 0 /\ failures = 0
    /\ ever = {} /\ entered = NoBook

-----------------------------------------------------------------------------
(* EVE and time                                                            *)

Move == moves < MaxMoves /\ moves' = moves + 1

Post(o) ==
    /\ Move
    /\ o \notin posted /\ posted' = posted \cup {o}
    /\ market' = [market EXCEPT ![o] = Volume]
    /\ UNCHANGED <<traded, day, tables, reg, str, regRuns, strRuns, failures, history>>

Trade(o) ==
    /\ Move
    /\ market[o] > 0
    /\ market' = [market EXCEPT ![o] = @ - 1]
    /\ traded' = [traded EXCEPT ![o] = @ + 1]
    /\ UNCHANGED <<posted, day, tables, reg, str, regRuns, strRuns, failures, history>>

\* Withdrawn or expired.
Withdraw(o) ==
    /\ Move
    /\ market[o] > 0
    /\ market' = [market EXCEPT ![o] = 0]
    /\ UNCHANGED <<posted, traded, day, tables, reg, str, regRuns, strRuns, failures, history>>

Midnight ==
    /\ day < MaxDays /\ day' = day + 1
    /\ UNCHANGED <<eve, tables, reg, str, regRuns, strRuns, failures, history>>

-----------------------------------------------------------------------------
(* esi_market_orders_sync                                                  *)

RegionOrders == Stations \cup Listed

\* A page is added to the list; the first one says how many there are.
Reads(run, S) ==
    LET pages == IF run.next = 1 THEN Pages(S) ELSE run.pages
    IN  [run EXCEPT !.rows = @ \cup Page(S, run.next), !.next = @ + 1, !.pages = pages,
                    !.pc = IF run.next = pages THEN "listed" ELSE "list",
                    !.day = IF run.next = 1 THEN day ELSE @]

RegionBegin ==
    /\ reg.pc = "idle" /\ regRuns < RegionRuns
    /\ regRuns' = regRuns + 1
    /\ reg' = Reads(NoRun, RegionOrders)
    /\ UNCHANGED <<eve, day, tables, str, strRuns, failures, history>>

RegionList ==
    /\ reg.pc = "list"
    /\ reg' = Reads(reg, RegionOrders)
    /\ UNCHANGED <<eve, day, tables, str, regRuns, strRuns, failures, history>>

\* Mutant: an order that is gone traded nothing.
UnitsReduced(old, new) == IF new \in 1..(old - 1) THEN old - new ELSE 0

\* What an order is taken to have traded: all that it lost, gone or not.
UnitsLost(old, new) == IF new < old THEN old - new ELSE 0

Diff(old, new) ==
    {[order |-> o, units |-> UnitsLost(old[o], new[o]), run |-> regRuns, day |-> day] :
        o \in {p \in In(old) : new[p] # old[p]}}

\* The rows are staged and compared with the live orders; nothing is committed yet.
RegionCompare ==
    /\ reg.pc = "listed"
    /\ \E book \in Distinct(reg.rows) :
          reg' = [reg EXCEPT !.pc = "compared", !.book = book, !.found = Diff(live, book)]
    /\ UNCHANGED <<eve, day, tables, str, regRuns, strRuns, failures, history>>

\* DELETE: of the rows that are there when the statement starts.
RegionDelete ==
    /\ reg.pc = "compared"
    /\ reg' = [reg EXCEPT !.pc = "delete", !.doomed = In(live)]
    /\ UNCHANGED <<eve, day, tables, str, regRuns, strRuns, failures, history>>

\* ... once no other transaction holds one of them.
RegionDeleted ==
    /\ reg.pc = "delete"
    /\ reg.doomed \cap Locks(str) = {}
    /\ reg' = [reg EXCEPT !.pc = "insert"]
    /\ UNCHANGED <<eve, day, tables, str, regRuns, strRuns, failures, history>>

\* The order number is unique: rows that came in since the DELETE refuse the INSERT.
Refused(run) == (In(live) \ run.doomed) \cap In(run.book) # {}

Replaced(run) ==
    [o \in Orders |-> IF run.book[o] > 0 THEN run.book[o]
                      ELSE IF o \in run.doomed THEN 0 ELSE live[o]]

\* The book and the trades are committed together.
RegionCommit ==
    /\ reg.pc = "insert" /\ ~Refused(reg)
    /\ live' = Replaced(reg)
    /\ trades' = trades \cup reg.found
    /\ ever' = ever \cup reg.found
    /\ entered' = [o \in Orders |-> IF live[o] = 0 THEN entered[o] + reg.book[o] ELSE entered[o]]
    /\ reg' = IF reg.found = {} THEN NoRun ELSE [reg EXCEPT !.pc = "refresh"]
    /\ UNCHANGED <<eve, day, snaps, changes, periods, str, regRuns, strRuns, failures>>

RegionRefused ==
    /\ reg.pc = "insert" /\ Refused(reg)
    /\ reg' = NoRun
    /\ UNCHANGED <<eve, day, tables, str, regRuns, strRuns, failures, history>>

Members == [station |-> Stations, structure |-> StructureOrders]

\* A mutant: the periods are summed from the trades of this run alone.
SummedOfRun == reg.found

\* What the demand periods are summed from.
Summed == trades

\* A period without a trade in its window keeps its row.
Refreshed(k) ==
    LET D == Within(Summed, Members[k], day - Period)
    IN  IF D = {} THEN periods[k] ELSE Units(D)

RegionRefresh ==
    /\ reg.pc = "refresh"
    /\ periods' = [k \in Kinds |-> IF k \in DOMAIN Members THEN Refreshed(k) ELSE periods[k]]
    /\ trades' = {d \in trades : d.day > day - Retention}
    /\ reg' = NoRun
    /\ UNCHANGED <<eve, day, live, snaps, changes, str, regRuns, strRuns, failures, history>>

-----------------------------------------------------------------------------
(* structure_snapshot_sync                                                 *)

StructureBegin ==
    /\ str.pc = "idle" /\ strRuns < StructureRuns
    /\ strRuns' = strRuns + 1
    /\ str' = Reads(NoRun, StructureOrders)
    /\ UNCHANGED <<eve, day, tables, reg, regRuns, failures, history>>

StructureList ==
    /\ str.pc = "list"
    /\ str' = Reads(str, StructureOrders)
    /\ UNCHANGED <<eve, day, tables, reg, regRuns, strRuns, failures, history>>

\* A list without orders is not a snapshot.
StructureSkip ==
    /\ str.pc = "listed" /\ str.rows = {}
    /\ str' = NoRun
    /\ UNCHANGED <<eve, day, tables, reg, regRuns, strRuns, failures, history>>

StructureSnapshot ==
    /\ str.pc = "listed" /\ str.rows # {}
    /\ \E book \in Distinct(str.rows) :
          /\ snaps' = Append(snaps, book)
          /\ str' = [str EXCEPT !.pc = "kept", !.book = book]
    /\ UNCHANGED <<eve, day, live, trades, changes, periods, reg, regRuns, strRuns, failures,
                   history>>

\* DELETE of the structure's rows, and of others of the same numbers.
StructureDelete ==
    /\ str.pc = "kept"
    /\ In(live) \cap StructureOrders \cap Locks(reg) = {}
    /\ str' = [str EXCEPT !.pc = "insert", !.doomed = In(live) \cap StructureOrders]
    /\ UNCHANGED <<eve, day, tables, reg, regRuns, strRuns, failures, history>>

\* Rows that this transaction replaced are not the ones that a waiting DELETE saw.
StructureCommit ==
    /\ str.pc = "insert" /\ ~Refused(str) /\ ~Repeats(str.rows)
    /\ live' = Replaced(str)
    /\ reg' = IF reg.pc = "delete" THEN [reg EXCEPT !.doomed = @ \ str.doomed] ELSE reg
    /\ str' = [str EXCEPT !.pc = IF Len(snaps) = 1 THEN "idle" ELSE "compare"]
    /\ UNCHANGED <<eve, day, trades, snaps, changes, periods, regRuns, strRuns, failures, history>>

StructureRefused ==
    /\ str.pc = "insert" /\ (Refused(str) \/ Repeats(str.rows))
    /\ str' = NoRun
    /\ UNCHANGED <<eve, day, tables, reg, regRuns, strRuns, failures, history>>

\* The snapshot that the last one is compared with.
Previous == Len(snaps) - 1

\* An order that is gone is no trade here.
UnitsSold(old, new) == IF new \in 1..(old - 1) THEN old - new ELSE 0

SnapshotChanges(i, j, when) ==
    {[order |-> o, old |-> snaps[i][o], new |-> snaps[j][o], from |-> i, to |-> j,
      units |-> UnitsSold(snaps[i][o], snaps[j][o]), day |-> when] :
        o \in {p \in In(snaps[i]) : snaps[j][p] # snaps[i][p]}}

StructureCompare ==
    /\ str.pc = "compare"
    /\ LET D == SnapshotChanges(Previous, Len(snaps), str.day)
       IN  /\ changes' = changes \cup D
           /\ str' = IF D = {} THEN NoRun ELSE [str EXCEPT !.pc = "refresh"]
    /\ UNCHANGED <<eve, day, live, trades, snaps, periods, reg, regRuns, strRuns, failures, history>>

StructureRefresh ==
    /\ str.pc = "refresh"
    /\ periods' = [periods EXCEPT !["snapshots"] =
                      Units(Within(changes, StructureOrders, str.day - Period))]
    /\ str' = NoRun
    /\ UNCHANGED <<eve, day, live, trades, snaps, changes, reg, regRuns, strRuns, failures, history>>

-----------------------------------------------------------------------------
(* A run is cancelled, fails or dies: its transaction is rolled back.      *)

Fail ==
    /\ failures < MaxFailures /\ failures' = failures + 1
    /\ \/ reg.pc # "idle" /\ reg' = NoRun /\ str' = str
       \/ str.pc # "idle" /\ str' = NoRun /\ reg' = reg
    /\ UNCHANGED <<eve, day, tables, regRuns, strRuns, history>>

\* Between runs there may be nothing to do; a run is never stuck.
Rest == reg.pc = "idle" /\ str.pc = "idle" /\ UNCHANGED vars

Next ==
    \/ \E o \in Orders : Post(o) \/ Trade(o) \/ Withdraw(o)
    \/ Midnight
    \/ RegionBegin \/ RegionList \/ RegionCompare \/ RegionDelete \/ RegionDeleted
    \/ RegionCommit \/ RegionRefused \/ RegionRefresh
    \/ StructureBegin \/ StructureList \/ StructureSkip \/ StructureSnapshot
    \/ StructureDelete \/ StructureCommit \/ StructureRefused \/ StructureCompare
    \/ StructureRefresh
    \/ Fail \/ Rest

Spec == Init /\ [][Next]_vars

-----------------------------------------------------------------------------
(* Properties                                                              *)

\* Whatever fails, and wherever, the trades recorded at the station are exactly what its
\* book lost: an order stands where it came in less the units that it is said to have
\* traded since (orders_ingestion.py:273-338: the trades are computed before the DELETE
\* and committed with the INSERT, so that none is lost or counted twice).
BooksBalance ==
    \A o \in Stations : live[o] + Units(Within(ever, {o}, 0)) = entered[o]

\* The snapshots never claim more than was sold: not for orders that were withdrawn, not
\* for ones that a list missed, not twice (DESIGN_PROMPT.md:470, inference.py:4-18).
StructureClaims ==
    \A o \in StructureOrders : Units(Within(changes, {o}, 0)) <= traded[o]

\* When the demand of a target moves it is all of the trades in the window, those of runs
\* that failed before their refresh included, and whatever was deleted for its age.
CatchesUp ==
    [][\A k \in DOMAIN Members : periods'[k] # periods[k] =>
          periods'[k] = Units(Within(ever, Members[k], day - Period))]_vars

-----------------------------------------------------------------------------
(* The inductive invariant, proved in OrderBooksProofs                     *)

RegionPcs == {"idle", "list", "listed", "compared", "delete", "insert", "refresh"}
StructurePcs == {"idle", "list", "listed", "kept", "insert", "compare", "refresh"}
Trades == [order : Orders, units : Nat, run : Nat, day : Nat \ {0}]
Changes == [order : Orders, old : Nat, new : Nat, from : Nat, to : Nat, units : Nat,
            day : Nat \ {0}]
Runs(pcs, S) ==
    [pc : pcs, rows : SUBSET [page : Nat, order : S, volume : 1..Volume], next : Nat,
     pages : Int, book : Books, doomed : SUBSET Orders, found : SUBSET Trades, day : Nat]

\* Every table, list and run has its shape; a run of the structure touches nothing else.
BooksTypeOK ==
    /\ market \in Books /\ traded \in Books /\ live \in Books /\ entered \in [Orders -> Nat]
    /\ posted \subseteq Orders
    /\ day \in Nat \ {0} /\ regRuns \in Nat
    /\ ever \subseteq Trades /\ IsFiniteSet(ever) /\ trades \subseteq ever
    /\ snaps \in Seq(Books) /\ changes \subseteq Changes /\ IsFiniteSet(changes)
    /\ periods \in [Kinds -> Nat]
    /\ reg \in Runs(RegionPcs, RegionOrders) /\ str \in Runs(StructurePcs, StructureOrders)
    /\ IsFiniteSet(reg.found)
    /\ In(str.book) \subseteq StructureOrders /\ str.doomed \subseteq StructureOrders
    /\ str.pc # "idle" => str.day > 0

\* What has left an order was traded, unless all of it is gone.
EveSinks ==
    \A o \in Orders :
        /\ market[o] + traded[o] <= Volume
        /\ market[o] > 0 => o \in posted /\ market[o] + traded[o] = Volume
        /\ o \notin posted => traded[o] = 0

\* A volume that an order had once: what is missing now was traded or withdrawn since.
Past(o, v) ==
    v > 0 => o \in posted /\ v <= Volume /\ market[o] <= v /\ Volume <= v + traded[o]

Listing == {"list", "listed"}
Rows(run) == IF run.pc \in Listing THEN run.rows ELSE {}

\* Whatever was listed and is not forgotten is past.
ListsPast ==
    /\ \A o \in Orders :
          /\ Past(o, live[o]) /\ Past(o, reg.book[o]) /\ Past(o, str.book[o])
          /\ \A i \in 1..Len(snaps) : Past(o, snaps[i][o])
    /\ \A r \in Rows(reg) \cup Rows(str) : Past(r.order, r.volume)

\* The station's book only sinks: a list is not older than the book it will replace.
RegionSinks ==
    \A o \in Stations : live[o] > 0 =>
        /\ reg.book[o] <= live[o]
        /\ \A r \in Rows(reg) : r.order = o => r.volume <= live[o]

\* A run that is not committed holds the trades between the book as it is and its own, and
\* will delete all that the station has.
FoundIsDifference ==
    /\ \A d \in ever : d.run <= regRuns
    /\ reg.pc \in {"list", "listed", "compared", "delete", "insert"} =>
          \A d \in ever : d.run < regRuns
    /\ reg.pc \in {"compared", "delete", "insert"} =>
          /\ \A d \in reg.found : d.run = regRuns
          /\ \A o \in Stations :
                IF live[o] > 0 /\ reg.book[o] # live[o]
                THEN \E d \in reg.found : /\ d.units = UnitsLost(live[o], reg.book[o])
                                          /\ {e \in reg.found : e.order = o} = {d}
                ELSE \A d \in reg.found : d.order # o
    /\ reg.pc \in {"delete", "insert"} =>
          \A o \in Stations : o \in reg.doomed <=> live[o] > 0

\* What was deleted for its age is too old for a window.
DeletedIsOld == \A d \in ever \ trades : d.day <= day - Retention

RegionInv == RegionSinks /\ FoundIsDifference /\ DeletedIsOld /\ BooksBalance

\* The changes up to the last snapshot are there when its run has compared it.
ChangesBehind ==
    /\ \A d \in changes : d.from \in 1..Len(snaps) /\ d.to \in 1..Len(snaps)
    /\ str.pc \in {"kept", "insert", "compare"} =>
          Len(snaps) >= 1 /\ \A d \in changes : d.to < Len(snaps)
    /\ str.pc = "compare" => Len(snaps) >= 2

Claimed(o) == Units(Within(changes, {o}, 0))

\* What an order may still be seen at, and what was claimed for it, are not more than it had.
RoomFor(o, v) == v > 0 => Claimed(o) + v <= Volume
ClaimsHaveRoom ==
    /\ \A o \in StructureOrders :
          /\ RoomFor(o, market[o])
          /\ Len(snaps) >= 1 => RoomFor(o, snaps[Len(snaps)][o])
          /\ str.pc \in {"kept", "insert", "compare"} /\ Len(snaps) >= 2 =>
                RoomFor(o, snaps[Len(snaps) - 1][o])
    /\ \A r \in Rows(str) : RoomFor(r.order, r.volume)

StructureInv == ChangesBehind /\ ClaimsHaveRoom /\ StructureClaims

IInv == BooksTypeOK /\ EveSinks /\ ListsPast /\ RegionInv /\ StructureInv
=============================================================================
