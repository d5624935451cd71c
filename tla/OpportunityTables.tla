-------------------------- MODULE OpportunityTables --------------------------
(***************************************************************************)
(* opportunity_items and opportunity_source_summaries of one target and    *)
(* period, and everybody who computes them: the rebuild job, a page that   *)
(* finds no rows, the refresh button, and what only clears them.  All go   *)
(* through generate_for_target: DELETE, DELETE, read the market, COPY the  *)
(* items, sum them up, INSERT the summaries, commit.  The rebuild job also *)
(* records its stages with a commit each, in the same session, so that its *)
(* DELETEs and its COPY are committed on their own.                        *)
(*                                                                         *)
(* The writers know nothing of one another.  What keeps them apart is      *)
(* PostgreSQL at READ COMMITTED: a statement sees what was committed when  *)
(* it began, waits for the transaction that deletes a row it wants or      *)
(* inserts a key it inserts, and fails on a key that is there already.     *)
(***************************************************************************)
EXTENDS Naturals, FiniteSets

CONSTANTS
    Sources,     \* source locations
    Types,       \* item types
    Known,       \* sources with price periods, which the rebuild goes by
    Markets,     \* {<<s, t>>} sets: the sell orders there may be
    Before,      \* those an earlier page may have computed its rows from
    Kinds,       \* what may come: rebuild, refresh, clear, miss, items, detail
    MaxRuns,     \* bound: computations, the earlier one included
    MaxMoves,    \* bound: times the market moves
    MaxFailures  \* bound: runs that die or are refused by the database

Items == Sources \X Types
Sums == {<<s>> : s \in Sources}
Keys == Items \cup Sums

ASSUME TablesAssumption ==
    /\ Known \subseteq Sources
    /\ Markets \subseteq SUBSET Items /\ Before \subseteq SUBSET Items
    /\ Kinds \subseteq {"rebuild", "refresh", "clear", "miss", "items", "detail"}
    /\ MaxRuns \in Nat \ {0} /\ {MaxMoves, MaxFailures} \subseteq Nat

VARIABLES
    market,    \* the sell orders at the sources
    rows,      \* committed rows of both tables: the run that wrote each, or 0
    summed,    \* what a committed summary sums up: the run of each item of its source
    runs,      \* the computations
    torn,      \* history: writers met, or one stopped between its commits
    moves, failures   \* the bounded counters

vars == <<market, rows, summed, runs, torn, moves, failures>>

Runs == 1..MaxRuns
Content == [Types -> 0..MaxRuns]
NoContent == [t \in Types |-> 0]

\* items, sums: the DELETEs, waits: one of them waits for a row; read, copy, sum,
\* insert: the steps after them.
Deleting == {"items", "waitItems", "sums", "waitSums"}
Live == Deleting \cup {"read", "copy", "sum", "insert"}
Over == {"done", "failed", "cancelled"}
Run == [pc : {"none"} \cup Live \cup Over,
        kind : Kinds \cup {"none", "miss"},
        part : SUBSET Sources,       \* sources it computes
        types : SUBSET Types,        \* types it computes
        aim : SUBSET (Keys \X Runs), \* rows a waiting DELETE has seen
        gone : SUBSET Keys,          \* rows it deleted and has not committed
        put : SUBSET Keys,           \* rows it inserted and has not committed
        sees : SUBSET Items,         \* orders it read
        sum : [Sources -> Content],  \* its summaries
        alone : BOOLEAN]             \* history: no other writer was at work
NoRun == [pc |-> "none", kind |-> "none", part |-> {}, types |-> {}, aim |-> {},
          gone |-> {}, put |-> {}, sees |-> {}, sum |-> [s \in Sources |-> NoContent],
          alone |-> TRUE]

TablesTypeOK ==
    /\ market \subseteq Items
    /\ rows \in [Keys -> 0..MaxRuns]
    /\ summed \in [Sources -> Content]
    /\ runs \in [Runs -> Run]
    /\ torn \in BOOLEAN
    /\ moves \in 0..MaxMoves /\ failures \in 0..MaxFailures

\* Run 1 is over: a page's computation from the orders of that time, if there were any.
Init ==
    /\ market \in Markets
    /\ \E K \in Before :
        /\ rows = [k \in Keys |-> IF k \in K \/ \E t \in Types : k \in Sums /\ <<k[1], t>> \in K
                                 THEN 1 ELSE 0]
        /\ summed = [s \in Sources |-> [t \in Types |-> IF <<s, t>> \in K THEN 1 ELSE 0]]
        /\ runs = [r \in Runs |-> IF r > 1 THEN NoRun
                                  ELSE [NoRun EXCEPT !.pc = "done", !.kind = "miss", !.sees = K,
                                                     !.part = {k[1] : k \in K}]]
    /\ torn = FALSE
    /\ moves = 0 /\ failures = 0

-----------------------------------------------------------------------------
(* Who computes what                                                       *)

Busy(r) == runs[r].pc \in Live
Whole(r) == runs[r].kind \in {"rebuild", "refresh", "clear", "miss"}
Staged(r) == runs[r].kind = "rebuild"

OnSale == {k[2] : k \in market}
Selling(S, T) == {s \in S : \E t \in T : <<s, t>> \in market}

\* A page looks for rows before it computes any: for a summary or an item of the scope,
\* for an item of a source, or for one item.
NoSummary == \A k \in Sums : rows[k] = 0
NoItem == \A k \in Items : rows[k] = 0
NoItemOf(s) == \A t \in Types : rows[<<s, t>>] = 0
NoSuchItem(s, t) == rows[<<s, t>>] = 0
Misses(kind, s, t) ==
    /\ kind = "miss" => NoSummary \/ NoItem
    /\ kind = "items" => NoItemOf(s)
    /\ kind = "detail" => NoSuchItem(s, t)

\* _trade_period_type_ids, _trade_period_source_location_ids, and for the rebuild the
\* demand's types and the known sources with sell orders.
TypesOf(kind, t) == CASE kind = "detail" -> {t}
                      [] kind \in {"rebuild", "clear"} -> Types
                      [] OTHER -> OnSale
PartOf(kind, s, T) == CASE kind = "clear" -> Sources
                        [] kind = "rebuild" -> Selling(Known, T)
                        [] kind \in {"items", "detail"} -> Selling({s}, T)
                        [] OTHER -> Selling(Sources, T)

Others(r) == {q \in Runs \ {r} : Busy(q)}

\* A computation begins.  With nothing on sale it is over before it touches a row.
Begin(r, kind, s, t) ==
    /\ runs[r].pc = "none"
    /\ \A q \in Runs : q < r => runs[q].pc # "none"
    /\ Misses(kind, s, t)
    /\ LET T == TypesOf(kind, t)
           P == PartOf(kind, s, T)
           new == [NoRun EXCEPT !.pc = IF P = {} THEN "done" ELSE "items",
                                !.kind = kind, !.part = P, !.types = T,
                                !.alone = Others(r) = {}]
       IN  runs' = [q \in Runs |-> IF q = r THEN new
                                   ELSE IF Busy(q) THEN [runs[q] EXCEPT !.alone = FALSE]
                                   ELSE runs[q]]
    /\ torn' = (torn \/ Others(r) # {})
    /\ UNCHANGED <<market, rows, summed, moves, failures>>

-----------------------------------------------------------------------------
(* The statements                                                          *)

\* Mutant: a rebuild of the whole scope only deletes what it is about to compute.
DoomedInPart(r) ==
    IF runs[r].pc \in {"items", "waitItems"} THEN runs[r].part \X runs[r].types
    ELSE {<<s>> : s \in runs[r].part}

\* Mutant: the clearing deletes the summaries first.
DoomedSumsFirst(r) ==
    IF (runs[r].pc \in {"items", "waitItems"}) = (runs[r].kind # "clear")
    THEN IF Whole(r) THEN Items ELSE runs[r].part \X runs[r].types
    ELSE IF Whole(r) THEN Sums ELSE {<<s>> : s \in runs[r].part}

\* The WHERE clauses of the DELETEs.
Doomed(r) ==
    IF runs[r].pc \in {"items", "waitItems"}
    THEN IF Whole(r) THEN Items ELSE runs[r].part \X runs[r].types
    ELSE IF Whole(r) THEN Sums ELSE {<<s>> : s \in runs[r].part}

DeletedByOthers(r) == UNION {runs[q].gone : q \in Others(r)}
PutByOthers(r) == UNION {runs[q].put : q \in Others(r)}

\* Rows as they are once K is gone and the keys of P belong to r.
After(r, K, P) == [k \in Keys |-> IF k \in P THEN r ELSE IF k \in K THEN 0 ELSE rows[k]]

AfterDelete(r) == IF runs[r].pc \in {"items", "waitItems"} THEN "sums"
                  ELSE IF runs[r].kind = "clear" THEN "done" ELSE "read"

\* A DELETE has every row it wants.  The clearing commits it, and so does the stage
\* that the rebuild records after its second one.
Take(r, K) ==
    LET gone == runs[r].gone \cup K
        next == AfterDelete(r)
        commits == next = "done" \/ (next = "read" /\ Staged(r))
    IN  /\ runs' = [runs EXCEPT ![r].pc = next, ![r].aim = {},
                                ![r].gone = IF commits THEN {} ELSE gone]
        /\ rows' = IF commits THEN After(r, gone, {}) ELSE rows
        /\ torn' = IF next = "done" /\ runs[r].alone THEN FALSE ELSE torn

\* A DELETE sees the rows committed when it starts, and waits if another transaction
\* is deleting one of them.
Delete(r) ==
    /\ runs[r].pc \in {"items", "sums"}
    /\ LET K == {k \in Doomed(r) : rows[k] # 0} \ runs[r].gone
       IN  IF K \cap DeletedByOthers(r) = {}
           THEN Take(r, K)
           ELSE /\ runs' = [runs EXCEPT ![r].pc = IF @ = "items" THEN "waitItems"
                                                  ELSE "waitSums",
                                        ![r].aim = {<<k, rows[k]>> : k \in K}]
                /\ UNCHANGED <<rows, torn>>
    /\ UNCHANGED <<market, summed, moves, failures>>

\* ... until that one is over.  Rows it replaced are not seen any more.
DeleteWaited(r) ==
    /\ runs[r].pc \in {"waitItems", "waitSums"}
    /\ LET K == {a[1] : a \in {a \in runs[r].aim : rows[a[1]] = a[2]}}
       IN  K \cap DeletedByOthers(r) = {} /\ Take(r, K)
    /\ UNCHANGED <<market, summed, moves, failures>>

\* The live sell orders of the sources in part: each becomes an item row.
Orders(r) == market \cap (runs[r].part \X runs[r].types)
ReadMarket(r) ==
    /\ runs[r].pc = "read"
    /\ runs' = [runs EXCEPT ![r].pc = "copy",
                            ![r].sees = Orders(r)]
    /\ UNCHANGED <<market, rows, summed, torn, moves, failures>>

\* Keys an INSERT must wait for, and keys it fails on.
MustWait(r, K) ==
    K \cap (PutByOthers(r) \cup {k \in DeletedByOthers(r) : rows[k] # 0})
Refused(r, K) ==
    {k \in K : rows[k] # 0 /\ k \notin runs[r].gone \cup DeletedByOthers(r)}

Rollback(r, pc) ==
    [runs EXCEPT ![r].pc = pc, ![r].gone = {}, ![r].put = {}, ![r].aim = {}]

\* A unique constraint refuses a key: the computation fails.
Inserts(r) == IF runs[r].pc = "copy" THEN runs[r].sees
              ELSE {<<s>> : s \in {u \in Sources : runs[r].sum[u] # NoContent}}
Conflict(r) ==
    /\ runs[r].pc \in {"copy", "insert"}
    /\ Refused(r, Inserts(r)) # {}
    /\ runs' = Rollback(r, "failed")
    /\ torn' = (torn \/ Staged(r))
    /\ UNCHANGED <<market, rows, summed, moves, failures>>

\* COPY of the item rows; the rebuild commits them with its stage.
CopyItems(r) ==
    /\ runs[r].pc = "copy"
    /\ MustWait(r, Inserts(r)) = {} /\ Refused(r, Inserts(r)) = {}
    /\ runs' = [runs EXCEPT ![r].pc = "sum",
                            ![r].put = IF Staged(r) THEN {} ELSE runs[r].sees]
    /\ rows' = IF Staged(r) THEN After(r, {}, runs[r].sees) ELSE rows
    /\ UNCHANGED <<market, summed, torn, moves, failures>>

\* Mutant: the summary sums up what was computed, not what is stored.
SummariseComputed(r) ==
    /\ runs[r].pc = "sum"
    /\ runs' = [runs EXCEPT ![r].pc = "insert",
                   ![r].sum = [s \in Sources |-> [t \in Types |->
                       IF <<s, t>> \in runs[r].sees THEN r ELSE 0]]]
    /\ UNCHANGED <<market, rows, summed, torn, moves, failures>>

\* _summaries_for_sources: every item row of the sources in part, as this session
\* sees the table now, of whatever type and computed by whomever.
Summarise(r) ==
    /\ runs[r].pc = "sum"
    /\ LET seen == After(r, runs[r].gone, runs[r].put)
       IN  runs' = [runs EXCEPT ![r].pc = "insert",
                       ![r].sum = [s \in Sources |-> [t \in Types |->
                           IF s \in runs[r].part THEN seen[<<s, t>>] ELSE 0]]]
    /\ UNCHANGED <<market, rows, summed, torn, moves, failures>>

\* INSERT of the summaries, and the commit.
InsertSums(r) ==
    /\ runs[r].pc = "insert"
    /\ LET K == Inserts(r)
       IN  /\ MustWait(r, K) = {} /\ Refused(r, K) = {}
           /\ rows' = After(r, runs[r].gone, runs[r].put \cup K)
           /\ summed' = [s \in Sources |-> IF <<s>> \in K THEN runs[r].sum[s] ELSE summed[s]]
    /\ runs' = Rollback(r, "done")
    /\ torn' = (torn /\ ~(Whole(r) /\ runs[r].alone))
    /\ UNCHANGED <<market, moves, failures>>

-----------------------------------------------------------------------------
(* What else may happen to a computation                                   *)

\* The refresh that generated nothing prepares the period again.
Again(r) ==
    /\ runs[r].kind = "refresh" /\ runs[r].pc = "done" /\ runs[r].sees = {}
    /\ runs[r].part # {} /\ Selling(Sources, OnSale) # {}
    /\ runs' = [q \in Runs |->
           IF q = r THEN [NoRun EXCEPT !.pc = "items", !.kind = "miss", !.types = OnSale,
                                       !.part = Selling(Sources, OnSale),
                                       !.alone = Others(r) = {}]
           ELSE IF Busy(q) THEN [runs[q] EXCEPT !.alone = FALSE] ELSE runs[q]]
    /\ torn' = (torn \/ Others(r) # {})
    /\ UNCHANGED <<market, rows, summed, moves, failures>>

\* The rebuild polls before a scope and before each type it computes.
Cancel(r) ==
    /\ Staged(r) /\ runs[r].pc \in {"items", "copy"}
    /\ runs' = Rollback(r, "cancelled")
    /\ torn' = (torn \/ runs[r].pc = "copy")
    /\ UNCHANGED <<market, rows, summed, moves, failures>>

\* The process dies, or a statement fails: the open transaction is rolled back.
Fail(r) ==
    /\ Busy(r)
    /\ failures < MaxFailures /\ failures' = failures + 1
    /\ runs' = Rollback(r, "failed")
    /\ torn' = (torn \/ (Staged(r) /\ runs[r].pc \notin Deleting))
    /\ UNCHANGED <<market, rows, summed, moves>>

\* An import replaces the orders.
Move ==
    /\ moves < MaxMoves /\ moves' = moves + 1
    /\ market' \in Markets \ {market}
    /\ UNCHANGED <<rows, summed, runs, torn, failures>>

RunStep(r) ==
    \/ Delete(r) \/ DeleteWaited(r) \/ ReadMarket(r) \/ CopyItems(r) \/ Conflict(r)
    \/ Summarise(r) \/ InsertSums(r) \/ Again(r)

Next ==
    \/ \E r \in Runs, kind \in Kinds, s \in Sources, t \in Types : Begin(r, kind, s, t)
    \/ \E r \in Runs : RunStep(r) \/ Cancel(r) \/ Fail(r)
    \/ Move

Spec == Init /\ [][Next]_vars /\ \A r \in Runs : WF_vars(RunStep(r))

-----------------------------------------------------------------------------
(* Properties                                                              *)

ItemsOf(s) == [t \in Types |-> rows[<<s, t>>]]
Accord == \A s \in Sources :
    IF ItemsOf(s) = NoContent THEN rows[<<s>>] = 0
    ELSE rows[<<s>>] # 0 /\ summed[s] = ItemsOf(s)

\* Between its commits the rebuild shows a scope without items or summaries.
Midway == \E r \in Runs : Staged(r) /\ runs[r].pc \in Live \ Deleting

\* As long as writers come one after the other and none is cut short between commits,
\* each summary sums up exactly the items stored beside it, and no source has one
\* without the other -- although a page computes a single source or a single item.
SummariesMatchItems == torn \/ Midway \/ Accord

\* A computation of the whole scope that met no other leaves its own rows and nothing
\* else, with summaries to match, whatever was cancelled, lost, refused or mixed up
\* before it: the next undisturbed one repairs the scope.
Exact(r) ==
    /\ \A k \in Items : rows[k] = IF k \in runs[r].sees THEN r ELSE 0
    /\ Accord
WholeRunRepairs ==
    [][\A r \in Runs :
        Busy(r) /\ runs'[r].pc = "done" /\ Whole(r) /\ runs[r].alone => Exact(r)']_vars

\* No computation waits for ever: the rows they wait for never form a circle.
RunsEnd == \A r \in Runs : Busy(r) ~> ~Busy(r)

-----------------------------------------------------------------------------
(* The inductive invariant, proved in OpportunityTablesProofs              *)

\* A run that met no other is the only one at work, and as long as nothing is torn there
\* are no other runs.
OneAtWork ==
    /\ \A r \in Runs : Busy(r) /\ runs[r].alone => Others(r) = {}
    /\ ~torn => \A r \in Runs : Busy(r) => runs[r].alone

\* The rows that a run has deleted, if they were there, and those that it has put.
ItemsInScope(r) == IF Whole(r) THEN Items ELSE runs[r].part \X runs[r].types
SumsInScope(r) == IF Whole(r) THEN Sums ELSE {<<s>> : s \in runs[r].part}
Wiped(r) == CASE runs[r].pc = "items" -> {}
              [] runs[r].pc = "sums" -> ItemsInScope(r)
              [] OTHER -> ItemsInScope(r) \cup SumsInScope(r)
Stored(r) == IF runs[r].pc \in {"sum", "insert"} THEN runs[r].sees ELSE {}

\* What a run that met no other has done up to where it is: in the open transaction, or in
\* the table where the rebuild has committed it.
OnItsWay(r) ==
    /\ runs[r].pc \notin {"waitItems", "waitSums"}
    /\ runs[r].sees \subseteq runs[r].part \X runs[r].types
    /\ runs[r].pc \in Deleting \cup {"read"} => runs[r].sees = {}
    /\ runs[r].kind = "clear" => runs[r].pc \in Deleting
    /\ IF Staged(r) /\ runs[r].pc \notin Deleting
       THEN /\ runs[r].gone = {} /\ runs[r].put = {}
            /\ \A k \in Keys : rows[k] = IF k \in Stored(r) THEN r ELSE 0
       ELSE runs[r].gone = {k \in Wiped(r) : rows[k] # 0} /\ runs[r].put = Stored(r)

\* It has summed up what its session sees of its sources, and of no other.
HasSummed(r) ==
    runs[r].pc = "insert" => \A s \in Sources, t \in Types :
        runs[r].sum[s][t] = IF s \in runs[r].part
                            THEN After(r, runs[r].gone, runs[r].put)[<<s, t>>] ELSE 0

IInv ==
    /\ TablesTypeOK /\ OneAtWork
    /\ \A r \in Runs : Busy(r) /\ runs[r].alone => OnItsWay(r) /\ HasSummed(r)
    /\ SummariesMatchItems
=============================================================================
