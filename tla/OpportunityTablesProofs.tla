------------------------ MODULE OpportunityTablesProofs ------------------------
(***************************************************************************)
(* That summaries match items, and that a whole computation that met no    *)
(* other repairs the scope, for any sources, types, markets and number of  *)
(* computations.  The argument follows the one computation that is alone:  *)
(* what it has deleted and stored, in its open transaction or committed    *)
(* with a stage, is all that sets the tables apart from what they were     *)
(* when it began.  Then the figures that a computation stores, for every   *)
(* ladder of sell orders and every demand: sums over finite sets, what the *)
(* running sum takes of each order, and the price of the last it takes.    *)
(***************************************************************************)
EXTENDS OpportunityTables, TradeRules, Sequences, FiniteSetTheorems, WellFoundedInduction, TLAPS

-----------------------------------------------------------------------------
(* Keys and types                                                          *)

\* A key is of an item or of a summary, never of both.
LEMMA KeysAre ==
    /\ Items \subseteq Keys /\ Sums \subseteq Keys
    /\ \A k \in Items : k \notin Sums
    /\ \A s \in Sources : <<s>> \in Sums
    /\ \A s \in Sources, t \in Types : <<s, t>> \in Items
    /\ \A s, u : <<s>> = <<u>> => s = u
<1>1. \A k \in Items : \A s \in Sources : k # <<s>>
  <2> SUFFICES ASSUME NEW a \in Sources, NEW t \in Types, NEW s \in Sources
               PROVE  <<a, t>> # <<s>>
    BY DEF Items
  <2>1. Len(<<a, t>>) = 2 /\ Len(<<s>>) = 1
    OBVIOUS
  <2> QED
    BY <2>1
<1>2. \A s, u : <<s>> = <<u>> => s = u
  OBVIOUS
<1> QED
  BY <1>1, <1>2 DEF Keys, Sums, Items

\* The run numbers are numbers above 0, which stands for no row.
LEMMA RunsAre == \A r \in Runs : r \in 0..MaxRuns /\ r # 0
  BY TablesAssumption DEF Runs

\* A run that is not yet there, and no content, are typed.
LEMMA NothingTyped ==
    /\ NoRun \in Run /\ NoContent \in Content
    /\ NoRun.gone = {} /\ NoRun.put = {} /\ NoRun.sees = {} /\ NoRun.aim = {}
    /\ 0 \in 0..MaxRuns
<1>1. 0 \in 0..MaxRuns
  BY TablesAssumption
<1> QED
  BY <1>1 DEF NoRun, Run, NoContent, Content

\* What a run may delete, and what it sees of the tables when it has.
LEMMA ScopeIsKeys ==
    ASSUME TablesTypeOK, NEW r \in Runs
    PROVE  /\ ItemsInScope(r) \subseteq Items /\ SumsInScope(r) \subseteq Sums
           /\ ItemsInScope(r) \subseteq Keys /\ SumsInScope(r) \subseteq Keys
           /\ Doomed(r) = IF runs[r].pc \in {"items", "waitItems"} THEN ItemsInScope(r)
                          ELSE SumsInScope(r)
           /\ Doomed(r) \subseteq Keys
           /\ Whole(r) => ItemsInScope(r) = Items /\ SumsInScope(r) = Sums
<1>1. runs[r].part \subseteq Sources /\ runs[r].types \subseteq Types
  BY DEF TablesTypeOK, Run
<1>2. ItemsInScope(r) \subseteq Items /\ SumsInScope(r) \subseteq Sums
  BY <1>1 DEF ItemsInScope, SumsInScope, Items, Sums
<1> QED
  BY <1>2, KeysAre DEF Doomed, ItemsInScope, SumsInScope

\* Rows that are deleted and put are rows.
LEMMA AfterTyped ==
    ASSUME TablesTypeOK, NEW r \in Runs, NEW K, NEW P
    PROVE  /\ After(r, K, P) \in [Keys -> 0..MaxRuns]
           /\ \A k \in Keys : After(r, K, P)[k] = IF k \in P THEN r
                                                  ELSE IF k \in K THEN 0 ELSE rows[k]
  BY RunsAre, NothingTyped DEF After, TablesTypeOK

-----------------------------------------------------------------------------
(* One step of one run                                                     *)

\* A run that met no other has nobody to wait for.
LEMMA NobodyElse ==
    ASSUME OneAtWork, NEW r \in Runs, Busy(r), runs[r].alone
    PROVE  DeletedByOthers(r) = {}
  BY DEF OneAtWork, DeletedByOthers

\* What is left to show when one run takes a step.
LEMMA StepKeeps ==
    ASSUME IInv, NEW r \in Runs, Busy(r), NEW new \in Run, runs' = [runs EXCEPT ![r] = new],
           new.alone = runs[r].alone,
           market' \subseteq Items, rows' \in [Keys -> 0..MaxRuns],
           summed' \in [Sources -> Content], torn' \in BOOLEAN,
           moves' \in 0..MaxMoves, failures' \in 0..MaxFailures,
           torn /\ ~torn' => new.pc \notin Live /\ runs[r].alone,
           new.pc \in Live /\ new.alone => OnItsWay(r)' /\ HasSummed(r)',
           SummariesMatchItems'
    PROVE  IInv'
<1>0. TablesTypeOK /\ OneAtWork /\ runs \in [Runs -> Run]
  BY DEF IInv, TablesTypeOK
<1>1. /\ runs' \in [Runs -> Run] /\ runs'[r] = new
      /\ \A q \in Runs : q # r => runs'[q] = runs[q]
  BY <1>0
<1>2. TablesTypeOK'
  BY <1>1 DEF TablesTypeOK
<1>3. \A q \in Runs : Busy(q)' => Busy(q) /\ runs'[q].alone = runs[q].alone
  BY <1>1 DEF Busy
<1>4. OneAtWork'
  <2>1. \A q \in Runs : Others(q)' \subseteq Others(q)
    BY <1>3 DEF Others
  <2>2. \A q \in Runs : Busy(q)' /\ runs'[q].alone => Others(q)' = {}
    BY <1>0, <1>3, <2>1 DEF OneAtWork
  <2>3. ASSUME ~torn', NEW q \in Runs, Busy(q)' PROVE runs'[q].alone
    <3>1. CASE ~torn
      BY <1>0, <1>3, <2>3, <3>1 DEF OneAtWork
    <3>2. CASE torn
      <4>1. Others(r) = {} /\ new.pc \notin Live
        BY <1>0, <2>3, <3>2 DEF OneAtWork
      <4>2. q # r
        BY <1>1, <2>3, <4>1 DEF Busy
      <4>3. q \in Others(r)
        BY <1>3, <2>3, <4>2 DEF Others
      <4> QED
        BY <4>1, <4>3
    <3> QED
      BY <3>1, <3>2
  <2> QED
    BY <2>2, <2>3 DEF OneAtWork
<1>5. ASSUME NEW q \in Runs, Busy(q)', runs'[q].alone PROVE OnItsWay(q)' /\ HasSummed(q)'
  <2>1. CASE q = r
    BY <1>1, <1>5, <2>1 DEF Busy
  <2>2. CASE q # r
    <3>1. Busy(q) /\ runs[q].alone /\ r \in Others(q)
      BY <1>3, <1>5, <2>2 DEF Others
    <3> QED
      BY <1>0, <3>1 DEF OneAtWork
  <2> QED
    BY <2>1, <2>2
<1> QED
  BY <1>2, <1>4, <1>5 DEF IInv

\* Summaries go on to match as long as neither they nor the items are written, and the
\* rebuild does not leave its scope between two commits.
LEMMA MatchAtRest ==
    ASSUME TablesTypeOK, SummariesMatchItems, UNCHANGED <<rows, summed>>,
           NEW r \in Runs, NEW new, runs' = [runs EXCEPT ![r] = new],
           torn => torn',
           Staged(r) /\ runs[r].pc \in Live \ Deleting =>
               torn' \/ (new.kind = runs[r].kind /\ new.pc \in Live \ Deleting)
    PROVE  SummariesMatchItems'
<1>1. CASE torn'
  BY <1>1 DEF SummariesMatchItems
<1>2. CASE ~torn' /\ Accord
  BY <1>2 DEF SummariesMatchItems, Accord, ItemsOf
<1>3. CASE ~torn' /\ ~Accord
  <2>1. PICK q \in Runs : Staged(q) /\ runs[q].pc \in Live \ Deleting
    BY <1>3 DEF SummariesMatchItems, Midway
  <2>2. runs'[q] = IF q = r THEN new ELSE runs[q]
    BY DEF TablesTypeOK
  <2>3. Staged(q)' /\ runs'[q].pc \in Live \ Deleting
    BY <1>3, <2>1, <2>2 DEF Staged
  <2> QED
    BY <2>3 DEF SummariesMatchItems, Midway
<1> QED
  BY <1>1, <1>2, <1>3

-----------------------------------------------------------------------------
(* Computations begin                                                      *)

\* A computation that begins has met those at work, and they it.
LEMMA StartKeeps ==
    ASSUME IInv, NEW r \in Runs, ~Busy(r), NEW new \in Run,
           new.pc \in {"items", "done"}, new.gone = {}, new.put = {}, new.sees = {},
           new.alone = (Others(r) = {}),
           runs' = [q \in Runs |-> IF q = r THEN new
                                   ELSE IF Busy(q) THEN [runs[q] EXCEPT !.alone = FALSE]
                                   ELSE runs[q]],
           torn' = (torn \/ Others(r) # {}),
           UNCHANGED <<market, rows, summed, moves, failures>>
    PROVE  IInv'
<1>0. TablesTypeOK /\ OneAtWork /\ runs \in [Runs -> Run] /\ torn \in BOOLEAN
  BY DEF IInv, TablesTypeOK
<1>1. /\ runs'[r] = new
      /\ \A q \in Runs : q # r => /\ runs'[q].pc = runs[q].pc
                                  /\ Busy(q) => ~runs'[q].alone
                                  /\ runs'[q] \in Run
  <2>1. \A q \in Runs : runs[q] \in Run
    BY <1>0
  <2>2. \A q \in Runs : /\ [runs[q] EXCEPT !.alone = FALSE] \in Run
                        /\ [runs[q] EXCEPT !.alone = FALSE].pc = runs[q].pc
                        /\ ~[runs[q] EXCEPT !.alone = FALSE].alone
    BY <2>1 DEF Run
  <2> QED
    BY <2>1, <2>2
<1>2. TablesTypeOK'
  <2>1. runs' \in [Runs -> Run]
    BY <1>1
  <2>2. torn' \in BOOLEAN
    BY <1>0
  <2> QED
    BY <1>0, <2>1, <2>2 DEF TablesTypeOK
<1>3. \A q \in Runs : q # r => (Busy(q)' <=> Busy(q))
  BY <1>1 DEF Busy
<1>4. Others(r)' = Others(r)
  BY <1>3 DEF Others
<1>5. \A q \in Runs : Busy(q)' /\ runs'[q].alone => q = r /\ Others(r) = {}
  BY <1>1, <1>3
<1>6. OneAtWork'
  <2>1. ASSUME ~torn', NEW q \in Runs, Busy(q)' PROVE runs'[q].alone
    <3>1. Others(r) = {}
      BY <2>1
    <3>2. q = r
      BY <1>3, <2>1, <3>1 DEF Others
    <3> QED
      BY <1>1, <3>1, <3>2
  <2> QED
    BY <1>4, <1>5, <2>1 DEF OneAtWork
<1>7. ASSUME NEW q \in Runs, Busy(q)', runs'[q].alone PROVE OnItsWay(q)' /\ HasSummed(q)'
  <2>1. q = r /\ runs'[r] = new /\ new.pc = "items"
    BY <1>1, <1>5, <1>7 DEF Busy, Live, Deleting
  <2>2. Wiped(r)' = {} /\ Stored(r)' = {}
    BY <2>1 DEF Wiped, Stored
  <2> QED
    BY <2>1, <2>2 DEF OnItsWay, HasSummed, Deleting
<1>8. SummariesMatchItems'
  <2> SUFFICES ASSUME ~torn' PROVE Accord'
    BY DEF SummariesMatchItems
  <2>1. ~torn /\ Others(r) = {}
    OBVIOUS
  <2>2. \A q \in Runs : ~Busy(q)
    BY <2>1 DEF Others
  <2>3. Accord
    BY <2>1, <2>2 DEF IInv, SummariesMatchItems, Midway, Busy
  <2> QED
    BY <2>3 DEF Accord, ItemsOf
<1> QED
  BY <1>2, <1>6, <1>7, <1>8 DEF IInv

\* What is computed, and for which sources, are types and sources.
LEMMA ScopesTyped ==
    ASSUME TablesTypeOK
    PROVE  /\ OnSale \subseteq Types
           /\ \A S, T : S \subseteq Sources => Selling(S, T) \subseteq Sources
           /\ \A kind : \A t \in Types : TypesOf(kind, t) \subseteq Types
           /\ \A kind, T : \A s \in Sources : PartOf(kind, s, T) \subseteq Sources
<1>1. OnSale \subseteq Types
  <2> SUFFICES ASSUME NEW k \in market PROVE k[2] \in Types
    BY DEF OnSale
  <2> QED
    BY DEF TablesTypeOK, Items
<1>2. \A S, T : S \subseteq Sources => Selling(S, T) \subseteq Sources
  BY DEF Selling
<1>3. Known \subseteq Sources
  BY TablesAssumption
<1>4. \A kind : \A t \in Types : TypesOf(kind, t) \subseteq Types
  BY <1>1 DEF TypesOf
<1>5. \A kind, T : \A s \in Sources : PartOf(kind, s, T) \subseteq Sources
  BY <1>2, <1>3 DEF PartOf
<1> QED
  BY <1>1, <1>2, <1>4, <1>5

\* A page, a button or the rebuild begins a computation.
LEMMA BeginKeeps ==
    ASSUME IInv, NEW r \in Runs, NEW kind \in Kinds, NEW s \in Sources, NEW t \in Types,
           Begin(r, kind, s, t)
    PROVE  IInv'
<1> DEFINE T == TypesOf(kind, t)
           P == PartOf(kind, s, T)
           new == [NoRun EXCEPT !.pc = IF P = {} THEN "done" ELSE "items",
                                !.kind = kind, !.part = P, !.types = T,
                                !.alone = Others(r) = {}]
<1>1. TablesTypeOK /\ ~Busy(r)
  BY DEF IInv, Begin, Busy, Live, Deleting
<1>2. T \subseteq Types /\ P \subseteq Sources
  <2>1. T \subseteq Types
    BY <1>1, ScopesTyped
  <2> HIDE DEF T
  <2>2. P \subseteq Sources
    BY <1>1, ScopesTyped
  <2> QED
    BY <2>1, <2>2
<1> HIDE DEF T, P
<1>3. new \in Run
  BY <1>2, NothingTyped DEF Run, Over, Live, Deleting
<1>4. /\ new.pc \in {"items", "done"} /\ new.gone = {} /\ new.put = {} /\ new.sees = {}
      /\ new.alone = (Others(r) = {})
  BY NothingTyped DEF NoRun
<1>5. /\ runs' = [q \in Runs |-> IF q = r THEN new
                                   ELSE IF Busy(q) THEN [runs[q] EXCEPT !.alone = FALSE]
                                   ELSE runs[q]]
      /\ torn' = (torn \/ Others(r) # {})
      /\ UNCHANGED <<market, rows, summed, moves, failures>>
  BY DEF Begin, T, P
<1> HIDE DEF new
<1> QED
  BY <1>1, <1>3, <1>4, <1>5, StartKeeps

\* The refresh prepares the period again.
LEMMA AgainKeeps ==
    ASSUME IInv, NEW r \in Runs, Again(r)
    PROVE  IInv'
<1> DEFINE P == Selling(Sources, OnSale)
           new == [NoRun EXCEPT !.pc = "items", !.kind = "miss", !.types = OnSale,
                                !.part = P, !.alone = Others(r) = {}]
<1>1. TablesTypeOK /\ ~Busy(r)
  BY DEF IInv, Again, Busy, Live, Deleting
<1>2. OnSale \subseteq Types /\ P \subseteq Sources
  BY <1>1, ScopesTyped
<1>3. /\ runs' = [q \in Runs |-> IF q = r THEN new
                                   ELSE IF Busy(q) THEN [runs[q] EXCEPT !.alone = FALSE]
                                   ELSE runs[q]]
      /\ torn' = (torn \/ Others(r) # {})
      /\ UNCHANGED <<market, rows, summed, moves, failures>>
  BY DEF Again
<1> HIDE DEF P
<1>4. new \in Run
  BY <1>2, NothingTyped DEF Run, Over, Live, Deleting
<1>5. /\ new.pc \in {"items", "done"} /\ new.gone = {} /\ new.put = {} /\ new.sees = {}
      /\ new.alone = (Others(r) = {})
  BY NothingTyped DEF NoRun
<1> HIDE DEF new
<1> QED
  BY <1>1, <1>3, <1>4, <1>5, StartKeeps

-----------------------------------------------------------------------------
(* Computations stop                                                       *)

\* A computation that is rolled back leaves the tables as they are; the rebuild between
\* two of its commits leaves them torn.
LEMMA RollbackKeeps ==
    ASSUME IInv, NEW r \in Runs, Busy(r), NEW pc \in Over, runs' = Rollback(r, pc),
           torn' \in BOOLEAN, torn => torn',
           Staged(r) /\ runs[r].pc \in Live \ Deleting => torn',
           UNCHANGED <<market, rows, summed, moves>>, failures' \in 0..MaxFailures
    PROVE  IInv'
<1> DEFINE new == [runs[r] EXCEPT !.pc = pc, !.gone = {}, !.put = {}, !.aim = {}]
<1>1. TablesTypeOK /\ runs[r] \in Run /\ runs \in [Runs -> Run]
  BY DEF IInv, TablesTypeOK
<1>2. new \in Run /\ new.alone = runs[r].alone /\ new.pc = pc
  BY <1>1 DEF Run
<1>3. runs' = [runs EXCEPT ![r] = new]
  BY <1>1 DEF Rollback
<1>4. new.pc \notin Live
  BY <1>2 DEF Over, Live, Deleting
<1> HIDE DEF new
<1>5. SummariesMatchItems
  BY DEF IInv
<1>6. SummariesMatchItems'
  BY <1>1, <1>3, <1>5, MatchAtRest
<1>7. /\ market' \subseteq Items /\ rows' \in [Keys -> 0..MaxRuns]
      /\ summed' \in [Sources -> Content] /\ moves' \in 0..MaxMoves
  BY <1>1 DEF TablesTypeOK
<1>8. torn /\ ~torn' => new.pc \notin Live /\ runs[r].alone
  OBVIOUS
<1>9. new.pc \in Live /\ new.alone => OnItsWay(r)' /\ HasSummed(r)'
  BY <1>4
<1> QED
  BY <1>2, <1>3, <1>6, <1>7, <1>8, <1>9, StepKeeps

\* A computation is refused, cancelled or dies.
LEMMA StopKeeps ==
    ASSUME IInv, NEW r \in Runs, Conflict(r) \/ Cancel(r) \/ Fail(r)
    PROVE  IInv'
<1>1. /\ torn \in BOOLEAN /\ failures \in 0..MaxFailures
      /\ {"failed", "cancelled"} \subseteq Over
  BY DEF IInv, TablesTypeOK, Over
<1>2. CASE Conflict(r)
  <2>1. Busy(r) /\ (Staged(r) /\ runs[r].pc \in Live \ Deleting => torn')
    BY <1>2 DEF Conflict, Busy, Live
  <2> QED
    BY <1>1, <1>2, <2>1, RollbackKeeps DEF Conflict
<1>3. CASE Cancel(r)
  <2>1. Busy(r) /\ (Staged(r) /\ runs[r].pc \in Live \ Deleting => torn')
    BY <1>3 DEF Cancel, Busy, Live, Deleting
  <2> QED
    BY <1>1, <1>3, <2>1, RollbackKeeps DEF Cancel
<1>4. CASE Fail(r)
  <2>1. Busy(r) /\ (Staged(r) /\ runs[r].pc \in Live \ Deleting => torn')
    BY <1>4 DEF Fail
  <2>2. failures' \in 0..MaxFailures
    BY <1>1, <1>4, TablesAssumption DEF Fail
  <2> QED
    BY <1>1, <1>4, <2>1, <2>2, RollbackKeeps DEF Fail
<1> QED
  BY <1>2, <1>3, <1>4

-----------------------------------------------------------------------------
(* Reading, storing and summing up                                         *)

\* What a computation that met no other sees of the tables, and what they will be when
\* it commits: its own rows, and none of those in its scope that were there.
LEMMA View ==
    ASSUME TablesTypeOK, NEW r \in Runs, Busy(r), runs[r].pc \notin Deleting, OnItsWay(r),
           NEW P, NEW Q, NEW k \in Keys,
           k \in Q <=> k \in runs[r].put \/ k \in P
    PROVE  After(r, runs[r].gone, Q)[k] =
               IF k \in Stored(r) \/ k \in P THEN r ELSE IF k \in Wiped(r) THEN 0 ELSE rows[k]
<1> DEFINE gone == runs[r].gone
           put == runs[r].put
<1>1. After(r, gone, Q)[k] = IF k \in put \/ k \in P THEN r
                             ELSE IF k \in gone THEN 0 ELSE rows[k]
  BY AfterTyped
<1>2. CASE Staged(r)
  <2>1. Whole(r)
    BY <1>2 DEF Staged, Whole
  <2>2. ItemsInScope(r) \cup SumsInScope(r) = Keys
    BY <2>1, ScopeIsKeys DEF Keys
  <2>3. k \in Wiped(r)
    BY <2>2 DEF Wiped, Deleting
  <2>4. gone = {} /\ put = {} /\ rows[k] = IF k \in Stored(r) THEN r ELSE 0
    BY <1>2 DEF OnItsWay
  <2> QED
    BY <1>1, <2>3, <2>4
<1>3. CASE ~Staged(r)
  <2>1. gone = {q \in Wiped(r) : rows[q] # 0} /\ put = Stored(r)
    BY <1>3 DEF OnItsWay
  <2> QED
    BY <1>1, <2>1
<1> QED
  BY <1>2, <1>3

\* A computation reads the orders of its sources and types.
LEMMA ReadKeeps ==
    ASSUME IInv, NEW r \in Runs, ReadMarket(r)
    PROVE  IInv'
<1> DEFINE sees == Orders(r)
           new == [runs[r] EXCEPT !.pc = "copy", !.sees = sees]
<1>1. /\ TablesTypeOK /\ runs[r] \in Run /\ runs \in [Runs -> Run]
      /\ Busy(r) /\ runs[r].pc = "read"
  BY DEF IInv, TablesTypeOK, ReadMarket, Busy, Live
<1>2. sees \subseteq runs[r].part \X runs[r].types /\ sees \subseteq Items
  BY <1>1 DEF Orders, TablesTypeOK
<1>3. runs' = [runs EXCEPT ![r] = new]
  BY <1>1 DEF ReadMarket
<1> HIDE DEF sees
<1>4. /\ new \in Run /\ new.pc = "copy" /\ new.sees = sees
      /\ \A f \in {"alone", "kind", "part", "types", "gone", "put", "sum"} :
             new[f] = runs[r][f]
  BY <1>1, <1>2 DEF Run, Live
<1>5. runs'[r] = new
  BY <1>1, <1>3
<1> HIDE DEF new
<1>6. UNCHANGED <<market, rows, summed, torn, moves, failures>>
  BY DEF ReadMarket
<1>7. SummariesMatchItems'
  <2>1. SummariesMatchItems /\ new.pc \in Live \ Deleting /\ new.kind = runs[r].kind
    BY <1>4 DEF IInv, Live, Deleting
  <2> QED
    BY <1>1, <1>3, <1>6, <2>1, MatchAtRest
<1>8. ASSUME new.alone PROVE OnItsWay(r)' /\ HasSummed(r)'
  <2>1. OnItsWay(r)
    BY <1>1, <1>4, <1>8 DEF IInv
  <2>2. HasSummed(r)'
    BY <1>4, <1>5 DEF HasSummed
  <2>3. Staged(r)' = Staged(r) /\ Wiped(r)' = Wiped(r)
    BY <1>1, <1>4, <1>5 DEF Staged, Wiped, ItemsInScope, SumsInScope, Whole
  <2>4. Stored(r)' = {} /\ Stored(r) = {}
    BY <1>1, <1>4, <1>5 DEF Stored
  <2>5. OnItsWay(r)'
    BY <1>1, <1>2, <1>4, <1>5, <1>6, <2>1, <2>3, <2>4 DEF OnItsWay, Deleting
  <2> QED
    BY <2>2, <2>5
<1>9. /\ market' \subseteq Items /\ rows' \in [Keys -> 0..MaxRuns]
      /\ summed' \in [Sources -> Content] /\ torn' \in BOOLEAN
      /\ moves' \in 0..MaxMoves /\ failures' \in 0..MaxFailures
  BY <1>1, <1>6 DEF TablesTypeOK
<1> QED
  BY <1>1, <1>3, <1>4, <1>6, <1>7, <1>8, <1>9, StepKeeps

\* A computation stores its items, and the rebuild commits them.
LEMMA CopyKeeps ==
    ASSUME IInv, NEW r \in Runs, CopyItems(r)
    PROVE  IInv'
<1> DEFINE put == IF Staged(r) THEN {} ELSE runs[r].sees
           new == [runs[r] EXCEPT !.pc = "sum", !.put = put]
<1>1. /\ TablesTypeOK /\ runs[r] \in Run /\ runs \in [Runs -> Run]
      /\ Busy(r) /\ runs[r].pc = "copy" /\ runs[r].sees \subseteq Items
  BY DEF IInv, TablesTypeOK, CopyItems, Busy, Live, Run
<1>2. put \subseteq Keys
  BY <1>1, KeysAre
<1>3. /\ runs' = [runs EXCEPT ![r] = new]
      /\ rows' = IF Staged(r) THEN After(r, {}, runs[r].sees) ELSE rows
      /\ UNCHANGED <<market, summed, torn, moves, failures>>
  BY <1>1 DEF CopyItems
<1>4. put = IF Staged(r) THEN {} ELSE runs[r].sees
  OBVIOUS
<1> HIDE DEF put
<1>5. /\ new \in Run /\ new.pc = "sum" /\ new.put = put
      /\ \A f \in {"alone", "kind", "part", "types", "gone", "sees", "sum"} :
             new[f] = runs[r][f]
  BY <1>1, <1>2 DEF Run, Live
<1>6. runs'[r] = new
  BY <1>1, <1>3
<1> HIDE DEF new
<1>7. rows' \in [Keys -> 0..MaxRuns]
  <2>1. rows \in [Keys -> 0..MaxRuns] /\ After(r, {}, runs[r].sees) \in [Keys -> 0..MaxRuns]
    BY <1>1, AfterTyped DEF TablesTypeOK
  <2> QED
    BY <1>3, <2>1
<1>8. SummariesMatchItems'
  <2>1. CASE Staged(r)
    <3>1. Midway'
      BY <1>5, <1>6, <2>1 DEF Midway, Staged, Live, Deleting
    <3> QED
      BY <3>1 DEF SummariesMatchItems
  <2>2. CASE ~Staged(r)
    <3>1. SummariesMatchItems /\ UNCHANGED <<rows, summed>> /\ (torn => torn')
      BY <1>3, <2>2 DEF IInv
    <3> QED
      BY <1>1, <1>3, <2>2, <3>1, MatchAtRest
  <2> QED
    BY <2>1, <2>2
<1>9. ASSUME new.alone PROVE OnItsWay(r)' /\ HasSummed(r)'
  <2>1. OnItsWay(r)
    BY <1>1, <1>5, <1>9 DEF IInv
  <2>2. HasSummed(r)'
    BY <1>5, <1>6 DEF HasSummed
  <2>3. Staged(r)' = Staged(r) /\ Wiped(r)' = Wiped(r)
    BY <1>1, <1>5, <1>6 DEF Staged, Wiped, ItemsInScope, SumsInScope, Whole
  <2>4. Stored(r)' = runs[r].sees /\ Stored(r) = {}
    BY <1>1, <1>5, <1>6 DEF Stored
  <2>5. CASE Staged(r)
    <3>1. runs[r].gone = {} /\ \A k \in Keys : rows[k] = 0
      BY <1>1, <2>1, <2>4, <2>5 DEF OnItsWay, Deleting
    <3>2. \A k \in Keys : rows'[k] = IF k \in runs[r].sees THEN r ELSE 0
      BY <1>1, <1>3, <2>5, <3>1, AfterTyped
    <3> QED
      BY <1>1, <1>4, <1>5, <1>6, <2>1, <2>2, <2>3, <2>4, <2>5, <3>1, <3>2
         DEF OnItsWay, Deleting
  <2>6. CASE ~Staged(r)
    BY <1>1, <1>3, <1>4, <1>5, <1>6, <2>1, <2>2, <2>3, <2>4, <2>6 DEF OnItsWay, Deleting
  <2> QED
    BY <2>5, <2>6
<1>10. /\ market' \subseteq Items
       /\ summed' \in [Sources -> Content] /\ torn' \in BOOLEAN
       /\ moves' \in 0..MaxMoves /\ failures' \in 0..MaxFailures
  BY <1>1, <1>3 DEF TablesTypeOK
<1> QED
  BY <1>1, <1>3, <1>5, <1>7, <1>8, <1>9, <1>10, StepKeeps

\* A computation sums up what its session sees.
LEMMA SummariseKeeps ==
    ASSUME IInv, NEW r \in Runs, Summarise(r)
    PROVE  IInv'
<1> DEFINE seen == After(r, runs[r].gone, runs[r].put)
           sum == [s \in Sources |-> [t \in Types |->
                      IF s \in runs[r].part THEN seen[<<s, t>>] ELSE 0]]
           new == [runs[r] EXCEPT !.pc = "insert", !.sum = sum]
<1>1. /\ TablesTypeOK /\ runs[r] \in Run /\ runs \in [Runs -> Run]
      /\ Busy(r) /\ runs[r].pc = "sum"
  BY DEF IInv, TablesTypeOK, Summarise, Busy, Live, Run
<1>2. sum \in [Sources -> Content]
  <2>1. seen \in [Keys -> 0..MaxRuns] /\ 0 \in 0..MaxRuns
    BY <1>1, AfterTyped, NothingTyped
  <2>2. \A s \in Sources, t \in Types : <<s, t>> \in Keys
    BY KeysAre
  <2> HIDE DEF seen
  <2> QED
    BY <2>1, <2>2 DEF Content
<1>3. /\ runs' = [runs EXCEPT ![r] = new]
      /\ UNCHANGED <<market, rows, summed, torn, moves, failures>>
  BY <1>1 DEF Summarise
<1>4. \A s \in Sources, t \in Types : sum[s][t] = IF s \in runs[r].part
                                                 THEN seen[<<s, t>>] ELSE 0
  OBVIOUS
<1> HIDE DEF sum
<1>5. /\ new \in Run /\ new.pc = "insert" /\ new.sum = sum
      /\ \A f \in {"alone", "kind", "part", "types", "gone", "sees", "put"} :
             new[f] = runs[r][f]
  BY <1>1, <1>2 DEF Run, Live
<1>6. runs'[r] = new
  BY <1>1, <1>3
<1> HIDE DEF new
<1>7. SummariesMatchItems'
  <2>1. SummariesMatchItems /\ new.pc \in Live \ Deleting /\ new.kind = runs[r].kind
    BY <1>5 DEF IInv, Live, Deleting
  <2> QED
    BY <1>1, <1>3, <2>1, MatchAtRest
<1>8. ASSUME new.alone PROVE OnItsWay(r)' /\ HasSummed(r)'
  <2>1. OnItsWay(r)
    BY <1>1, <1>5, <1>8 DEF IInv
  <2>2. HasSummed(r)'
    <3>1. After(r, runs[r].gone, runs[r].put)' = seen
      BY <1>3, <1>5, <1>6 DEF After
    <3> HIDE DEF seen
    <3> QED
      BY <1>4, <1>5, <1>6, <3>1 DEF HasSummed
  <2>3. Staged(r)' = Staged(r) /\ Wiped(r)' = Wiped(r)
    BY <1>1, <1>5, <1>6 DEF Staged, Wiped, ItemsInScope, SumsInScope, Whole
  <2>4. Stored(r)' = Stored(r)
    BY <1>1, <1>5, <1>6 DEF Stored
  <2>5. OnItsWay(r)'
    BY <1>1, <1>3, <1>5, <1>6, <2>1, <2>3, <2>4 DEF OnItsWay, Deleting
  <2> QED
    BY <2>2, <2>5
<1>9. /\ market' \subseteq Items /\ rows' \in [Keys -> 0..MaxRuns]
      /\ summed' \in [Sources -> Content] /\ torn' \in BOOLEAN
      /\ moves' \in 0..MaxMoves /\ failures' \in 0..MaxFailures
  BY <1>1, <1>3 DEF TablesTypeOK
<1> QED
  BY <1>1, <1>3, <1>5, <1>7, <1>8, <1>9, StepKeeps

-----------------------------------------------------------------------------
(* Storing the summaries                                                   *)

\* What a computation that met no other commits: its own rows in the place of those of
\* its scope, and a summary for each source that has items.
LEMMA Committed ==
    ASSUME TablesTypeOK, NEW r \in Runs, InsertSums(r), OnItsWay(r), HasSummed(r)
    PROVE  /\ \A k \in Items : rows'[k] = IF k \in runs[r].sees THEN r
                                          ELSE IF k \in ItemsInScope(r) THEN 0 ELSE rows[k]
           /\ \A s \in Sources : rows'[<<s>>] = IF runs[r].sum[s] # NoContent THEN r
                                                ELSE IF <<s>> \in SumsInScope(r) THEN 0
                                                ELSE rows[<<s>>]
           /\ \A s \in Sources : summed'[s] = IF runs[r].sum[s] # NoContent
                                              THEN runs[r].sum[s] ELSE summed[s]
           /\ \A s \in Sources : runs[r].sum[s] = IF s \in runs[r].part THEN ItemsOf(s)'
                                                  ELSE NoContent
           /\ runs[r].sees \subseteq runs[r].part \X runs[r].types
           /\ runs[r].sees \subseteq Items
<1> DEFINE K == Inserts(r)
           P == runs[r].put \cup K
           Q == runs[r].put
           G == runs[r].gone
           I == ItemsInScope(r)
           U == SumsInScope(r)
<1>1. /\ runs[r].pc = "insert" /\ Busy(r) /\ runs[r].pc \notin Deleting
      /\ runs[r] \in Run
      /\ runs[r].sees \subseteq Items /\ runs[r].sees \subseteq runs[r].part \X runs[r].types
  BY DEF InsertSums, Busy, Live, Deleting, TablesTypeOK, Run, OnItsWay
<1>0. TablesTypeOK /\ Busy(r) /\ runs[r].pc \notin Deleting /\ OnItsWay(r)
  BY <1>1
<1>2. \A k : k \in K <=> \E s \in Sources : k = <<s>> /\ runs[r].sum[s] # NoContent
  BY <1>1 DEF Inserts
<1>3. Wiped(r) = I \cup U /\ Stored(r) = runs[r].sees
  BY <1>1 DEF Wiped, Stored
<1>4. rows' = After(r, G, P)
  BY DEF InsertSums
<1>5. \A k \in Keys : rows'[k] = IF k \in runs[r].sees \cup K THEN r
                                 ELSE IF k \in I \cup U THEN 0 ELSE rows[k]
  <2> SUFFICES ASSUME NEW k \in Keys
               PROVE  rows'[k] = IF k \in runs[r].sees \cup K THEN r
                                 ELSE IF k \in I \cup U THEN 0 ELSE rows[k]
    OBVIOUS
  <2>0. k \in P <=> k \in runs[r].put \/ k \in K
    OBVIOUS
  <2> HIDE DEF K, I, U, P
  <2>1. After(r, G, P)[k] = IF k \in Stored(r) \/ k \in K THEN r
                            ELSE IF k \in Wiped(r) THEN 0 ELSE rows[k]
    BY <1>0, <2>0, View
  <2> QED
    BY <1>3, <1>4, <2>1
<1>6. \A k \in Keys : After(r, G, Q)[k] = IF k \in runs[r].sees THEN r
                                           ELSE IF k \in I \cup U THEN 0 ELSE rows[k]
  <2> SUFFICES ASSUME NEW k \in Keys
               PROVE  After(r, G, Q)[k] = IF k \in runs[r].sees THEN r
                                          ELSE IF k \in I \cup U THEN 0 ELSE rows[k]
    OBVIOUS
  <2>0. k \in Q <=> k \in runs[r].put \/ k \in {}
    OBVIOUS
  <2> HIDE DEF K, I, U, Q
  <2>1. After(r, G, Q)[k] = IF k \in Stored(r) \/ k \in {} THEN r
                            ELSE IF k \in Wiped(r) THEN 0 ELSE rows[k]
    BY <1>0, <2>0, View
  <2> QED
    BY <1>3, <2>1
<1>7. I \subseteq Items /\ U \subseteq Sums
  BY ScopeIsKeys
<1>8. \A k \in Items : k \notin K /\ k \notin U /\ k \in Keys
  BY <1>2, <1>7, KeysAre
<1>9. \A k \in Items : rows'[k] = IF k \in runs[r].sees THEN r
                                  ELSE IF k \in I THEN 0 ELSE rows[k]
  <2> HIDE DEF K, I, U
  <2> QED
    BY <1>5, <1>8
<1>10. \A k \in Items : After(r, G, Q)[k] = rows'[k]
  <2> HIDE DEF K, I, U
  <2> QED
    BY <1>5, <1>6, <1>8
<1>11. \A s \in Sources : /\ <<s>> \in Keys /\ <<s>> \notin runs[r].sees /\ <<s>> \notin I
                          /\ <<s>> \in K <=> runs[r].sum[s] # NoContent
  <2>1. \A s \in Sources : <<s>> \in K <=> runs[r].sum[s] # NoContent
    <3> HIDE DEF K
    <3> QED
      BY <1>2, KeysAre
  <2>2. \A s \in Sources : <<s>> \in Keys /\ <<s>> \notin runs[r].sees /\ <<s>> \notin I
    BY <1>1, <1>7, KeysAre
  <2> QED
    BY <2>1, <2>2
<1>12. \A s \in Sources : rows'[<<s>>] = IF runs[r].sum[s] # NoContent THEN r
                                         ELSE IF <<s>> \in U THEN 0 ELSE rows[<<s>>]
  <2> HIDE DEF K, I, U
  <2> QED
    BY <1>5, <1>11
<1>13. \A s \in Sources : summed'[s] = IF runs[r].sum[s] # NoContent
                                       THEN runs[r].sum[s] ELSE summed[s]
  <2>1. summed' = [s \in Sources |-> IF <<s>> \in K THEN runs[r].sum[s] ELSE summed[s]]
    BY DEF InsertSums
  <2> HIDE DEF K
  <2> QED
    BY <1>11, <2>1
<1>14. \A s \in Sources : runs[r].sum[s] = IF s \in runs[r].part THEN ItemsOf(s)'
                                           ELSE NoContent
  <2> SUFFICES ASSUME NEW s \in Sources
               PROVE  runs[r].sum[s] = IF s \in runs[r].part THEN ItemsOf(s)' ELSE NoContent
    OBVIOUS
  <2>1. runs[r].sum[s] \in [Types -> 0..MaxRuns]
    BY <1>1 DEF Run, Content
  <2>2. \A t \in Types : runs[r].sum[s][t] = IF s \in runs[r].part
                                            THEN After(r, G, Q)[<<s, t>>] ELSE 0
    BY <1>1 DEF HasSummed
  <2>3. \A t \in Types : After(r, G, Q)[<<s, t>>] = rows'[<<s, t>>]
    BY <1>10, KeysAre
  <2>4. \A t \in Types : runs[r].sum[s][t] = IF s \in runs[r].part THEN rows'[<<s, t>>] ELSE 0
    BY <2>2, <2>3
  <2>5. ItemsOf(s)' = [t \in Types |-> rows'[<<s, t>>]]
    BY DEF ItemsOf
  <2> QED
    BY <2>1, <2>4, <2>5 DEF NoContent
<1> QED
  BY <1>1, <1>9, <1>12, <1>13, <1>14

\* A source that a computation has summed up has a summary if it has items.
LEMMA PartAccords ==
    ASSUME TablesTypeOK, NEW r \in Runs, InsertSums(r), OnItsWay(r), HasSummed(r),
           NEW s \in Sources, s \in runs[r].part
    PROVE  IF ItemsOf(s)' = NoContent THEN rows'[<<s>>] = 0
           ELSE rows'[<<s>>] # 0 /\ summed'[s] = ItemsOf(s)'
<1>1. /\ rows'[<<s>>] = IF runs[r].sum[s] # NoContent THEN r
                        ELSE IF <<s>> \in SumsInScope(r) THEN 0 ELSE rows[<<s>>]
      /\ summed'[s] = IF runs[r].sum[s] # NoContent THEN runs[r].sum[s] ELSE summed[s]
      /\ runs[r].sum[s] = ItemsOf(s)'
  BY Committed
<1>2. <<s>> \in SumsInScope(r)
  BY KeysAre DEF SumsInScope
<1>3. r # 0
  BY RunsAre
<1> QED
  BY <1>1, <1>2, <1>3

\* A computation of the whole scope that met no other leaves what it found and no more.
LEMMA InsertRepairs ==
    ASSUME TablesTypeOK, NEW r \in Runs, InsertSums(r), OnItsWay(r), HasSummed(r), Whole(r)
    PROVE  Exact(r)'
<1>1. ItemsInScope(r) = Items /\ SumsInScope(r) = Sums
  BY ScopeIsKeys
<1>2. runs[r].sees \subseteq runs[r].part \X runs[r].types
  BY Committed
<1>3. \A k \in Items : rows'[k] = IF k \in runs[r].sees THEN r ELSE 0
  BY <1>1, Committed
<1>4. runs'[r].sees = runs[r].sees
  BY DEF InsertSums, Rollback, TablesTypeOK, Run
<1>5. ASSUME NEW s \in Sources, s \notin runs[r].part
      PROVE  ItemsOf(s)' = NoContent /\ rows'[<<s>>] = 0
  <2>1. \A t \in Types : rows'[<<s, t>>] = 0
    <3>1. \A t \in Types : <<s, t>> \notin runs[r].sees
      BY <1>2, <1>5
    <3> QED
      BY <1>3, <3>1, KeysAre
  <2>2. ItemsOf(s)' = NoContent
    BY <2>1 DEF ItemsOf, NoContent
  <2>3. runs[r].sum[s] = NoContent /\ <<s>> \in Sums
    BY <1>5, Committed, KeysAre
  <2>4. rows'[<<s>>] = 0
    BY <1>1, <2>3, Committed
  <2> QED
    BY <2>2, <2>4
<1>6. Accord'
  <2>1. \A s \in Sources : IF ItemsOf(s)' = NoContent THEN rows'[<<s>>] = 0
                           ELSE rows'[<<s>>] # 0 /\ summed'[s] = ItemsOf(s)'
    BY <1>5, PartAccords
  <2> QED
    BY <2>1 DEF Accord
<1> QED
  BY <1>3, <1>4, <1>6 DEF Exact

\* A computation of some sources leaves the others as they are.
LEMMA InsertAccords ==
    ASSUME TablesTypeOK, NEW r \in Runs, InsertSums(r), OnItsWay(r), HasSummed(r), ~Whole(r),
           Accord
    PROVE  Accord'
<1>1. runs[r].sees \subseteq runs[r].part \X runs[r].types
  BY Committed
<1>2. ASSUME NEW s \in Sources, s \notin runs[r].part
      PROVE  /\ ItemsOf(s)' = ItemsOf(s)
             /\ rows'[<<s>>] = rows[<<s>>] /\ summed'[s] = summed[s]
  <2>1. \A t \in Types : rows'[<<s, t>>] = rows[<<s, t>>]
    <3>1. \A t \in Types : <<s, t>> \notin runs[r].sees
      BY <1>1, <1>2
    <3>2. \A t \in Types : <<s, t>> \notin ItemsInScope(r)
      BY <1>2 DEF ItemsInScope
    <3> QED
      BY <3>1, <3>2, KeysAre, Committed
  <2>2. ItemsOf(s)' = ItemsOf(s)
    BY <2>1 DEF ItemsOf
  <2>3. <<s>> \notin SumsInScope(r)
    BY <1>2, KeysAre DEF SumsInScope
  <2>4. runs[r].sum[s] = NoContent
    BY <1>2, Committed
  <2> QED
    BY <2>2, <2>3, <2>4, Committed
<1>3. ASSUME NEW s \in Sources
      PROVE  IF ItemsOf(s)' = NoContent THEN rows'[<<s>>] = 0
             ELSE rows'[<<s>>] # 0 /\ summed'[s] = ItemsOf(s)'
  <2>1. CASE s \in runs[r].part
    BY <2>1, PartAccords
  <2>2. CASE s \notin runs[r].part
    BY <1>2, <2>2 DEF Accord
  <2> QED
    BY <2>1, <2>2
<1> QED
  BY <1>3 DEF Accord

\* A computation that met no other is the only one in sight.
LEMMA AloneAccords ==
    ASSUME IInv, NEW r \in Runs, Busy(r), runs[r].alone, ~torn,
           ~Staged(r) \/ runs[r].pc \in Deleting
    PROVE  Accord
<1>1. \A q \in Runs : q # r => ~Busy(q)
  BY DEF IInv, OneAtWork, Others
<1>2. ~Midway
  BY <1>1 DEF Midway, Busy
<1> QED
  BY <1>2 DEF IInv, SummariesMatchItems

\* A computation stores its summaries and commits.
LEMMA InsertKeeps ==
    ASSUME IInv, NEW r \in Runs, InsertSums(r)
    PROVE  IInv'
<1> DEFINE new == [runs[r] EXCEPT !.pc = "done", !.gone = {}, !.put = {}, !.aim = {}]
<1>1. /\ TablesTypeOK /\ runs[r] \in Run /\ runs \in [Runs -> Run]
      /\ Busy(r) /\ runs[r].pc = "insert" /\ runs[r].pc \notin Deleting
  BY DEF IInv, TablesTypeOK, InsertSums, Busy, Live, Deleting
<1>2. /\ runs' = [runs EXCEPT ![r] = new]
      /\ torn' = (torn /\ ~(Whole(r) /\ runs[r].alone))
      /\ UNCHANGED <<market, moves, failures>>
  BY <1>1 DEF InsertSums, Rollback
<1>3. new \in Run /\ new.alone = runs[r].alone /\ new.pc = "done"
  BY <1>1 DEF Run, Over
<1>4. new.pc \notin Live
  BY <1>3 DEF Live, Deleting
<1> HIDE DEF new
<1>5. rows' \in [Keys -> 0..MaxRuns]
  BY <1>1, AfterTyped DEF InsertSums
<1>6. summed' \in [Sources -> Content]
  <2>1. runs[r].sum \in [Sources -> Content] /\ summed \in [Sources -> Content]
    BY <1>1 DEF Run, TablesTypeOK
  <2>2. PICK K : summed' = [s \in Sources |-> IF <<s>> \in K THEN runs[r].sum[s] ELSE summed[s]]
    BY DEF InsertSums
  <2> QED
    BY <2>1, <2>2
<1>7. SummariesMatchItems'
  <2>1. CASE torn'
    BY <2>1 DEF SummariesMatchItems
  <2>2. CASE ~torn'
    <3>1. runs[r].alone
      BY <1>1, <1>2, <2>2 DEF IInv, OneAtWork
    <3>2. OnItsWay(r) /\ HasSummed(r)
      BY <1>1, <3>1 DEF IInv
    <3>3. CASE Whole(r)
      <4>1. Exact(r)'
        BY <1>1, <3>2, <3>3, InsertRepairs
      <4> QED
        BY <4>1 DEF Exact, SummariesMatchItems
    <3>4. CASE ~Whole(r)
      <4>1. ~torn
        BY <1>2, <2>2, <3>4
      <4>2. ~Staged(r)
        BY <3>4 DEF Whole, Staged
      <4>3. Accord
        BY <1>1, <3>1, <4>1, <4>2, AloneAccords
      <4>4. Accord'
        BY <1>1, <3>2, <3>4, <4>3, InsertAccords
      <4> QED
        BY <4>4 DEF SummariesMatchItems
    <3> QED
      BY <3>3, <3>4
  <2> QED
    BY <2>1, <2>2
<1>8. /\ market' \subseteq Items /\ torn' \in BOOLEAN
      /\ moves' \in 0..MaxMoves /\ failures' \in 0..MaxFailures
  BY <1>1, <1>2 DEF TablesTypeOK
<1>9. torn /\ ~torn' => new.pc \notin Live /\ runs[r].alone
  BY <1>2, <1>4
<1>10. new.pc \in Live /\ new.alone => OnItsWay(r)' /\ HasSummed(r)'
  BY <1>4
<1> QED
  BY <1>1, <1>2, <1>3, <1>5, <1>6, <1>7, <1>8, <1>9, <1>10, StepKeeps

-----------------------------------------------------------------------------
(* Deleting                                                                *)

\* The rows that a DELETE wants.
Wants(r) == {k \in Doomed(r) : rows[k] # 0} \ runs[r].gone

\* What a computation that met no other deletes is all there is of its scope.
LEMMA HasTaken ==
    ASSUME TablesTypeOK, NEW r \in Runs, runs[r].pc \in {"items", "sums"}, OnItsWay(r)
    PROVE  /\ runs[r].put = {} /\ runs[r].sees = {}
           /\ runs[r].pc = "items" =>
                  runs[r].gone \cup Wants(r) = {k \in ItemsInScope(r) : rows[k] # 0}
           /\ runs[r].pc = "sums" =>
                  runs[r].gone \cup Wants(r) =
                      {k \in ItemsInScope(r) \cup SumsInScope(r) : rows[k] # 0}
<1>1. /\ runs[r].gone = {k \in Wiped(r) : rows[k] # 0} /\ runs[r].put = Stored(r)
      /\ runs[r].sees = {}
  BY DEF OnItsWay, Deleting
<1>2. Stored(r) = {}
  BY DEF Stored
<1>3. CASE runs[r].pc = "items"
  <2>1. Wiped(r) = {} /\ Doomed(r) = ItemsInScope(r)
    BY <1>3, ScopeIsKeys DEF Wiped
  <2> QED
    BY <1>1, <1>2, <1>3, <2>1 DEF Wants
<1>4. CASE runs[r].pc = "sums"
  <2>1. Wiped(r) = ItemsInScope(r) /\ Doomed(r) = SumsInScope(r)
    BY <1>4, ScopeIsKeys DEF Wiped
  <2> QED
    BY <1>1, <1>2, <1>4, <2>1 DEF Wants
<1> QED
  BY <1>3, <1>4

\* A commit of what a computation of the whole scope has deleted leaves no rows.
LEMMA TakeClears ==
    ASSUME TablesTypeOK, NEW r \in Runs, runs[r].pc = "sums", OnItsWay(r), Whole(r)
    PROVE  \A k \in Keys : After(r, runs[r].gone \cup Wants(r), {})[k] = 0
<1> DEFINE K == runs[r].gone \cup Wants(r)
<1>1. K = {k \in ItemsInScope(r) \cup SumsInScope(r) : rows[k] # 0}
  BY HasTaken
<1>2. ItemsInScope(r) \cup SumsInScope(r) = Keys
  BY ScopeIsKeys DEF Keys
<1>3. \A k \in Keys : k \in K <=> rows[k] # 0
  BY <1>1, <1>2
<1> HIDE DEF K
<1>4. \A k \in Keys : After(r, K, {})[k] = IF k \in {} THEN r
                                           ELSE IF k \in K THEN 0 ELSE rows[k]
  BY AfterTyped
<1>5. \A k \in Keys : After(r, K, {})[k] = 0
  BY <1>3, <1>4
<1> QED
  BY <1>5 DEF K

\* A scope without rows has no summary without items.
LEMMA NoRowsAccord ==
    ASSUME \A k \in Keys : rows'[k] = 0
    PROVE  Accord'
<1>1. ASSUME NEW s \in Sources PROVE ItemsOf(s)' = NoContent /\ rows'[<<s>>] = 0
  BY KeysAre DEF ItemsOf, NoContent
<1> QED
  BY <1>1 DEF Accord

\* Where a DELETE leads, and whether it commits.
Commits(r) == AfterDelete(r) = "done" \/ (AfterDelete(r) = "read" /\ Staged(r))

\* The items first, then the summaries; only a clearing is over then.
LEMMA AfterDeleteIs ==
    ASSUME TablesTypeOK, NEW r \in Runs, runs[r].pc \in Deleting
    PROVE  /\ AfterDelete(r) \in {"sums", "done", "read"}
           /\ runs[r].pc = "items" => AfterDelete(r) = "sums"
           /\ runs[r].pc = "sums" /\ runs[r].kind = "clear" => AfterDelete(r) = "done"
           /\ runs[r].pc = "sums" /\ runs[r].kind # "clear" => AfterDelete(r) = "read"
           /\ AfterDelete(r) = "done" => runs[r].kind = "clear"
           /\ AfterDelete(r) \in Live \cup Over
           /\ Commits(r) => Whole(r) /\ AfterDelete(r) # "sums"
<1>1. /\ AfterDelete(r) \in {"sums", "done", "read"}
      /\ runs[r].pc = "items" => AfterDelete(r) = "sums"
      /\ runs[r].pc = "sums" /\ runs[r].kind = "clear" => AfterDelete(r) = "done"
      /\ runs[r].pc = "sums" /\ runs[r].kind # "clear" => AfterDelete(r) = "read"
      /\ AfterDelete(r) = "done" => runs[r].kind = "clear"
  BY DEF AfterDelete
<1>2. AfterDelete(r) \in Live \cup Over
  BY <1>1 DEF Live, Over, Deleting
<1> QED
  BY <1>1, <1>2 DEF Commits, Whole, Staged

\* A DELETE that has every row it wants: the computation that met no other is on its way.
LEMMA TakeOnItsWay ==
    ASSUME TablesTypeOK, NEW r \in Runs, runs[r].pc \in {"items", "sums"}, OnItsWay(r),
           NEW new, runs'[r] = new, new.pc = AfterDelete(r),
           \A f \in {"kind", "part", "types", "put", "sees"} : new[f] = runs[r][f],
           new.gone = IF Commits(r) THEN {} ELSE runs[r].gone \cup Wants(r),
           rows' = IF Commits(r) THEN After(r, runs[r].gone \cup Wants(r), {}) ELSE rows,
           new.pc \in Live
    PROVE  OnItsWay(r)' /\ HasSummed(r)'
<1>0. runs[r].pc \in Deleting
  BY DEF Deleting
<1>1. new.pc \in {"sums", "read"} /\ new.put = {} /\ new.sees = {}
  <2>1. AfterDelete(r) \in {"sums", "done", "read"} /\ "done" \notin Live
    BY <1>0, AfterDeleteIs DEF Live, Deleting
  <2>2. runs[r].put = {} /\ runs[r].sees = {}
    BY HasTaken
  <2> QED
    BY <2>1, <2>2
<1>2. HasSummed(r)'
  BY <1>1 DEF HasSummed
<1>3. /\ Staged(r)' = Staged(r)
      /\ ItemsInScope(r)' = ItemsInScope(r) /\ SumsInScope(r)' = SumsInScope(r)
      /\ Stored(r)' = {}
  BY <1>1 DEF Staged, ItemsInScope, SumsInScope, Whole, Stored
<1>4. CASE new.pc = "sums"
  <2>1. runs[r].pc = "items" /\ ~Commits(r)
    BY <1>0, <1>4, AfterDeleteIs DEF Commits
  <2>2. runs[r].gone \cup Wants(r) = {k \in ItemsInScope(r) : rows[k] # 0}
    BY <2>1, HasTaken
  <2>3. Wiped(r)' = ItemsInScope(r)
    BY <1>3, <1>4 DEF Wiped
  <2>4. new.gone = {k \in ItemsInScope(r) : rows[k] # 0} /\ rows' = rows
    BY <2>1, <2>2
  <2> QED
    BY <1>1, <1>2, <1>3, <1>4, <2>3, <2>4 DEF OnItsWay, Deleting
<1>5. CASE new.pc = "read"
  <2>1. runs[r].pc = "sums" /\ runs[r].kind # "clear" /\ (Commits(r) <=> Staged(r))
    BY <1>0, <1>5, AfterDeleteIs DEF Commits
  <2>2. CASE Staged(r)
    <3>1. Commits(r) /\ Whole(r)
      BY <1>0, <2>1, <2>2, AfterDeleteIs
    <3>2. \A k \in Keys : rows'[k] = 0
      BY <2>1, <3>1, TakeClears
    <3>3. new.gone = {}
      BY <3>1
    <3> QED
      BY <1>1, <1>2, <1>3, <1>5, <2>1, <2>2, <3>2, <3>3 DEF OnItsWay, Deleting
  <2>3. CASE ~Staged(r)
    <3>1. ~Commits(r)
      BY <2>1, <2>3
    <3>2. runs[r].gone \cup Wants(r) =
              {k \in ItemsInScope(r) \cup SumsInScope(r) : rows[k] # 0}
      BY <2>1, HasTaken
    <3>3. Wiped(r)' = ItemsInScope(r) \cup SumsInScope(r)
      BY <1>3, <1>5 DEF Wiped
    <3>4. /\ new.gone = {k \in ItemsInScope(r) \cup SumsInScope(r) : rows[k] # 0}
          /\ rows' = rows
      BY <3>1, <3>2
    <3> QED
      BY <1>1, <1>2, <1>3, <1>5, <2>1, <2>3, <3>3, <3>4 DEF OnItsWay, Deleting
  <2> QED
    BY <2>2, <2>3
<1> QED
  BY <1>1, <1>4, <1>5

\* A DELETE takes what it wants, and commits it or does not.
LEMMA TakeKeeps ==
    ASSUME IInv, NEW r \in Runs, runs[r].pc \in Deleting, NEW K, K \subseteq Keys, Take(r, K),
           runs[r].alone => runs[r].pc \in {"items", "sums"} /\ K = Wants(r),
           UNCHANGED <<market, summed, moves, failures>>
    PROVE  IInv'
<1> DEFINE gone == IF Commits(r) THEN {} ELSE runs[r].gone \cup K
           new == [runs[r] EXCEPT !.pc = AfterDelete(r), !.aim = {}, !.gone = gone]
<1>1. /\ TablesTypeOK /\ runs[r] \in Run /\ runs \in [Runs -> Run]
      /\ Busy(r) /\ torn \in BOOLEAN
  BY DEF IInv, TablesTypeOK, Busy, Live
<1>2. /\ runs' = [runs EXCEPT ![r] = new]
      /\ rows' = IF Commits(r) THEN After(r, runs[r].gone \cup K, {}) ELSE rows
      /\ torn' = IF AfterDelete(r) = "done" /\ runs[r].alone THEN FALSE ELSE torn
  BY <1>1 DEF Take, Commits
<1>3. gone \subseteq Keys /\ gone = IF Commits(r) THEN {} ELSE runs[r].gone \cup K
  BY <1>1 DEF Run
<1>4. AfterDelete(r) \in Live \cup Over
  BY <1>1, AfterDeleteIs
<1> HIDE DEF gone
<1>5. /\ new \in Run /\ new.pc = AfterDelete(r) /\ new.gone = gone
      /\ new.alone = runs[r].alone
      /\ \A f \in {"kind", "part", "types", "put", "sees"} : new[f] = runs[r][f]
  BY <1>1, <1>3, <1>4 DEF Run
<1>6. runs'[r] = new
  BY <1>1, <1>2
<1> HIDE DEF new
<1>7. rows' \in [Keys -> 0..MaxRuns]
  <2>1. /\ rows \in [Keys -> 0..MaxRuns]
        /\ After(r, runs[r].gone \cup K, {}) \in [Keys -> 0..MaxRuns]
    BY <1>1, AfterTyped DEF TablesTypeOK
  <2> QED
    BY <1>2, <2>1
<1>8. runs[r].alone => OnItsWay(r) /\ runs[r].pc \in {"items", "sums"} /\ K = Wants(r)
  BY <1>1 DEF IInv
<1>9. new.pc \in Live /\ new.alone => OnItsWay(r)' /\ HasSummed(r)'
  BY <1>1, <1>2, <1>3, <1>5, <1>6, <1>8, TakeOnItsWay
<1>10. ASSUME runs[r].alone, Commits(r)
       PROVE  \A k \in Keys : rows'[k] = 0
  <2>1. runs[r].pc = "sums" /\ Whole(r)
    BY <1>1, <1>8, <1>10, AfterDeleteIs
  <2> QED
    BY <1>1, <1>2, <1>8, <1>10, <2>1, TakeClears
<1>11. SummariesMatchItems'
  <2>1. CASE torn'
    BY <2>1 DEF SummariesMatchItems
  <2>2. CASE ~torn'
    <3>1. runs[r].alone
      BY <1>1, <1>2, <2>2 DEF IInv, OneAtWork
    <3>2. CASE Commits(r)
      <4>1. Accord'
        BY <1>10, <3>1, <3>2, NoRowsAccord
      <4> QED
        BY <4>1 DEF SummariesMatchItems
    <3>3. CASE ~Commits(r)
      <4>1. ~torn /\ UNCHANGED <<rows, summed>>
        BY <1>2, <2>2, <3>3 DEF Commits
      <4>2. Accord
        BY <1>1, <3>1, <4>1, AloneAccords
      <4>3. Accord'
        BY <4>1, <4>2 DEF Accord, ItemsOf
      <4> QED
        BY <4>3 DEF SummariesMatchItems
    <3> QED
      BY <3>2, <3>3
  <2> QED
    BY <2>1, <2>2
<1>12. torn /\ ~torn' => new.pc \notin Live /\ runs[r].alone
  BY <1>2, <1>5 DEF Live, Deleting
<1>13. /\ market' \subseteq Items /\ torn' \in BOOLEAN
       /\ summed' \in [Sources -> Content]
       /\ moves' \in 0..MaxMoves /\ failures' \in 0..MaxFailures
  BY <1>1, <1>2 DEF TablesTypeOK
<1> QED
  BY <1>1, <1>2, <1>5, <1>7, <1>9, <1>11, <1>12, <1>13, StepKeeps

\* A DELETE starts, or has waited: a computation that met no other never waits.
LEMMA DeleteTakes ==
    ASSUME IInv, NEW r \in Runs, Delete(r), runs[r].alone
    PROVE  Take(r, Wants(r)) /\ OnItsWay(r) /\ HasSummed(r) /\ Busy(r)
<1>1. Busy(r)
  BY DEF Delete, Busy, Live, Deleting
<1>2. DeletedByOthers(r) = {}
  BY <1>1, NobodyElse DEF IInv
<1> QED
  BY <1>1, <1>2 DEF Delete, Wants, IInv

\* A DELETE takes its rows, or notes them and waits for another writer.
LEMMA DeleteKeeps ==
    ASSUME IInv, NEW r \in Runs, Delete(r)
    PROVE  IInv'
<1> DEFINE K == Wants(r)
<1>1. /\ TablesTypeOK /\ runs[r] \in Run /\ runs \in [Runs -> Run] /\ Busy(r)
      /\ runs[r].pc \in {"items", "sums"} /\ runs[r].pc \in Deleting
      /\ UNCHANGED <<market, summed, moves, failures>>
  BY DEF IInv, TablesTypeOK, Delete, Busy, Live, Deleting
<1>2. K \subseteq Keys
  BY <1>1, ScopeIsKeys DEF Wants
<1>3. CASE Take(r, K)
  BY <1>1, <1>2, <1>3, TakeKeeps
<1>4. CASE ~Take(r, K)
  <2> DEFINE pc == IF runs[r].pc = "items" THEN "waitItems" ELSE "waitSums"
             aim == {<<k, rows[k]>> : k \in K}
             new == [runs[r] EXCEPT !.pc = pc, !.aim = aim]
  <2>1. ~runs[r].alone
    BY <1>4, DeleteTakes
  <2>2. runs' = [runs EXCEPT ![r] = new] /\ UNCHANGED <<rows, torn>>
    BY <1>1, <1>4 DEF Delete, Wants
  <2>3. aim \subseteq Keys \X Runs
    <3>1. \A k \in K : rows[k] \in Runs
      BY <1>1, <1>2, TablesAssumption DEF Wants, TablesTypeOK, Runs
    <3> QED
      BY <1>2, <3>1
  <2>4. pc \in Live
    BY DEF Live, Deleting
  <2> HIDE DEF K, aim, pc
  <2>5. /\ new \in Run /\ new.pc = pc /\ new.alone = runs[r].alone
        /\ new.kind = runs[r].kind
    BY <1>1, <2>3, <2>4 DEF Run
  <2> HIDE DEF new
  <2>6. SummariesMatchItems /\ (torn => torn')
    BY <2>2 DEF IInv
  <2>7. SummariesMatchItems'
    BY <1>1, <2>2, <2>6, MatchAtRest
  <2>8. /\ market' \subseteq Items /\ rows' \in [Keys -> 0..MaxRuns]
        /\ summed' \in [Sources -> Content] /\ torn' \in BOOLEAN
        /\ moves' \in 0..MaxMoves /\ failures' \in 0..MaxFailures
    BY <1>1, <2>2 DEF TablesTypeOK
  <2>9. torn /\ ~torn' => new.pc \notin Live /\ runs[r].alone
    BY <2>2
  <2>10. new.pc \in Live /\ new.alone => OnItsWay(r)' /\ HasSummed(r)'
    BY <2>1, <2>5
  <2> QED
    BY <1>1, <2>2, <2>5, <2>7, <2>8, <2>9, <2>10, StepKeeps
<1> QED
  BY <1>3, <1>4

\* A DELETE that had to wait goes on.
LEMMA WaitedKeeps ==
    ASSUME IInv, NEW r \in Runs, DeleteWaited(r)
    PROVE  IInv'
<1> DEFINE K == {a[1] : a \in {a \in runs[r].aim : rows[a[1]] = a[2]}}
<1>1. /\ TablesTypeOK /\ runs[r] \in Run /\ Busy(r)
      /\ runs[r].pc \in {"waitItems", "waitSums"} /\ runs[r].pc \in Deleting
      /\ UNCHANGED <<market, summed, moves, failures>>
  BY DEF IInv, TablesTypeOK, DeleteWaited, Busy, Live, Deleting
<1>2. K \subseteq Keys
  <2>1. \A a \in runs[r].aim : a[1] \in Keys
    BY <1>1 DEF Run
  <2> QED
    BY <2>1
<1>3. Take(r, K)
  BY DEF DeleteWaited
<1>4. ~runs[r].alone
  BY <1>1 DEF IInv, OnItsWay
<1> HIDE DEF K
<1> QED
  BY <1>1, <1>2, <1>3, <1>4, TakeKeeps

-----------------------------------------------------------------------------
(* The invariant                                                           *)

\* Before anything else began, the rows and summaries are those of one computation.
LEMMA Initially == Init => IInv
<1> SUFFICES ASSUME Init PROVE IInv
  OBVIOUS
<1>1. PICK K \in Before :
          /\ rows = [k \in Keys |-> IF k \in K \/ \E t \in Types : k \in Sums /\ <<k[1], t>> \in K
                                    THEN 1 ELSE 0]
          /\ summed = [s \in Sources |-> [t \in Types |-> IF <<s, t>> \in K THEN 1 ELSE 0]]
          /\ runs = [r \in Runs |-> IF r > 1 THEN NoRun
                                    ELSE [NoRun EXCEPT !.pc = "done", !.kind = "miss", !.sees = K,
                                                       !.part = {k[1] : k \in K}]]
  BY DEF Init
<1> DEFINE first == [NoRun EXCEPT !.pc = "done", !.kind = "miss", !.sees = K,
                                  !.part = {k[1] : k \in K}]
<1>2. K \subseteq Items
  <2>1. K \in Before
    BY <1>1
  <2> QED
    BY <2>1, TablesAssumption
<1>3. first \in Run
  <2>1. \A k \in K : k[1] \in Sources
    BY <1>2 DEF Items
  <2>2. {k[1] : k \in K} \subseteq Sources
    BY <2>1
  <2> QED
    BY <1>2, <2>2, NothingTyped DEF Run, Over
<1>4. {0, 1} \subseteq 0..MaxRuns
  BY TablesAssumption
<1>5. TablesTypeOK
  <2>1. rows \in [Keys -> 0..MaxRuns]
    BY <1>1, <1>4
  <2>2. summed \in [Sources -> Content]
    BY <1>1, <1>4 DEF Content
  <2>3. runs \in [Runs -> Run]
    BY <1>1, <1>3, NothingTyped
  <2>4. /\ market \subseteq Items /\ torn \in BOOLEAN
        /\ moves \in 0..MaxMoves /\ failures \in 0..MaxFailures
    <3>1. market \in Markets /\ torn = FALSE /\ moves = 0 /\ failures = 0
      BY DEF Init
    <3>2. market \subseteq Items
      BY <3>1, TablesAssumption
    <3>3. MaxMoves \in Nat /\ MaxFailures \in Nat
      BY TablesAssumption
    <3>4. torn \in BOOLEAN
      BY <3>1
    <3>5. moves \in 0..MaxMoves /\ failures \in 0..MaxFailures
      BY <3>1, <3>3
    <3> QED
      BY <3>2, <3>4, <3>5
  <2> QED
    BY <2>1, <2>2, <2>3, <2>4 DEF TablesTypeOK
<1>6. \A r \in Runs : ~Busy(r)
  BY <1>1 DEF NoRun, Busy, Live, Deleting
<1>7. Accord
  <2> SUFFICES ASSUME NEW s \in Sources
               PROVE  IF ItemsOf(s) = NoContent THEN rows[<<s>>] = 0
                      ELSE rows[<<s>>] # 0 /\ summed[s] = ItemsOf(s)
    BY DEF Accord
  <2>1. \A t \in Types : rows[<<s, t>>] = IF <<s, t>> \in K THEN 1 ELSE 0
    BY <1>1, KeysAre
  <2>2. summed[s] = ItemsOf(s)
    BY <1>1, <2>1 DEF ItemsOf
  <2>3. <<s>> \in Keys /\ <<s>> \in Sums /\ <<s>> \notin K /\ <<s>>[1] = s
    BY <1>2, KeysAre
  <2>4. rows[<<s>>] = IF \E t \in Types : <<s, t>> \in K THEN 1 ELSE 0
    BY <1>1, <2>3
  <2>5. (ItemsOf(s) = NoContent) <=> \A t \in Types : <<s, t>> \notin K
    <3>1. ItemsOf(s) = [t \in Types |-> rows[<<s, t>>]]
      BY DEF ItemsOf
    <3>2. (ItemsOf(s) = NoContent) <=> \A t \in Types : rows[<<s, t>>] = 0
      BY <3>1 DEF NoContent
    <3> QED
      BY <2>1, <3>2
  <2>6. CASE ItemsOf(s) = NoContent
    BY <2>4, <2>5, <2>6
  <2>7. CASE ItemsOf(s) # NoContent
    <3>1. rows[<<s>>] = 1
      BY <2>4, <2>5, <2>7
    <3> QED
      BY <2>2, <2>7, <3>1
  <2> QED
    BY <2>6, <2>7
<1> QED
  BY <1>5, <1>6, <1>7 DEF IInv, OneAtWork, SummariesMatchItems

\* The market moves.
LEMMA MoveKeeps ==
    ASSUME IInv, Move
    PROVE  IInv'
<1>1. UNCHANGED <<rows, summed, runs, torn, failures>>
  BY DEF Move
<1>2. TablesTypeOK'
  <2>1. market' \subseteq Items /\ moves' \in 0..MaxMoves
    BY TablesAssumption DEF Move, IInv, TablesTypeOK
  <2> QED
    BY <1>1, <2>1 DEF IInv, TablesTypeOK
<1>3. OneAtWork' /\ SummariesMatchItems'
  BY <1>1 DEF IInv, OneAtWork, Others, Busy, SummariesMatchItems, Midway, Staged, Accord,
              ItemsOf
<1>4. ASSUME NEW r \in Runs, Busy(r)', runs'[r].alone PROVE OnItsWay(r)' /\ HasSummed(r)'
  <2>1. OnItsWay(r) /\ HasSummed(r)
    BY <1>1, <1>4 DEF IInv, Busy
  <2> QED
    BY <1>1, <2>1 DEF OnItsWay, HasSummed, Staged, Wiped, Stored, ItemsInScope, SumsInScope,
                      Whole, After
<1> QED
  BY <1>2, <1>3, <1>4 DEF IInv

\* Every step keeps the invariant.
LEMMA Inductive == IInv /\ [Next]_vars => IInv'
<1> SUFFICES ASSUME IInv, [Next]_vars PROVE IInv'
  OBVIOUS
<1>1. ASSUME NEW r \in Runs, NEW kind \in Kinds, NEW s \in Sources, NEW t \in Types,
             Begin(r, kind, s, t)
      PROVE  IInv'
  BY <1>1, BeginKeeps
<1>2. ASSUME NEW r \in Runs, RunStep(r) PROVE IInv'
  <2>1. CASE Delete(r)
    BY <2>1, DeleteKeeps
  <2>2. CASE DeleteWaited(r)
    BY <2>2, WaitedKeeps
  <2>3. CASE ReadMarket(r)
    BY <2>3, ReadKeeps
  <2>4. CASE CopyItems(r)
    BY <2>4, CopyKeeps
  <2>5. CASE Conflict(r)
    BY <2>5, StopKeeps
  <2>6. CASE Summarise(r)
    BY <2>6, SummariseKeeps
  <2>7. CASE InsertSums(r)
    BY <2>7, InsertKeeps
  <2>8. CASE Again(r)
    BY <2>8, AgainKeeps
  <2> QED
    BY <1>2, <2>1, <2>2, <2>3, <2>4, <2>5, <2>6, <2>7, <2>8 DEF RunStep
<1>3. ASSUME NEW r \in Runs, Cancel(r) \/ Fail(r) PROVE IInv'
  BY <1>3, StopKeeps
<1>4. CASE Move
  BY <1>4, MoveKeeps
<1>5. CASE UNCHANGED vars
  BY <1>5 DEF vars, IInv, TablesTypeOK, OneAtWork, Others, Busy, OnItsWay, HasSummed, Staged,
              Wiped, Stored, ItemsInScope, SumsInScope, Whole, After, SummariesMatchItems,
              Midway, Accord, ItemsOf
<1> QED
  BY <1>1, <1>2, <1>3, <1>4, <1>5 DEF Next

\* So it holds for good.
LEMMA Always == Spec => []IInv
  BY Initially, Inductive, PTL DEF Spec

-----------------------------------------------------------------------------
(* The theorems                                                            *)

\* The tables and the computations have their types.
THEOREM TablesTyped == Spec => []TablesTypeOK
<1>1. IInv => TablesTypeOK
  BY DEF IInv
<1> QED
  BY <1>1, Always, PTL

\* As long as writers come one after the other and none is cut short between its commits,
\* every summary sums up exactly the items stored beside it, and no source has one without
\* the other: generate_for_target deletes, copies, sums up and inserts the same scope, and
\* what a page computes for a single source leaves the summaries of the others true.
THEOREM SummariesMatch == Spec => []SummariesMatchItems
<1>1. IInv => SummariesMatchItems
  BY DEF IInv
<1> QED
  BY <1>1, Always, PTL

\* A computation of the whole scope that met no other ends with its own rows and nothing
\* else, with summaries to match, whatever was torn before it began.
THEOREM WholeRunsRepair == Spec => WholeRunRepairs
<1> DEFINE Repairs(r) ==
        Busy(r) /\ runs'[r].pc = "done" /\ Whole(r) /\ runs[r].alone => Exact(r)'
<1>1. ASSUME IInv, Next, NEW r \in Runs, Busy(r), runs'[r].pc = "done", Whole(r), runs[r].alone
      PROVE  Exact(r)'
  <2>1. TablesTypeOK /\ OnItsWay(r) /\ HasSummed(r) /\ runs \in [Runs -> Run]
    BY <1>1 DEF IInv, TablesTypeOK
  <2>2. runs'[r] # runs[r] /\ runs[r].pc # "done"
    BY <1>1 DEF Busy, Live, Deleting
  <2>3. ASSUME NEW q \in Runs, NEW kind \in Kinds, NEW s \in Sources, NEW t \in Types,
               Begin(q, kind, s, t)
        PROVE  FALSE
    <3>1. q # r
      BY <1>1, <2>3 DEF Begin, Busy, Live, Deleting
    <3>2. runs'[r].pc = runs[r].pc
      BY <2>1, <2>3, <3>1 DEF Begin, Run
    <3> QED
      BY <1>1, <2>2, <3>2
  <2>4. ASSUME NEW q \in Runs, Again(q) PROVE FALSE
    <3>1. q # r
      BY <2>2, <2>4 DEF Again
    <3>2. runs'[r].pc = runs[r].pc
      BY <2>1, <2>4, <3>1 DEF Again, Run
    <3> QED
      BY <1>1, <2>2, <3>2
  <2>5. ASSUME NEW q \in Runs, q # r,
               \/ Delete(q) \/ DeleteWaited(q) \/ ReadMarket(q) \/ CopyItems(q) \/ Conflict(q)
               \/ Summarise(q) \/ InsertSums(q) \/ Cancel(q) \/ Fail(q)
        PROVE  FALSE
    <3>1. runs'[r] = runs[r]
      BY <2>1, <2>5 DEF Delete, DeleteWaited, Take, ReadMarket, CopyItems, Conflict, Summarise,
                        InsertSums, Cancel, Fail, Rollback
    <3> QED
      BY <2>2, <3>1
  <2>6. CASE InsertSums(r)
    BY <1>1, <2>1, <2>6, InsertRepairs
  <2>7. CASE Delete(r)
    <3>1. Take(r, Wants(r)) /\ runs[r].pc \in {"items", "sums"} /\ runs[r].pc \in Deleting
      BY <1>1, <2>7, DeleteTakes DEF Delete, Deleting
    <3>2. AfterDelete(r) = "done" /\ runs'[r].sees = runs[r].sees
      BY <1>1, <2>1, <3>1 DEF Take, Run
    <3>3. runs[r].pc = "sums" /\ Commits(r)
      BY <2>1, <3>1, <3>2, AfterDeleteIs DEF Commits
    <3>4. rows' = After(r, runs[r].gone \cup Wants(r), {})
      BY <3>1, <3>2 DEF Take
    <3>5. \A k \in Keys : rows'[k] = 0
      BY <1>1, <2>1, <3>3, <3>4, TakeClears
    <3>6. runs'[r].sees = {}
      BY <2>1, <3>1, <3>2, HasTaken
    <3>7. \A k \in Items : rows'[k] = 0
      BY <3>5, KeysAre
    <3>8. Accord'
      BY <3>5, NoRowsAccord
    <3> QED
      BY <3>6, <3>7, <3>8 DEF Exact
  <2>8. CASE DeleteWaited(r)
    BY <2>1, <2>8 DEF DeleteWaited, OnItsWay
  <2>9. ASSUME \/ ReadMarket(r) \/ CopyItems(r) \/ Conflict(r) \/ Summarise(r)
               \/ Cancel(r) \/ Fail(r)
        PROVE  FALSE
    <3>1. runs'[r].pc # "done"
      BY <2>1, <2>9 DEF ReadMarket, CopyItems, Conflict, Summarise, Cancel, Fail, Rollback, Run
    <3> QED
      BY <1>1, <3>1
  <2>10. ASSUME Move PROVE FALSE
    BY <2>2, <2>10 DEF Move
  <2>11. ASSUME NEW q \in Runs, RunStep(q) \/ Cancel(q) \/ Fail(q) PROVE Exact(r)'
    <3>1. CASE q = r
      BY <2>4, <2>6, <2>7, <2>8, <2>9, <2>11, <3>1 DEF RunStep
    <3>2. CASE q # r
      BY <2>4, <2>5, <2>11, <3>2 DEF RunStep
    <3> QED
      BY <3>1, <3>2
  <2> QED
    BY <1>1, <2>3, <2>10, <2>11 DEF Next
<1>2. IInv /\ [Next]_vars => [\A r \in Runs : Repairs(r)]_vars
  BY <1>1
<1> QED
  BY <1>2, Always, PTL DEF Spec, WholeRunRepairs

-----------------------------------------------------------------------------
(* Sums over sets                                                          *)

\* A set of numbers that has no least one is empty.
LEMMA NoLeast ==
    ASSUME NEW T \in SUBSET Nat, \A n \in T : \E m \in T : m < n
    PROVE  T = {}
<1> DEFINE less == {p \in Nat \X Nat : p[1] < p[2]}
<1>1. IsWellFoundedOn(less, Nat)
  <2>1. OpToRel(<, Nat) = less
    BY DEF OpToRel
  <2> QED
    BY <2>1, NatLessThanWellFounded
<1>2. \A m, n \in T : m < n => <<m, n>> \in less
  OBVIOUS
<1> HIDE DEF less
<1>3. T # {} => \E n \in T : \A m \in T : ~(<<m, n>> \in less)
  BY <1>1, WFMin
<1> QED
  BY <1>2, <1>3

\* The figures of the orders, their sum, and a function that gives the sum over each set
\* of D, which is what the fold of the sum looks for.
Sum(w, S) == MapThenSumSet(LAMBDA o : w[o], S)
First(s) == CHOOSE x \in s : TRUE
SumsOn(w, f, D) == f = [s \in D |-> IF s = {} THEN 0 ELSE w[First(s)] + f[s \ {First(s)}]]
Upto(S, n) == {s \in SUBSET S : Cardinality(s) <= n}

LEMMA SumIsFold ==
    ASSUME NEW w, NEW S
    PROVE  Sum(w, S) = (CHOOSE f : SumsOn(w, f, SUBSET S))[S]
BY DEF Sum, MapThenSumSet, MapThenFoldSet, SumsOn, First

\* The element that the fold takes next is one of the set.
LEMMA FirstIsIn ==
    ASSUME NEW s, s # {} PROVE First(s) \in s
<1>1. \E x : x \in s
  OBVIOUS
<1> QED
  BY <1>1 DEF First

\* Without one of its elements a finite set is smaller.
LEMMA OneLess ==
    ASSUME NEW S, IsFiniteSet(S), NEW s \in SUBSET S, NEW x \in s
    PROVE  /\ s \ {x} \in SUBSET S /\ s \ {x} \in SUBSET (S \ {x}) /\ IsFiniteSet(s \ {x})
           /\ Cardinality(s) \in Nat /\ Cardinality(s \ {x}) = Cardinality(s) - 1
           /\ Cardinality(s \ {x}) \in Nat
<1>1. IsFiniteSet(s)
  BY FS_Subset
<1> QED
  BY <1>1, FS_CardinalityType, FS_RemoveElement

\* There is such a function for any figures: one for n elements gives one for n + 1.
LEMMA SumsExist ==
    ASSUME NEW w, NEW S, IsFiniteSet(S)
    PROVE  \E f : SumsOn(w, f, SUBSET S)
<1> DEFINE Bad == {n \in Nat : ~ \E f : SumsOn(w, f, Upto(S, n))}
<1>1. ASSUME NEW n \in Bad PROVE \E m \in Bad : m < n
  <2> SUFFICES ASSUME \A m \in Bad : ~(m < n) PROVE FALSE
    OBVIOUS
  <2>1. n \in Nat /\ ~ \E f : SumsOn(w, f, Upto(S, n))
    OBVIOUS
  <2>2. CASE n = 0
    <3>1. \A s \in Upto(S, 0) : s = {}
      <4> SUFFICES ASSUME NEW s \in Upto(S, 0) PROVE s = {}
        OBVIOUS
      <4>1. IsFiniteSet(s) /\ Cardinality(s) \in Nat /\ Cardinality(s) <= 0
        BY FS_Subset, FS_CardinalityType DEF Upto
      <4> QED
        BY <4>1, FS_EmptySet
    <3>2. SumsOn(w, [s \in Upto(S, 0) |-> 0], Upto(S, 0))
      BY <3>1 DEF SumsOn
    <3> QED
      BY <2>1, <2>2, <3>2
  <2>3. CASE n # 0
    <3>1. n - 1 \in Nat /\ n - 1 < n
      BY <2>1, <2>3
    <3>2. PICK f : SumsOn(w, f, Upto(S, n - 1))
      <4>1. n - 1 \notin Bad
        BY <3>1
      <4> QED
        BY <3>1, <4>1
    <3> DEFINE g == [s \in Upto(S, n) |-> IF s = {} THEN 0
                                          ELSE w[First(s)] + f[s \ {First(s)}]]
    <3>3. ASSUME NEW s \in Upto(S, n), s # {}
          PROVE  s \ {First(s)} \in Upto(S, n - 1) /\ s \ {First(s)} \in Upto(S, n)
      <4>1. s \in SUBSET S /\ Cardinality(s) <= n /\ First(s) \in s
        BY <3>3, FirstIsIn DEF Upto
      <4>2. /\ s \ {First(s)} \in SUBSET S /\ Cardinality(s) \in Nat
            /\ Cardinality(s \ {First(s)}) = Cardinality(s) - 1
        BY <4>1, OneLess
      <4>3. Cardinality(s \ {First(s)}) <= n - 1 /\ Cardinality(s \ {First(s)}) <= n
        BY <2>1, <4>1, <4>2
      <4> QED
        BY <4>2, <4>3 DEF Upto
    <3>4. ASSUME NEW s \in Upto(S, n - 1)
          PROVE  s \in Upto(S, n) /\ g[s] = f[s]
      <4>1. s \in SUBSET S /\ IsFiniteSet(s) /\ Cardinality(s) \in Nat
            /\ Cardinality(s) <= n - 1
        BY FS_Subset, FS_CardinalityType DEF Upto
      <4>2. s \in Upto(S, n)
        BY <2>1, <4>1 DEF Upto
      <4>3. f[s] = IF s = {} THEN 0 ELSE w[First(s)] + f[s \ {First(s)}]
        BY <3>2 DEF SumsOn
      <4> QED
        BY <4>2, <4>3
    <3>5. \A s \in Upto(S, n) : s # {} => g[s \ {First(s)}] = f[s \ {First(s)}]
      BY <3>3, <3>4
    <3>6. g = [s \in Upto(S, n) |-> IF s = {} THEN 0
                                    ELSE w[First(s)] + g[s \ {First(s)}]]
      <4> HIDE DEF g
      <4>1. g = [s \in Upto(S, n) |-> IF s = {} THEN 0
                                      ELSE w[First(s)] + f[s \ {First(s)}]]
        BY DEF g
      <4> QED
        BY <3>5, <4>1
    <3>7. SumsOn(w, g, Upto(S, n))
      <4> HIDE DEF g
      <4> QED
        BY <3>6 DEF SumsOn
    <3> QED
      BY <2>1, <3>7
  <2> QED
    BY <2>2, <2>3
<1>2. Bad = {}
  <2>1. Bad \in SUBSET Nat
    OBVIOUS
  <2> HIDE DEF Bad
  <2> QED
    BY <1>1, <2>1, NoLeast
<1>3. Cardinality(S) \in Nat /\ Upto(S, Cardinality(S)) = SUBSET S
  BY FS_CardinalityType, FS_Subset DEF Upto
<1>4. \E f : SumsOn(w, f, Upto(S, Cardinality(S)))
  BY <1>2, <1>3
<1> QED
  BY <1>3, <1>4

\* Two of them, for figures that are the same on T, agree on the sets that both know.
LEMMA SumsAgree ==
    ASSUME NEW w, NEW v, NEW S, IsFiniteSet(S), NEW T \in SUBSET S, \A o \in T : w[o] = v[o],
           NEW f, NEW g, SumsOn(w, f, SUBSET S), SumsOn(v, g, SUBSET T), NEW u \in SUBSET T
    PROVE  f[u] = g[u]
<1> DEFINE Bad == {n \in Nat : \E s \in SUBSET T : Cardinality(s) = n /\ f[s] # g[s]}
<1>1. ASSUME NEW n \in Bad PROVE \E m \in Bad : m < n
  <2>1. PICK s \in SUBSET T : Cardinality(s) = n /\ f[s] # g[s]
    OBVIOUS
  <2>2. /\ f[s] = IF s = {} THEN 0 ELSE w[First(s)] + f[s \ {First(s)}]
        /\ g[s] = IF s = {} THEN 0 ELSE v[First(s)] + g[s \ {First(s)}]
    BY DEF SumsOn
  <2>3. s # {} /\ First(s) \in s
    BY <2>1, <2>2, FirstIsIn
  <2>4. f[s \ {First(s)}] # g[s \ {First(s)}]
    BY <2>1, <2>2, <2>3
  <2>5. /\ s \ {First(s)} \in SUBSET T /\ Cardinality(s \ {First(s)}) \in Nat
        /\ Cardinality(s \ {First(s)}) < n
    <3>1. IsFiniteSet(T)
      BY FS_Subset
    <3>2. /\ s \ {First(s)} \in SUBSET T /\ Cardinality(s \ {First(s)}) \in Nat
          /\ Cardinality(s) \in Nat /\ Cardinality(s \ {First(s)}) = Cardinality(s) - 1
      BY <2>3, <3>1, OneLess
    <3> QED
      BY <2>1, <3>2
  <2> QED
    BY <2>4, <2>5
<1>2. Bad = {}
  <2>1. Bad \in SUBSET Nat
    OBVIOUS
  <2> HIDE DEF Bad
  <2> QED
    BY <1>1, <2>1, NoLeast
<1>3. Cardinality(u) \in Nat
  BY FS_Subset, FS_CardinalityType
<1> QED
  BY <1>2, <1>3

\* The sum over a set is one function's value there.
LEMMA SumIsValue ==
    ASSUME NEW w, NEW S, IsFiniteSet(S)
    PROVE  \E f : SumsOn(w, f, SUBSET S) /\ Sum(w, S) = f[S]
<1>1. \E h : SumsOn(w, h, SUBSET S)
  BY SumsExist
<1> QED
  BY <1>1, SumIsFold

\* The sum over the empty set is 0.
LEMMA SumOfNone == ASSUME NEW w PROVE Sum(w, {}) = 0
<1>1. IsFiniteSet({})
  BY FS_EmptySet
<1>2. PICK f : SumsOn(w, f, SUBSET {}) /\ Sum(w, {}) = f[{}]
  BY <1>1, SumIsValue
<1> QED
  BY <1>2 DEF SumsOn

\* Figures that are the same have the same sum.
LEMMA SumOfSame ==
    ASSUME NEW w, NEW v, NEW S, IsFiniteSet(S), \A o \in S : w[o] = v[o]
    PROVE  Sum(w, S) = Sum(v, S)
<1>1. PICK f : SumsOn(w, f, SUBSET S) /\ Sum(w, S) = f[S]
  BY SumIsValue
<1>2. PICK g : SumsOn(v, g, SUBSET S) /\ Sum(v, S) = g[S]
  BY SumIsValue
<1>3. S \in SUBSET S
  OBVIOUS
<1>4. SumsOn(w, f, SUBSET S) /\ SumsOn(v, g, SUBSET S)
  BY <1>1, <1>2
<1>5. f[S] = g[S]
  BY <1>3, <1>4, SumsAgree
<1> QED
  BY <1>1, <1>2, <1>5

\* The sum over a set is the figure of its first element and the sum over the rest.
LEMMA SumOfFirst ==
    ASSUME NEW w, NEW S, IsFiniteSet(S), S # {}
    PROVE  Sum(w, S) = w[First(S)] + Sum(w, S \ {First(S)})
<1> DEFINE T == S \ {First(S)}
<1>1. T \in SUBSET S /\ T \in SUBSET T /\ IsFiniteSet(T)
  BY FS_Subset
<1> HIDE DEF T
<1>2. PICK f : SumsOn(w, f, SUBSET S) /\ Sum(w, S) = f[S]
  BY SumIsValue
<1>3. PICK g : SumsOn(w, g, SUBSET T) /\ Sum(w, T) = g[T]
  BY <1>1, SumIsValue
<1>4. SumsOn(w, f, SUBSET S) /\ SumsOn(w, g, SUBSET T) /\ \A o \in T : w[o] = w[o]
  BY <1>2, <1>3
<1>5. f[T] = g[T]
  BY <1>1, <1>4, SumsAgree
<1>6. f[S] = w[First(S)] + f[S \ {First(S)}]
  BY <1>2 DEF SumsOn
<1> QED
  BY <1>2, <1>3, <1>5, <1>6 DEF T

\* Induction over the subsets of a finite set: what holds of a set whenever it holds of the set
\* without any one of its elements holds of them all.
LEMMA SubsetInduction ==
    ASSUME NEW S, IsFiniteSet(S), NEW G,
           \A s \in SUBSET S : (\A x \in s : s \ {x} \in G) => s \in G
    PROVE  S \in G
<1> DEFINE Bad == {n \in Nat : \E s \in SUBSET S : Cardinality(s) = n /\ s \notin G}
<1>1. ASSUME NEW n \in Bad PROVE \E m \in Bad : m < n
  <2>1. PICK s \in SUBSET S : Cardinality(s) = n /\ s \notin G
    OBVIOUS
  <2>2. PICK x \in s : s \ {x} \notin G
    BY <2>1
  <2>3. /\ s \ {x} \in SUBSET S /\ Cardinality(s \ {x}) \in Nat
        /\ Cardinality(s) \in Nat /\ Cardinality(s \ {x}) = Cardinality(s) - 1
    BY OneLess
  <2> QED
    BY <2>1, <2>2, <2>3
<1>2. Bad = {}
  <2>1. Bad \in SUBSET Nat
    OBVIOUS
  <2> HIDE DEF Bad
  <2> QED
    BY <1>1, <2>1, NoLeast
<1>3. Cardinality(S) \in Nat /\ S \in SUBSET S
  BY FS_CardinalityType
<1> QED
  BY <1>2, <1>3

\* The sum of natural figures is one.
LEMMA SumIsNat ==
    ASSUME NEW w, NEW S, IsFiniteSet(S), \A o \in S : w[o] \in Nat
    PROVE  Sum(w, S) \in Nat
<1> DEFINE G == {s \in SUBSET S : Sum(w, s) \in Nat}
<1>1. ASSUME NEW s \in SUBSET S, \A x \in s : s \ {x} \in G PROVE s \in G
  <2>1. CASE s = {}
    BY <2>1, SumOfNone
  <2>2. CASE s # {}
    <3>1. First(s) \in s /\ IsFiniteSet(s)
      BY <2>2, FirstIsIn, FS_Subset
    <3>2. Sum(w, s) = w[First(s)] + Sum(w, s \ {First(s)})
      BY <2>2, <3>1, SumOfFirst
    <3>3. Sum(w, s \ {First(s)}) \in Nat /\ w[First(s)] \in Nat
      BY <1>1, <3>1
    <3> HIDE DEF Sum
    <3> QED
      BY <3>2, <3>3
  <2> QED
    BY <2>1, <2>2
<1>2. S \in G
  <2> HIDE DEF G
  <2> QED
    BY <1>1, SubsetInduction
<1> QED
  BY <1>2

\* Any element can be counted first.
LEMMA SumOfAny ==
    ASSUME NEW w, NEW S, IsFiniteSet(S), \A o \in S : w[o] \in Nat, NEW x \in S
    PROVE  Sum(w, S) = w[x] + Sum(w, S \ {x})
<1> DEFINE G == {s \in SUBSET S : \A y \in s : Sum(w, s) = w[y] + Sum(w, s \ {y})}
<1>1. ASSUME NEW s \in SUBSET S, \A y \in s : s \ {y} \in G PROVE s \in G
  <2> SUFFICES ASSUME NEW y \in s PROVE Sum(w, s) = w[y] + Sum(w, s \ {y})
    OBVIOUS
  <2> DEFINE z == First(s)
  <2>1. z \in s /\ IsFiniteSet(s) /\ s # {}
    BY FirstIsIn, FS_Subset
  <2>2. Sum(w, s) = w[z] + Sum(w, s \ {z})
    BY <2>1, SumOfFirst
  <2> HIDE DEF z, Sum
  <2>3. CASE y = z
    BY <2>2, <2>3
  <2>4. CASE y # z
    <3>1. Sum(w, s \ {z}) = w[y] + Sum(w, (s \ {z}) \ {y})
      BY <1>1, <2>1, <2>4
    <3>2. Sum(w, s \ {y}) = w[z] + Sum(w, (s \ {y}) \ {z})
      BY <1>1, <2>1, <2>4
    <3>3. (s \ {y}) \ {z} = (s \ {z}) \ {y}
      OBVIOUS
    <3>4. Sum(w, (s \ {z}) \ {y}) \in Nat
      <4>1. IsFiniteSet((s \ {z}) \ {y}) /\ \A o \in (s \ {z}) \ {y} : w[o] \in Nat
        BY <2>1, FS_Subset
      <4> QED
        BY <4>1, SumIsNat
    <3>5. w[y] \in Nat /\ w[z] \in Nat
      BY <2>1
    <3> QED
      BY <2>2, <3>1, <3>2, <3>3, <3>4, <3>5
  <2> QED
    BY <2>3, <2>4
<1>2. S \in G
  <2> HIDE DEF G
  <2> QED
    BY <1>1, SubsetInduction
<1> QED
  BY <1>2

\* The sum of the figures of more elements is no smaller.
LEMMA SumOfMore ==
    ASSUME NEW w, NEW S, IsFiniteSet(S), \A o \in S : w[o] \in Nat, NEW T \in SUBSET S
    PROVE  Sum(w, T) <= Sum(w, S)
<1> DEFINE G == {s \in SUBSET S : T \subseteq s => Sum(w, T) <= Sum(w, s)}
<1>1. ASSUME NEW s \in SUBSET S, \A x \in s : s \ {x} \in G PROVE s \in G
  <2> SUFFICES ASSUME T \subseteq s PROVE Sum(w, T) <= Sum(w, s)
    OBVIOUS
  <2>1. IsFiniteSet(s) /\ IsFiniteSet(T) /\ \A o \in s : w[o] \in Nat
    BY FS_Subset
  <2>2. Sum(w, T) \in Nat
    BY <2>1, SumIsNat
  <2> HIDE DEF Sum
  <2>3. CASE T = s
    BY <2>2, <2>3
  <2>4. CASE T # s
    <3>1. PICK x \in s : x \notin T
      BY <2>4
    <3>2. Sum(w, s) = w[x] + Sum(w, s \ {x})
      BY <2>1, SumOfAny
    <3>3. IsFiniteSet(s \ {x})
      BY <2>1, FS_Subset
    <3>4. Sum(w, s \ {x}) \in Nat
      BY <2>1, <3>3, SumIsNat
    <3>5. Sum(w, T) <= Sum(w, s \ {x})
      BY <1>1, <3>1
    <3> QED
      BY <2>1, <2>2, <3>2, <3>4, <3>5
  <2> QED
    BY <2>3, <2>4
<1>2. S \in G
  <2> HIDE DEF G
  <2> QED
    BY <1>1, SubsetInduction
<1> QED
  BY <1>2

\* Two figures that together are at most two others, order by order, are so in their sums.
LEMMA SumsCompare ==
    ASSUME NEW a, NEW b, NEW c, NEW d, NEW S, IsFiniteSet(S),
           \A o \in S : /\ a[o] \in Nat /\ b[o] \in Nat /\ c[o] \in Nat /\ d[o] \in Nat
                        /\ a[o] + b[o] <= c[o] + d[o]
    PROVE  Sum(a, S) + Sum(b, S) <= Sum(c, S) + Sum(d, S)
<1> DEFINE G == {s \in SUBSET S : Sum(a, s) + Sum(b, s) <= Sum(c, s) + Sum(d, s)}
<1>1. ASSUME NEW s \in SUBSET S, \A x \in s : s \ {x} \in G PROVE s \in G
  <2>1. CASE s = {}
    <3>1. Sum(a, {}) = 0 /\ Sum(b, {}) = 0 /\ Sum(c, {}) = 0 /\ Sum(d, {}) = 0
      BY SumOfNone
    <3> HIDE DEF Sum
    <3> QED
      BY <2>1, <3>1
  <2>2. CASE s # {}
    <3> DEFINE z == First(s)
               r == s \ {z}
    <3>1. z \in s /\ IsFiniteSet(s) /\ IsFiniteSet(r)
      BY <2>2, FirstIsIn, FS_Subset
    <3>2. /\ Sum(a, s) = a[z] + Sum(a, r) /\ Sum(b, s) = b[z] + Sum(b, r)
          /\ Sum(c, s) = c[z] + Sum(c, r) /\ Sum(d, s) = d[z] + Sum(d, r)
      BY <2>2, <3>1, SumOfFirst
    <3> HIDE DEF Sum, z
    <3>3. Sum(a, r) + Sum(b, r) <= Sum(c, r) + Sum(d, r)
      BY <1>1, <3>1
    <3>4. r \in SUBSET S
      OBVIOUS
    <3> HIDE DEF r
    <3>5. Sum(a, r) \in Nat /\ Sum(b, r) \in Nat /\ Sum(c, r) \in Nat /\ Sum(d, r) \in Nat
      <4>1. \A o \in r : a[o] \in Nat /\ b[o] \in Nat /\ c[o] \in Nat /\ d[o] \in Nat
        BY <3>4
      <4> QED
        BY <3>1, <4>1, SumIsNat
    <3>6. /\ a[z] \in Nat /\ b[z] \in Nat /\ c[z] \in Nat /\ d[z] \in Nat
          /\ a[z] + b[z] <= c[z] + d[z]
      BY <3>1
    <3> QED
      BY <3>2, <3>3, <3>5, <3>6
  <2> QED
    BY <2>1, <2>2
<1>2. S \in G
  <2> HIDE DEF G
  <2> QED
    BY <1>1, SubsetInduction
<1> QED
  BY <1>2

\* A sum of multiples is the multiple of the sum.
LEMMA SumOfTimes ==
    ASSUME NEW k \in Nat, NEW w, NEW v, NEW S, IsFiniteSet(S),
           \A o \in S : w[o] \in Nat /\ v[o] = k * w[o]
    PROVE  Sum(v, S) = k * Sum(w, S)
<1> DEFINE G == {s \in SUBSET S : Sum(v, s) = k * Sum(w, s)}
<1>1. ASSUME NEW s \in SUBSET S, \A x \in s : s \ {x} \in G PROVE s \in G
  <2>1. CASE s = {}
    <3>1. Sum(v, {}) = 0 /\ Sum(w, {}) = 0
      BY SumOfNone
    <3> HIDE DEF Sum
    <3>2. Sum(v, {}) = k * Sum(w, {})
      BY <3>1
    <3> QED
      BY <2>1, <3>2
  <2>2. CASE s # {}
    <3> DEFINE z == First(s)
               r == s \ {z}
    <3>1. z \in s /\ IsFiniteSet(s) /\ IsFiniteSet(r)
      BY <2>2, FirstIsIn, FS_Subset
    <3>2. Sum(v, s) = v[z] + Sum(v, r) /\ Sum(w, s) = w[z] + Sum(w, r)
      BY <2>2, <3>1, SumOfFirst
    <3> HIDE DEF Sum, z
    <3>3. Sum(v, r) = k * Sum(w, r)
      BY <1>1, <3>1
    <3>4. r \in SUBSET S
      OBVIOUS
    <3> HIDE DEF r
    <3>5. Sum(w, r) \in Nat
      BY <3>1, <3>4, SumIsNat
    <3>6. w[z] \in Nat /\ v[z] = k * w[z]
      BY <3>1
    <3>7. \A x, y \in Nat : k * (x + y) = k * x + k * y
      OBVIOUS
    <3>8. Sum(v, s) = k * Sum(w, s)
      BY <3>2, <3>3, <3>5, <3>6, <3>7
    <3> QED
      BY <3>8
  <2> QED
    BY <2>1, <2>2
<1>2. S \in G
  <2> HIDE DEF G
  <2> QED
    BY <1>1, SubsetInduction
<1> QED
  BY <1>2

-----------------------------------------------------------------------------
(* The ladder                                                              *)

\* The orders of a source: finitely many, each with an id of its own.
Ladder(S) == S \in SUBSET Order /\ IsFiniteSet(S) /\ \A o, p \in S : o.id = p.id => o = p

\* What the first q parts of the running sum take of each order.
Taken(S, q) == [o \in S |-> Least(PeriodDays * o.volume, Most(q - VolumeBefore(o, S), 0))]

\* The parts on sale are a sum of figures.
LEMMA PartsAreSum ==
    ASSUME NEW S, IsFiniteSet(S), NEW w, \A o \in S : w[o] = PeriodDays * o.volume
    PROVE  Parts(S) = Sum(w, S)
<1> DEFINE Q(f) == f = [s \in SUBSET S |-> IF s = {} THEN 0
                            ELSE PeriodDays * First(s).volume + f[s \ {First(s)}]]
<1>1. Parts(S) = (CHOOSE f : Q(f))[S]
  BY DEF Parts, MapThenSumSet, MapThenFoldSet, First
<1>2. \A s \in SUBSET S : s # {} => w[First(s)] = PeriodDays * First(s).volume
  BY FirstIsIn
<1>3. \A f : Q(f) <=> SumsOn(w, f, SUBSET S)
  BY <1>2 DEF SumsOn
<1>4. PICK g : SumsOn(w, g, SUBSET S) /\ Sum(w, S) = g[S]
  BY SumIsValue
<1>5. Q(CHOOSE f : Q(f))
  <2>1. \E f : Q(f)
    BY <1>3, <1>4
  <2> HIDE DEF Q
  <2> QED
    BY <2>1
<1> DEFINE h == CHOOSE f : Q(f)
<1>6. SumsOn(w, h, SUBSET S)
  BY <1>3, <1>5
<1> HIDE DEF h, Q
<1>7. S \in SUBSET S /\ \A o \in S : w[o] = w[o]
  OBVIOUS
<1>8. h[S] = g[S]
  BY <1>4, <1>6, <1>7, SumsAgree
<1> QED
  BY <1>1, <1>4, <1>8 DEF h

\* So is the cost.
LEMMA CostIsSum ==
    ASSUME NEW S, IsFiniteSet(S), NEW demand, NEW w,
           \A o \in S : w[o] = o.price * ConsumedVolume(o, S, demand)
    PROVE  Cost(S, demand) = Sum(w, S)
<1> DEFINE Q(f) == f = [s \in SUBSET S |-> IF s = {} THEN 0
                            ELSE First(s).price * ConsumedVolume(First(s), S, demand)
                                    + f[s \ {First(s)}]]
<1>1. Cost(S, demand) = (CHOOSE f : Q(f))[S]
  BY DEF Cost, MapThenSumSet, MapThenFoldSet, First
<1>2. \A s \in SUBSET S :
         s # {} => w[First(s)] = First(s).price * ConsumedVolume(First(s), S, demand)
  BY FirstIsIn
<1>3. \A f : Q(f) <=> SumsOn(w, f, SUBSET S)
  BY <1>2 DEF SumsOn
<1>4. PICK g : SumsOn(w, g, SUBSET S) /\ Sum(w, S) = g[S]
  BY SumIsValue
<1>5. Q(CHOOSE f : Q(f))
  <2>1. \E f : Q(f)
    BY <1>3, <1>4
  <2> HIDE DEF Q
  <2> QED
    BY <2>1
<1> DEFINE h == CHOOSE f : Q(f)
<1>6. SumsOn(w, h, SUBSET S)
  BY <1>3, <1>5
<1> HIDE DEF h, Q
<1>7. S \in SUBSET S /\ \A o \in S : w[o] = w[o]
  OBVIOUS
<1>8. h[S] = g[S]
  BY <1>4, <1>6, <1>7, SumsAgree
<1> QED
  BY <1>1, <1>4, <1>8 DEF h

\* Parts are a number, order by order and together; of no order there are none; those of an
\* order come on top of those of the others; and more orders have no fewer.
LEMMA PartsFacts ==
    ASSUME NEW S \in SUBSET Order, IsFiniteSet(S)
    PROVE  /\ Parts(S) \in Nat
           /\ \A x \in S : /\ PeriodDays * x.volume \in Nat /\ Parts(S \ {x}) \in Nat
                           /\ Parts(S) = PeriodDays * x.volume + Parts(S \ {x})
           /\ \A T \in SUBSET S : Parts(T) \in Nat /\ Parts(T) <= Parts(S)
           /\ S = {} => Parts(S) = 0
<1> DEFINE w == [o \in S |-> PeriodDays * o.volume]
<1>1. \A o \in S : w[o] = PeriodDays * o.volume /\ w[o] \in Nat
  BY PeriodAssumption DEF Order
<1> HIDE DEF w
<1>2. ASSUME NEW T \in SUBSET S PROVE Parts(T) = Sum(w, T) /\ Sum(w, T) \in Nat
  <2>1. IsFiniteSet(T) /\ \A o \in T : w[o] = PeriodDays * o.volume /\ w[o] \in Nat
    BY <1>1, FS_Subset
  <2>2. Parts(T) = Sum(w, T)
    BY <2>1, PartsAreSum
  <2>3. Sum(w, T) \in Nat
    BY <2>1, SumIsNat
  <2> QED
    BY <2>2, <2>3
<1>3. \A T \in SUBSET S : Sum(w, T) <= Sum(w, S)
  BY <1>1, SumOfMore
<1>4. \A x \in S : Sum(w, S) = w[x] + Sum(w, S \ {x})
  BY <1>1, SumOfAny
<1>5. Sum(w, {}) = 0
  BY SumOfNone
<1>6. S \in SUBSET S /\ \A x \in S : S \ {x} \in SUBSET S
  OBVIOUS
<1> HIDE DEF Sum
<1>7. /\ Parts(S) \in Nat
      /\ \A T \in SUBSET S : Parts(T) \in Nat /\ Parts(T) <= Parts(S)
      /\ S = {} => Parts(S) = 0
  BY <1>2, <1>3, <1>5, <1>6
<1>8. ASSUME NEW x \in S
      PROVE  /\ PeriodDays * x.volume \in Nat /\ Parts(S \ {x}) \in Nat
             /\ Parts(S) = PeriodDays * x.volume + Parts(S \ {x})
  BY <1>1, <1>2, <1>4, <1>6
<1> QED
  BY <1>7, <1>8

\* Of two orders with ids of their own one is ahead, never of itself, and what is ahead of one
\* that is ahead is ahead.
LEMMA AheadFacts ==
    /\ \A o \in Order : ~Ahead(o, o)
    /\ \A o, p, r \in Order : Ahead(o, p) /\ Ahead(p, r) => Ahead(o, r)
    /\ \A o, p \in Order : o.id # p.id => Ahead(o, p) \/ Ahead(p, o)
BY DEF Ahead, Order

\* Some order is the last of the ladder.
LEMMA LastOrder ==
    ASSUME NEW S, Ladder(S), S # {}
    PROVE  \E l \in S : \A o \in S \ {l} : Ahead(o, l) /\ ~Ahead(l, o)
<1> DEFINE behind(o) == {p \in S : Ahead(o, p)}
           sizes == {Cardinality(behind(o)) : o \in S}
<1>1. S \in SUBSET Order /\ IsFiniteSet(S)
  BY DEF Ladder
<1>2. \A o \in S : behind(o) \in SUBSET S /\ IsFiniteSet(behind(o))
                   /\ Cardinality(behind(o)) \in Nat
  BY <1>1, FS_Subset, FS_CardinalityType
<1>3. ASSUME NEW o \in S, NEW p \in S, Ahead(o, p)
      PROVE  Cardinality(behind(p)) < Cardinality(behind(o))
  <2>1. behind(p) \subseteq behind(o) /\ p \in behind(o) /\ p \notin behind(p)
    BY <1>1, <1>3, AheadFacts
  <2>2. behind(p) # behind(o)
    BY <2>1
  <2>3. IsFiniteSet(behind(o))
    BY <1>2
  <2>4. /\ Cardinality(behind(p)) <= Cardinality(behind(o))
        /\ Cardinality(behind(p)) = Cardinality(behind(o)) => behind(p) = behind(o)
    <3> HIDE DEF behind
    <3> QED
      BY <2>1, <2>3, FS_Subset
  <2> QED
    <3> HIDE DEF behind
    <3> QED
      BY <1>2, <2>2, <2>4
<1>4. \E l \in S : \A p \in S : ~Ahead(l, p)
  <2> SUFFICES ASSUME \A o \in S : \E p \in S : Ahead(o, p) PROVE FALSE
    OBVIOUS
  <2>1. sizes \in SUBSET Nat
    BY <1>2
  <2>2. \A n \in sizes : \E m \in sizes : m < n
    <3> HIDE DEF behind
    <3> QED
      BY <1>3
  <2>3. sizes = {}
    <3> HIDE DEF sizes
    <3> QED
      BY <2>1, <2>2, NoLeast
  <2> QED
    BY <2>3
<1>5. PICK l \in S : \A p \in S : ~Ahead(l, p)
  BY <1>4
<1>6. \A o \in S \ {l} : Ahead(o, l) /\ ~Ahead(l, o)
  BY <1>5, AheadFacts DEF Ladder
<1> QED
  BY <1>6

\* What is before an order on the ladder is a number.
LEMMA BeforeIsNat ==
    ASSUME NEW S, Ladder(S), NEW o \in S
    PROVE  VolumeBefore(o, S) \in Nat /\ PeriodDays * o.volume \in Nat
<1>1. S \in SUBSET Order /\ IsFiniteSet(S)
  BY DEF Ladder
<1>2. {p \in S : Ahead(p, o)} \in SUBSET S
  OBVIOUS
<1>3. PeriodDays * o.volume \in Nat
  BY <1>1, PeriodAssumption DEF Order
<1>4. Parts({p \in S : Ahead(p, o)}) \in Nat
  BY <1>1, <1>2, PartsFacts
<1> QED
  BY <1>3, <1>4 DEF VolumeBefore

\* What is taken of an order is a part of it, and none when none is to be taken.
LEMMA TakenFits ==
    ASSUME NEW S, Ladder(S), NEW q \in Nat, NEW o \in S
    PROVE  /\ Taken(S, q)[o] \in Nat /\ Taken(S, q)[o] <= PeriodDays * o.volume
           /\ q = 0 => Taken(S, q)[o] = 0
<1>1. VolumeBefore(o, S) \in Nat /\ PeriodDays * o.volume \in Nat
  BY BeforeIsNat
<1>2. Taken(S, q)[o] = Least(PeriodDays * o.volume, Most(q - VolumeBefore(o, S), 0))
  BY DEF Taken
<1> QED
  BY <1>1, <1>2 DEF Least, Most

\* The running sum takes what is asked for, as far as the ladder goes.
LEMMA LadderFills ==
    ASSUME NEW S, Ladder(S), NEW q \in Nat
    PROVE  Sum(Taken(S, q), S) = Least(q, Parts(S))
<1> DEFINE G == {s \in SUBSET S : Sum(Taken(s, q), s) = Least(q, Parts(s))}
<1>1. ASSUME NEW s \in SUBSET S, \A x \in s : s \ {x} \in G PROVE s \in G
  <2>1. s \in SUBSET Order /\ IsFiniteSet(s) /\ Ladder(s)
    BY FS_Subset DEF Ladder
  <2>2. CASE s = {}
    <3>1. Sum(Taken({}, q), {}) = 0
      BY SumOfNone
    <3>2. Parts(s) = 0
      BY <2>1, <2>2, PartsFacts
    <3>3. Least(q, 0) = 0
      BY DEF Least
    <3> HIDE DEF Sum
    <3> QED
      BY <2>2, <3>1, <3>2, <3>3
  <2>3. CASE s # {}
    <3>1. PICK l \in s : \A o \in s \ {l} : Ahead(o, l) /\ ~Ahead(l, o)
      BY <2>1, <2>3, LastOrder
    <3> DEFINE r == s \ {l}
    <3>2. r \in SUBSET S /\ IsFiniteSet(r)
      BY <2>1, FS_Subset
    <3>3. ASSUME NEW o \in r PROVE Taken(s, q)[o] = Taken(r, q)[o]
      <4>1. {p \in s : Ahead(p, o)} = {p \in r : Ahead(p, o)}
        BY <3>1
      <4>2. VolumeBefore(o, s) = VolumeBefore(o, r)
        BY <4>1 DEF VolumeBefore
      <4> QED
        BY <4>2 DEF Taken
    <3>4. Sum(Taken(s, q), r) = Sum(Taken(r, q), r)
      BY <3>2, <3>3, SumOfSame
    <3>5. Sum(Taken(r, q), r) = Least(q, Parts(r))
      BY <1>1
    <3>6. Sum(Taken(s, q), s) = Taken(s, q)[l] + Sum(Taken(s, q), r)
      <4>1. \A o \in s : Taken(s, q)[o] \in Nat
        BY <2>1, TakenFits
      <4> QED
        BY <2>1, <4>1, SumOfAny
    <3>7. VolumeBefore(l, s) = Parts(r)
      <4>1. {p \in s : Ahead(p, l)} = r
        BY <2>1, <3>1, AheadFacts
      <4> QED
        BY <4>1 DEF VolumeBefore
    <3>8. Taken(s, q)[l] = Least(PeriodDays * l.volume, Most(q - Parts(r), 0))
      BY <3>7 DEF Taken
    <3>9. /\ PeriodDays * l.volume \in Nat /\ Parts(r) \in Nat
          /\ Parts(s) = PeriodDays * l.volume + Parts(r)
      BY <2>1, PartsFacts
    <3> HIDE DEF r, Sum
    <3>10. Sum(Taken(s, q), s) = Least(PeriodDays * l.volume, Most(q - Parts(r), 0))
                                    + Least(q, Parts(r))
      BY <3>4, <3>5, <3>6, <3>8
    <3>11. Sum(Taken(s, q), s) = Least(q, Parts(s))
      BY <3>9, <3>10 DEF Least, Most
    <3> QED
      BY <3>11
  <2> QED
    BY <2>2, <2>3
<1>2. IsFiniteSet(S)
  BY DEF Ladder
<1>3. S \in G
  <2> HIDE DEF G
  <2> QED
    BY <1>1, <1>2, SubsetInduction
<1> QED
  BY <1>3

\* Up to some price the running sum takes all of an order, and above it nothing.
LEMMA PriceOfLast ==
    ASSUME NEW S, Ladder(S), NEW q \in Nat
    PROVE  \E top \in Nat : \A o \in S :
              /\ o.price < top => Taken(S, q)[o] = PeriodDays * o.volume
              /\ o.price > top => Taken(S, q)[o] = 0
<1> DEFINE left == {o \in S : Taken(S, q)[o] < PeriodDays * o.volume}
           prices == {o.price : o \in left}
<1>1. S \in SUBSET Order /\ IsFiniteSet(S) /\ \A o \in S : o.price \in Nat
  BY DEF Ladder, Order
<1>2. \A o \in S : /\ Taken(S, q)[o] \in Nat /\ PeriodDays * o.volume \in Nat
                   /\ Taken(S, q)[o] <= PeriodDays * o.volume
  BY TakenFits, BeforeIsNat
<1>3. CASE left = {}
  <2>1. \A o \in S : Taken(S, q)[o] = PeriodDays * o.volume
    BY <1>2, <1>3
  <2> DEFINE w == [o \in S |-> o.price]
             top == Sum(w, S)
  <2>2. \A o \in S : w[o] \in Nat /\ w[o] = o.price
    BY <1>1
  <2> HIDE DEF w
  <2>3. top \in Nat
    BY <1>1, <2>2, SumIsNat
  <2>4. ASSUME NEW o \in S PROVE o.price <= top
    <3>1. top = w[o] + Sum(w, S \ {o})
      BY <1>1, <2>2, SumOfAny
    <3>2. IsFiniteSet(S \ {o}) /\ \A p \in S \ {o} : w[p] \in Nat
      BY <1>1, <2>2, FS_Subset
    <3>3. Sum(w, S \ {o}) \in Nat
      BY <3>2, SumIsNat
    <3> HIDE DEF Sum
    <3> QED
      BY <2>2, <3>1, <3>3
  <2> HIDE DEF top
  <2> QED
    BY <1>1, <2>1, <2>3, <2>4
<1>4. CASE left # {}
  <2>1. prices \in SUBSET Nat /\ prices # {}
    BY <1>1, <1>4
  <2>2. PICK top \in prices : \A n \in prices : ~(n < top)
    <3> HIDE DEF prices
    <3> QED
      BY <2>1, NoLeast
  <2>3. PICK p \in S : p.price = top /\ Taken(S, q)[p] < PeriodDays * p.volume
    BY <2>2
  <2>4. ASSUME NEW o \in S, o.price < top PROVE Taken(S, q)[o] = PeriodDays * o.volume
    <3>1. o \notin left
      BY <2>2, <2>4
    <3> QED
      BY <1>2, <3>1
  <2>5. ASSUME NEW o \in S, o.price > top PROVE Taken(S, q)[o] = 0
    <3> DEFINE A == {r \in S : Ahead(r, o)}
               B == {r \in S : Ahead(r, p)}
    <3>1. o \in Order /\ p \in Order /\ Ahead(p, o)
      BY <1>1, <2>3, <2>5 DEF Ahead
    <3>2. A \in SUBSET Order /\ IsFiniteSet(A) /\ p \in A
      BY <1>1, <3>1, FS_Subset
    <3>3. B \in SUBSET (A \ {p})
      BY <1>1, <3>1, AheadFacts
    <3>4. A \ {p} \in SUBSET Order /\ IsFiniteSet(A \ {p})
      BY <3>2, FS_Subset
    <3> HIDE DEF A, B
    <3>5. Parts(A) = PeriodDays * p.volume + Parts(A \ {p}) /\ Parts(A \ {p}) \in Nat
      BY <3>2, PartsFacts
    <3>6. Parts(B) \in Nat /\ Parts(B) <= Parts(A \ {p})
      BY <3>3, <3>4, PartsFacts
    <3>7. /\ Taken(S, q)[o] = Least(PeriodDays * o.volume, Most(q - Parts(A), 0))
          /\ Taken(S, q)[p] = Least(PeriodDays * p.volume, Most(q - Parts(B), 0))
      BY DEF Taken, VolumeBefore, A, B
    <3>8. PeriodDays * o.volume \in Nat /\ PeriodDays * p.volume \in Nat
      BY <1>2
    <3> QED
      BY <2>3, <3>5, <3>6, <3>7, <3>8 DEF Least, Most
  <2> QED
    BY <2>1, <2>2, <2>4, <2>5
<1> QED
  BY <1>3, <1>4

\* Of two ways of buying as much, the one that buys more of every order below some price, and
\* less of every order above it, is the cheaper.
LEMMA CheaperBelow ==
    ASSUME NEW S, S \in SUBSET Order, IsFiniteSet(S), NEW top \in Nat, NEW a, NEW b,
           \A o \in S : /\ a[o] \in Nat /\ b[o] \in Nat
                        /\ o.price < top => b[o] <= a[o]
                        /\ o.price > top => a[o] <= b[o],
           Sum(a, S) = Sum(b, S)
    PROVE  Sum([o \in S |-> o.price * a[o]], S) <= Sum([o \in S |-> o.price * b[o]], S)
<1> DEFINE pa == [o \in S |-> o.price * a[o]]
           pb == [o \in S |-> o.price * b[o]]
           ta == [o \in S |-> top * a[o]]
           tb == [o \in S |-> top * b[o]]
<1>1. ASSUME NEW p \in Nat, NEW x \in Nat, NEW y \in Nat,
             p < top => y <= x, p > top => x <= y
      PROVE  /\ p * x \in Nat /\ p * y \in Nat /\ top * x \in Nat /\ top * y \in Nat
             /\ p * x + top * y <= p * y + top * x
  <2>1. CASE p < top
    <3>1. PICK d \in Nat : x = y + d
      <4>1. x - y \in Nat /\ x = y + (x - y)
        BY <1>1, <2>1
      <4> QED
        BY <4>1
    <3>2. PICK e \in Nat : top = p + e
      <4>1. top - p \in Nat /\ top = p + (top - p)
        BY <2>1
      <4> QED
        BY <4>1
    <3>3. (p * y + (p + e) * (y + d)) - (p * (y + d) + (p + e) * y) = e * d
      OBVIOUS
    <3>4. e * d \in Nat
      OBVIOUS
    <3>5. p * x \in Nat /\ p * y \in Nat /\ top * x \in Nat /\ top * y \in Nat
      OBVIOUS
    <3>6. (p * y + top * x) - (p * x + top * y) = e * d
      BY <3>1, <3>2, <3>3
    <3> QED
      BY <3>4, <3>5, <3>6
  <2>2. CASE p > top
    <3>1. PICK d \in Nat : y = x + d
      <4>1. y - x \in Nat /\ y = x + (y - x)
        BY <1>1, <2>2
      <4> QED
        BY <4>1
    <3>2. PICK e \in Nat : p = top + e
      <4>1. p - top \in Nat /\ p = top + (p - top)
        BY <2>2
      <4> QED
        BY <4>1
    <3>3. ((top + e) * (x + d) + top * x) - ((top + e) * x + top * (x + d)) = e * d
      OBVIOUS
    <3>4. e * d \in Nat
      OBVIOUS
    <3>5. p * x \in Nat /\ p * y \in Nat /\ top * x \in Nat /\ top * y \in Nat
      OBVIOUS
    <3>6. (p * y + top * x) - (p * x + top * y) = e * d
      BY <3>1, <3>2, <3>3
    <3> QED
      BY <3>4, <3>5, <3>6
  <2>3. CASE p = top
    <3>1. top * x \in Nat /\ top * y \in Nat
      OBVIOUS
    <3> QED
      BY <2>3, <3>1
  <2> QED
    BY <2>1, <2>2, <2>3
<1>2. \A o \in S : /\ pa[o] \in Nat /\ tb[o] \in Nat /\ pb[o] \in Nat /\ ta[o] \in Nat
                   /\ pa[o] + tb[o] <= pb[o] + ta[o]
  <2> SUFFICES ASSUME NEW o \in S
               PROVE  /\ pa[o] \in Nat /\ tb[o] \in Nat /\ pb[o] \in Nat /\ ta[o] \in Nat
                      /\ pa[o] + tb[o] <= pb[o] + ta[o]
    OBVIOUS
  <2> DEFINE p == o.price
             x == a[o]
             y == b[o]
  <2>1. pa[o] = p * x /\ pb[o] = p * y /\ ta[o] = top * x /\ tb[o] = top * y
    OBVIOUS
  <2>2. p \in Nat /\ x \in Nat /\ y \in Nat /\ (p < top => y <= x) /\ (p > top => x <= y)
    BY DEF Order
  <2> HIDE DEF p, x, y, pa, pb, ta, tb
  <2>3. /\ p * x \in Nat /\ p * y \in Nat /\ top * x \in Nat /\ top * y \in Nat
        /\ p * x + top * y <= p * y + top * x
    BY <1>1, <2>2
  <2> QED
    BY <2>1, <2>3
<1>3. \A o \in S : ta[o] = top * a[o] /\ tb[o] = top * b[o]
  OBVIOUS
<1> HIDE DEF pa, pb, ta, tb
<1>4. Sum(pa, S) + Sum(tb, S) <= Sum(pb, S) + Sum(ta, S)
  BY <1>2, SumsCompare
<1>5. Sum(ta, S) = top * Sum(a, S) /\ Sum(tb, S) = top * Sum(b, S)
  BY <1>3, SumOfTimes
<1>6. Sum(pa, S) \in Nat /\ Sum(pb, S) \in Nat /\ Sum(ta, S) \in Nat
  BY <1>2, SumIsNat
<1>7. Sum(pa, S) <= Sum(pb, S)
  <2>1. Sum(ta, S) = Sum(tb, S)
    BY <1>5
  <2> HIDE DEF Sum
  <2> QED
    BY <1>4, <1>6, <2>1
<1> QED
  BY <1>7 DEF pa, pb

\* What is bought is a number, and no more than is on sale.
LEMMA UnitsAreNat ==
    ASSUME NEW S, Ladder(S), NEW demand \in Nat
    PROVE  /\ PurchaseUnits(S, demand) \in Nat /\ PurchaseUnits(S, demand) <= Parts(S)
           /\ Parts(S) \in Nat
<1>1. Parts(S) \in Nat
  BY PartsFacts DEF Ladder
<1> QED
  BY <1>1 DEF PurchaseUnits, Least

\* The cost is that of what the running sum takes.
LEMMA CostOfTaken ==
    ASSUME NEW S, Ladder(S), NEW demand \in Nat
    PROVE  LET q == PurchaseUnits(S, demand)
           IN /\ Cost(S, demand) = Sum([o \in S |-> o.price * Taken(S, q)[o]], S)
              /\ Sum(Taken(S, q), S) = q
<1> DEFINE q == PurchaseUnits(S, demand)
<1>1. q \in Nat /\ q <= Parts(S) /\ Parts(S) \in Nat
  BY UnitsAreNat
<1>2. \A o \in S : ConsumedVolume(o, S, demand) = Taken(S, q)[o]
  BY DEF ConsumedVolume, Taken
<1> HIDE DEF q
<1> DEFINE w == [o \in S |-> o.price * Taken(S, q)[o]]
<1>3. \A o \in S : w[o] = o.price * ConsumedVolume(o, S, demand)
  BY <1>2
<1> HIDE DEF w
<1>4. Cost(S, demand) = Sum(w, S)
  BY <1>3, CostIsSum DEF Ladder
<1>5. Sum(Taken(S, q), S) = Least(q, Parts(S))
  BY <1>1, LadderFills
<1>6. Least(q, Parts(S)) = q
  BY <1>1 DEF Least
<1>7. Sum(Taken(S, q), S) = q
  BY <1>5, <1>6
<1> QED
  BY <1>4, <1>7 DEF w, q

\* DEVLOG.md: "an execution-weighted price".  For any ladder and any demand the cost of the
\* running sum over the sell orders is that of a way of buying what the day wants (a fill: how
\* much of which order), and no way of buying it costs less.
\* Ids tell orders of one price and age apart (the UniqueConstraint of EsiMarketOrder).
THEOREM CheapestLadder ==
    ASSUME NEW orders, Ladder(orders), NEW demand \in Nat
    PROVE  LET fills == {fill \in [orders -> Nat] :
                            /\ \A o \in orders : fill[o] <= PeriodDays * o.volume
                            /\ Sum(fill, orders) = PurchaseUnits(orders, demand)}
               bill(fill) == Sum([o \in orders |-> o.price * fill[o]], orders)
           IN /\ \E fill \in fills : Cost(orders, demand) = bill(fill)
              /\ \A fill \in fills : Cost(orders, demand) <= bill(fill)
<1> DEFINE q == PurchaseUnits(orders, demand)
           t == Taken(orders, q)
           fits(fill) == /\ fill \in [orders -> Nat]
                         /\ \A o \in orders : fill[o] <= PeriodDays * o.volume
                         /\ Sum(fill, orders) = q
           bill(fill) == Sum([o \in orders |-> o.price * fill[o]], orders)
<1>1. q \in Nat /\ orders \in SUBSET Order /\ IsFiniteSet(orders)
  BY UnitsAreNat DEF Ladder
<1>2. Cost(orders, demand) = bill(t) /\ Sum(t, orders) = q
  BY CostOfTaken
<1> HIDE DEF q
<1>3. \A o \in orders : t[o] \in Nat /\ t[o] <= PeriodDays * o.volume
  BY <1>1, TakenFits
<1>4. t \in [orders -> Nat]
  <2>1. t = [o \in orders |-> t[o]]
    BY DEF Taken
  <2> HIDE DEF t
  <2> QED
    BY <1>3, <2>1
<1>5. PICK top \in Nat :
         \A o \in orders : /\ o.price < top => t[o] = PeriodDays * o.volume
                           /\ o.price > top => t[o] = 0
  BY <1>1, PriceOfLast
<1> HIDE DEF t
<1>6. ASSUME NEW fill, fits(fill) PROVE bill(t) <= bill(fill)
  <2>1. \A o \in orders : /\ t[o] \in Nat /\ fill[o] \in Nat
                          /\ o.price < top => fill[o] <= t[o]
                          /\ o.price > top => t[o] <= fill[o]
    <3> SUFFICES ASSUME NEW o \in orders
                 PROVE  /\ t[o] \in Nat /\ fill[o] \in Nat
                        /\ o.price < top => fill[o] <= t[o]
                        /\ o.price > top => t[o] <= fill[o]
      OBVIOUS
    <3>1. fill[o] \in Nat /\ fill[o] <= PeriodDays * o.volume /\ t[o] \in Nat
      BY <1>3, <1>6
    <3>2. /\ o.price < top => t[o] = PeriodDays * o.volume
          /\ o.price > top => t[o] = 0
      BY <1>5
    <3>3. o.price < top => fill[o] <= t[o]
      BY <3>1, <3>2
    <3>4. o.price > top => t[o] <= fill[o]
      BY <3>1, <3>2
    <3> QED
      BY <3>1, <3>3, <3>4
  <2>2. Sum(t, orders) = Sum(fill, orders)
    BY <1>2, <1>6
  <2> QED
    BY <1>1, <2>1, <2>2, CheaperBelow
<1>7. fits(t)
  BY <1>2, <1>3, <1>4
<1> HIDE DEF bill
<1>8. /\ \E fill : fits(fill) /\ Cost(orders, demand) = bill(fill)
      /\ \A fill : fits(fill) => Cost(orders, demand) <= bill(fill)
  BY <1>2, <1>6, <1>7
<1> QED
  BY <1>8 DEF bill, q

\* The average price of the running sum never falls: what buys more pays for less.
LEMMA AverageRises ==
    ASSUME NEW S, IsFiniteSet(S), Ladder(S), NEW q \in Nat, NEW n \in Nat, n <= q, q <= Parts(S)
    PROVE  q * Sum([o \in S |-> o.price * Taken(S, n)[o]], S)
             <= n * Sum([o \in S |-> o.price * Taken(S, q)[o]], S)
<1> DEFINE t == Taken(S, n)
           u == Taken(S, q)
           a == [o \in S |-> q * t[o]]
           b == [o \in S |-> n * u[o]]
           pt == [o \in S |-> o.price * t[o]]
           pu == [o \in S |-> o.price * u[o]]
           pa == [o \in S |-> o.price * a[o]]
           pb == [o \in S |-> o.price * b[o]]
<1>1. S \in SUBSET Order /\ IsFiniteSet(S) /\ Parts(S) \in Nat
      /\ \A o \in S : o.price \in Nat
  BY PartsFacts DEF Ladder, Order
<1>2. Sum(t, S) = n /\ Sum(u, S) = q
  <2>1. Sum(t, S) = Least(n, Parts(S)) /\ Sum(u, S) = Least(q, Parts(S))
    BY LadderFills
  <2>2. Least(n, Parts(S)) = n /\ Least(q, Parts(S)) = q
    BY <1>1 DEF Least
  <2> QED
    BY <2>1, <2>2
<1>3. \A o \in S : /\ t[o] \in Nat /\ u[o] \in Nat /\ PeriodDays * o.volume \in Nat
                   /\ u[o] <= PeriodDays * o.volume
  BY TakenFits, BeforeIsNat
<1>4. PICK top \in Nat :
         \A o \in S : /\ o.price < top => t[o] = PeriodDays * o.volume
                      /\ o.price > top => t[o] = 0
  BY PriceOfLast
<1>5. \A o \in S : a[o] = q * t[o] /\ b[o] = n * u[o] /\ pt[o] = o.price * t[o]
                   /\ pu[o] = o.price * u[o] /\ pa[o] = o.price * a[o] /\ pb[o] = o.price * b[o]
  OBVIOUS
<1>6. pa = [o \in S |-> o.price * a[o]] /\ pb = [o \in S |-> o.price * b[o]]
  OBVIOUS
<1> HIDE DEF t, u, a, b, pt, pu, pa, pb
<1>7. \A x, y \in Nat : y <= x => n * y <= q * x
  <2> SUFFICES ASSUME NEW x \in Nat, NEW y \in Nat, y <= x PROVE n * y <= q * x
    OBVIOUS
  <2>1. PICK d \in Nat : x = y + d
    <3>1. x - y \in Nat /\ x = y + (x - y)
      OBVIOUS
    <3> QED
      BY <3>1
  <2>2. PICK e \in Nat : q = n + e
    <3>1. q - n \in Nat /\ q = n + (q - n)
      OBVIOUS
    <3> QED
      BY <3>1
  <2>3. (n + e) * (y + d) = n * y + n * d + e * y + e * d
    OBVIOUS
  <2>4. n * y \in Nat /\ n * d \in Nat /\ e * y \in Nat /\ e * d \in Nat
    OBVIOUS
  <2>5. q * x = n * y + n * d + e * y + e * d
    BY <2>1, <2>2, <2>3
  <2> QED
    BY <2>4, <2>5
<1>8. ASSUME NEW o \in S
      PROVE  /\ a[o] \in Nat /\ b[o] \in Nat
             /\ o.price < top => b[o] <= a[o]
             /\ o.price > top => a[o] <= b[o]
  <2>1. t[o] \in Nat /\ u[o] \in Nat /\ u[o] <= PeriodDays * o.volume
    BY <1>3
  <2>2. q * t[o] \in Nat /\ n * u[o] \in Nat
    BY <2>1
  <2>3. a[o] = q * t[o] /\ b[o] = n * u[o]
    BY <1>5
  <2>4. CASE o.price < top
    <3>1. u[o] <= t[o] /\ ~(o.price > top)
      <4>1. t[o] = PeriodDays * o.volume
        BY <1>4, <2>4
      <4> QED
        BY <1>1, <2>1, <2>4, <4>1
    <3>2. n * u[o] <= q * t[o]
      BY <1>7, <2>1, <3>1
    <3> QED
      BY <2>2, <2>3, <3>1, <3>2
  <2>5. CASE o.price > top
    <3>1. t[o] = 0 /\ ~(o.price < top)
      BY <1>1, <1>4, <2>5
    <3>2. q * t[o] = 0
      BY <3>1
    <3> QED
      BY <2>2, <2>3, <3>1, <3>2
  <2> QED
    BY <2>2, <2>3, <2>4, <2>5
<1>9. Sum(a, S) = q * n /\ Sum(b, S) = n * q
  <2>1. \A o \in S : t[o] \in Nat /\ a[o] = q * t[o]
    BY <1>3, <1>5
  <2>2. \A o \in S : u[o] \in Nat /\ b[o] = n * u[o]
    BY <1>3, <1>5
  <2> HIDE DEF Sum
  <2>3. Sum(a, S) = q * Sum(t, S)
    BY <2>1, SumOfTimes
  <2>4. Sum(b, S) = n * Sum(u, S)
    BY <2>2, SumOfTimes
  <2> QED
    BY <1>2, <2>3, <2>4
<1>10. Sum(a, S) = Sum(b, S)
  <2>1. q * n = n * q
    OBVIOUS
  <2> QED
    BY <1>9, <2>1
<1>11. Sum(pa, S) <= Sum(pb, S)
  BY <1>1, <1>6, <1>8, <1>10, CheaperBelow
<1>12. Sum(pa, S) = q * Sum(pt, S)
  <2>1. \A o \in S : pt[o] \in Nat /\ pa[o] = q * pt[o]
    <3> SUFFICES ASSUME NEW o \in S PROVE pt[o] \in Nat /\ pa[o] = q * pt[o]
      OBVIOUS
    <3>1. t[o] \in Nat /\ o.price \in Nat
      BY <1>1, <1>3
    <3>2. \A p, x \in Nat : p * x \in Nat /\ p * (q * x) = q * (p * x)
      OBVIOUS
    <3> QED
      BY <1>5, <3>1, <3>2
  <2> HIDE DEF Sum
  <2> QED
    BY <2>1, SumOfTimes
<1>13. Sum(pb, S) = n * Sum(pu, S)
  <2>1. \A o \in S : pu[o] \in Nat /\ pb[o] = n * pu[o]
    <3> SUFFICES ASSUME NEW o \in S PROVE pu[o] \in Nat /\ pb[o] = n * pu[o]
      OBVIOUS
    <3>1. u[o] \in Nat /\ o.price \in Nat
      BY <1>1, <1>3
    <3>2. \A p, x \in Nat : p * x \in Nat /\ p * (n * x) = n * (p * x)
      OBVIOUS
    <3> QED
      BY <1>5, <3>1, <3>2
  <2> HIDE DEF Sum
  <2> QED
    BY <2>1, SumOfTimes
<1>14. q * Sum(pt, S) <= n * Sum(pu, S)
  BY <1>11, <1>12, <1>13
<1> QED
  BY <1>14 DEF pt, pu, t, u

\* The price of a source is that of the whole demand, before what is held is subtracted.  At any
\* holdings, the capital of an item at that price pays for what is left to buy.
THEOREM CapitalPaysForItem ==
    ASSUME NEW orders, Ladder(orders), orders # {}, NEW demand \in Nat, NEW held \in Nat
    PROVE  LET quantity == NetPurchaseUnits(orders, demand, held)
           IN Pays(SourcePrice(orders, demand), quantity, Cost(orders, quantity))
<1> DEFINE q == PurchaseUnits(orders, demand)
           n == NetPurchaseUnits(orders, demand, held)
           bill(m) == Sum([o \in orders |-> o.price * Taken(orders, m)[o]], orders)
<1>1. q \in Nat /\ q <= Parts(orders) /\ Parts(orders) \in Nat
      /\ orders \in SUBSET Order /\ IsFiniteSet(orders)
  BY UnitsAreNat DEF Ladder
<1>2. n \in Nat /\ n <= q
  <2>1. PeriodDays * held \in Nat
    BY PeriodAssumption
  <2>2. n = Most(q - PeriodDays * held, 0)
    BY DEF NetPurchaseUnits
  <2> HIDE DEF q, n
  <2> QED
    BY <1>1, <2>1, <2>2 DEF Most
<1>3. PurchaseUnits(orders, n) = n
  <2>1. PurchaseUnits(orders, n) = Least(Parts(orders), n)
    BY DEF PurchaseUnits
  <2> HIDE DEF q, n
  <2> QED
    BY <1>1, <1>2, <2>1 DEF Least
<1>4. Cost(orders, n) = bill(n) /\ Cost(orders, demand) = bill(q)
  <2>1. Cost(orders, demand) = bill(q)
    BY CostOfTaken
  <2> HIDE DEF n
  <2>2. Cost(orders, n) = bill(PurchaseUnits(orders, n))
    BY <1>2, CostOfTaken
  <2> QED
    BY <1>3, <2>1, <2>2
<1>5. q * bill(n) <= n * bill(q)
  <2> HIDE DEF q, n
  <2> QED
    BY <1>1, <1>2, AverageRises
<1>6. ASSUME NEW m \in Nat PROVE bill(m) \in Nat
  <2> DEFINE w == [o \in orders |-> o.price * Taken(orders, m)[o]]
  <2>1. \A o \in orders : w[o] \in Nat
    <3>1. \A o \in orders : o.price \in Nat /\ Taken(orders, m)[o] \in Nat
      BY <1>1, TakenFits DEF Order
    <3> QED
      BY <3>1
  <2> HIDE DEF w
  <2>2. Sum(w, orders) \in Nat
    BY <1>1, <2>1, SumIsNat
  <2> QED
    BY <2>2 DEF w
<1>7. bill(n) \in Nat /\ bill(q) \in Nat
  <2> HIDE DEF q, n, bill
  <2> QED
    BY <1>1, <1>2, <1>6
<1>8. Pays(SourcePrice(orders, demand), n, Cost(orders, n))
  <2>1. CASE q > 0
    <3>1. SourcePrice(orders, demand) = [cost |-> bill(q), parts |-> q]
      <4> HIDE DEF bill
      <4> QED
        BY <1>4, <2>1 DEF SourcePrice
    <3> HIDE DEF q, n, bill
    <3>2. bill(q) * n >= q * bill(n)
      <4>1. \A x, y \in Nat : x * y = y * x
        OBVIOUS
      <4>2. n * bill(q) = bill(q) * n
        BY <1>2, <1>7, <4>1
      <4>3. q * bill(n) \in Nat /\ bill(q) * n \in Nat
        BY <1>1, <1>2, <1>7
      <4> QED
        BY <1>5, <4>2, <4>3
    <3> QED
      BY <1>4, <3>1, <3>2 DEF Pays
  <2>2. CASE q = 0
    <3> DEFINE prices == {o.price : o \in orders}
    <3>1. SourcePrice(orders, demand) = [cost |-> Min(prices), parts |-> 1]
      BY <2>2 DEF SourcePrice
    <3>2. Min(prices) \in Nat
      <4>1. prices \in SUBSET Nat /\ prices # {}
        BY <1>1 DEF Order
      <4>2. PICK p \in prices : \A r \in prices : ~(r < p)
        <5> HIDE DEF prices
        <5> QED
          BY <4>1, NoLeast
      <4>3. \A r \in prices : p <= r
        <5> HIDE DEF prices
        <5> QED
          BY <4>1, <4>2
      <4>4. Min(prices) \in prices
        <5> HIDE DEF prices
        <5> QED
          BY <4>3 DEF Min
      <4> QED
        BY <4>1, <4>4
    <3>3. n = 0
      <4> HIDE DEF q, n
      <4> QED
        BY <1>2, <2>2
    <3>4. bill(0) = 0
      <4> DEFINE w == [o \in orders |-> o.price * Taken(orders, 0)[o]]
      <4>1. \A o \in orders : o.price \in Nat /\ Taken(orders, 0)[o] = 0
        BY <1>1, TakenFits DEF Order
      <4>2. \A o \in orders : w[o] \in Nat /\ w[o] = 0 * w[o]
        <5>1. \A p \in Nat : p * 0 = 0 /\ 0 * 0 = 0
          OBVIOUS
        <5> QED
          BY <4>1, <5>1
      <4> HIDE DEF w
      <4>3. Sum(w, orders) = 0 * Sum(w, orders) /\ Sum(w, orders) \in Nat
        BY <1>1, <4>2, SumOfTimes, SumIsNat
      <4>4. Sum(w, orders) = 0
        <5>1. \A x \in Nat : 0 * x = 0
          OBVIOUS
        <5> HIDE DEF Sum
        <5> QED
          BY <4>3, <5>1
      <4> QED
        BY <4>4 DEF w
    <3> HIDE DEF bill, n, q, prices
    <3>5. \A x \in Nat : x * 0 >= 1 * 0
      OBVIOUS
    <3> QED
      BY <1>4, <3>1, <3>2, <3>3, <3>4, <3>5 DEF Pays
  <2> QED
    <3> HIDE DEF q
    <3> QED
      BY <1>1, <2>1, <2>2
<1> QED
  BY <1>8

\* DEVLOG.md: "based on each item's `purchase_units`".  The summary of a source counts whole
\* units, and never fewer than the item wants.
THEOREM SummaryIsAhead ==
    ASSUME NEW orders, Ladder(orders), NEW demand \in Nat
    PROVE  SummaryQuantity(orders, demand) >= PurchaseUnits(orders, demand)
<1> DEFINE d == (demand + PeriodDays - 1) \div PeriodDays
<1>1. Parts(orders) \in Nat
  BY UnitsAreNat
<1>2. PeriodDays * d \in Nat /\ PeriodDays * d >= demand
  <2>1. demand + PeriodDays - 1 \in Nat /\ PeriodDays \in Nat /\ PeriodDays > 0
    BY PeriodAssumption
  <2>2. \A x \in Nat, y \in Nat : y > 0 => /\ x \div y \in Nat /\ y * (x \div y) \in Nat
                                          /\ x < y * (x \div y) + y
    OBVIOUS
  <2>3. demand + PeriodDays - 1 < PeriodDays * d + PeriodDays /\ PeriodDays * d \in Nat
    BY <2>1, <2>2
  <2> HIDE DEF d
  <2> QED
    BY <2>1, <2>3
<1>3. SummaryQuantity(orders, demand) = Least(PeriodDays * d, Parts(orders))
  BY DEF SummaryQuantity
<1> HIDE DEF d
<1> QED
  BY <1>1, <1>2, <1>3 DEF Least, PurchaseUnits
=============================================================================
