------------------------ MODULE FreshTradeSyncProofs ------------------------
(***************************************************************************)
(* The full refresh, and the universe that its first stage imports.        *)
(*                                                                         *)
(* What fresh_trade_data_sync counts as done was done, for any set of raw  *)
(* imports and whatever others do to the job table meanwhile               *)
(* (FreshTradeSync).  The work is in two layers: what the operations of    *)
(* the ledger keep of a row that a call rests on, and how far the calls    *)
(* are at each stage of the refresh.                                       *)
(*                                                                         *)
(* Names and twins, for any stations, structures and catalogs (Universe).  *)
(* Three jobs insert the same places in sessions of their own, so the      *)
(* proofs rest on what PostgreSQL's unique indexes make them wait for:     *)
(* while the import of orders holds an insert, no other session commits or *)
(* holds that place.                                                       *)
(***************************************************************************)
EXTENDS FreshTradeSync, Universe, TLAPS


-----------------------------------------------------------------------------
(* The full refresh: what no operation on the ledger takes back            *)

\* A row stays, under its type; a run that succeeded and is over stays that way.
RowsKept ==
    \A j \in Jobs : runs[j].status # "absent" =>
        /\ runs'[j].status # "absent"
        /\ runs'[j].type = runs[j].type
        /\ runs[j].outcome = "success" /\ runs[j].executor = "none" =>
               runs'[j].outcome = "success" /\ runs'[j].executor = "none"

\* The ledger is typed and honest again, and nothing was taken back.
LedgerMoves == LedgerTypeOK' /\ RowsHonest' /\ RowsKept

\* Every operation of the job service, by whomever, is such a move.
LEMMA OpenMoves ==
    ASSUME LedgerTypeOK, RowsHonest, NEW j \in Jobs, NEW t \in Types, Open(j, t)
    PROVE  LedgerMoves /\ runs'[j].type = t /\ runs'[j].status = "running"
  BY DEF LedgerTypeOK, RowsHonest, Open, LedgerMoves, RowsKept, Run, Active

\* A body that ends tells its outcome ...
LEMMA EndsMoves ==
    ASSUME LedgerTypeOK, RowsHonest, NEW j \in Jobs, NEW v \in Verdict, Ends(j, v)
    PROVE  LedgerMoves
<1>1. PICK status \in {runs[j].status} \cup (IF v = "cancelled" THEN {"cancelling"} ELSE {}) :
          runs' = [runs EXCEPT ![j].outcome = v, ![j].status = status]
  BY DEF Ends
<1>2. runs[j].executor = "alive" /\ runs[j].outcome = "none"
  BY DEF Ends
<1>3. status = runs[j].status \/ status = "cancelling"
  BY <1>1
<1>4. LedgerTypeOK'
  <2>1. runs[j] \in Run
    BY DEF LedgerTypeOK
  <2>2. [runs[j] EXCEPT !.outcome = v, !.status = status] \in Run
    BY <2>1, <1>3 DEF Run, Active
  <2>3. runs' = [runs EXCEPT ![j] = [runs[j] EXCEPT !.outcome = v, !.status = status]]
    BY <1>1 DEF LedgerTypeOK, Run
  <2> QED
    BY <2>2, <2>3 DEF LedgerTypeOK
<1>5. RowsHonest' /\ RowsKept
  BY <1>1, <1>2, <1>3 DEF LedgerTypeOK, RowsHonest, RowsKept, Run
<1> QED
  BY <1>4, <1>5 DEF LedgerMoves

\* ... and its executor closes the row with it, and is gone.
LEMMA ClosesMoves ==
    ASSUME LedgerTypeOK, RowsHonest, NEW j \in Jobs, Closes(j)
    PROVE  /\ LedgerMoves
           /\ runs'[j].outcome = runs[j].outcome /\ runs'[j].executor = "none"
           /\ runs[j].outcome \in Verdict
  BY DEF LedgerTypeOK, RowsHonest, Closes, LedgerMoves, RowsKept, Run, Active, Verdict

\* Marking a run does not touch what became of it ...
LEMMA MarkMoves ==
    ASSUME LedgerTypeOK, RowsHonest, NEW j \in Jobs, Mark(j)
    PROVE  LedgerMoves
  BY DEF LedgerTypeOK, RowsHonest, Mark, LedgerMoves, RowsKept, Run, Active

\* ... nor does closing the rows of others ...
LEMMA ForceCloseMoves ==
    ASSUME LedgerTypeOK, RowsHonest, NEW S, NEW v, ForceClose(S, v)
    PROVE  LedgerMoves
  BY DEF LedgerTypeOK, RowsHonest, ForceClose, LedgerMoves, RowsKept, Run, Verdict

\* ... or losing their executors ...
LEMMA LoseMoves ==
    ASSUME LedgerTypeOK, RowsHonest, NEW S \in SUBSET Jobs, Lose(S)
    PROVE  LedgerMoves
  BY DEF LedgerTypeOK, RowsHonest, Lose, LedgerMoves, RowsKept, Run

\* ... or doing nothing.
LEMMA NoMove ==
    ASSUME LedgerTypeOK, RowsHonest, UNCHANGED runs
    PROVE  LedgerMoves
  BY DEF LedgerTypeOK, RowsHonest, LedgerMoves, RowsKept

-----------------------------------------------------------------------------
(* What that means for the calls                                           *)

\* The call of k rests on a run of its type, and a good one on a run that succeeded.
CallHonest(k) ==
    /\ calls[k].pc \in {"running", "waiting", "returned"} =>
          calls[k].job \in Jobs /\ runs[calls[k].job].type = k
                                /\ runs[calls[k].job].status # "absent"
    /\ Good(k) => runs[calls[k].job].outcome = "success"
                  /\ runs[calls[k].job].executor = "none"

\* The coordinator's calls are honest when each of them is.
LEMMA EachCallHonest == CallsHonest <=> \A k \in Types : CallHonest(k)
  BY DEF CallsHonest, CallHonest

\* A call that stays as it is rests on its run as firmly as before.
LEMMA CallStays ==
    ASSUME RowsKept, NEW k \in Types, CallHonest(k), calls'[k] = calls[k]
    PROVE  CallHonest(k)'
  BY DEF CallHonest, RowsKept, Good

\* So does every call, when the ledger moves and no call does.
LEMMA CallsStay ==
    ASSUME RowsKept, CallsHonest, UNCHANGED calls
    PROVE  CallsHonest'
  BY CallStays, EachCallHonest DEF CallHonest, CallsHonest, Good

\* A step of one pending call leaves the stages what they were.
LEMMA CallMoves ==
    ASSUME FreshInv, NEW k \in Types, calls[k].pc \in Pending, calls'[k].pc # "idle",
           \A i \in Types : i # k => calls'[i] = calls[i],
           UNCHANGED <<pc, verdict, collected>>
    PROVE  StagesHonest' /\ StagedOnGood'
<1> USE DEF FreshInv, StagesHonest, StagedOnGood, FreshTypeOK, Stages
<1>1. foundation \in Types /\ structure \in Types /\ Raw \subseteq Types
  BY FreshAssumption
<1>2. ~Good(k) /\ ~Untouched(k) /\ ~Over(k) /\ ~Untouched(k)'
  BY DEF Good, Untouched, Over, Pending
<1>3. \A i \in Types : /\ Good(i) => Good(i)'
                       /\ Untouched(i)' <=> Untouched(i)
                       /\ Over(i) => Over(i)'
  BY <1>2 DEF Good, Untouched, Over
<1>4. StagesHonest'
  BY <1>1, <1>2, <1>3
<1>5. StagedOnGood'
  BY <1>1, <1>3
<1> QED
  BY <1>4, <1>5

\* Nothing about the stages depends on the rows.
LEMMA StagesStay ==
    ASSUME FreshInv, UNCHANGED <<pc, verdict, collected, calls>>
    PROVE  StagesHonest' /\ StagedOnGood'
  BY DEF FreshInv, StagesHonest, StagedOnGood, Good, Untouched, Over

-----------------------------------------------------------------------------
(* The inductive invariant                                                 *)

\* What the calls are built from is typed.
LEMMA CallTypes ==
    /\ NoCall \in Call /\ [NoCall EXCEPT !.pc = "look"] \in Call
    /\ foundation \in Types /\ structure \in Types /\ Raw \subseteq Types
    /\ foundation # structure /\ foundation \notin Raw /\ structure \notin Raw
  BY FreshAssumption DEF NoCall, Call, Pending, Active, Verdict

\* A refresh not yet started, over an empty ledger.
LEMMA InitHonest == FreshInit => FreshInv
<1> SUFFICES ASSUME FreshInit
             PROVE  FreshInv
  OBVIOUS
<1> USE DEF FreshInit
<1>1. FreshTypeOK
  <2>1. AnyType \in Types
    BY LedgerAssumption DEF AnyType
  <2>2. NoRun \in Run
    BY <2>1 DEF NoRun, Run
  <2> QED
    BY <2>2, CallTypes, FreshAssumption DEF FreshTypeOK, LedgerInit, LedgerTypeOK
<1>2. RowsHonest
  BY DEF RowsHonest, LedgerInit, NoRun
<1>3. CallsHonest /\ StagesHonest /\ StagedOnGood
  BY CallTypes DEF CallsHonest, StagesHonest, StagedOnGood, Good, Untouched, NoCall, Stages
<1> QED
  BY <1>1, <1>2, <1>3 DEF FreshInv

\* A step in which no call moves and the ledger does: everybody else's.
LEMMA LedgerOnly ==
    ASSUME FreshInv, LedgerMoves, UNCHANGED <<pc, verdict, collected, calls, attempts>>,
           others' \in 0..MaxOthers, outside' \in 0..MaxOutside
    PROVE  FreshInv'
<1>1. FreshTypeOK'
  BY DEF FreshInv, FreshTypeOK, LedgerMoves
<1>2. CallsHonest'
  BY CallsStay DEF FreshInv, LedgerMoves
<1>3. StagesHonest' /\ StagedOnGood'
  BY StagesStay
<1> QED
  BY <1>1, <1>2, <1>3 DEF FreshInv, LedgerMoves

\* A step of the one pending call k, by itself or with its run.
LEMMA CallOnly ==
    ASSUME FreshInv, LedgerMoves, NEW k \in Types, calls[k].pc \in Pending,
           NEW c \in Call, c.pc # "idle", calls' = [calls EXCEPT ![k] = c],
           CallHonest(k)',
           UNCHANGED <<pc, verdict, collected, attempts, others, outside>>
    PROVE  FreshInv'
<1>1. calls' \in [Types -> Call] /\ calls'[k] = c
      /\ \A i \in Types : i # k => calls'[i] = calls[i]
  BY DEF FreshInv, FreshTypeOK
<1>2. FreshTypeOK'
  BY <1>1 DEF FreshInv, FreshTypeOK, LedgerMoves
<1>3. CallsHonest'
  <2>1. \A i \in Types : i # k => CallHonest(i)'
    BY <1>1, CallStays, EachCallHonest DEF FreshInv, LedgerMoves
  <2> QED
    BY <2>1 DEF CallHonest, CallsHonest, Good
<1>4. StagesHonest' /\ StagedOnGood'
  BY <1>1, CallMoves
<1> QED
  BY <1>2, <1>3, <1>4 DEF FreshInv, LedgerMoves

\* The steps of one child keep the invariant.
LEMMA CallsKeep ==
    ASSUME FreshInv, NEW k \in Types, CallStep(k) \/ BodyStep(k)
    PROVE  FreshInv'
<1> DEFINE r == runs[calls[k].job]
<1>1. /\ LedgerTypeOK /\ RowsHonest /\ CallHonest(k)
      /\ calls[k] \in Call /\ calls \in [Types -> Call]
  BY EachCallHonest DEF FreshInv, FreshTypeOK
<1>2. CASE Look(k)
  <2>0. LedgerMoves
    BY <1>1, <1>2, NoMove DEF Look
  <2>1. CASE calls' = [calls EXCEPT ![k].pc = "insert"]
    <3> DEFINE c == [calls[k] EXCEPT !.pc = "insert"]
    <3>1. c \in Call /\ c.pc = "insert" /\ calls' = [calls EXCEPT ![k] = c]
      BY <1>1, <2>1 DEF Call, Pending
    <3>2. CallHonest(k)'
      BY <1>1, <3>1 DEF CallHonest, Good
    <3> QED
      BY <1>2, <2>0, <3>1, <3>2, CallOnly DEF Look, Pending
  <2>2. ASSUME NEW j \in OpenOf(k),
               calls' = [calls EXCEPT ![k].pc = "waiting", ![k].job = j]
        PROVE  FreshInv'
    <3> DEFINE c == [calls[k] EXCEPT !.pc = "waiting", !.job = j]
    <3>1. j \in Jobs /\ runs[j].type = k /\ runs[j].status # "absent"
      BY DEF OpenOf, IsOpen, Active
    <3>2. c \in Call /\ c.pc = "waiting" /\ c.job = j /\ calls' = [calls EXCEPT ![k] = c]
      BY <1>1, <2>2, <3>1 DEF Call, Pending
    <3>3. CallHonest(k)'
      BY <1>1, <1>2, <3>1, <3>2 DEF CallHonest, Good, Look
    <3> QED
      BY <1>2, <2>0, <3>2, <3>3, CallOnly DEF Look, Pending
  <2> QED
    BY <1>2, <2>1, <2>2 DEF Look
<1>3. CASE Insert(k)
  <2>1. PICK j \in Jobs :
            Open(j, k) /\ calls' = [calls EXCEPT ![k].pc = "running", ![k].job = j]
    BY <1>3 DEF Insert
  <2>2. LedgerMoves /\ runs'[j].type = k /\ runs'[j].status = "running"
    BY <1>1, <2>1, OpenMoves
  <2> DEFINE c == [calls[k] EXCEPT !.pc = "running", !.job = j]
  <2>3. c \in Call /\ c.pc = "running" /\ c.job = j /\ calls' = [calls EXCEPT ![k] = c]
    BY <1>1, <2>1 DEF Call, Pending
  <2>4. CallHonest(k)'
    BY <1>1, <2>2, <2>3 DEF CallHonest, Good
  <2> QED
    BY <1>3, <2>2, <2>3, <2>4, CallOnly DEF Insert, Pending
<1>4. CASE PollJoined(k)
  <2>1. /\ calls[k].pc = "waiting"
        /\ calls' = [calls EXCEPT ![k].pc = "returned", ![k].result = r.status]
        /\ UNCHANGED <<runs, pc, verdict, collected, attempts, others, outside>>
    BY <1>4 DEF PollJoined
  <2>2. LedgerMoves
    BY <1>1, <2>1, NoMove
  <2>3. calls[k].job \in Jobs /\ r.type = k /\ r.status \in Active \cup Verdict
    BY <1>1, <2>1 DEF CallHonest, LedgerTypeOK, Run
  <2> DEFINE c == [calls[k] EXCEPT !.pc = "returned", !.result = r.status]
  <2>4. /\ c \in Call /\ c.pc = "returned" /\ c.job = calls[k].job /\ c.result = r.status
        /\ calls' = [calls EXCEPT ![k] = c]
    BY <1>1, <2>1, <2>3 DEF Call, Pending
  <2>5. CallHonest(k)'
    BY <1>1, <2>1, <2>3, <2>4 DEF CallHonest, Good, RowsHonest, Active, Verdict
  <2> QED
    BY <2>1, <2>2, <2>4, <2>5, CallOnly DEF Pending
<1>5. CASE WaitTimesOut(k)
  <2> DEFINE c == [calls[k] EXCEPT !.pc = "raised"]
  <2>1. LedgerMoves
    BY <1>1, <1>5, NoMove DEF WaitTimesOut
  <2>2. c \in Call /\ c.pc = "raised" /\ calls' = [calls EXCEPT ![k] = c]
    BY <1>1, <1>5 DEF Call, WaitTimesOut
  <2>3. CallHonest(k)'
    BY <1>1, <2>2 DEF CallHonest, Good
  <2> QED
    BY <1>5, <2>1, <2>2, <2>3, CallOnly DEF WaitTimesOut, Pending
<1>6. CASE OwnEnds(k)
  <2>1. calls[k].job \in Jobs
    BY <1>1, <1>6 DEF CallHonest, OwnEnds
  <2>2. LedgerMoves
    BY <1>1, <1>6, <2>1, EndsMoves DEF OwnEnds
  <2> QED
    BY <1>6, <2>2, LedgerOnly DEF OwnEnds, FreshInv, FreshTypeOK
<1>7. CASE OwnReturns(k)
  <2>1. /\ calls[k].pc = "running" /\ Closes(calls[k].job)
        /\ calls' = [calls EXCEPT ![k].pc = "returned", ![k].result = r.outcome]
        /\ UNCHANGED <<pc, verdict, collected, attempts, others, outside>>
    BY <1>7 DEF OwnReturns
  <2>2. calls[k].job \in Jobs /\ r.type = k /\ r.status # "absent"
    BY <1>1, <2>1 DEF CallHonest
  <2>3. /\ LedgerMoves /\ r.outcome \in Verdict
        /\ runs'[calls[k].job].outcome = r.outcome
        /\ runs'[calls[k].job].executor = "none"
    BY <1>1, <2>1, <2>2, ClosesMoves
  <2>4. runs'[calls[k].job].type = k /\ runs'[calls[k].job].status # "absent"
    BY <2>2, <2>3 DEF LedgerMoves, RowsKept
  <2> DEFINE c == [calls[k] EXCEPT !.pc = "returned", !.result = r.outcome]
  <2>5. /\ c \in Call /\ c.pc = "returned" /\ c.job = calls[k].job /\ c.result = r.outcome
        /\ calls' = [calls EXCEPT ![k] = c]
    BY <1>1, <2>1, <2>3 DEF Call, Pending
  <2>6. CallHonest(k)'
    BY <1>1, <2>2, <2>3, <2>4, <2>5 DEF CallHonest, Good
  <2> QED
    BY <2>1, <2>3, <2>5, <2>6, CallOnly DEF Pending
<1> QED
  BY <1>2, <1>3, <1>4, <1>5, <1>6, <1>7 DEF CallStep, BodyStep

\* A step of the refresh's own thread, which moves no row and drops no good call.
LEMMA StagesKeep ==
    ASSUME FreshInv, RefreshStep
    PROVE  FreshInv'
<1>1. /\ FreshTypeOK /\ RowsHonest /\ CallsHonest /\ calls \in [Types -> Call]
      /\ LedgerTypeOK /\ UNCHANGED <<runs, attempts, others, outside>>
  BY DEF FreshInv, FreshTypeOK, RefreshStep, FoundationDone, PoolTimesOut, Drained, RawDone,
         StructureDone, Collect
<1>2. LedgerTypeOK' /\ RowsHonest' /\ RowsKept
  BY <1>1, NoMove DEF LedgerMoves
<1>3. ASSUME NEW S, S \subseteq Types, Submit(S)
      PROVE  /\ calls' \in [Types -> Call] /\ CallsHonest'
             /\ \A k \in S : calls'[k].pc = "look"
             /\ \A k \in Types \ S : calls'[k] = calls[k]
  <2>1. /\ calls' \in [Types -> Call]
        /\ \A k \in S : calls'[k].pc = "look"
        /\ \A k \in Types \ S : calls'[k] = calls[k]
    BY <1>1, <1>3, CallTypes DEF Submit, NoCall
  <2>2. \A k \in S : CallHonest(k)'
    BY <1>3, <2>1 DEF CallHonest, Good
  <2>3. \A k \in Types \ S : CallHonest(k)'
    BY <1>1, <1>2, <2>1, CallStays, EachCallHonest
  <2> QED
    BY <2>1, <2>2, <2>3 DEF CallHonest, CallsHonest, Good
<1>4. UNCHANGED calls => CallsHonest' /\ calls' \in [Types -> Call]
  BY <1>1, <1>2, CallsStay
<1> USE CallTypes DEF FreshInv, FreshTypeOK, StagesHonest, StagedOnGood, Stages
<1>5. CASE FoundationDone /\ Good(foundation)
  <2>1. pc = "foundation" /\ pc' = "raw" /\ Submit(Raw) /\ UNCHANGED <<verdict, collected>>
    BY <1>5 DEF FoundationDone
  <2> QED
    BY <1>1, <1>2, <1>3, <1>5, <2>1 DEF Good, Untouched
<1>6. CASE FoundationDone /\ ~Good(foundation)
  <2>1. /\ pc = "foundation" /\ Over(foundation) /\ pc' = "done" /\ verdict' = "failed"
        /\ UNCHANGED <<calls, collected>>
    BY <1>6 DEF FoundationDone
  <2> QED
    BY <1>1, <1>2, <1>4, <2>1 DEF Good, Untouched, Over
<1>7. ASSUME NEW k \in Raw, Collect(k)
      PROVE  FreshInv'
  BY <1>1, <1>2, <1>4, <1>7 DEF Collect, Good, Untouched, Over
<1>8. CASE PoolTimesOut
  BY <1>1, <1>2, <1>4, <1>8 DEF PoolTimesOut, Good, Untouched, Over
<1>9. CASE Drained
  <2>1. \A k \in Types : k = foundation \/ k = structure \/ k \in Raw
    BY FreshAssumption
  <2> QED
    BY <1>1, <1>2, <1>4, <1>9, <2>1 DEF Drained, Good, Untouched, Over
<1>10. CASE RawDone
  <2>1. Submit({structure}) /\ pc = "raw" /\ pc' = "structure" /\ collected = Raw
        /\ UNCHANGED <<verdict, collected>>
    BY <1>10 DEF RawDone
  <2>2. /\ calls' \in [Types -> Call] /\ CallsHonest' /\ calls'[structure].pc = "look"
        /\ \A k \in Types \ {structure} : calls'[k] = calls[k]
    BY <1>3, <2>1
  <2> QED
    BY <1>1, <1>2, <2>1, <2>2 DEF Good, Untouched, Over
<1>11. CASE StructureDone
  <2>1. \A k \in Types : k = foundation \/ k = structure \/ k \in Raw
    BY FreshAssumption
  <2> QED
    BY <1>1, <1>2, <1>4, <1>11, <2>1 DEF StructureDone, Good, Untouched, Over
<1> QED
  BY <1>5, <1>6, <1>7, <1>8, <1>9, <1>10, <1>11 DEF RefreshStep

\* Starting over, or dying, forgets every call.
LEMMA StartsAndCrashesKeep ==
    ASSUME FreshInv, Start \/ Crash
    PROVE  FreshInv'
<1>1. LedgerTypeOK /\ RowsHonest
  BY DEF FreshInv, FreshTypeOK
<1> USE CallTypes DEF FreshInv, FreshTypeOK, StagesHonest, StagedOnGood, Stages
<1>2. CASE Start
  <2>1. LedgerTypeOK' /\ RowsHonest'
    BY <1>1, <1>2, NoMove DEF Start, LedgerMoves
  <2>2. /\ calls' \in [Types -> Call] /\ calls'[foundation].pc = "look"
        /\ \A k \in Types \ {foundation} : calls'[k] = NoCall
    BY <1>2 DEF Start, NoCall
  <2>3. CallsHonest'
    BY <2>2 DEF CallsHonest, Good, NoCall
  <2>4. StagesHonest' /\ StagedOnGood'
    BY <1>2, <2>2 DEF Start, Good, Untouched, NoCall
  <2>5. attempts' \in 0..MaxAttempts
    BY <1>2, FreshAssumption DEF Start
  <2> QED
    BY <1>2, <2>1, <2>2, <2>3, <2>4, <2>5 DEF Start
<1>3. CASE Crash
  <2>1. PICK S \in SUBSET {j \in Jobs : runs[j].executor = "alive"} : Lose(S)
    BY <1>3 DEF Crash
  <2>2. LedgerTypeOK' /\ RowsHonest'
    BY <1>1, <2>1, LoseMoves DEF LedgerMoves
  <2>3. calls' = [k \in Types |-> NoCall] /\ pc' = "lost" /\ pc \in Stages
        /\ UNCHANGED <<verdict, collected, attempts, others, outside>>
    BY <1>3 DEF Crash
  <2>4. CallsHonest' /\ StagesHonest' /\ StagedOnGood'
    BY <2>3 DEF CallsHonest, Good, Untouched, NoCall
  <2> QED
    BY <2>2, <2>3, <2>4
<1> QED
  BY <1>2, <1>3

\* Whatever everybody else does to the ledger.
LEMMA OthersKeep ==
    ASSUME FreshInv, Meddle \/ OthersWork
    PROVE  FreshInv'
<1>1. LedgerTypeOK /\ RowsHonest /\ others \in 0..MaxOthers /\ outside \in 0..MaxOutside
  BY DEF FreshInv, FreshTypeOK
<1>2. CASE Meddle
  <2>1. outside' \in 0..MaxOutside /\ UNCHANGED <<pc, verdict, collected, calls, attempts>>
    BY <1>1, <1>2, FreshAssumption DEF Meddle
  <2>2. CASE /\ others < MaxOthers /\ others' = others + 1
             /\ \E j \in Jobs, k \in OthersTypes : Open(j, k)
    BY <1>1, <2>1, <2>2, OpenMoves, LedgerOnly, FreshAssumption
  <2>3. CASE UNCHANGED others /\ \E j \in Jobs : Mark(j)
    BY <1>1, <2>1, <2>3, MarkMoves, LedgerOnly
  <2>4. CASE UNCHANGED others /\ \E j \in Jobs, v \in Verdict : ForceClose({j}, v)
    BY <1>1, <2>1, <2>4, ForceCloseMoves, LedgerOnly
  <2>5. CASE UNCHANGED others /\ \E j \in Jobs \ Own : Lose({j})
    BY <1>1, <2>1, <2>5, LoseMoves, LedgerOnly
  <2> QED
    BY <1>2, <2>2, <2>3, <2>4, <2>5 DEF Meddle
<1>3. CASE OthersWork
  <2>1. LedgerMoves
    BY <1>1, <1>3, ClosesMoves, EndsMoves DEF OthersWork
  <2> QED
    BY <1>1, <1>3, <2>1, LedgerOnly DEF OthersWork
<1> QED
  BY <1>2, <1>3

\* The invariant is inductive.
LEMMA FreshInductive == FreshInv /\ [FreshNext]_freshVars => FreshInv'
<1> SUFFICES ASSUME FreshInv, [FreshNext]_freshVars
             PROVE  FreshInv'
  OBVIOUS
<1>1. CASE UNCHANGED freshVars
  BY <1>1, NoMove, LedgerOnly DEF freshVars, FreshInv, FreshTypeOK
<1> QED
  BY <1>1, StagesKeep, StartsAndCrashesKeep, OthersKeep, CallsKeep DEF FreshNext

-----------------------------------------------------------------------------
(* Theorems of the full refresh                                            *)

\* The refresh, its calls and the ledger only ever hold values of their types: a call
\* never awaits a run that does not exist, and returns a status a row can have.
THEOREM TypesCorrect == FreshSpec => []FreshTypeOK
<1>1. FreshInv => FreshTypeOK
  BY DEF FreshInv
<1> QED
  BY <1>1, InitHonest, FreshInductive, PTL DEF FreshSpec

\* The stages of _run_fresh_trade_data_sync build on one another's success, and what
\* counts as done was done, although others cancel, clear, lose and open runs of the
\* same types while it waits.
THEOREM StagesBuildOnSuccess == FreshSpec => []StagedOnSuccess
<1>1. FreshInv => StagedOnSuccess
  <2> SUFFICES ASSUME FreshInv
               PROVE  StagedOnSuccess
    OBVIOUS
  <2>1. \A k \in Types : Good(k) => Succeeded(k)
    BY DEF FreshInv, CallsHonest, Succeeded, Good
  <2> QED
    BY <2>1, CallTypes DEF FreshInv, StagedOnGood, StagedOnSuccess, Untouched
<1> QED
  BY <1>1, InitHonest, FreshInductive, PTL DEF FreshSpec

\* Whichever way the refresh ends -- with its last child, on a failed one, on the
\* deadline of the pool or with its process -- no call of it is left pending.
THEOREM EveryWayOutJoins == FreshSpec => []NothingLeftBehind
<1>1. FreshInv => NothingLeftBehind
  BY DEF FreshInv, StagesHonest, NothingLeftBehind, Untouched, Over, Pending
<1> QED
  BY <1>1, InitHonest, FreshInductive, PTL DEF FreshSpec


-----------------------------------------------------------------------------
(* The universe: types                                                     *)

\* A session that has nothing in hand, and an empty plan, are typed.
LEMMA SessionTypes == NoImport \in Import /\ NoOrders \in Orders /\ NoSync \in Sync
  BY DEF NoImport, Import, NoOrders, Orders, NoSync, Sync, Plans

\* A failure is counted up to its bound.
LEMMA FailingType == UniverseTypeOK /\ Failing => failures' \in 0..MaxFailures
  BY UniverseAssumption DEF UniverseTypeOK, Failing

\* Renaming gives a name.
LEMMA RenamedType ==
    ASSUME NEW old, NEW s
    PROVE  Renamed(old, s) \in Names /\ (old = "real" => Renamed(old, s) = "real")
           /\ Renamed(old, s) # "none"
  BY DEF Renamed, Names

\* A structure's plan is one a session can have.
LEMMA PlannedType ==
    ASSUME NEW t, NEW name, name # "none"
    PROVE  Planned(t, name) \in Plans /\ (Planned(t, name) = "update" => ~Missing(t))
<1>1. CASE place[t] = name
  BY <1>1 DEF Planned, Plans
<1>2. CASE place[t] # name /\ Missing(t)
  BY <1>2 DEF Planned, Plans
<1>3. CASE place[t] # name /\ ~Missing(t)
  BY <1>3 DEF Planned, Plans
<1> QED
  BY <1>1, <1>2, <1>3

\* A structure is called something.
LEMMA CalledType == \A t, S : Called(t, S) \in {"real", "placeholder"}
  BY DEF Called

\* What the import of orders may do at a look, one case after the other.
LEMMA LookCases ==
    ASSUME NEW p \in Places, OrdersLook(p)
    PROVE  /\ \/ orders' = NoOrders
              \/ \E q \in Places : orders' = Skipped(q)
              \/ orders' = [orders EXCEPT !.pc = "insert", !.at = {p}]
           /\ UNCHANGED <<universe, station, place, accessible, unnamed, kept, published, imp,
                          sync, counters>>
  BY DEF OrdersLook, Places

\* Every step of every job and of everybody else is typed.
LEMMA TypesStep == UniverseTypeOK /\ [Next]_vars => UniverseTypeOK'
<1> SUFFICES ASSUME UniverseTypeOK, [Next]_vars
             PROVE  UniverseTypeOK'
  OBVIOUS
<1> USE SessionTypes DEF UniverseTypeOK, counters, sessions
<1>1. CASE ImportRead
  <2>1. imp' \in Import
    BY <1>1 DEF ImportRead, Import
  <2> QED
    BY <1>1, <2>1, FailingType DEF ImportRead
<1>2. ASSUME NEW p \in Published, ImportInsert(p)
      PROVE  UniverseTypeOK'
  <2>1. imp' \in Import
    BY <1>2 DEF ImportInsert, Import
  <2> QED
    BY <1>2, <2>1 DEF ImportInsert
<1>3. CASE ImportCommit
  <2>1. station' \in [Stations -> Names]
    BY <1>3, RenamedType DEF ImportCommit
  <2>2. place' \in [Places -> Names]
    <3>1. \A p \in Places :
            (CASE p \in imp.seed \cap Stations -> Renamed(place[p], p)
               [] p \in imp.seed \ Stations /\ Missing(p) -> "real"
               [] OTHER -> place[p]) \in Names
      BY RenamedType DEF Names
    <3> QED
      BY <1>3, <3>1 DEF ImportCommit
  <2> QED
    BY <1>3, <2>1, <2>2 DEF ImportCommit
<1>4. CASE ImportFail
  BY <1>4, FailingType DEF ImportFail
<1>5. CASE OrdersStart
  <2>1. PICK listed \in SUBSET Places :
            orders' = [NoOrders EXCEPT !.pc = "look", !.todo = {p \in listed : Missing(p)}]
    BY <1>5 DEF OrdersStart
  <2>2. {p \in listed : Missing(p)} \in SUBSET Places
    OBVIOUS
  <2>3. orders' \in Orders
    BY <2>1, <2>2 DEF Orders, NoOrders
  <2> QED
    BY <1>5, <2>3 DEF OrdersStart
<1>6. ASSUME NEW p \in Places, OrdersLook(p)
      PROVE  UniverseTypeOK'
  <2>1. orders.todo \in SUBSET Places /\ {p} \in SUBSET Places
    BY DEF Orders
  <2>2. \A q \in Places : Skipped(q) \in Orders
    BY <2>1 DEF Orders, Skipped
  <2>3. [orders EXCEPT !.pc = "insert", !.at = {p}] \in Orders
    BY <2>1 DEF Orders
  <2>4. orders' \in Orders
    BY <1>6, <2>2, <2>3, LookCases
  <2> QED
    BY <1>6, <2>4, LookCases
<1>7. ASSUME NEW p \in Places, OrdersInsert(p)
      PROVE  UniverseTypeOK'
  <2>1. /\ orders.todo \ {p} \in SUBSET Places /\ {} \in SUBSET Places
        /\ orders.wrote \cup {p} \in SUBSET Places
    BY DEF Orders
  <2>2. [orders EXCEPT !.pc = "look", !.todo = @ \ {p}, !.at = {}, !.wrote = @ \cup {p}]
            \in Orders
    BY <2>1 DEF Orders
  <2>3. orders' \in Orders
    BY <1>7, <2>2 DEF OrdersInsert
  <2> QED
    BY <1>7, <2>3 DEF OrdersInsert
<1>8. CASE OrdersCommit
  BY <1>8 DEF OrdersCommit, Names
<1>9. CASE OrdersFail
  BY <1>9, FailingType DEF OrdersFail
<1>10. CASE Deadlock
  BY <1>10 DEF Deadlock
<1>11. CASE SyncDiscover
  <2>1. sync' \in Sync
    <3>1. PICK heard \in SUBSET Access, bare \in SUBSET Access, located \in SUBSET Access :
              sync' = Discovered(heard, bare, located)
      <4>1. PICK heard \in SUBSET Access, told \in SUBSET {t \in Access : place[t] = "placeholder"} :
              \E bare \in SUBSET (heard \ told),
                 resolved \in IF universe THEN SUBSET heard ELSE {{}} :
                 sync' = Discovered(heard, bare, resolved \cup told)
        BY <1>11 DEF SyncDiscover
      <4>2. PICK bare \in SUBSET (heard \ told), resolved \in SUBSET heard :
                 sync' = Discovered(heard, bare, resolved \cup told)
        BY <4>1
      <4>3. bare \in SUBSET Access /\ resolved \cup told \in SUBSET Access
        OBVIOUS
      <4> QED
        BY <4>2, <4>3
    <3>2. heard \in SUBSET Structures /\ bare \in SUBSET Structures
      BY <3>1, UniverseAssumption
    <3>3. \A t \in Structures :
             (IF t \in located THEN Planned(t, Called(t, bare)) ELSE "nothing") \in Plans
      <4>1. \A t \in Structures : Called(t, bare) # "none"
        BY CalledType
      <4>2. \A t \in Structures : Planned(t, Called(t, bare)) \in Plans
        BY <4>1, PlannedType
      <4> QED
        BY <4>2 DEF Plans
    <3>4. [t \in Structures |-> IF t \in located THEN Planned(t, Called(t, bare)) ELSE "nothing"]
              \in [Structures -> Plans]
      BY <3>3
    <3> QED
      BY <3>1, <3>2, <3>4 DEF Sync, Discovered
  <2>2. failures' \in 0..MaxFailures
    BY <1>11, FailingType DEF SyncDiscover
  <2> QED
    BY <1>11, <2>1, <2>2 DEF SyncDiscover
<1>12. CASE SyncCommit
  <2>1. sync.heard \in SUBSET Structures /\ sync.bare \in SUBSET Structures
    BY DEF Sync
  <2>2. \A p \in Places : (IF p \in Structures /\ sync.plan[p] # "nothing"
                           THEN Called(p, sync.bare) ELSE place[p]) \in Names
    BY CalledType DEF Names
  <2>3. place' \in [Places -> Names]
    BY <1>12, <2>2 DEF SyncCommit
  <2> QED
    BY <1>12, <2>1, <2>3 DEF SyncCommit
<1>13. CASE SyncRefused
  BY <1>13 DEF SyncRefused
<1>14. CASE SyncFail
  BY <1>14, FailingType DEF SyncFail
<1>15. ASSUME NEW t \in Structures, Track(t)
       PROVE  UniverseTypeOK'
  <2>1. Called(t, unnamed) \in Names
    BY CalledType DEF Names
  <2> QED
    BY <1>15, <2>1 DEF Track, Places
<1>16. CASE Clear
  <2>1. sync' \in Sync /\ orders' \in Orders
    BY <1>16 DEF Clear, Sync, Orders
  <2>2. clears' \in 0..MaxClears
    BY <1>16, UniverseAssumption DEF Clear
  <2> QED
    BY <1>16, <2>1, <2>2 DEF Clear, Names
<1>17. CASE OthersWrite
  BY <1>17 DEF OthersWrite
<1>18. CASE Release
  BY <1>18 DEF Release
<1>19. CASE UNCHANGED vars
  BY <1>19 DEF vars
<1> QED
  BY <1>1, <1>2, <1>3, <1>4, <1>5, <1>6, <1>7, <1>8, <1>9, <1>10, <1>11, <1>12, <1>13,
     <1>14, <1>15, <1>16, <1>17, <1>18, <1>19
  DEF Next, ImportStep, OrdersStep, SyncStep

-----------------------------------------------------------------------------
(* What the sessions hold                                                  *)

\* Locations are written in five places; the jobs' other steps leave them alone.
WritesPlace ==
    \/ ImportCommit \/ OrdersCommit \/ SyncCommit \/ Clear
    \/ \E t \in Structures : Track(t)

\* All others leave the names alone.
LEMMA PlacesWritten ==
    ASSUME [Next]_vars, ~WritesPlace
    PROVE  UNCHANGED <<place, station>>
<1>1. ASSUME ImportRead \/ (\E p \in Published : ImportInsert(p)) \/ ImportFail
      PROVE  UNCHANGED <<place, station>>
  BY <1>1 DEF ImportRead, ImportInsert, ImportFail
<1>2. ASSUME OrdersStart \/ (\E p \in Places : OrdersInsert(p)) \/ OrdersFail \/ Deadlock
      PROVE  UNCHANGED <<place, station>>
  BY <1>2 DEF OrdersStart, OrdersInsert, OrdersFail, Deadlock
<1>3. ASSUME SyncDiscover \/ SyncRefused \/ SyncFail \/ OthersWrite \/ Release \/ UNCHANGED vars
      PROVE  UNCHANGED <<place, station>>
  BY <1>3 DEF SyncDiscover, SyncRefused, SyncFail, OthersWrite, Release, vars
<1> QED
  BY <1>1, <1>2, <1>3, LookCases DEF Next, ImportStep, OrdersStep, SyncStep, WritesPlace

\* The places that the import of orders wrote change only by its own commit.
LEMMA PlacesPrivate ==
    ASSUME IInv, [Next]_vars, ~OrdersCommit, NEW p \in orders.wrote
    PROVE  place'[p] = place[p]
<1> USE DEF IInv, UniverseTypeOK
<1>1. p \in Places /\ Missing(p) /\ p \notin imp.done
  BY DEF Orders, InsertsPrivate
<1>2. ASSUME ImportCommit
      PROVE  place'[p] = place[p]
  <2>1. imp.seed \subseteq imp.done
    BY <1>2 DEF ImportCommit, ImportNext
  <2> QED
    BY <1>1, <1>2, <2>1 DEF ImportCommit
<1>3. ASSUME SyncCommit
      PROVE  place'[p] = place[p]
  <2>1. ASSUME p \in Structures
        PROVE  sync.plan[p] = "nothing"
    <3>1. ~Inserts(p)
      BY <1>3, <2>1 DEF SyncCommit, SyncWaits
    <3>2. sync.plan[p] # "nothing" => ~sync.gone
      BY <1>3, <2>1 DEF SyncCommit, SyncClashes
    <3>3. sync.plan[p] \in Plans
      BY <2>1 DEF Sync
    <3> QED
      BY <1>1, <2>1, <3>1, <3>2, <3>3 DEF UpdatesFound, Inserts, Plans
  <2> QED
    BY <1>1, <1>3, <2>1 DEF SyncCommit
<1>4. ASSUME NEW t \in Structures, Track(t)
      PROVE  place'[p] = place[p]
  <2>1. place' = place \/ place' = [place EXCEPT ![t] = Called(t, unnamed)]
    BY <1>4 DEF Track
  <2>2. t # p
    BY <1>4 DEF Track
  <2> QED
    BY <1>1, <2>1, <2>2
<1>5. ASSUME Clear
      PROVE  place'[p] = place[p]
  BY <1>5 DEF Clear
<1> HIDE DEF IInv, UniverseTypeOK
<1>6. WritesPlace => place'[p] = place[p]
  BY <1>2, <1>3, <1>4, <1>5 DEF WritesPlace
<1>7. ~WritesPlace => place' = place
  BY PlacesWritten
<1> QED
  BY <1>6, <1>7

\* Inserts stay private.
LEMMA PrivateStep == IInv /\ [Next]_vars => InsertsPrivate'
<1> SUFFICES ASSUME IInv, [Next]_vars
             PROVE  InsertsPrivate'
  OBVIOUS
<1> USE DEF IInv, UniverseTypeOK
<1>1. CASE orders'.wrote = {}
  BY <1>1 DEF InsertsPrivate
<1>2. ASSUME orders'.wrote \subseteq orders.wrote, ~OrdersCommit,
             imp'.done \subseteq imp.done
      PROVE  InsertsPrivate'
  BY <1>2, PlacesPrivate DEF InsertsPrivate, Missing
<1>3. ASSUME NEW p \in Published, ImportInsert(p)
      PROVE  InsertsPrivate'
  <2>1. p \notin orders.wrote /\ imp'.done = imp.done \cup {p} /\ UNCHANGED <<orders, place>>
    BY <1>3 DEF ImportInsert, Import
  <2> QED
    BY <2>1 DEF InsertsPrivate, Missing
<1>4. ASSUME NEW p \in Places, OrdersLook(p)
      PROVE  InsertsPrivate'
  <2>1. \A q \in Places : Skipped(q).wrote = orders.wrote
    BY DEF Skipped, Orders
  <2>2. [orders EXCEPT !.pc = "insert", !.at = {p}].wrote = orders.wrote
    BY DEF Orders
  <2> HIDE DEF IInv, UniverseTypeOK
  <2>3. orders' = NoOrders => orders'.wrote = {}
    BY DEF NoOrders
  <2>4. orders'.wrote \in {{}, orders.wrote} /\ UNCHANGED <<place, imp>>
    BY <1>4, <2>1, <2>2, <2>3, LookCases
  <2> QED
    BY <2>4 DEF IInv, InsertsPrivate, Missing
<1>5. ASSUME NEW p \in Places, OrdersInsert(p)
      PROVE  InsertsPrivate'
  <2>1. /\ ~ImportHolds(p) /\ UNCHANGED <<place, imp>>
        /\ \/ Missing(p) /\ orders'.wrote = orders.wrote \cup {p}
           \/ orders'.wrote = {}
    BY <1>5 DEF OrdersInsert, Orders, NoOrders
  <2>2. Missing(p) => p \notin imp.done
    BY <2>1 DEF ImportHolds
  <2> QED
    BY <2>1, <2>2 DEF InsertsPrivate, Missing
<1>6. ASSUME OrdersStart \/ OrdersCommit \/ OrdersFail \/ Clear
      PROVE  orders'.wrote = {}
  <2>1. Clear => orders'.wrote = {}
    BY DEF Clear, Orders
  <2>2. OrdersStart => orders'.wrote = {}
    BY DEF OrdersStart, NoOrders
  <2>3. OrdersCommit \/ OrdersFail => orders'.wrote = {}
    BY DEF OrdersCommit, OrdersFail, NoOrders
  <2> QED
    BY <1>6, <2>1, <2>2, <2>3
<1>7. ASSUME ImportRead \/ ImportCommit \/ ImportFail \/ Deadlock
      PROVE  /\ imp'.done = {} \/ imp' = imp
             /\ orders'.wrote = {} \/ orders' = orders
  BY <1>7 DEF ImportRead, ImportCommit, ImportFail, Deadlock, NoImport, NoOrders
<1>8. ASSUME \/ SyncDiscover \/ SyncStep \/ SyncFail \/ OthersWrite \/ Release \/ UNCHANGED vars
             \/ \E t \in Structures : Track(t)
      PROVE  UNCHANGED <<orders, imp>>
  BY <1>8 DEF SyncDiscover, SyncStep, SyncCommit, SyncRefused, SyncFail, OthersWrite,
              Release, vars, Track, sessions
<1> QED
  <2>1. ASSUME OrdersCommit
        PROVE  InsertsPrivate'
    BY <1>1, <1>6, <2>1
  <2> QED
    BY <1>1, <1>2, <1>3, <1>4, <1>5, <1>6, <1>7, <1>8, <2>1 DEF Next, ImportStep, OrdersStep

\* No row that is there disappears but by a clearing, which the session then notices.
LEMMA RowsStay ==
    ASSUME IInv, [Next]_vars, ~Clear, NEW p \in Places, ~Missing(p)
    PROVE  ~Missing(p)'
<1> USE DEF IInv, UniverseTypeOK, Missing
<1>1. ASSUME ImportCommit
      PROVE  ~Missing(p)'
  BY <1>1, RenamedType DEF ImportCommit
<1>2. ASSUME OrdersCommit \/ SyncCommit \/ \E t \in Structures : Track(t)
      PROVE  ~Missing(p)'
  BY <1>2 DEF OrdersCommit, SyncCommit, Track, Places, Called
<1> QED
  BY <1>1, <1>2, PlacesWritten DEF WritesPlace

\* A synchronisation plans to update what is there, and rows go only by a clearing.
LEMMA UpdatesStep == IInv /\ [Next]_vars => UpdatesFound'
<1> SUFFICES ASSUME IInv, [Next]_vars
             PROVE  UpdatesFound'
  OBVIOUS
<1> USE DEF IInv, UniverseTypeOK
<1>1. CASE Clear
  <2>1. sync'.pc = sync.pc /\ sync'.plan = sync.plan /\ sync'.gone = (sync.pc # "idle")
    BY <1>1 DEF Clear, Sync
  <2> QED
    BY <2>1 DEF UpdatesFound
<1>2. CASE SyncDiscover
  <2>1. /\ \A t \in Structures : \E S : sync'.plan[t] \in {Planned(t, Called(t, S)), "nothing"}
        /\ sync'.pc = "commit" /\ UNCHANGED place
    <3>1. \E heard, bare, located : sync' = Discovered(heard, bare, located)
      BY <1>2 DEF SyncDiscover
    <3> QED
      BY <1>2, <3>1 DEF SyncDiscover, Discovered
  <2>2. \A t \in Structures : \A S : Planned(t, Called(t, S)) = "update" => ~Missing(t)
    <3>1. \A t \in Structures : \A S : Called(t, S) # "none"
      BY CalledType
    <3> QED
      BY <3>1, PlannedType
  <2> QED
    BY <2>1, <2>2 DEF UpdatesFound, Missing
<1>3. ASSUME SyncCommit \/ SyncRefused \/ SyncFail
      PROVE  UpdatesFound'
  <2>1. sync' = NoSync
    BY <1>3 DEF SyncCommit, SyncRefused, SyncFail
  <2>2. \A t \in Structures : sync'.plan[t] = "nothing"
    BY <2>1 DEF NoSync
  <2> QED
    BY <2>2 DEF UpdatesFound
<1>4. ASSUME UNCHANGED sync, ~Clear
      PROVE  UpdatesFound'
  <2>1. \A t \in Structures : place[t] # "none" => place'[t] # "none"
    BY <1>4, RowsStay DEF Places, Missing
  <2> QED
    BY <1>4, <2>1 DEF UpdatesFound, Missing
<1>5. ASSUME ImportRead \/ ImportStep \/ ImportFail \/ Deadlock
      PROVE  UNCHANGED sync
  BY <1>5 DEF ImportRead, ImportStep, ImportInsert, ImportCommit, ImportFail, Deadlock
<1>6. ASSUME OrdersStart \/ OrdersStep \/ OrdersFail
      PROVE  UNCHANGED sync
  BY <1>6, LookCases DEF OrdersStart, OrdersStep, OrdersInsert, OrdersCommit, OrdersFail
<1>7. ASSUME \/ OthersWrite \/ Release \/ UNCHANGED vars
             \/ \E t \in Structures : Track(t)
      PROVE  UNCHANGED sync
  BY <1>7 DEF OthersWrite, Release, vars, Track, sessions
<1> QED
  BY <1>1, <1>2, <1>3, <1>4, <1>5, <1>6, <1>7 DEF Next, SyncStep

-----------------------------------------------------------------------------
(* Names and twins                                                         *)

\* A station and its location are always written together, and to the same name.
LEMMA TwinsStep == IInv /\ [Next]_vars => Twins'
<1> SUFFICES ASSUME IInv, [Next]_vars
             PROVE  Twins'
  OBVIOUS
<1> USE DEF IInv, UniverseTypeOK
<1>1. Stations \subseteq Places /\ Stations \cap Structures = {}
  BY UniverseAssumption DEF Places
<1>2. ASSUME ImportCommit
      PROVE  Twins'
  BY <1>1, <1>2 DEF ImportCommit, Twins
<1>3. ASSUME OrdersCommit
      PROVE  Twins'
  BY <1>1, <1>3 DEF OrdersCommit, Twins
<1>4. ASSUME SyncCommit
      PROVE  Twins'
  BY <1>1, <1>4 DEF SyncCommit, Twins
<1>5. ASSUME NEW t \in Structures, Track(t)
      PROVE  Twins'
  <2>1. \A s \in Stations : place'[s] = place[s]
    BY <1>1, <1>5 DEF Track
  <2> QED
    BY <1>5, <2>1 DEF Track, Twins
<1>6. ASSUME Clear
      PROVE  Twins'
  BY <1>1, <1>6 DEF Clear, Twins
<1> HIDE DEF IInv, UniverseTypeOK
<1>7. WritesPlace => Twins'
  BY <1>2, <1>3, <1>4, <1>5, <1>6 DEF WritesPlace
<1>8. ~WritesPlace => Twins'
  BY PlacesWritten DEF IInv, Twins
<1> QED
  BY <1>7, <1>8

\* The invariant holds at first and is kept.
LEMMA InitHolds == Init => IInv
<1> SUFFICES ASSUME Init
             PROVE  IInv
  OBVIOUS
<1>1. First \in SUBSET Published /\ 0 \in 0..MaxFailures /\ 0 \in 0..MaxClears
  BY UniverseAssumption DEF Published
<1>2. UniverseTypeOK
  BY <1>1, SessionTypes DEF Init, UniverseTypeOK, Names
<1>3. Twins
  BY DEF Init, Twins, Places
<1>4. InsertsPrivate
  BY DEF Init, InsertsPrivate, NoOrders
<1>5. \A t \in Structures : sync.plan[t] = "nothing"
  BY DEF Init, NoSync
<1>6. UpdatesFound
  BY <1>5 DEF UpdatesFound
<1> QED
  BY <1>2, <1>3, <1>4, <1>6 DEF IInv

\* Every step keeps every part.
LEMMA Inductive == IInv /\ [Next]_vars => IInv'
  BY TypesStep, TwinsStep, PrivateStep, UpdatesStep DEF IInv

\* Who writes names does not write a placeholder over one, but where ESI told no name.
LEMMA NamesStep ==
    ASSUME IInv, [Next]_vars
    PROVE  Keeping
<1>0. \A s \in Stations : s \in Places /\ s \notin Structures
  BY UniverseAssumption DEF Places
<1>1. ASSUME NEW p \in Places, place[p] = "real", place'[p] = "placeholder"
      PROVE  p \in Structures /\ p \in unnamed'
  <2> USE <1>1 DEF IInv, UniverseTypeOK
  <2>1. ~ImportCommit
    BY RenamedType DEF ImportCommit, Missing
  <2>2. ~OrdersCommit
    BY DEF OrdersCommit, InsertsPrivate, Missing
  <2>3. ~Clear
    BY DEF Clear
  <2>4. ASSUME SyncCommit
        PROVE  p \in Structures /\ p \in unnamed'
    <3>1. p \in Structures /\ Called(p, sync.bare) = "placeholder"
      BY <2>4 DEF SyncCommit
    <3>2. p \in sync.bare
      BY <3>1 DEF Called
    <3> QED
      BY <2>4, <3>1, <3>2 DEF SyncCommit
  <2>5. ASSUME NEW t \in Structures, Track(t)
        PROVE  p \in Structures /\ p \in unnamed'
    <3>1. place' = place \/ place' = [place EXCEPT ![t] = Called(t, unnamed)]
      BY <2>5 DEF Track
    <3>2. p = t /\ Called(t, unnamed) = "placeholder"
      BY <3>1
    <3>3. unnamed' = unnamed
      BY <2>5 DEF Track
    <3> QED
      BY <3>2, <3>3 DEF Called
  <2> HIDE DEF IInv, UniverseTypeOK
  <2>6. WritesPlace
    BY PlacesWritten
  <2> QED
    BY <2>1, <2>2, <2>3, <2>4, <2>5, <2>6 DEF WritesPlace
<1>2. \A s \in Stations : place[s] = station[s] /\ place'[s] = station'[s]
  BY TwinsStep DEF IInv, Twins
<1> QED
  BY <1>0, <1>1, <1>2 DEF Places, Keeping

-----------------------------------------------------------------------------
(* Theorems of the universe                                                *)

\* Every station has a location of its name and the other way round, whichever of the
\* foundation import and the import of orders came upon it, however they were interleaved
\* and whoever failed.
THEOREM TwinsAlways == Spec => []Twins
<1>1. IInv => Twins
  BY DEF IInv
<1> QED
  BY <1>1, InitHolds, Inductive, PTL DEF Spec

\* A station's resolved name is never overwritten by a placeholder: not by a seed read before
\* the name was known, nor by a session that inserts what it had found missing.  A
\* structure's is only where the last description that ESI gave of it had no name.
THEOREM NamesAreKept == Spec => NamesKept
<1>1. IInv /\ [Next]_vars => [Keeping]_vars
  BY NamesStep
<1> QED
  BY <1>1, InitHolds, Inductive, PTL DEF Spec, NamesKept
=============================================================================
