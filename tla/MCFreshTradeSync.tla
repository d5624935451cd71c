-------------------------- MODULE MCFreshTradeSync --------------------------
(* A refresh with two raw imports, met by other starters of the same jobs. *)
EXTENDS FreshTradeSync

CONSTANTS adam, esi   \* two of FRESH_TRADE_RAW_JOBS

\* Either nothing runs when the refresh begins, or the scheduler has an import of market
\* orders at work, as it has every few minutes; MaxOutside counts what comes after.
OrdersAtWork ==
    /\ pc = "idle" /\ verdict = "none" /\ collected = {}
    /\ calls = [k \in Types |-> NoCall]
    /\ attempts = 0 /\ others = 1 /\ outside = 0
    /\ runs = [[j \in Jobs |-> NoRun] EXCEPT
                  ![1] = [type |-> esi, status |-> "running", finished |-> FALSE,
                          executor |-> "alive", outcome |-> "none"]]

MCInit == FreshInit \/ OrdersAtWork
MCLiveSpec == MCInit /\ [][FreshNext]_freshVars /\ ThreadFairness /\ BodyFairness
=============================================================================
