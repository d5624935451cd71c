---------------------------- MODULE MCTradeRules ----------------------------
(***************************************************************************)
(* The figures against reference definitions, for every ladder of up to    *)
(* three orders of small prices and volumes, two of them of one age, and   *)
(* every demand up to more than there is on sale.                          *)
(***************************************************************************)
EXTENDS TradeRules, Functions

OrderIds == 1..3
Ladders ==
    {{[price |-> prices[i], issued |-> i \div 2, id |-> i, volume |-> volumes[i]] : i \in ids} :
        ids \in SUBSET OrderIds \ {{}}, prices \in [OrderIds -> 1..3],
        volumes \in [OrderIds -> {0, 1, 2}]}
Demands == 0..7

\* The least that a quantity can be bought for, in any order of buying.
Bill(orders, quantity) ==
    Min({SumFunction([o \in orders |-> o.price * fill[o]]) :
        fill \in {f \in [orders -> 0..(2 * PeriodDays)] :
                    /\ \A o \in orders : f[o] <= PeriodDays * o.volume
                    /\ SumFunction(f) = quantity}})

Market == {orders \in Ladders : Parts(orders) > 0}

\* DEVLOG.md: "an execution-weighted price".  The running sum over the ladder is the cheapest
\* way to buy what a day wants, whatever orders share a price or an age.
ASSUME LadderIsCheapest ==
    \A orders \in Market, demand \in Demands :
        Cost(orders, demand) = Bill(orders, PurchaseUnits(orders, demand))

\* The price is that of the whole demand, before what is held is subtracted: the capital of an
\* item pays for what is left to buy, at any holdings.
ASSUME CapitalPaysForItem ==
    \A orders \in Market, demand \in Demands, held \in 0..2 :
        Pays(SourcePrice(orders, demand), NetPurchaseUnits(orders, demand, held),
             Cost(orders, NetPurchaseUnits(orders, demand, held)))

\* DEVLOG.md: "based on each item's `purchase_units`".  The summary counts whole units, never
\* fewer than the item wants, and its capital, at the price of the parts of a unit, need not pay
\* for them.
ASSUME SummaryIsAhead ==
    /\ \A orders \in Market, demand \in Demands :
        SummaryQuantity(orders, demand) >= PurchaseUnits(orders, demand)
    /\ \E orders \in Market, demand \in Demands :
        LET quantity == SummaryQuantity(orders, demand)
        IN ~Pays(SourcePrice(orders, demand), quantity, Cost(orders, quantity))
=============================================================================
