----------------------------- MODULE TradeRules -----------------------------
(***************************************************************************)
(* The figures of an opportunity: one type that is sold at a source and    *)
(* wanted at the target.  They are floats in the code; here a quantity is  *)
(* counted in parts of a unit, PeriodDays to the unit, of which a day's    *)
(* demand is a whole number, and a price is a cost and the quantity it     *)
(* buys.                                                                   *)
(***************************************************************************)
EXTENDS Integers, FiniteSets, FiniteSetsExt

CONSTANT PeriodDays  \* days of the period, of which the demand is the daily share

ASSUME PeriodAssumption == PeriodDays \in Nat \ {0}

\* The units that the sell orders of the source have left.
Order == [price : Nat, issued : Nat, id : Nat, volume : Nat]

-----------------------------------------------------------------------------
(* What one type costs at the source                                       *)

Least(a, b) == IF a < b THEN a ELSE b
Most(a, b) == IF a > b THEN a ELSE b

\* The order of the running sum: by price, then age, then order id.
Ahead(o, p) ==
    \/ o.price < p.price
    \/ o.price = p.price /\ o.issued < p.issued
    \/ o.price = p.price /\ o.issued = p.issued /\ o.id < p.id

Parts(orders) == MapThenSumSet(LAMBDA o : PeriodDays * o.volume, orders)

\* calculate_purchase_units: demand is the units of the whole period, and so the parts of a day.
PurchaseUnits(orders, demand) == Least(Parts(orders), demand)

VolumeBefore(o, orders) == Parts({p \in orders : Ahead(p, o)})
ConsumedVolume(o, orders, demand) ==
    Least(PeriodDays * o.volume, Most(PurchaseUnits(orders, demand) - VolumeBefore(o, orders), 0))

Cost(orders, demand) ==
    MapThenSumSet(LAMBDA o : o.price * ConsumedVolume(o, orders, demand), orders)

\* source_now_price, of a source that has an order: what a day's demand costs there, and without
\* a demand (or with orders of no volume) the lowest price.
SourcePrice(orders, demand) ==
    IF PurchaseUnits(orders, demand) > 0
    THEN [cost |-> Cost(orders, demand), parts |-> PurchaseUnits(orders, demand)]
    ELSE [cost |-> Min({o.price : o \in orders}), parts |-> 1]

-----------------------------------------------------------------------------
(* An item, and its share of the summary of the source                     *)

\* calculate_net_purchase_units: held is what is owned at the target, on sale there or under way.
NetPurchaseUnits(orders, demand, held) ==
    Most(PurchaseUnits(orders, demand) - PeriodDays * held, 0)

\* item_qty, in parts: the day's demand rounded up to units, as far as the source has them.
SummaryQuantity(orders, demand) ==
    Least(PeriodDays * ((demand + PeriodDays - 1) \div PeriodDays), Parts(orders))

\* A capital at the source's price is cost \div parts; capital and cost are compared times parts.
Pays(price, quantity, bill) == price.cost * quantity >= price.parts * bill
=============================================================================
