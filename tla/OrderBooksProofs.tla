---------------------------- MODULE OrderBooksProofs ----------------------------
(***************************************************************************)
(* That the books of a region balance and that the snapshots of a          *)
(* structure claim no more than was sold, for any orders, volumes, pages   *)
(* and number of runs that fail, are cancelled or die.  The properties are *)
(* about sums over sets of trades; the first part of the module proves     *)
(* what such a sum is from the definition of the fold.                     *)
(***************************************************************************)
EXTENDS OrderBooks, FiniteSetTheorems, WellFoundedInduction, TLAPS

-----------------------------------------------------------------------------
(* Sums over sets                                                          *)

\* A set of numbers that has no least one is empty.
LEMMA NoLeast ==
    ASSUME NEW T \in SUBSET Nat, \A n \in T : \E m \in T : m < n
    PROVE  T = {}
<1> DEFINE less == {p \in Nat \X Nat : p[1] < p[2]}
<1>1. IsWellFoundedOn(less, Nat)
  <2>1. OpToRel(<, Nat) = less
    BY DEF OpToRel
  <2> QED
    BY <2>1, NatLessThanWellFounded
<1>2. \A m, n \in T : m < n => <<m, n>> \in less
  OBVIOUS
<1> HIDE DEF less
<1>3. T # {} => \E n \in T : \A m \in T : ~(<<m, n>> \in less)
  BY <1>1, WFMin
<1> QED
  BY <1>2, <1>3

One(s) == CHOOSE x \in s : TRUE
\* What the fold looks for: a function that gives each subset of S, of no more than n
\* elements, the sum of its units.
Small(S, n) == {s \in SUBSET S : Cardinality(s) <= n}
Adds(f, D) ==
    f = [s \in D |-> IF s = {} THEN 0 ELSE One(s).units + f[s \ {One(s)}]]

\* The sum over S is what one of these functions gives for S.
LEMMA UnitsIsFold ==
    ASSUME NEW S
    PROVE  Units(S) = (CHOOSE f : Adds(f, SUBSET S))[S]
BY DEF Units, MapThenSumSet, MapThenFoldSet, Adds, One

\* The element that the fold takes next is one of the set.
LEMMA OneIsIn ==
    ASSUME NEW s, s # {} PROVE One(s) \in s
<1>1. \E x : x \in s
  OBVIOUS
<1> QED
  BY <1>1 DEF One

\* Taking an element away leaves a smaller subset.
LEMMA OneLess ==
    ASSUME NEW S, IsFiniteSet(S), NEW s \in SUBSET S, NEW x \in s
    PROVE  /\ s \ {x} \in SUBSET S /\ s \ {x} \in SUBSET (S \ {x})
           /\ Cardinality(s) \in Nat /\ Cardinality(s \ {x}) = Cardinality(s) - 1
           /\ Cardinality(s \ {x}) \in Nat
<1>1. IsFiniteSet(s)
  BY FS_Subset
<1> QED
  BY <1>1, FS_CardinalityType, FS_RemoveElement

\* Such a function exists: one for n elements gives one for n + 1.
LEMMA AddsExists ==
    ASSUME NEW S, IsFiniteSet(S)
    PROVE  \E f : Adds(f, SUBSET S)
<1> DEFINE Bad == {n \in Nat : ~ \E f : Adds(f, Small(S, n))}
<1>1. ASSUME NEW n \in Bad PROVE \E m \in Bad : m < n
  <2> SUFFICES ASSUME \A m \in Bad : ~(m < n) PROVE FALSE
    OBVIOUS
  <2>1. n \in Nat /\ ~ \E f : Adds(f, Small(S, n))
    OBVIOUS
  <2>2. CASE n = 0
    <3>1. \A s \in Small(S, 0) : s = {}
      <4> SUFFICES ASSUME NEW s \in Small(S, 0) PROVE s = {}
        OBVIOUS
      <4>1. IsFiniteSet(s) /\ Cardinality(s) \in Nat /\ Cardinality(s) <= 0
        BY FS_Subset, FS_CardinalityType DEF Small
      <4> QED
        BY <4>1, FS_EmptySet
    <3>2. Adds([s \in Small(S, 0) |-> 0], Small(S, 0))
      BY <3>1 DEF Adds
    <3> QED
      BY <2>1, <2>2, <3>2
  <2>3. CASE n # 0
    <3>1. n - 1 \in Nat /\ n - 1 < n
      BY <2>1, <2>3
    <3>2. PICK f : Adds(f, Small(S, n - 1))
      <4>1. n - 1 \notin Bad
        BY <3>1
      <4> QED
        BY <3>1, <4>1
    <3> DEFINE g == [s \in Small(S, n) |-> IF s = {} THEN 0
                                           ELSE One(s).units + f[s \ {One(s)}]]
    <3>3. ASSUME NEW s \in Small(S, n), s # {}
          PROVE  s \ {One(s)} \in Small(S, n - 1) /\ s \ {One(s)} \in Small(S, n)
      <4>1. s \in SUBSET S /\ Cardinality(s) <= n /\ One(s) \in s
        BY <3>3, OneIsIn DEF Small
      <4>2. /\ s \ {One(s)} \in SUBSET S /\ Cardinality(s) \in Nat
            /\ Cardinality(s \ {One(s)}) = Cardinality(s) - 1
        BY <4>1, OneLess
      <4>3. Cardinality(s \ {One(s)}) <= n - 1 /\ Cardinality(s \ {One(s)}) <= n
        BY <2>1, <4>1, <4>2
      <4> QED
        BY <4>2, <4>3 DEF Small
    <3>4. ASSUME NEW s \in Small(S, n - 1)
          PROVE  s \in Small(S, n) /\ g[s] = f[s]
      <4>1. s \in SUBSET S /\ IsFiniteSet(s) /\ Cardinality(s) \in Nat
            /\ Cardinality(s) <= n - 1
        BY FS_Subset, FS_CardinalityType DEF Small
      <4>2. s \in Small(S, n)
        BY <2>1, <4>1 DEF Small
      <4>3. f[s] = IF s = {} THEN 0 ELSE One(s).units + f[s \ {One(s)}]
        BY <3>2 DEF Adds
      <4> QED
        BY <4>2, <4>3
    <3>5. \A s \in Small(S, n) : s # {} => g[s \ {One(s)}] = f[s \ {One(s)}]
      BY <3>3, <3>4
    <3>6. g = [s \in Small(S, n) |-> IF s = {} THEN 0
                                     ELSE One(s).units + g[s \ {One(s)}]]
      <4> HIDE DEF g
      <4>1. g = [s \in Small(S, n) |-> IF s = {} THEN 0
                                       ELSE One(s).units + f[s \ {One(s)}]]
        BY DEF g
      <4> QED
        BY <3>5, <4>1
    <3>7. Adds(g, Small(S, n))
      <4> HIDE DEF g
      <4> QED
        BY <3>6 DEF Adds
    <3> QED
      BY <2>1, <3>7
  <2> QED
    BY <2>2, <2>3
<1>2. Bad = {}
  <2>1. Bad \in SUBSET Nat
    OBVIOUS
  <2> HIDE DEF Bad
  <2> QED
    BY <1>1, <2>1, NoLeast
<1>3. Cardinality(S) \in Nat /\ Small(S, Cardinality(S)) = SUBSET S
  BY FS_CardinalityType, FS_Subset DEF Small
<1>4. \E f : Adds(f, Small(S, Cardinality(S)))
  BY <1>2, <1>3
<1> QED
  BY <1>3, <1>4

\* Two of them agree where both are defined.
LEMMA AddsAgree ==
    ASSUME NEW S, IsFiniteSet(S), NEW T \in SUBSET S, NEW f, NEW g,
           Adds(f, SUBSET S), Adds(g, SUBSET T), NEW u \in SUBSET T
    PROVE  f[u] = g[u]
<1> DEFINE Bad == {n \in Nat : \E s \in SUBSET T : Cardinality(s) = n /\ f[s] # g[s]}
<1>1. ASSUME NEW n \in Bad PROVE \E m \in Bad : m < n
  <2>1. PICK s \in SUBSET T : Cardinality(s) = n /\ f[s] # g[s]
    OBVIOUS
  <2>2. /\ f[s] = IF s = {} THEN 0 ELSE One(s).units + f[s \ {One(s)}]
        /\ g[s] = IF s = {} THEN 0 ELSE One(s).units + g[s \ {One(s)}]
    BY DEF Adds
  <2>3. s # {} /\ f[s \ {One(s)}] # g[s \ {One(s)}]
    BY <2>1, <2>2
  <2>4. /\ s \ {One(s)} \in SUBSET T /\ Cardinality(s \ {One(s)}) \in Nat
        /\ Cardinality(s \ {One(s)}) < n
    <3>1. IsFiniteSet(T) /\ One(s) \in s
      BY <2>3, FS_Subset, OneIsIn
    <3> QED
      BY <2>1, <3>1, OneLess
  <2> QED
    BY <2>3, <2>4
<1>2. Bad = {}
  <2>1. Bad \in SUBSET Nat
    OBVIOUS
  <2> HIDE DEF Bad
  <2> QED
    BY <1>1, <2>1, NoLeast
<1>3. Cardinality(u) \in Nat
  BY FS_Subset, FS_CardinalityType
<1> QED
  BY <1>2, <1>3

\* No units are in no trades.
LEMMA UnitsOfNone == Units({}) = 0
<1>1. PICK f : Adds(f, SUBSET {})
  BY AddsExists, FS_EmptySet
<1>2. Adds(CHOOSE g : Adds(g, SUBSET {}), SUBSET {})
  BY <1>1
<1> QED
  BY <1>2, UnitsIsFold DEF Adds

\* The sum over a set is that of the element it begins with and of the rest.
LEMMA UnitsOfOneAndRest ==
    ASSUME NEW S, IsFiniteSet(S), S # {}
    PROVE  Units(S) = One(S).units + Units(S \ {One(S)})
<1> DEFINE T == S \ {One(S)}
<1>1. T \in SUBSET S /\ T \in SUBSET T /\ IsFiniteSet(T)
  BY FS_Subset
<1>2. PICK f : Adds(f, SUBSET S) /\ Units(S) = f[S]
  <2>1. \E h : Adds(h, SUBSET S)
    BY AddsExists
  <2> QED
    BY <2>1, UnitsIsFold
<1>3. PICK g : Adds(g, SUBSET T) /\ Units(T) = g[T]
  <2>1. \E h : Adds(h, SUBSET T)
    BY <1>1, AddsExists
  <2> QED
    BY <2>1, UnitsIsFold
<1>4. \A u \in SUBSET T : f[u] = g[u]
  <2> HIDE DEF T
  <2>1. Adds(f, SUBSET S)
    BY <1>2
  <2>2. Adds(g, SUBSET T)
    BY <1>3
  <2> QED
    BY <1>1, <2>1, <2>2, AddsAgree, SMTT(30)
<1>5. f[S] = One(S).units + f[S \ {One(S)}]
  BY <1>2 DEF Adds
<1> QED
  BY <1>1, <1>2, <1>3, <1>4, <1>5

\* A sum of natural numbers is one.
LEMMA UnitsAreNatural ==
    ASSUME NEW S, IsFiniteSet(S), \A d \in S : d.units \in Nat
    PROVE  Units(S) \in Nat
<1> DEFINE Bad == {n \in Nat : \E s \in SUBSET S : Cardinality(s) = n /\ Units(s) \notin Nat}
<1>1. ASSUME NEW n \in Bad PROVE \E m \in Bad : m < n
  <2>1. PICK s \in SUBSET S : Cardinality(s) = n /\ Units(s) \notin Nat
    OBVIOUS
  <2>2. s # {} /\ IsFiniteSet(s)
    <3>1. s # {}
      <4> SUFFICES ASSUME s = {} PROVE FALSE
        OBVIOUS
      <4>1. Units(s) = 0
        BY UnitsOfNone, Zenon
      <4> QED
        BY <2>1, <4>1
    <3> QED
      BY <3>1, FS_Subset
  <2>3. One(s) \in s /\ One(s).units \in Nat
    BY <2>2, OneIsIn
  <2>4. Units(s \ {One(s)}) \notin Nat
    <3>1. Units(s) = One(s).units + Units(s \ {One(s)})
      BY <2>2, UnitsOfOneAndRest
    <3> QED
      BY <2>1, <2>3, <3>1
  <2>5. /\ s \ {One(s)} \in SUBSET S /\ Cardinality(s \ {One(s)}) \in Nat
        /\ Cardinality(s \ {One(s)}) < n
    BY <2>1, <2>3, OneLess
  <2> QED
    BY <2>4, <2>5
<1>2. Bad = {}
  <2>1. Bad \in SUBSET Nat
    OBVIOUS
  <2> HIDE DEF Bad
  <2> QED
    BY <1>1, <2>1, NoLeast
<1>3. Cardinality(S) \in Nat
  BY FS_CardinalityType
<1> QED
  BY <1>2, <1>3

\* ... and it may begin with any element.
LEMMA UnitsOfAnyAndRest ==
    ASSUME NEW S, IsFiniteSet(S), \A d \in S : d.units \in Nat, NEW e \in S
    PROVE  Units(S) = e.units + Units(S \ {e})
<1> DEFINE Bad == {n \in Nat : \E s \in SUBSET S : /\ Cardinality(s) = n
                                                   /\ \E x \in s : Units(s) # x.units + Units(s \ {x})}
<1>1. ASSUME NEW n \in Bad PROVE \E m \in Bad : m < n
  <2>1. PICK s \in SUBSET S : /\ Cardinality(s) = n
                              /\ \E x \in s : Units(s) # x.units + Units(s \ {x})
    OBVIOUS
  <2>2. PICK x \in s : Units(s) # x.units + Units(s \ {x})
    BY <2>1
  <2> DEFINE c == One(s)
             r == s \ {c}
             q == s \ {x}
  <2>3. IsFiniteSet(s) /\ s # {} /\ c \in s
    BY <2>2, FS_Subset, OneIsIn
  <2>4. Units(s) = c.units + Units(r)
    BY <2>3, UnitsOfOneAndRest
  <2>5. c # x
    BY <2>2, <2>4
  <2>6. /\ r \in SUBSET S /\ q \in SUBSET S /\ Cardinality(r) \in Nat /\ Cardinality(q) \in Nat
        /\ Cardinality(r) < n /\ Cardinality(q) < n /\ IsFiniteSet(r) /\ IsFiniteSet(q)
    BY <2>1, <2>3, OneLess, FS_Subset
  <2>7. x \in r /\ c \in q /\ r \ {x} = q \ {c}
    BY <2>3, <2>5
  <2> HIDE DEF c
  <2>8. SUFFICES ASSUME \A m \in Bad : ~(m < n) PROVE FALSE
    OBVIOUS
  <2>9. Cardinality(r) \notin Bad /\ Cardinality(q) \notin Bad
    BY <2>6, <2>8
  <2>10. Units(r) = x.units + Units(r \ {x}) /\ Units(q) = c.units + Units(q \ {c})
    BY <2>6, <2>7, <2>9
  <2>11. Units(r \ {x}) \in Nat /\ x.units \in Nat /\ c.units \in Nat
    <3>1. IsFiniteSet(r \ {x}) /\ \A d \in r \ {x} : d.units \in Nat
      BY <2>6, FS_RemoveElement
    <3>2. Units(r \ {x}) \in Nat
      BY <3>1, UnitsAreNatural
    <3>3. x.units \in Nat /\ c.units \in Nat
      BY <2>2, <2>3
    <3> QED
      BY <3>2, <3>3
  <2>12. Units(s) = x.units + Units(q)
    <3>1. Units(q \ {c}) = Units(r \ {x})
      BY <2>7
    <3>2. Units(s) = c.units + (x.units + Units(r \ {x})) /\ Units(q) = c.units + Units(r \ {x})
      BY <2>4, <2>10, <3>1
    <3>3. \A i, j, k \in Nat : i + (j + k) = j + (i + k)
      OBVIOUS
    <3> QED
      BY <2>11, <3>2, <3>3
  <2> QED
    BY <2>2, <2>12
<1>2. Bad = {}
  <2>1. Bad \in SUBSET Nat
    OBVIOUS
  <2> HIDE DEF Bad
  <2> QED
    BY <1>1, <2>1, NoLeast
<1>3. Cardinality(S) \in Nat /\ S \in SUBSET S
  BY FS_CardinalityType
<1> QED
  BY <1>2, <1>3

\* One more trade adds its units.
LEMMA UnitsOfOneMore ==
    ASSUME NEW S, IsFiniteSet(S), \A d \in S : d.units \in Nat,
           NEW e, e \notin S, e.units \in Nat
    PROVE  Units(S \cup {e}) = Units(S) + e.units
<1> DEFINE T == S \cup {e}
<1>1. IsFiniteSet(T) /\ e \in T /\ T \ {e} = S /\ \A d \in T : d.units \in Nat
  BY FS_AddElement
<1>2. Units(S) \in Nat
  BY UnitsAreNatural
<1>3. Units(T) = e.units + Units(T \ {e})
  <2> HIDE DEF T
  <2> QED
    BY <1>1, UnitsOfAnyAndRest
<1> QED
  BY <1>1, <1>2, <1>3

-----------------------------------------------------------------------------
(* Lists, books and differences                                            *)

\* What BooksAssumption says of the numbers.
LEMMA Numbers ==
    /\ Volume \in Nat /\ Volume > 0 /\ PageSize \in Nat /\ PageSize > 0
    /\ Period \in Nat /\ Retention \in Nat
  BY BooksAssumption

\* Every set of orders is finite, so that it can be counted.
LEMMA OrdersFinite == IsFiniteSet(Orders) /\ \A S \in SUBSET Orders : IsFiniteSet(S)
  BY BooksAssumption, FS_Subset

\* A page shows orders of the list with what they have left.
LEMMA PageShows ==
    ASSUME market \in Books, NEW S \in SUBSET Orders, NEW n \in Nat
    PROVE  /\ Page(S, n) \subseteq [page : Nat, order : S, volume : 1..Volume]
           /\ \A r \in Page(S, n) : r.volume = market[r.order] /\ market[r.order] > 0
<1>1. \A o \in In(Of(market, S)) : o \in S /\ market[o] \in 1..Volume /\ market[o] > 0
  BY Numbers DEF In, Of, Books
<1> SUFFICES ASSUME NEW r \in Page(S, n)
             PROVE  /\ r \in [page : Nat, order : S, volume : 1..Volume]
                    /\ r.volume = market[r.order] /\ market[r.order] > 0
  OBVIOUS
<1>2. PICK o \in In(Of(market, S)) : r = [page |-> n, order |-> o, volume |-> market[o]]
  BY DEF Page
<1> QED
  BY <1>1, <1>2

\* The number of pages that a list comes in is a number.
LEMMA PagesAreNumber ==
    ASSUME NEW S \in SUBSET Orders PROVE Pages(S) \in Int
<1> DEFINE n == Cardinality(In(Of(market, S)))
           k == (n + PageSize - 1) \div PageSize
<1>1. n \in Nat
  <2>1. In(Of(market, S)) \in SUBSET Orders
    BY DEF In
  <2> QED
    BY <2>1, OrdersFinite, FS_CardinalityType
<1>2. k \in Int
  BY <1>1, Numbers
<1>3. \E x \in {1, k} : \A y \in {1, k} : x >= y
  <2> HIDE DEF k
  <2> QED
    BY <1>2
<1>4. Max({1, k}) \in {1, k}
  BY <1>3 DEF Max
<1> QED
  BY <1>2, <1>4 DEF Pages

\* What a run knows after a page.
LEMMA ReadsAPage ==
    ASSUME market \in Books, day \in Nat \ {0}, NEW S \in SUBSET Orders,
           NEW pcs, Listing \subseteq pcs, NEW run \in Runs(pcs, S)
    PROVE  /\ Reads(run, S) \in Runs(pcs, S)
           /\ Reads(run, S).pc \in Listing
           /\ Reads(run, S).rows = run.rows \cup Page(S, run.next)
           /\ Reads(run, S).book = run.book /\ Reads(run, S).doomed = run.doomed
           /\ Reads(run, S).found = run.found
           /\ Reads(run, S).day = IF run.next = 1 THEN day ELSE run.day
<1>1. Page(S, run.next) \subseteq [page : Nat, order : S, volume : 1..Volume]
  BY PageShows DEF Runs
<1>2. Pages(S) \in Int
  BY PagesAreNumber
<1>3. \A p \in Int : p = (IF run.next = 1 THEN Pages(S) ELSE run.pages) =>
        Reads(run, S) = [run EXCEPT !.rows = @ \cup Page(S, run.next), !.next = @ + 1,
                                    !.pages = p,
                                    !.pc = IF run.next = p THEN "listed" ELSE "list",
                                    !.day = IF run.next = 1 THEN day ELSE @]
  BY DEF Reads
<1>4. PICK p \in Int : p = IF run.next = 1 THEN Pages(S) ELSE run.pages
  BY <1>2 DEF Runs
<1>5. Reads(run, S) = [run EXCEPT !.rows = @ \cup Page(S, run.next), !.next = @ + 1,
                                  !.pages = p,
                                  !.pc = IF run.next = p THEN "listed" ELSE "list",
                                  !.day = IF run.next = 1 THEN day ELSE @]
  BY <1>3, <1>4
<1> DEFINE new == Reads(run, S)
<1>6. /\ new.rows = run.rows \cup Page(S, run.next) /\ new.next = run.next + 1
      /\ new.pages = p /\ new.pc = (IF run.next = p THEN "listed" ELSE "list")
      /\ new.book = run.book /\ new.doomed = run.doomed /\ new.found = run.found
      /\ new.day = (IF run.next = 1 THEN day ELSE run.day)
  BY <1>5 DEF Runs
<1>7. new = [pc |-> new.pc, rows |-> new.rows, next |-> new.next, pages |-> new.pages,
             book |-> new.book, doomed |-> new.doomed, found |-> new.found, day |-> new.day]
  BY <1>5 DEF Runs
<1> HIDE DEF new
<1>8. new.pc \in Listing /\ new.pc \in pcs
  BY <1>6 DEF Listing
<1>9. new.rows \in SUBSET [page : Nat, order : S, volume : 1..Volume]
  BY <1>1, <1>6 DEF Runs
<1>10. /\ new.next \in Nat /\ new.pages \in Int /\ new.book \in Books
       /\ new.doomed \in SUBSET Orders /\ new.found \in SUBSET Trades /\ new.day \in Nat
  BY <1>6 DEF Runs
<1>11. new \in Runs(pcs, S)
  BY <1>7, <1>8, <1>9, <1>10 DEF Runs
<1> QED
  BY <1>6, <1>8, <1>11 DEF new

\* Every book that a list is taken for has a row for what it has of an order.
LEMMA BookOfList ==
    ASSUME NEW S \in SUBSET Orders, NEW rows \in SUBSET [page : Nat, order : S, volume : 1..Volume],
           NEW book \in Distinct(rows)
    PROVE  /\ book \in Books /\ In(book) \subseteq S
           /\ \A o \in Orders : book[o] > 0 =>
                 \E r \in rows : r.order = o /\ r.volume = book[o]
<1>1. /\ book \in [Orders -> {0} \cup {r.volume : r \in rows}]
      /\ \A o \in Orders : IF \E r \in rows : r.order = o
                           THEN \E r \in rows : r.order = o /\ r.volume = book[o]
                           ELSE book[o] = 0
  BY DEF Distinct
<1>2. \A o \in Orders : book[o] \in 0..Volume
  <2>1. \A r \in rows : r.volume \in 0..Volume
    BY Numbers
  <2> QED
    BY <1>1, <2>1, Numbers
<1>3. book \in Books
  BY <1>1, <1>2 DEF Books
<1>4. \A o \in Orders : book[o] > 0 => \E r \in rows : r.order = o /\ r.volume = book[o]
  BY <1>1, <1>2
<1>5. In(book) \subseteq S
  BY <1>4 DEF In
<1> QED
  BY <1>3, <1>4, <1>5

\* The two readings of a difference: a book's, and a snapshot's, which takes a missing order
\* for a withdrawn one.
LEMMA Losses ==
    ASSUME NEW a \in 0..Volume, NEW b \in 0..Volume
    PROVE  /\ UnitsLost(a, b) \in Nat /\ UnitsSold(a, b) \in Nat
           /\ UnitsLost(a, b) = (IF b < a THEN a - b ELSE 0)
           /\ UnitsSold(a, b) = (IF 0 < b /\ b < a THEN a - b ELSE 0)
  BY Numbers DEF UnitsLost, UnitsSold

\* The difference of two books has one trade for each order that changed.
LEMMA DiffOfBooks ==
    ASSUME NEW old \in Books, NEW new \in Books, regRuns \in Nat, day \in Nat \ {0}
    PROVE  /\ Diff(old, new) \subseteq Trades /\ IsFiniteSet(Diff(old, new))
           /\ \A d \in Diff(old, new) : d.run = regRuns
           /\ \A o \in Orders :
                 IF old[o] > 0 /\ new[o] # old[o]
                 THEN \E d \in Diff(old, new) :
                         /\ d.units = UnitsLost(old[o], new[o])
                         /\ {e \in Diff(old, new) : e.order = o} = {d}
                 ELSE \A d \in Diff(old, new) : d.order # o
<1> DEFINE C == {p \in In(old) : new[p] # old[p]}
           T(o) == [order |-> o, units |-> UnitsLost(old[o], new[o]), run |-> regRuns, day |-> day]
<1>1. Diff(old, new) = {T(o) : o \in C}
  BY DEF Diff
<1>2. \A o \in C : o \in Orders /\ UnitsLost(old[o], new[o]) \in Nat
  BY Losses DEF In, Books
<1>3. IsFiniteSet(C)
  BY OrdersFinite DEF In
<1>4. IsFiniteSet(Diff(old, new))
  <2> DEFINE f == [o \in C |-> T(o)]
  <2>1. f \in Surjection(C, Diff(old, new))
    BY <1>1 DEF Surjection
  <2> HIDE DEF C, f
  <2> QED
    BY <1>3, <2>1, FS_Surjection
<1>5. \A o \in C : T(o) \in Trades
  BY <1>2 DEF Trades
<1>6. \A d \in Diff(old, new) : d \in Trades /\ d.run = regRuns
  <2>1. \A o \in C : T(o).run = regRuns
    OBVIOUS
  <2> HIDE DEF C, T
  <2> QED
    BY <1>1, <1>5, <2>1
<1>7. ASSUME NEW o \in Orders
      PROVE  IF old[o] > 0 /\ new[o] # old[o]
             THEN \E d \in Diff(old, new) :
                     /\ d.units = UnitsLost(old[o], new[o])
                     /\ {e \in Diff(old, new) : e.order = o} = {d}
             ELSE \A d \in Diff(old, new) : d.order # o
  <2>1. \A p \in C : T(p).order = p /\ T(p).units = UnitsLost(old[p], new[p])
    OBVIOUS
  <2>2. o \in C <=> old[o] > 0 /\ new[o] # old[o]
    BY DEF In
  <2> HIDE DEF C, T
  <2>3. CASE o \in C
    <3>1. {e \in Diff(old, new) : e.order = o} = {T(o)}
      BY <1>1, <2>1, <2>3
    <3>2. T(o) \in Diff(old, new)
      BY <1>1, <2>3
    <3> QED
      BY <2>1, <2>2, <2>3, <3>1, <3>2
  <2>4. CASE o \notin C
    BY <1>1, <2>1, <2>2, <2>4
  <2> QED
    BY <2>3, <2>4
<1> QED
  BY <1>4, <1>6, <1>7

\* An order that changed between two snapshots is in one change of D; no other is in any.
OneEach(D, i, j) ==
    \A o \in Orders :
        IF snaps[i][o] > 0 /\ snaps[j][o] # snaps[i][o]
        THEN \E d \in D : /\ d.units = UnitsSold(snaps[i][o], snaps[j][o])
                          /\ {e \in D : e.order = o} = {d}
        ELSE \A d \in D : d.order # o

\* The changes between two snapshots: one for each order that changed.
LEMMA ChangesOfSnapshots ==
    ASSUME NEW i \in 1..Len(snaps), NEW j \in 1..Len(snaps), snaps \in Seq(Books),
           NEW when \in Nat \ {0}
    PROVE  LET D == SnapshotChanges(i, j, when) IN
           /\ D \subseteq Changes /\ IsFiniteSet(D)
           /\ \A d \in D : /\ d.from = i /\ d.to = j
                           /\ d.old = snaps[i][d.order] /\ d.new = snaps[j][d.order]
           /\ OneEach(D, i, j)
<1> DEFINE C == {p \in In(snaps[i]) : snaps[j][p] # snaps[i][p]}
           T(o) == [order |-> o, old |-> snaps[i][o], new |-> snaps[j][o], from |-> i, to |-> j,
                    units |-> UnitsSold(snaps[i][o], snaps[j][o]), day |-> when]
           D == SnapshotChanges(i, j, when)
<1>1. D = {T(o) : o \in C}
  BY DEF SnapshotChanges
<1>2. snaps[i] \in Books /\ snaps[j] \in Books /\ i \in Nat /\ j \in Nat
  OBVIOUS
<1>3. \A o \in C : /\ o \in Orders /\ UnitsSold(snaps[i][o], snaps[j][o]) \in Nat
                   /\ snaps[i][o] \in Nat /\ snaps[j][o] \in Nat
  <2>1. \A o \in C : o \in Orders /\ snaps[i][o] \in 0..Volume /\ snaps[j][o] \in 0..Volume
    <3>1. \A b \in Books, o \in Orders : b[o] \in 0..Volume
      BY DEF Books
    <3>2. C \subseteq Orders
      BY DEF In
    <3> HIDE DEF C
    <3> QED
      BY <1>2, <3>1, <3>2
  <2>2. \A a, b \in 0..Volume : UnitsSold(a, b) \in Nat /\ a \in Nat
    BY Losses, Numbers
  <2> HIDE DEF C
  <2> QED
    BY <2>1, <2>2
<1>4. IsFiniteSet(C)
  BY OrdersFinite DEF In
<1>5. \A o \in C : T(o) \in Changes
  BY <1>2, <1>3 DEF Changes
<1>6. \A o \in C : /\ T(o).order = o /\ T(o).units = UnitsSold(snaps[i][o], snaps[j][o])
                   /\ T(o).from = i /\ T(o).to = j
                   /\ T(o).old = snaps[i][o] /\ T(o).new = snaps[j][o]
  OBVIOUS
<1>7. \A o \in Orders : o \in C <=> snaps[i][o] > 0 /\ snaps[j][o] # snaps[i][o]
  BY DEF In
<1>8. IsFiniteSet(D)
  <2> DEFINE f == [o \in C |-> T(o)]
  <2>1. f \in Surjection(C, D)
    BY <1>1 DEF Surjection
  <2> HIDE DEF C, f, D
  <2> QED
    BY <1>4, <2>1, FS_Surjection
<1> HIDE DEF C, T, D
<1>9. D \subseteq Changes /\ \A d \in D : /\ d.from = i /\ d.to = j
                                          /\ d.old = snaps[i][d.order] /\ d.new = snaps[j][d.order]
  BY <1>1, <1>5, <1>6
<1>10. ASSUME NEW o \in Orders
       PROVE  IF snaps[i][o] > 0 /\ snaps[j][o] # snaps[i][o]
              THEN \E d \in D : /\ d.units = UnitsSold(snaps[i][o], snaps[j][o])
                                /\ {e \in D : e.order = o} = {d}
              ELSE \A d \in D : d.order # o
  <2>1. CASE o \in C
    <3>1. {e \in D : e.order = o} = {T(o)} /\ T(o) \in D
      BY <1>1, <1>6, <2>1
    <3>2. T(o).units = UnitsSold(snaps[i][o], snaps[j][o])
      BY <1>6, <2>1
    <3> QED
      BY <1>7, <2>1, <3>1, <3>2
  <2>2. CASE o \notin C
    <3>1. \A d \in D : d.order # o
      BY <1>1, <1>6, <2>2
    <3> QED
      BY <1>7, <2>2, <3>1
  <2> QED
    BY <2>1, <2>2
<1> QED
  BY <1>8, <1>9, <1>10 DEF D, OneEach

\* The sum over a window is a number.
LEMMA WindowIsNumber ==
    ASSUME NEW D, IsFiniteSet(D), \A d \in D : d.units \in Nat, NEW S, NEW first
    PROVE  /\ IsFiniteSet(Within(D, S, first)) /\ \A d \in Within(D, S, first) : d.units \in Nat
           /\ Units(Within(D, S, first)) \in Nat
<1>1. Within(D, S, first) \in SUBSET D
  BY DEF Within
<1>2. IsFiniteSet(Within(D, S, first)) /\ \A d \in Within(D, S, first) : d.units \in Nat
  BY <1>1, FS_Subset
<1>3. Units(Within(D, S, first)) \in Nat
  <2> DEFINE W == Within(D, S, first)
  <2> HIDE DEF W
  <2>1. IsFiniteSet(W) /\ \A d \in W : d.units \in Nat
    BY <1>2 DEF W
  <2>2. Units(W) \in Nat
    BY <2>1, UnitsAreNatural
  <2> QED
    BY <2>2 DEF W
<1> QED
  BY <1>2, <1>3

-----------------------------------------------------------------------------
(* Shapes                                                                  *)

\* A run that has not begun holds nothing.
LEMMA NoRunTyped ==
    ASSUME NEW pcs, "idle" \in pcs, NEW S
    PROVE  NoRun \in Runs(pcs, S) /\ NoRun.pc = "idle" /\ NoRun.found = {} /\ NoRun.rows = {}
           /\ NoRun.book = NoBook /\ NoRun.doomed = {} /\ NoRun.next = 1 /\ NoRun.day = 0
           /\ NoBook \in Books /\ In(NoRun.book) = {} /\ IsFiniteSet(NoRun.found)
<1>1. NoBook \in Books /\ In(NoBook) = {}
  BY Numbers DEF NoBook, Books, In
<1>2. IsFiniteSet({})
  BY FS_EmptySet
<1> QED
  BY <1>1, <1>2 DEF NoRun, Runs

\* Types hold at the start.
LEMMA InitTyped == Init => BooksTypeOK
<1> SUFFICES ASSUME Init PROVE BooksTypeOK
  OBVIOUS
<1>1. reg \in Runs(RegionPcs, RegionOrders) /\ str \in Runs(StructurePcs, StructureOrders)
  BY NoRunTyped DEF Init, RegionPcs, StructurePcs
<1>2. In(str.book) = {} /\ str.doomed = {} /\ str.pc = "idle" /\ IsFiniteSet(reg.found)
  BY NoRunTyped DEF Init, RegionPcs
<1>3. /\ market \in Books /\ traded \in Books /\ live \in Books /\ entered \in [Orders -> Nat]
      /\ posted \subseteq Orders
  BY Numbers, BooksAssumption DEF Init, NoBook, Books
<1>4. IsFiniteSet(ever) /\ IsFiniteSet(changes) /\ periods \in [Kinds -> Nat]
      /\ snaps \in Seq(Books)
  BY FS_EmptySet DEF Init, Kinds
<1> QED
  BY <1>1, <1>2, <1>3, <1>4 DEF Init, BooksTypeOK

\* What EVE, a midnight and a step that stutters leave alone.
LEMMA EveTyped ==
    ASSUME BooksTypeOK, NEW o \in Orders, Post(o) \/ Trade(o) \/ Withdraw(o),
           EveSinks
    PROVE  BooksTypeOK'
<1>1. UNCHANGED <<day, tables, reg, str, regRuns, history>>
  BY DEF Post, Trade, Withdraw
<1>2. market' \in Books /\ traded' \in Books /\ posted' \subseteq Orders
  <2>1. CASE Post(o)
    BY <2>1, Numbers DEF Post, Books, BooksTypeOK
  <2>2. CASE Trade(o)
    <3>1. market[o] \in 0..Volume /\ traded[o] \in 0..Volume /\ market[o] > 0
          /\ market[o] + traded[o] <= Volume
      BY <2>2 DEF Trade, BooksTypeOK, Books, EveSinks
    <3>2. market[o] - 1 \in 0..Volume /\ traded[o] + 1 \in 0..Volume
      BY <3>1, Numbers
    <3> QED
      BY <2>2, <3>2 DEF Trade, Books, BooksTypeOK
  <2>3. CASE Withdraw(o)
    BY <2>3, Numbers DEF Withdraw, Books, BooksTypeOK
  <2> QED
    BY <2>1, <2>2, <2>3
<1> QED
  BY <1>1, <1>2 DEF BooksTypeOK, tables, history

\* A step of the region's run.
LEMMA RegionTyped ==
    ASSUME BooksTypeOK,
           \/ RegionBegin \/ RegionList \/ RegionCompare \/ RegionDelete \/ RegionDeleted
           \/ RegionCommit \/ RegionRefused \/ RegionRefresh
    PROVE  BooksTypeOK'
<1>1. RegionOrders \in SUBSET Orders /\ Listing \subseteq RegionPcs
  BY BooksAssumption DEF RegionOrders, Stations, Listing, RegionPcs
<1>2. NoRun \in Runs(RegionPcs, RegionOrders) /\ NoRun.found = {} /\ IsFiniteSet({})
  BY NoRunTyped, FS_EmptySet DEF RegionPcs
<1>3. CASE RegionBegin
  <2>1. reg' = Reads(NoRun, RegionOrders) /\ market \in Books /\ day \in Nat \ {0}
    BY <1>3 DEF RegionBegin, BooksTypeOK
  <2>2. reg' \in Runs(RegionPcs, RegionOrders) /\ reg'.found = {}
    BY <1>1, <1>2, <2>1, ReadsAPage
  <2>3. UNCHANGED <<eve, day, tables, str, history>> /\ regRuns' = regRuns + 1
    BY <1>3 DEF RegionBegin
  <2> QED
    BY <1>2, <2>2, <2>3 DEF BooksTypeOK, eve, tables, history
<1>4. CASE RegionList
  <2>1. reg' \in Runs(RegionPcs, RegionOrders) /\ reg'.found = reg.found
    BY <1>1, <1>4, ReadsAPage DEF RegionList, BooksTypeOK
  <2>2. UNCHANGED <<eve, day, tables, str, regRuns, history>>
    BY <1>4 DEF RegionList
  <2> QED
    BY <2>1, <2>2 DEF BooksTypeOK, eve, tables, history
<1>5. CASE RegionCompare
  <2>1. PICK book \in Distinct(reg.rows) :
           reg' = [reg EXCEPT !.pc = "compared", !.book = book, !.found = Diff(live, book)]
    BY <1>5 DEF RegionCompare
  <2>2. reg.rows \in SUBSET [page : Nat, order : RegionOrders, volume : 1..Volume]
    BY DEF BooksTypeOK, Runs
  <2>3. book \in Books
    BY <1>1, <2>2, BookOfList
  <2>4. Diff(live, book) \subseteq Trades /\ IsFiniteSet(Diff(live, book))
    BY <2>3, DiffOfBooks DEF BooksTypeOK
  <2>5. reg' \in Runs(RegionPcs, RegionOrders) /\ reg'.found = Diff(live, book)
    BY <2>1, <2>3, <2>4 DEF BooksTypeOK, Runs, RegionPcs
  <2>6. UNCHANGED <<eve, day, tables, str, regRuns, history>>
    BY <1>5 DEF RegionCompare
  <2> QED
    BY <2>4, <2>5, <2>6 DEF BooksTypeOK, eve, tables, history
<1>6. CASE RegionDelete \/ RegionDeleted
  <2>1. In(live) \in SUBSET Orders
    BY DEF In
  <2>2. PICK S \in SUBSET Orders, pc \in RegionPcs : reg' = [reg EXCEPT !.pc = pc, !.doomed = S]
    <3>1. CASE RegionDelete
      BY <2>1, <3>1 DEF RegionDelete, RegionPcs
    <3>2. CASE RegionDeleted
      <4>1. reg.doomed \in SUBSET Orders /\ "insert" \in RegionPcs
        BY DEF BooksTypeOK, Runs, RegionPcs
      <4>2. reg' = [reg EXCEPT !.pc = "insert", !.doomed = reg.doomed]
        BY <3>2 DEF RegionDeleted, BooksTypeOK, Runs
      <4> QED
        BY <4>1, <4>2
    <3> QED
      BY <1>6, <3>1, <3>2
  <2>3. reg' \in Runs(RegionPcs, RegionOrders) /\ reg'.found = reg.found
    BY <2>2 DEF BooksTypeOK, Runs
  <2>4. UNCHANGED <<eve, day, tables, str, regRuns, history>>
    BY <1>6 DEF RegionDelete, RegionDeleted
  <2> QED
    BY <2>3, <2>4 DEF BooksTypeOK, eve, tables, history
<1>7. CASE RegionCommit
  <2>1. reg' \in Runs(RegionPcs, RegionOrders) /\ IsFiniteSet(reg'.found)
    BY <1>2, <1>7 DEF RegionCommit, BooksTypeOK, Runs, RegionPcs
  <2>2. reg.book \in Books /\ reg.found \subseteq Trades /\ IsFiniteSet(reg.found)
    BY DEF BooksTypeOK, Runs
  <2>3. live' \in Books /\ entered' \in [Orders -> Nat]
    BY <1>7, <2>2, Numbers DEF RegionCommit, Replaced, BooksTypeOK, Books
  <2>4. ever' \subseteq Trades /\ IsFiniteSet(ever') /\ trades' \subseteq ever'
    BY <1>7, <2>2, FS_Union DEF RegionCommit, BooksTypeOK
  <2>5. UNCHANGED <<eve, day, snaps, changes, periods, str, regRuns>>
    BY <1>7 DEF RegionCommit
  <2> QED
    BY <2>1, <2>3, <2>4, <2>5 DEF BooksTypeOK, eve
<1>8. CASE RegionRefused
  BY <1>2, <1>8 DEF RegionRefused, BooksTypeOK, eve, tables, history
<1>9. CASE RegionRefresh
  <2>1. reg' = NoRun /\ trades' \subseteq trades
        /\ UNCHANGED <<eve, day, live, snaps, changes, str, regRuns, history>>
    BY <1>9 DEF RegionRefresh
  <2>2. IsFiniteSet(trades) /\ \A d \in trades : d.units \in Nat
    BY FS_Subset DEF BooksTypeOK, Trades
  <2>3. \A k \in Kinds : Refreshed(k) \in Nat
    <3>1. \A S, n : Units(Within(trades, S, n)) \in Nat
      BY <2>2, WindowIsNumber
    <3> QED
      BY <3>1 DEF Refreshed, BooksTypeOK, Summed
  <2>4. periods' \in [Kinds -> Nat]
    BY <1>9, <2>3 DEF RegionRefresh, BooksTypeOK
  <2> QED
    BY <1>2, <2>1, <2>4 DEF BooksTypeOK, eve, history
<1> QED
  BY <1>3, <1>4, <1>5, <1>6, <1>7, <1>8, <1>9

\* A step of the structure's run.
LEMMA StructureTyped ==
    ASSUME BooksTypeOK,
           \/ StructureBegin \/ StructureList \/ StructureSkip \/ StructureSnapshot
           \/ StructureDelete \/ StructureCommit \/ StructureRefused \/ StructureCompare
           \/ StructureRefresh,
           ChangesBehind
    PROVE  BooksTypeOK'
<1>1. StructureOrders \in SUBSET Orders /\ Listing \subseteq StructurePcs
  BY BooksAssumption DEF Listing, StructurePcs
<1>2. NoRun \in Runs(StructurePcs, StructureOrders) /\ In(NoRun.book) = {} /\ NoRun.doomed = {}
      /\ NoRun.pc = "idle" /\ NoRun.next = 1
  BY NoRunTyped DEF StructurePcs
<1>3. CASE StructureBegin \/ StructureList
  <2>1. PICK run : /\ run = NoRun \/ (run = str /\ str.pc = "list")
                   /\ str' = Reads(run, StructureOrders)
    BY <1>3 DEF StructureBegin, StructureList
  <2>2. /\ run \in Runs(StructurePcs, StructureOrders) /\ In(run.book) \subseteq StructureOrders
        /\ run.doomed \subseteq StructureOrders /\ (run.next = 1 \/ run.day > 0)
    BY <1>2, <2>1 DEF BooksTypeOK
  <2>3. market \in Books /\ day \in Nat \ {0}
    BY DEF BooksTypeOK
  <2>4. /\ str' \in Runs(StructurePcs, StructureOrders) /\ str'.day > 0
        /\ In(str'.book) \subseteq StructureOrders /\ str'.doomed \subseteq StructureOrders
    <3>1. /\ str' \in Runs(StructurePcs, StructureOrders)
          /\ str'.book = run.book /\ str'.doomed = run.doomed
          /\ str'.day = IF run.next = 1 THEN day ELSE run.day
      BY <1>1, <2>1, <2>2, <2>3, ReadsAPage, SMTT(30)
    <3>2. In(str'.book) = In(run.book)
      BY <3>1 DEF In
    <3> QED
      BY <2>2, <2>3, <3>1, <3>2
  <2>5. UNCHANGED <<eve, day, tables, reg, regRuns, history>>
    BY <1>3 DEF StructureBegin, StructureList
  <2> QED
    BY <2>4, <2>5 DEF BooksTypeOK, eve, tables, history
<1>4. CASE StructureSkip \/ StructureRefused
  BY <1>2, <1>4 DEF StructureSkip, StructureRefused, BooksTypeOK, eve, tables, history
<1>5. CASE StructureSnapshot
  <2>1. PICK book \in Distinct(str.rows) :
           snaps' = Append(snaps, book) /\ str' = [str EXCEPT !.pc = "kept", !.book = book]
    BY <1>5 DEF StructureSnapshot
  <2>2. str.rows \in SUBSET [page : Nat, order : StructureOrders, volume : 1..Volume]
    BY DEF BooksTypeOK, Runs
  <2>3. book \in Books /\ In(book) \subseteq StructureOrders
    BY <1>1, <2>2, BookOfList
  <2>4. str' \in Runs(StructurePcs, StructureOrders) /\ str'.book = book
        /\ str'.doomed = str.doomed /\ str'.day = str.day /\ str.pc # "idle"
    BY <1>5, <2>1, <2>3 DEF BooksTypeOK, Runs, StructurePcs, StructureSnapshot
  <2>5. snaps' \in Seq(Books)
    BY <2>1, <2>3 DEF BooksTypeOK
  <2>6. UNCHANGED <<eve, day, live, trades, changes, periods, reg, regRuns, history>>
    BY <1>5 DEF StructureSnapshot
  <2> QED
    BY <2>3, <2>4, <2>5, <2>6 DEF BooksTypeOK, eve, history
<1>6. CASE StructureDelete
  <2>1. str' = [str EXCEPT !.pc = "insert", !.doomed = In(live) \cap StructureOrders]
        /\ str.pc # "idle" /\ UNCHANGED <<eve, day, tables, reg, regRuns, history>>
    BY <1>6 DEF StructureDelete
  <2>2. str' \in Runs(StructurePcs, StructureOrders) /\ str'.book = str.book
        /\ str'.doomed \subseteq StructureOrders /\ str'.day = str.day
    BY <2>1, <1>1 DEF BooksTypeOK, Runs, StructurePcs
  <2> QED
    BY <2>1, <2>2 DEF BooksTypeOK, eve, tables, history
<1>7. CASE StructureCommit
  <2>1. str.book \in Books
    BY DEF BooksTypeOK, Runs
  <2>2. live' \in Books
    BY <1>7, <2>1 DEF StructureCommit, Replaced, BooksTypeOK, Books
  <2>3. reg' \in Runs(RegionPcs, RegionOrders) /\ reg'.found = reg.found
    BY <1>7 DEF StructureCommit, BooksTypeOK, Runs
  <2>4. str' \in Runs(StructurePcs, StructureOrders) /\ str'.book = str.book
        /\ str'.doomed = str.doomed /\ str'.day = str.day /\ str.pc # "idle"
    BY <1>7 DEF StructureCommit, BooksTypeOK, Runs, StructurePcs
  <2>5. UNCHANGED <<eve, day, trades, snaps, changes, periods, regRuns, history>>
    BY <1>7 DEF StructureCommit
  <2> QED
    BY <2>2, <2>3, <2>4, <2>5 DEF BooksTypeOK, eve, history
<1>8. CASE StructureCompare
  <2> DEFINE D == SnapshotChanges(Previous, Len(snaps), str.day)
  <2>1. /\ changes' = changes \cup D
        /\ str' = IF D = {} THEN NoRun ELSE [str EXCEPT !.pc = "refresh"]
        /\ str.pc = "compare"
        /\ UNCHANGED <<eve, day, live, trades, snaps, periods, reg, regRuns, history>>
    BY <1>8 DEF StructureCompare
  <2>2. D \subseteq Changes /\ IsFiniteSet(D)
    <3>1. Previous \in 1..Len(snaps) /\ Len(snaps) \in 1..Len(snaps)
      BY <2>1 DEF ChangesBehind, Previous, BooksTypeOK
    <3>2. str.day \in Nat \ {0}
      BY <2>1 DEF BooksTypeOK, Runs
    <3> QED
      BY <3>1, <3>2, ChangesOfSnapshots DEF BooksTypeOK
  <2> HIDE DEF D
  <2>3. changes' \subseteq Changes /\ IsFiniteSet(changes')
    BY <2>1, <2>2, FS_Union DEF BooksTypeOK
  <2>4. str' \in Runs(StructurePcs, StructureOrders) /\ In(str'.book) \subseteq StructureOrders
        /\ str'.doomed \subseteq StructureOrders /\ (str'.pc # "idle" => str'.day > 0)
    BY <1>2, <2>1 DEF BooksTypeOK, Runs, StructurePcs
  <2> QED
    BY <2>1, <2>3, <2>4 DEF BooksTypeOK, eve, history
<1>9. CASE StructureRefresh
  <2>1. IsFiniteSet(changes) /\ \A d \in changes : d.units \in Nat
    BY DEF BooksTypeOK, Changes
  <2>2. Units(Within(changes, StructureOrders, str.day - Period)) \in Nat
    BY <2>1, WindowIsNumber
  <2>3. periods' \in [Kinds -> Nat] /\ str' = NoRun
        /\ UNCHANGED <<eve, day, live, trades, snaps, changes, reg, regRuns, history>>
    BY <1>9, <2>2 DEF StructureRefresh, BooksTypeOK
  <2> QED
    BY <1>2, <2>3 DEF BooksTypeOK, eve, history
<1> QED
  BY <1>3, <1>4, <1>5, <1>6, <1>7, <1>8, <1>9

\* Types are kept by every step.
LEMMA TypesKept == BooksTypeOK /\ EveSinks /\ ChangesBehind /\ [Next]_vars => BooksTypeOK'
<1> SUFFICES ASSUME BooksTypeOK, EveSinks, ChangesBehind, [Next]_vars PROVE BooksTypeOK'
  OBVIOUS
<1>1. ASSUME NEW o \in Orders, Post(o) \/ Trade(o) \/ Withdraw(o) PROVE BooksTypeOK'
  BY <1>1, EveTyped
<1>2. CASE Midnight
  BY <1>2 DEF Midnight, BooksTypeOK, eve, tables, history
<1>3. CASE \/ RegionBegin \/ RegionList \/ RegionCompare \/ RegionDelete \/ RegionDeleted
           \/ RegionCommit \/ RegionRefused \/ RegionRefresh
  BY <1>3, RegionTyped
<1>4. CASE \/ StructureBegin \/ StructureList \/ StructureSkip \/ StructureSnapshot
           \/ StructureDelete \/ StructureCommit \/ StructureRefused \/ StructureCompare
           \/ StructureRefresh
  BY <1>4, StructureTyped
<1>5. CASE Fail
  <2>1. /\ NoRun \in Runs(RegionPcs, RegionOrders) /\ NoRun \in Runs(StructurePcs, StructureOrders)
        /\ NoRun.found = {} /\ IsFiniteSet({}) /\ In(NoRun.book) = {} /\ NoRun.doomed = {}
        /\ NoRun.pc = "idle"
    BY NoRunTyped, FS_EmptySet DEF RegionPcs, StructurePcs
  <2> QED
    BY <1>5, <2>1 DEF Fail, BooksTypeOK, eve, tables, history
<1>6. CASE UNCHANGED vars
  BY <1>6 DEF vars, BooksTypeOK
<1>7. CASE Rest
  BY <1>6, <1>7 DEF Rest
<1> QED
  BY <1>1, <1>2, <1>3, <1>4, <1>5, <1>6, <1>7 DEF Next

-----------------------------------------------------------------------------
(* What was listed is past                                                 *)

RegionStep ==
    \/ RegionBegin \/ RegionList \/ RegionCompare \/ RegionDelete \/ RegionDeleted
    \/ RegionCommit \/ RegionRefused \/ RegionRefresh
StructureStep ==
    \/ StructureBegin \/ StructureList \/ StructureSkip \/ StructureSnapshot
    \/ StructureDelete \/ StructureCommit \/ StructureRefused \/ StructureCompare
    \/ StructureRefresh

\* Nothing that the application does touches the market.
LEMMA EveLeftAlone ==
    ASSUME Midnight \/ RegionStep \/ StructureStep \/ Fail \/ UNCHANGED vars
    PROVE  UNCHANGED eve
<1>1. CASE Midnight \/ Fail \/ UNCHANGED vars
  BY <1>1 DEF Midnight, Fail, vars, eve
<1>2. CASE RegionStep
  BY <1>2 DEF RegionStep, RegionBegin, RegionList, RegionCompare, RegionDelete, RegionDeleted,
         RegionCommit, RegionRefused, RegionRefresh
<1>3. CASE StructureStep
  BY <1>3 DEF StructureStep, StructureBegin, StructureList, StructureSkip, StructureSnapshot,
         StructureDelete, StructureCommit, StructureRefused, StructureCompare, StructureRefresh
<1> QED
  BY <1>1, <1>2, <1>3

\* The ways a step may go: EVE's, time's, or those of the runs.
LEMMA Steps ==
    ASSUME [Next]_vars
    PROVE  \/ \E o \in Orders : Post(o) \/ Trade(o) \/ Withdraw(o)
           \/ Midnight \/ RegionStep \/ StructureStep \/ Fail \/ UNCHANGED vars
  BY DEF Next, RegionStep, StructureStep, Rest

\* The market's players touch nothing of the application's.
LEMMA EveOnly ==
    ASSUME NEW o \in Orders, Post(o) \/ Trade(o) \/ Withdraw(o)
    PROVE  UNCHANGED <<day, live, trades, snaps, changes, periods, reg, str, regRuns, ever, entered>>
  BY DEF Post, Trade, Withdraw, tables, history

\* What has left an order was traded, or it is gone altogether.
LEMMA EveSinksKept ==
    ASSUME BooksTypeOK, EveSinks, [Next]_vars
    PROVE  EveSinks'
<1>1. ASSUME NEW o \in Orders, Post(o) \/ Trade(o) \/ Withdraw(o) PROVE EveSinks'
  <2> SUFFICES ASSUME NEW p \in Orders
               PROVE  /\ market'[p] + traded'[p] <= Volume
                      /\ market'[p] > 0 => p \in posted' /\ market'[p] + traded'[p] = Volume
                      /\ p \notin posted' => traded'[p] = 0
    BY DEF EveSinks
  <2>1. /\ market[p] \in 0..Volume /\ traded[p] \in 0..Volume /\ market[p] + traded[p] <= Volume
        /\ market[p] > 0 => p \in posted /\ market[p] + traded[p] = Volume
        /\ p \notin posted => traded[p] = 0
    BY DEF BooksTypeOK, Books, EveSinks
  <2>2. /\ market \in [Orders -> 0..Volume] /\ traded \in [Orders -> 0..Volume]
    BY DEF BooksTypeOK, Books
  <2>3. CASE Post(o)
    BY <2>1, <2>2, <2>3, Numbers DEF Post
  <2>4. CASE Trade(o)
    BY <2>1, <2>2, <2>4, Numbers DEF Trade
  <2>5. CASE Withdraw(o)
    BY <2>1, <2>2, <2>5, Numbers DEF Withdraw
  <2> QED
    BY <1>1, <2>3, <2>4, <2>5
<1>2. CASE Midnight \/ RegionStep \/ StructureStep \/ Fail \/ UNCHANGED vars
  BY <1>2, EveLeftAlone DEF EveSinks, eve
<1> QED
  BY <1>1, <1>2, Steps

\* The past stays past.
LEMMA PastForGood ==
    ASSUME BooksTypeOK, EveSinks, [Next]_vars, NEW o \in Orders, NEW v \in 0..Volume, Past(o, v)
    PROVE  v > 0 => /\ o \in posted' /\ v <= Volume /\ market'[o] <= v
                    /\ Volume <= v + traded'[o]
<1>0. /\ market \in [Orders -> 0..Volume] /\ traded \in [Orders -> 0..Volume] /\ v \in Nat
      /\ v > 0 => o \in posted /\ v <= Volume /\ market[o] <= v /\ Volume <= v + traded[o]
  BY Numbers DEF BooksTypeOK, Books, Past
<1>1. ASSUME NEW p \in Orders, Post(p) \/ Trade(p) \/ Withdraw(p)
      PROVE  v > 0 => /\ o \in posted' /\ v <= Volume /\ market'[o] <= v
                      /\ Volume <= v + traded'[o]
  <2>1. CASE Post(p)
    BY <1>0, <2>1, Numbers DEF Post
  <2>2. CASE Trade(p)
    BY <1>0, <2>2, Numbers DEF Trade
  <2>3. CASE Withdraw(p)
    BY <1>0, <2>3, Numbers DEF Withdraw
  <2> QED
    BY <1>1, <2>1, <2>2, <2>3
<1>2. CASE Midnight \/ RegionStep \/ StructureStep \/ Fail \/ UNCHANGED vars
  BY <1>0, <1>2, EveLeftAlone DEF eve
<1> QED
  BY <1>1, <1>2, Steps

\* What a page shows is past, as it is now.
LEMMA NowIsPast ==
    ASSUME BooksTypeOK, EveSinks, NEW o \in Orders
    PROVE  Past(o, market[o])
  BY Numbers DEF Past, EveSinks, BooksTypeOK, Books

\* A page shows what each order has left now.
LEMMA PageIsPast ==
    ASSUME BooksTypeOK, EveSinks, NEW S \in SUBSET Orders, NEW n \in Nat
    PROVE  \A r \in Page(S, n) : r.order \in Orders /\ Past(r.order, r.volume)
<1> SUFFICES ASSUME NEW r \in Page(S, n) PROVE r.order \in Orders /\ Past(r.order, r.volume)
  OBVIOUS
<1>1. r \in [page : Nat, order : S, volume : 1..Volume] /\ r.volume = market[r.order]
  BY PageShows DEF BooksTypeOK
<1> QED
  BY <1>1, NowIsPast

\* All that tables and runs hold after a step was past before it.
PastPairs(book, S) ==
    (\A o \in Orders : Past(o, book[o])) /\ \A r \in S : r.order \in Orders /\ Past(r.order, r.volume)

\* The rows of a list are of its region's, or its structure's, orders.
LEMMA RowsHaveOrders ==
    ASSUME BooksTypeOK
    PROVE  /\ \A r \in reg.rows : r.order \in RegionOrders /\ r.order \in Orders /\ r.volume \in 1..Volume
           /\ \A r \in str.rows : r.order \in StructureOrders /\ r.order \in Orders /\ r.volume \in 1..Volume
  BY BooksAssumption DEF BooksTypeOK, Runs, RegionOrders, Stations

\* A run that has not begun has listed nothing.
LEMMA NothingIsPast ==
    /\ \A o \in Orders : Past(o, NoRun.book[o])
    /\ Rows(NoRun) = {} /\ NoRun.pc = "idle"
  BY DEF Past, NoRun, NoBook, Rows, Listing

\* A run that reads a page.
LEMMA ReadsPast ==
    ASSUME BooksTypeOK, EveSinks, NEW S \in SUBSET Orders, NEW pcs, Listing \subseteq pcs,
           NEW run \in Runs(pcs, S), \A o \in Orders : Past(o, run.book[o]),
           \A r \in run.rows : r.order \in Orders /\ Past(r.order, r.volume)
    PROVE  PastPairs(Reads(run, S).book, Rows(Reads(run, S)))
<1>1. /\ Reads(run, S).book = run.book /\ Reads(run, S).rows = run.rows \cup Page(S, run.next)
      /\ run.next \in Nat
  <2>1. market \in Books /\ day \in Nat \ {0}
    BY DEF BooksTypeOK
  <2>2. run.next \in Nat
    BY DEF Runs
  <2> QED
    BY <2>1, <2>2, ReadsAPage
<1>2. \A r \in Page(S, run.next) : r.order \in Orders /\ Past(r.order, r.volume)
  BY <1>1, PageIsPast
<1>3. Rows(Reads(run, S)) \subseteq run.rows \cup Page(S, run.next)
  BY <1>1 DEF Rows
<1> QED
  BY <1>1, <1>2, <1>3 DEF PastPairs

\* The book that a run takes its list for.
LEMMA BookOfRun ==
    ASSUME NEW S \in SUBSET Orders, NEW pcs, NEW run \in Runs(pcs, S),
           NEW book \in Distinct(run.rows)
    PROVE  /\ book \in Books /\ In(book) \subseteq S
           /\ \A o \in Orders : book[o] > 0 =>
                 \E r \in run.rows : r.order = o /\ r.volume = book[o]
<1>1. run.rows \in SUBSET [page : Nat, order : S, volume : 1..Volume]
  BY DEF Runs
<1>2. book \in Books
  BY <1>1, BookOfList
<1>3. In(book) \subseteq S
  BY <1>1, BookOfList
<1>4. \A o \in Orders : book[o] > 0 => \E r \in run.rows : r.order = o /\ r.volume = book[o]
  BY BookOfList DEF Runs
<1> QED
  BY <1>2, <1>3, <1>4

\* A run that takes its list for a book.
LEMMA BookIsPast ==
    ASSUME BooksTypeOK, ListsPast, NEW S \in SUBSET Orders, NEW pcs, NEW run \in Runs(pcs, S),
           \A r \in run.rows : Past(r.order, r.volume), NEW book \in Distinct(run.rows)
    PROVE  \A o \in Orders : Past(o, book[o])
<1>1. \A o \in Orders : book[o] > 0 => \E r \in run.rows : r.order = o /\ r.volume = book[o]
  BY BookOfList DEF Runs
<1> QED
  BY <1>1 DEF Past

\* What a step of the region's run lists or keeps was listed before, or is on the market now.
LEMMA RegionMoves ==
    ASSUME BooksTypeOK, EveSinks, ListsPast, RegionStep
    PROVE  /\ PastPairs(reg'.book, Rows(reg')) /\ \A o \in Orders : Past(o, live'[o])
           /\ str' = str /\ snaps' = snaps
<1>0. /\ PastPairs(reg.book, Rows(reg)) /\ \A o \in Orders : Past(o, live[o])
      /\ PastPairs(NoRun.book, Rows(NoRun))
  BY RowsHaveOrders, NothingIsPast DEF ListsPast, PastPairs, Rows
<1>1. CASE RegionBegin \/ RegionList
  <2>1. PICK run : (run = NoRun \/ (run = reg /\ reg.pc = "list")) /\ reg' = Reads(run, RegionOrders)
    BY <1>1 DEF RegionBegin, RegionList
  <2>2. RegionOrders \in SUBSET Orders /\ Listing \subseteq RegionPcs
    BY BooksAssumption DEF RegionOrders, Stations, Listing, RegionPcs
  <2>3. run \in Runs(RegionPcs, RegionOrders)
    <3>1. NoRun \in Runs(RegionPcs, RegionOrders)
      BY NoRunTyped DEF RegionPcs
    <3> QED
      BY <2>1, <3>1 DEF BooksTypeOK
  <2>4. /\ \A o \in Orders : Past(o, run.book[o])
        /\ \A r \in run.rows : r.order \in Orders /\ Past(r.order, r.volume)
    <3>1. NoRun.rows = {}
      BY DEF NoRun
    <3>2. reg.pc = "list" => Rows(reg) = reg.rows
      BY DEF Rows, Listing
    <3> QED
      BY <1>0, <2>1, <3>1, <3>2 DEF PastPairs
  <2>5. PastPairs(reg'.book, Rows(reg'))
    BY <2>1, <2>2, <2>3, <2>4, ReadsPast
  <2> QED
    BY <1>0, <1>1, <2>5 DEF RegionBegin, RegionList, tables
<1>2. CASE RegionCompare
  <2>1. PICK book \in Distinct(reg.rows) :
           reg' = [reg EXCEPT !.pc = "compared", !.book = book, !.found = Diff(live, book)]
    BY <1>2 DEF RegionCompare
  <2>2. reg'.book = book /\ Rows(reg') = {}
    BY <2>1 DEF Rows, Listing, BooksTypeOK, Runs
  <2>3. RegionOrders \in SUBSET Orders /\ \A r \in reg.rows : Past(r.order, r.volume)
    BY <1>0, <1>2, BooksAssumption DEF RegionOrders, Stations, RegionCompare, Rows, Listing, PastPairs
  <2>4. \A o \in Orders : Past(o, book[o])
    BY <2>3, BookIsPast DEF BooksTypeOK
  <2> QED
    BY <1>0, <1>2, <2>2, <2>4 DEF RegionCompare, PastPairs, tables
<1>3. CASE RegionDelete \/ RegionDeleted
  <2>1. reg'.book = reg.book /\ Rows(reg') = {}
    BY <1>3 DEF RegionDelete, RegionDeleted, Rows, Listing, BooksTypeOK, Runs
  <2> QED
    BY <1>0, <1>3, <2>1 DEF RegionDelete, RegionDeleted, PastPairs, tables
<1>4. CASE RegionCommit
  <2>1. /\ reg' = NoRun \/ (reg'.book = reg.book /\ Rows(reg') = {})
        /\ live' = Replaced(reg) /\ str' = str /\ snaps' = snaps
    BY <1>4 DEF RegionCommit, Rows, Listing, BooksTypeOK, Runs
  <2>2. \A o \in Orders : live'[o] \in {reg.book[o], 0, live[o]}
    BY <2>1 DEF Replaced
  <2>3. \A o \in Orders : Past(o, 0)
    BY DEF Past
  <2> QED
    BY <1>0, <2>1, <2>2, <2>3 DEF PastPairs
<1>5. CASE RegionRefused \/ RegionRefresh
  BY <1>0, <1>5 DEF RegionRefused, RegionRefresh, tables
<1> QED
  BY <1>1, <1>2, <1>3, <1>4, <1>5 DEF RegionStep

\* The same of the structure's run and its snapshots.
LEMMA StructureMoves ==
    ASSUME BooksTypeOK, EveSinks, ListsPast, StructureStep
    PROVE  /\ PastPairs(str'.book, Rows(str')) /\ \A o \in Orders : Past(o, live'[o])
           /\ reg'.book = reg.book /\ Rows(reg') = Rows(reg)
           /\ \A o \in Orders : \A i \in 1..Len(snaps') : Past(o, snaps'[i][o])
<1>0. /\ PastPairs(str.book, Rows(str)) /\ \A o \in Orders : Past(o, live[o])
      /\ PastPairs(NoRun.book, Rows(NoRun))
      /\ \A o \in Orders : \A i \in 1..Len(snaps) : Past(o, snaps[i][o])
  BY RowsHaveOrders, NothingIsPast DEF ListsPast, PastPairs, Rows
<1>1. CASE StructureBegin \/ StructureList
  <2>1. PICK run : (run = NoRun \/ (run = str /\ str.pc = "list")) /\ str' = Reads(run, StructureOrders)
    BY <1>1 DEF StructureBegin, StructureList
  <2>2. StructureOrders \in SUBSET Orders /\ Listing \subseteq StructurePcs
    BY BooksAssumption DEF Listing, StructurePcs
  <2>3. run \in Runs(StructurePcs, StructureOrders)
    <3>1. NoRun \in Runs(StructurePcs, StructureOrders)
      BY NoRunTyped DEF StructurePcs
    <3> QED
      BY <2>1, <3>1 DEF BooksTypeOK
  <2>4. /\ \A o \in Orders : Past(o, run.book[o])
        /\ \A r \in run.rows : r.order \in Orders /\ Past(r.order, r.volume)
    <3>1. NoRun.rows = {}
      BY DEF NoRun
    <3>2. str.pc = "list" => Rows(str) = str.rows
      BY DEF Rows, Listing
    <3> QED
      BY <1>0, <2>1, <3>1, <3>2 DEF PastPairs
  <2>5. PastPairs(str'.book, Rows(str'))
    BY <2>1, <2>2, <2>3, <2>4, ReadsPast
  <2> QED
    BY <1>0, <1>1, <2>5 DEF StructureBegin, StructureList, tables
<1>2. CASE StructureSnapshot
  <2>1. PICK book \in Distinct(str.rows) :
           snaps' = Append(snaps, book) /\ str' = [str EXCEPT !.pc = "kept", !.book = book]
    BY <1>2 DEF StructureSnapshot
  <2>2. str'.book = book /\ Rows(str') = {}
    BY <2>1 DEF Rows, Listing, BooksTypeOK, Runs
  <2>3. StructureOrders \in SUBSET Orders /\ \A r \in str.rows : Past(r.order, r.volume)
    BY <1>0, <1>2, BooksAssumption DEF StructureSnapshot, Rows, Listing, PastPairs
  <2>4. \A o \in Orders : Past(o, book[o])
    BY <2>3, BookIsPast DEF BooksTypeOK
  <2>5. \A i \in 1..Len(snaps') : snaps'[i] = book \/ (i \in 1..Len(snaps) /\ snaps'[i] = snaps[i])
    BY <2>1 DEF BooksTypeOK
  <2> QED
    BY <1>0, <1>2, <2>2, <2>4, <2>5 DEF StructureSnapshot, PastPairs
<1>3. CASE StructureDelete
  <2>1. str'.book = str.book /\ Rows(str') = {}
    BY <1>3 DEF StructureDelete, Rows, Listing, BooksTypeOK, Runs
  <2> QED
    BY <1>0, <1>3, <2>1 DEF StructureDelete, PastPairs, tables
<1>4. CASE StructureCommit
  <2>1. /\ str'.book = str.book /\ Rows(str') = {} /\ live' = Replaced(str) /\ snaps' = snaps
        /\ reg'.book = reg.book /\ Rows(reg') = Rows(reg)
    BY <1>4 DEF StructureCommit, Rows, Listing, BooksTypeOK, Runs
  <2>2. \A o \in Orders : live'[o] \in {str.book[o], 0, live[o]}
    BY <2>1 DEF Replaced
  <2>3. \A o \in Orders : Past(o, 0)
    BY DEF Past
  <2> QED
    BY <1>0, <2>1, <2>2, <2>3 DEF PastPairs
<1>5. CASE StructureCompare
  <2>1. str' = NoRun \/ (str'.book = str.book /\ Rows(str') = {})
    BY <1>5 DEF StructureCompare, Rows, Listing, BooksTypeOK, Runs
  <2> QED
    BY <1>0, <1>5, <2>1 DEF StructureCompare, PastPairs
<1>6. CASE StructureSkip \/ StructureRefused \/ StructureRefresh
  BY <1>0, <1>6 DEF StructureSkip, StructureRefused, StructureRefresh, tables
<1> QED
  BY <1>1, <1>2, <1>3, <1>4, <1>5, <1>6 DEF StructureStep

\* Whatever was listed stays past, for orders only sink.
LEMMA ListsPastKept ==
    ASSUME BooksTypeOK, BooksTypeOK', EveSinks, ListsPast, [Next]_vars
    PROVE  ListsPast'
<1>1. /\ PastPairs(reg'.book, Rows(reg')) /\ PastPairs(str'.book, Rows(str'))
      /\ \A o \in Orders : Past(o, live'[o])
      /\ \A o \in Orders : \A i \in 1..Len(snaps') : Past(o, snaps'[i][o])
  <2>0. /\ PastPairs(reg.book, Rows(reg)) /\ PastPairs(str.book, Rows(str))
        /\ PastPairs(NoRun.book, Rows(NoRun))
        /\ \A o \in Orders : Past(o, live[o])
        /\ \A o \in Orders : \A i \in 1..Len(snaps) : Past(o, snaps[i][o])
    BY RowsHaveOrders, NothingIsPast DEF ListsPast, PastPairs, Rows
  <2>1. ASSUME NEW o \in Orders, Post(o) \/ Trade(o) \/ Withdraw(o)
        PROVE  UNCHANGED <<live, snaps, reg, str>>
    BY <2>1, EveOnly
  <2>2. CASE UNCHANGED <<live, snaps, reg, str>>
    BY <2>0, <2>2
  <2>3. CASE RegionStep
    BY <2>0, <2>3, RegionMoves
  <2>4. CASE StructureStep
    BY <2>0, <2>4, StructureMoves
  <2>5. CASE Fail
    BY <2>0, <2>5 DEF Fail, tables
  <2>6. CASE Midnight \/ UNCHANGED vars
    BY <2>2, <2>6 DEF Midnight, vars, tables
  <2> QED
    BY <2>1, <2>2, <2>3, <2>4, <2>5, <2>6, Steps
<1>2. /\ \A o \in Orders : /\ live'[o] \in 0..Volume /\ reg'.book[o] \in 0..Volume
                           /\ str'.book[o] \in 0..Volume
                           /\ \A i \in 1..Len(snaps') : snaps'[i][o] \in 0..Volume
      /\ \A r \in Rows(reg') \cup Rows(str') : r.volume \in 0..Volume
  <2>1. \A b \in Books, o \in Orders : b[o] \in 0..Volume
    BY DEF Books
  <2>2. live' \in Books /\ reg'.book \in Books /\ str'.book \in Books
        /\ \A i \in 1..Len(snaps') : snaps'[i] \in Books
    BY DEF BooksTypeOK, Runs
  <2>3. \A r \in Rows(reg') \cup Rows(str') : r.volume \in 1..Volume
    BY DEF BooksTypeOK, Runs, Rows
  <2> QED
    BY <2>1, <2>2, <2>3, Numbers
<1>3. \A o \in Orders, v \in 0..Volume : Past(o, v) =>
          (v > 0 => o \in posted' /\ v <= Volume /\ market'[o] <= v /\ Volume <= v + traded'[o])
  BY PastForGood
<1> QED
  BY <1>1, <1>2, <1>3 DEF ListsPast, Past, PastPairs

-----------------------------------------------------------------------------
(* The station                                                             *)

\* What the structure's run replaces is not at the station.
LEMMA StructureSpares ==
    ASSUME BooksTypeOK, StructureStep
    PROVE  /\ \A o \in Stations : live'[o] = live[o] /\ (o \in reg'.doomed <=> o \in reg.doomed)
           /\ reg'.pc = reg.pc /\ reg'.book = reg.book /\ reg'.rows = reg.rows
           /\ reg'.found = reg.found
           /\ UNCHANGED <<day, trades, ever, entered, regRuns>>
<1>1. CASE StructureCommit
  <2>1. /\ live' = Replaced(str)
        /\ reg' = IF reg.pc = "delete" THEN [reg EXCEPT !.doomed = @ \ str.doomed] ELSE reg
        /\ UNCHANGED <<day, trades, ever, entered, regRuns>>
    BY <1>1 DEF StructureCommit, history
  <2>2. /\ reg'.pc = reg.pc /\ reg'.book = reg.book /\ reg'.rows = reg.rows
        /\ reg'.found = reg.found
        /\ reg'.doomed = reg.doomed \/ reg'.doomed = reg.doomed \ str.doomed
    BY <2>1 DEF BooksTypeOK, Runs
  <2>3. \A o \in Stations : o \in Orders /\ o \notin str.doomed /\ ~(str.book[o] > 0)
    BY DEF Stations, BooksTypeOK, In
  <2> QED
    BY <2>1, <2>2, <2>3 DEF Replaced
<1>2. CASE ~StructureCommit
  <2>1. UNCHANGED <<live, reg, day, trades, ever, entered, regRuns>>
    BY <1>2 DEF StructureStep, StructureBegin, StructureList, StructureSkip, StructureSnapshot,
           StructureDelete, StructureRefused, StructureCompare, StructureRefresh, tables, history
  <2> QED
    BY <2>1
<1> QED
  BY <1>1, <1>2

\* Neither EVE nor time nor the structure's run is part of the station's books.
LEMMA StationLeftAlone ==
    ASSUME BooksTypeOK, [Next]_vars, ~RegionStep, ~Fail
    PROVE  /\ \A o \in Stations : live'[o] = live[o] /\ (o \in reg'.doomed <=> o \in reg.doomed)
           /\ reg'.pc = reg.pc /\ reg'.book = reg.book /\ reg'.rows = reg.rows
           /\ reg'.found = reg.found
           /\ UNCHANGED <<trades, ever, entered, regRuns>> /\ day' >= day
<1>0. day \in Nat
  BY DEF BooksTypeOK
<1>1. ASSUME NEW o \in Orders, Post(o) \/ Trade(o) \/ Withdraw(o)
      PROVE UNCHANGED <<live, reg, trades, ever, entered, regRuns, day>>
  BY <1>1, EveOnly
<1>2. CASE Midnight
  BY <1>0, <1>2 DEF Midnight, tables, history
<1>3. CASE UNCHANGED vars
  BY <1>0, <1>3 DEF vars
<1>4. CASE StructureStep
  BY <1>0, <1>4, StructureSpares
<1> QED
  BY <1>0, <1>1, <1>2, <1>3, <1>4, Steps

\* The list that will replace the book was taken after the book, so that it is not above it.
LEMMA RegionSinksKept ==
    ASSUME BooksTypeOK, EveSinks, ListsPast, RegionSinks, FoundIsDifference, [Next]_vars
    PROVE  RegionSinks'
<1> SUFFICES ASSUME NEW o \in Stations, live'[o] > 0
             PROVE  /\ reg'.book[o] <= live'[o]
                    /\ \A r \in Rows(reg') : r.order = o => r.volume <= live'[o]
  BY DEF RegionSinks, Rows
<1>0. /\ o \in Orders /\ live \in [Orders -> 0..Volume] /\ live[o] \in Nat
      /\ reg.book \in [Orders -> 0..Volume] /\ reg.book[o] \in Nat
      /\ \A r \in reg.rows : r.volume \in Nat
      /\ NoRun.book[o] = 0 /\ Rows(NoRun) = {}
  <2>1. o \in Orders /\ NoRun.book[o] = 0 /\ Rows(NoRun) = {}
    BY NothingIsPast DEF Stations, NoRun, NoBook
  <2>2. live \in [Orders -> 0..Volume] /\ reg.book \in [Orders -> 0..Volume]
    BY DEF BooksTypeOK, Books, Runs
  <2>3. \A r \in reg.rows : r.volume \in Nat
    BY RowsHaveOrders, Numbers
  <2> QED
    BY <2>1, <2>2, <2>3, Numbers
<1>1. live[o] > 0 => /\ reg.book[o] <= live[o]
                     /\ \A r \in Rows(reg) : r.order = o => r.volume <= live[o]
  BY DEF RegionSinks
<1>2. CASE ~RegionStep /\ ~Fail
  <2>1. live'[o] = live[o] /\ reg'.book = reg.book /\ Rows(reg') = Rows(reg)
    BY <1>2, StationLeftAlone DEF Rows
  <2> QED
    BY <1>1, <2>1
<1>3. CASE Fail
  <2>1. live' = live /\ (reg' = reg \/ reg' = NoRun)
    BY <1>3 DEF Fail, tables
  <2> QED
    BY <1>0, <1>1, <2>1
<1>4. CASE RegionBegin \/ RegionList
  <2>1. PICK run : (run = NoRun \/ (run = reg /\ reg.pc = "list")) /\ reg' = Reads(run, RegionOrders)
    BY <1>4 DEF RegionBegin, RegionList
  <2>2. RegionOrders \in SUBSET Orders /\ Listing \subseteq RegionPcs
    BY BooksAssumption DEF RegionOrders, Stations, Listing, RegionPcs
  <2>3. run \in Runs(RegionPcs, RegionOrders)
    <3>1. NoRun \in Runs(RegionPcs, RegionOrders)
      BY NoRunTyped DEF RegionPcs
    <3> QED
      BY <2>1, <3>1 DEF BooksTypeOK
  <2>4. reg'.book = run.book /\ reg'.rows = run.rows \cup Page(RegionOrders, run.next)
        /\ run.next \in Nat
    <3>1. market \in Books /\ day \in Nat \ {0}
      BY DEF BooksTypeOK
    <3>2. run.next \in Nat
      BY <2>3 DEF Runs
    <3> QED
      BY <2>1, <2>2, <2>3, <3>1, <3>2, ReadsAPage
  <2>5. \A r \in Page(RegionOrders, run.next) : r.volume = market[r.order]
    BY <2>2, <2>4, PageShows DEF BooksTypeOK
  <2>6. live[o] > 0 => market[o] <= live[o]
    BY <1>0 DEF ListsPast, Past
  <2>7. live' = live
    BY <1>4 DEF RegionBegin, RegionList, tables
  <2>8. run.rows = Rows(run) \/ run.rows = {}
    BY <2>1 DEF Rows, Listing, NoRun
  <2>9. Rows(reg') \subseteq reg'.rows
    BY DEF Rows
  <2> QED
    BY <1>0, <1>1, <2>1, <2>4, <2>5, <2>6, <2>7, <2>8, <2>9
<1>5. CASE RegionCompare
  <2>1. PICK book \in Distinct(reg.rows) :
           reg' = [reg EXCEPT !.pc = "compared", !.book = book, !.found = Diff(live, book)]
    BY <1>5 DEF RegionCompare
  <2>2. reg'.book = book /\ Rows(reg') = {} /\ live' = live /\ Rows(reg) = reg.rows
    BY <1>5, <2>1 DEF RegionCompare, Rows, Listing, BooksTypeOK, Runs, tables
  <2>3. /\ RegionOrders \in SUBSET Orders
        /\ reg.rows \in SUBSET [page : Nat, order : RegionOrders, volume : 1..Volume]
    BY BooksAssumption DEF BooksTypeOK, Runs, RegionOrders, Stations
  <2>4. book \in Books /\ (book[o] > 0 => \E r \in reg.rows : r.order = o /\ r.volume = book[o])
    <3>1. /\ book \in Books
          /\ \A p \in Orders : book[p] > 0 => \E r \in reg.rows : r.order = p /\ r.volume = book[p]
      <4>1. reg \in Runs(RegionPcs, RegionOrders)
        BY DEF BooksTypeOK
      <4>2. book \in Books
        BY <2>3, <4>1, BookOfRun
      <4>3. \A p \in Orders : book[p] > 0 => \E r \in reg.rows : r.order = p /\ r.volume = book[p]
        BY <2>3, <4>1, BookOfRun
      <4> QED
        BY <4>2, <4>3
    <3> QED
      BY <1>0, <3>1
  <2>5. book[o] \in Nat
    BY <1>0, <2>4, Numbers DEF Books
  <2> QED
    BY <1>0, <1>1, <2>2, <2>4, <2>5
<1>6. CASE RegionDelete \/ RegionDeleted
  <2>1. reg'.book = reg.book /\ Rows(reg') = {} /\ live' = live
    BY <1>6 DEF RegionDelete, RegionDeleted, Rows, Listing, BooksTypeOK, Runs, tables
  <2> QED
    BY <1>1, <2>1
<1>7. CASE RegionCommit
  <2>1. /\ reg' = NoRun \/ (reg'.book = reg.book /\ Rows(reg') = {})
        /\ live'[o] = IF reg.book[o] > 0 THEN reg.book[o]
                      ELSE IF o \in reg.doomed THEN 0 ELSE live[o]
    BY <1>0, <1>7 DEF RegionCommit, Replaced, Rows, Listing, BooksTypeOK, Runs
  <2>2. reg.book[o] <= live'[o]
    BY <1>0, <2>1
  <2> QED
    BY <1>0, <2>1, <2>2
<1>8. CASE RegionRefused \/ RegionRefresh
  <2>1. reg' = NoRun /\ live' = live
    BY <1>8 DEF RegionRefused, RegionRefresh, tables
  <2> QED
    BY <1>0, <2>1
<1> QED
  BY <1>2, <1>3, <1>4, <1>5, <1>6, <1>7, <1>8 DEF RegionStep

\* The trades that a run has found are the difference between the two books until it commits:
\* nobody else writes the book in between.
LEMMA FoundIsDifferenceKept ==
    ASSUME BooksTypeOK, FoundIsDifference, [Next]_vars
    PROVE  FoundIsDifference'
<1>0. /\ regRuns \in Nat /\ ever \subseteq Trades /\ \A d \in ever : d.run \in Nat
      /\ \A d \in ever : d.run <= regRuns
      /\ NoRun.pc = "idle"
  BY DEF BooksTypeOK, Trades, FoundIsDifference, NoRun
<1>1. CASE ~RegionStep /\ ~Fail
  <2>1. /\ \A o \in Stations : live'[o] = live[o] /\ (o \in reg'.doomed <=> o \in reg.doomed)
        /\ reg'.pc = reg.pc /\ reg'.book = reg.book /\ reg'.found = reg.found
        /\ ever' = ever /\ regRuns' = regRuns
    BY <1>1, StationLeftAlone
  <2> QED
    BY <2>1 DEF FoundIsDifference
<1>2. CASE Fail
  <2>1. /\ live' = live /\ ever' = ever /\ regRuns' = regRuns /\ (reg' = reg \/ reg' = NoRun)
    BY <1>2 DEF Fail, tables, history
  <2>2. CASE reg' = reg
    BY <2>1, <2>2 DEF FoundIsDifference
  <2>3. CASE reg' = NoRun
    BY <1>0, <2>1, <2>3 DEF FoundIsDifference
  <2> QED
    BY <2>1, <2>2, <2>3
<1>3. CASE RegionBegin \/ RegionList
  <2>1. PICK run : (run = NoRun \/ (run = reg /\ reg.pc = "list")) /\ reg' = Reads(run, RegionOrders)
    BY <1>3 DEF RegionBegin, RegionList
  <2>2. reg'.pc \in Listing
    <3>1. RegionOrders \in SUBSET Orders /\ Listing \subseteq RegionPcs
      BY BooksAssumption DEF RegionOrders, Stations, Listing, RegionPcs
    <3>2. NoRun \in Runs(RegionPcs, RegionOrders)
      BY NoRunTyped DEF RegionPcs
    <3>3. run \in Runs(RegionPcs, RegionOrders) /\ market \in Books /\ day \in Nat \ {0}
      BY <2>1, <3>2 DEF BooksTypeOK
    <3> QED
      BY <2>1, <3>1, <3>3, ReadsAPage
  <2>3. ever' = ever /\ (regRuns' = regRuns + 1 \/ (reg.pc = "list" /\ regRuns' = regRuns))
    BY <1>3 DEF RegionBegin, RegionList, history
  <2>4. \A d \in ever : d.run < regRuns'
    BY <1>0, <2>3 DEF FoundIsDifference
  <2>5. \A d \in ever' : d.run <= regRuns' /\ d.run < regRuns'
    BY <1>0, <2>3, <2>4
  <2> QED
    BY <2>2, <2>5 DEF FoundIsDifference, Listing
<1>4. CASE RegionCompare
  <2>1. PICK book \in Distinct(reg.rows) :
           reg' = [reg EXCEPT !.pc = "compared", !.book = book, !.found = Diff(live, book)]
    BY <1>4 DEF RegionCompare
  <2>2. book \in Books /\ live \in Books
    <3>1. RegionOrders \in SUBSET Orders /\ reg \in Runs(RegionPcs, RegionOrders)
      BY BooksAssumption DEF RegionOrders, Stations, BooksTypeOK
    <3>2. book \in Books
      BY <3>1, BookOfRun
    <3> QED
      BY <3>2 DEF BooksTypeOK
  <2>3. /\ \A d \in Diff(live, book) : d.run = regRuns
        /\ \A o \in Orders :
              IF live[o] > 0 /\ book[o] # live[o]
              THEN \E d \in Diff(live, book) :
                      /\ d.units = UnitsLost(live[o], book[o])
                      /\ {e \in Diff(live, book) : e.order = o} = {d}
              ELSE \A d \in Diff(live, book) : d.order # o
    BY <2>2, DiffOfBooks DEF BooksTypeOK
  <2>4. /\ reg'.pc = "compared" /\ reg'.book = book /\ reg'.found = Diff(live, book)
        /\ live' = live /\ ever' = ever /\ regRuns' = regRuns /\ reg.pc = "listed"
    BY <1>4, <2>1 DEF RegionCompare, BooksTypeOK, Runs, tables, history
  <2>5. \A o \in Stations : o \in Orders
    BY DEF Stations
  <2> HIDE DEF FoundIsDifference
  <2>6. \A d \in ever' : d.run < regRuns' /\ d.run <= regRuns'
    BY <1>0, <2>4 DEF FoundIsDifference
  <2> QED
    BY <2>3, <2>4, <2>5, <2>6 DEF FoundIsDifference
<1>5. CASE RegionDelete \/ RegionDeleted
  <2>1. /\ reg'.book = reg.book /\ reg'.found = reg.found
        /\ reg'.doomed = (IF reg.pc = "compared" THEN In(live) ELSE reg.doomed)
        /\ reg.pc \in {"compared", "delete"} /\ reg'.pc \in {"delete", "insert"}
        /\ live' = live /\ ever' = ever /\ regRuns' = regRuns
    BY <1>5 DEF RegionDelete, RegionDeleted, BooksTypeOK, Runs, tables, history
  <2>2. \A o \in Stations : o \in In(live) <=> live[o] > 0
    BY DEF In, Stations
  <2>3. reg.pc = "compared" \/ reg.pc = "delete"
    BY <2>1
  <2> QED
    BY <2>1, <2>2, <2>3 DEF FoundIsDifference
<1>6. CASE RegionCommit
  <2>1. /\ ever' = ever \cup reg.found /\ regRuns' = regRuns /\ reg.pc = "insert"
        /\ reg' = NoRun \/ reg' = [reg EXCEPT !.pc = "refresh"]
    BY <1>6 DEF RegionCommit
  <2>2. reg'.pc \in {"idle", "refresh"}
    BY <1>0, <2>1 DEF BooksTypeOK, Runs
  <2>3. \A d \in ever' : d.run <= regRuns'
    BY <1>0, <2>1 DEF FoundIsDifference
  <2> QED
    BY <2>2, <2>3 DEF FoundIsDifference
<1>7. CASE RegionRefused \/ RegionRefresh
  <2>1. reg' = NoRun /\ ever' = ever /\ regRuns' = regRuns
    BY <1>7 DEF RegionRefused, RegionRefresh, history
  <2> QED
    BY <1>0, <2>1 DEF FoundIsDifference
<1> QED
  BY <1>1, <1>2, <1>3, <1>4, <1>5, <1>6, <1>7 DEF RegionStep

\* Only trades that are older than the retention are deleted.
LEMMA DeletedIsOldKept ==
    ASSUME BooksTypeOK, DeletedIsOld, [Next]_vars
    PROVE  DeletedIsOld'
<1>0. /\ day \in Nat /\ Retention \in Nat /\ \A d \in ever : d.day \in Nat
  BY Numbers DEF BooksTypeOK, Trades
<1>1. CASE ~RegionStep /\ ~Fail
  <2>1. trades' = trades /\ ever' = ever /\ day' >= day /\ day' \in Nat
    <3>1. day' \in Nat
      <4>1. ASSUME NEW o \in Orders, Post(o) \/ Trade(o) \/ Withdraw(o) PROVE day' = day
        BY <4>1, EveOnly
      <4>2. StructureStep => day' = day
        BY StructureSpares
      <4> QED
        BY <1>0, <1>1, <4>1, <4>2, Steps DEF Midnight, vars
    <3> QED
      BY <1>1, <3>1, StationLeftAlone
  <2> QED
    BY <1>0, <2>1 DEF DeletedIsOld
<1>2. CASE Fail \/ RegionBegin \/ RegionList \/ RegionCompare \/ RegionDelete \/ RegionDeleted
           \/ RegionRefused
  <2>1. UNCHANGED <<trades, ever, day>>
    BY <1>2 DEF Fail, RegionBegin, RegionList, RegionCompare, RegionDelete, RegionDeleted,
           RegionRefused, tables, history
  <2> QED
    BY <2>1 DEF DeletedIsOld
<1>3. CASE RegionCommit
  BY <1>3 DEF RegionCommit, DeletedIsOld
<1>4. CASE RegionRefresh
  <2>1. trades' = {d \in trades : d.day > day - Retention} /\ ever' = ever /\ day' = day
    BY <1>4 DEF RegionRefresh, history
  <2> QED
    BY <1>0, <2>1 DEF DeletedIsOld
<1> QED
  BY <1>1, <1>2, <1>3, <1>4 DEF RegionStep

\* A window for one order gains what is added for that order, and nothing else does.
LEMMA WindowOfUnion ==
    ASSUME NEW C, NEW D, NEW S, NEW first
    PROVE  Within(C \cup D, S, first) = Within(C, S, first) \cup Within(D, S, first)
  BY DEF Within

\* The one element of a set that names an order.
Sole(D, o, d) == {e \in D : e.order = o} = {d}

\* A set of trades or changes that does not name an order adds nothing to its sum.
LEMMA NoneOfOrder ==
    ASSUME NEW C, NEW D, NEW o, \A d \in D : d.order # o
    PROVE  Within(C \cup D, {o}, 0) = Within(C, {o}, 0)
  BY DEF Within

\* One that names it in one element only adds the units of that one.
LEMMA OneOfOrder ==
    ASSUME NEW C, IsFiniteSet(C), \A c \in C : c.units \in Nat,
           NEW D, NEW o, NEW d \in D, Sole(D, o, d), d \notin C, d.units \in Nat, d.day > 0
    PROVE  Units(Within(C \cup D, {o}, 0)) = Units(Within(C, {o}, 0)) + d.units
<1>1. Within(C \cup D, {o}, 0) = Within(C, {o}, 0) \cup {d}
  <2>1. Within(D, {o}, 0) = {d}
    BY DEF Within, Sole
  <2>2. Within(C \cup D, {o}, 0) = Within(C, {o}, 0) \cup Within(D, {o}, 0)
    BY WindowOfUnion
  <2> QED
    BY <2>1, <2>2
<1>2. /\ IsFiniteSet(Within(C, {o}, 0)) /\ \A c \in Within(C, {o}, 0) : c.units \in Nat
  BY WindowIsNumber
<1>3. d \notin Within(C, {o}, 0)
  BY DEF Within
<1>4. Units(Within(C, {o}, 0) \cup {d}) = Units(Within(C, {o}, 0)) + d.units
  BY <1>2, <1>3, UnitsOfOneMore
<1> QED
  BY <1>1, <1>4

\* The trades and the book of the station move together, in the commit of a run: an order
\* that was there falls by the units of the one trade found of it, one that was not comes in.
LEMMA BooksBalanceKept ==
    ASSUME BooksTypeOK, RegionSinks, FoundIsDifference, BooksBalance, [Next]_vars
    PROVE  BooksBalance'
<1>1. CASE RegionCommit
  <2> SUFFICES ASSUME NEW o \in Stations
               PROVE  live'[o] + Units(Within(ever', {o}, 0)) = entered'[o]
    BY DEF BooksBalance
  <2> DEFINE was == Units(Within(ever, {o}, 0))
  <2>1. /\ o \in Orders /\ live \in Books /\ reg.book \in Books /\ entered[o] \in Nat
        /\ reg.found \subseteq Trades /\ IsFiniteSet(ever) /\ ever \subseteq Trades
    BY DEF Stations, BooksTypeOK, Runs
  <2>2. live[o] \in 0..Volume /\ reg.book[o] \in 0..Volume
    BY <2>1 DEF Books
  <2>3. live[o] + was = entered[o]
    BY DEF BooksBalance
  <2>4. was \in Nat
    <3>1. \A d \in ever : d.units \in Nat
      BY <2>1 DEF Trades
    <3> HIDE DEF was
    <3>2. Units(Within(ever, {o}, 0)) \in Nat
      BY <2>1, <3>1, WindowIsNumber
    <3> QED
      BY <3>2 DEF was
  <2>5. /\ reg.pc = "insert" /\ ever' = ever \cup reg.found
        /\ live'[o] = IF reg.book[o] > 0 THEN reg.book[o]
                      ELSE IF o \in reg.doomed THEN 0 ELSE live[o]
        /\ entered'[o] = IF live[o] = 0 THEN entered[o] + reg.book[o] ELSE entered[o]
    BY <1>1, <2>1 DEF RegionCommit, Replaced
  <2>6. /\ \A d \in ever : d.run < regRuns
        /\ \A d \in reg.found : d.run = regRuns
        /\ IF live[o] > 0 /\ reg.book[o] # live[o]
           THEN \E d \in reg.found : /\ d.units = UnitsLost(live[o], reg.book[o])
                                     /\ {e \in reg.found : e.order = o} = {d}
           ELSE \A d \in reg.found : d.order # o
        /\ o \in reg.doomed <=> live[o] > 0
    BY <2>5 DEF FoundIsDifference
  <2>7. live[o] > 0 => reg.book[o] <= live[o]
    BY DEF RegionSinks
  <2>8. /\ \A d \in reg.found : d.units \in Nat /\ d.day > 0
        /\ \A d \in ever : d.units \in Nat
    BY <2>1 DEF Trades
  <2> HIDE DEF was
  <2>10. CASE live[o] > 0 /\ reg.book[o] # live[o]
    <3>1. PICK d \in reg.found : /\ d.units = UnitsLost(live[o], reg.book[o])
                                 /\ {e \in reg.found : e.order = o} = {d}
      BY <2>6, <2>10
    <3>2. d \notin ever
      <4>1. regRuns \in Nat
        BY DEF BooksTypeOK
      <4>2. d \in ever => regRuns < regRuns
        BY <2>6
      <4> QED
        BY <4>1, <4>2
    <3>3. Units(Within(ever', {o}, 0)) = was + d.units
      <4>1. Sole(reg.found, o, d)
        BY <3>1 DEF Sole
      <4>2. IsFiniteSet(ever) /\ d.units \in Nat /\ d.day > 0
        BY <2>1, <2>8
      <4>3. Units(Within(ever \cup reg.found, {o}, 0)) = Units(Within(ever, {o}, 0)) + d.units
        BY <2>8, <3>2, <4>1, <4>2, OneOfOrder
      <4> QED
        BY <2>5, <4>3 DEF was
    <3>4. d.units = live[o] - reg.book[o]
      BY <2>2, <2>7, <2>10, <3>1, Losses
    <3>5. live'[o] = reg.book[o] /\ entered'[o] = entered[o]
      BY <2>2, <2>5, <2>6, <2>10
    <3> QED
      BY <2>2, <2>3, <2>4, <3>3, <3>4, <3>5
  <2>11. CASE ~(live[o] > 0 /\ reg.book[o] # live[o])
    <3>1. Units(Within(ever', {o}, 0)) = was
      <4>1. Within(ever \cup reg.found, {o}, 0) = Within(ever, {o}, 0)
        BY <2>6, <2>11, NoneOfOrder
      <4> QED
        BY <2>5, <4>1 DEF was
    <3>2. CASE live[o] = 0
      <4>1. live'[o] = reg.book[o] /\ entered'[o] = entered[o] + reg.book[o]
        BY <2>2, <2>5, <3>2
      <4> QED
        BY <2>1, <2>2, <2>3, <2>4, <3>1, <3>2, <4>1
    <3>3. CASE live[o] > 0 /\ reg.book[o] = live[o]
      BY <2>3, <2>5, <3>1, <3>3
    <3> QED
      BY <2>2, <2>11, <3>2, <3>3
  <2> QED
    BY <2>10, <2>11
<1>2. CASE ~RegionCommit
  <2>1. (\A o \in Stations : live'[o] = live[o]) /\ ever' = ever
    <3>1. CASE ~RegionStep /\ ~Fail
      BY <3>1, StationLeftAlone
    <3>2. CASE Fail \/ RegionStep
      BY <1>2, <3>2 DEF Fail, RegionStep, RegionBegin, RegionList, RegionCompare, RegionDelete,
                        RegionDeleted, RegionRefused, RegionRefresh, tables, history
    <3> QED
      BY <3>1, <3>2
  <2>2. entered' = entered
    <3>1. CASE ~RegionStep /\ ~Fail
      BY <3>1, StationLeftAlone
    <3>2. CASE Fail \/ RegionStep
      BY <1>2, <3>2 DEF Fail, RegionStep, RegionBegin, RegionList, RegionCompare, RegionDelete,
                        RegionDeleted, RegionRefused, RegionRefresh, tables, history
    <3> QED
      BY <3>1, <3>2
  <2> QED
    BY <2>1, <2>2 DEF BooksBalance
<1> QED
  BY <1>1, <1>2

-----------------------------------------------------------------------------
(* The snapshots and what is claimed from them                             *)

\* Only a run of the structure touches the snapshots and the changes.
LEMMA SnapshotsLeftAlone ==
    ASSUME BooksTypeOK, [Next]_vars, ~StructureStep
    PROVE  /\ snaps' = snaps /\ changes' = changes
           /\ \/ str' = str
              \/ str' = NoRun /\ market' = market /\ traded' = traded
<1>1. CASE \E o \in Orders : Post(o) \/ Trade(o) \/ Withdraw(o)
  BY <1>1, EveOnly
<1>2. CASE RegionStep
  <2>1. snaps' = snaps /\ str' = str
    BY <1>2 DEF RegionStep, RegionBegin, RegionList, RegionCompare, RegionDelete, RegionDeleted,
                RegionCommit, RegionRefused, RegionRefresh, tables
  <2>2. changes' = changes
    BY <1>2 DEF RegionStep, RegionBegin, RegionList, RegionCompare, RegionDelete, RegionDeleted,
                RegionCommit, RegionRefused, RegionRefresh, tables
  <2> QED
    BY <2>1, <2>2
<1>3. CASE Midnight \/ UNCHANGED vars
  BY <1>3 DEF Midnight, vars, tables
<1>4. CASE Fail
  BY <1>4 DEF Fail, tables, eve
<1> QED
  BY <1>1, <1>2, <1>3, <1>4, Steps

\* What each step of the structure's run does to its place, the snapshots and the changes.
LEMMA StructurePlaces ==
    ASSUME BooksTypeOK, StructureStep
    PROVE  \/ /\ str'.pc \in Listing /\ snaps' = snaps /\ changes' = changes
              /\ StructureBegin \/ StructureList
           \/ str'.pc = "idle" /\ Rows(str') = {} /\ snaps' = snaps /\ changes' = changes
           \/ /\ StructureSnapshot /\ str'.pc = "kept" /\ Rows(str') = {} /\ changes' = changes
           \/ /\ str.pc = "kept" /\ str'.pc = "insert" /\ Rows(str') = {}
              /\ snaps' = snaps /\ changes' = changes
           \/ /\ str.pc = "insert" /\ str'.pc = "compare" /\ Rows(str') = {}
              /\ Len(snaps) # 1 /\ snaps' = snaps /\ changes' = changes
           \/ StructureCompare /\ str'.pc \in {"idle", "refresh"} /\ Rows(str') = {}
<1>0. "idle" \notin Listing /\ "kept" \notin Listing /\ "insert" \notin Listing
      /\ "compare" \notin Listing /\ "refresh" \notin Listing /\ NoRun.pc = "idle"
  BY DEF Listing, NoRun
<1>1. CASE StructureBegin \/ StructureList
  <2>1. PICK run : (run = NoRun \/ run = str) /\ str' = Reads(run, StructureOrders)
    BY <1>1 DEF StructureBegin, StructureList
  <2>2. Listing \subseteq StructurePcs /\ StructureOrders \in SUBSET Orders
    BY BooksAssumption DEF Listing, StructurePcs
  <2>3. NoRun \in Runs(StructurePcs, StructureOrders)
    BY NoRunTyped DEF StructurePcs
  <2>4. /\ run \in Runs(StructurePcs, StructureOrders) /\ market \in Books /\ day \in Nat \ {0}
    BY <2>1, <2>3 DEF BooksTypeOK
  <2>5. str'.pc \in Listing
    BY <2>1, <2>2, <2>4, ReadsAPage
  <2>6. snaps' = snaps /\ changes' = changes
    BY <1>1 DEF StructureBegin, StructureList, tables
  <2> QED
    BY <1>1, <2>5, <2>6
<1>2. CASE StructureSkip \/ StructureRefused \/ StructureRefresh
  <2>1. str' = NoRun /\ snaps' = snaps /\ changes' = changes
    BY <1>2 DEF StructureSkip, StructureRefused, StructureRefresh, tables
  <2> QED
    BY <1>0, <2>1 DEF Rows
<1>3. CASE StructureSnapshot
  <2>1. str'.pc = "kept" /\ changes' = changes
    BY <1>3 DEF StructureSnapshot, BooksTypeOK, Runs
  <2> QED
    BY <1>0, <1>3, <2>1 DEF Rows
<1>4. CASE StructureDelete
  <2>1. str.pc = "kept" /\ str'.pc = "insert" /\ snaps' = snaps /\ changes' = changes
    BY <1>4 DEF StructureDelete, BooksTypeOK, Runs, tables
  <2> QED
    BY <1>0, <2>1 DEF Rows
<1>5. CASE StructureCommit
  <2>1. /\ str.pc = "insert" /\ str'.pc = IF Len(snaps) = 1 THEN "idle" ELSE "compare"
        /\ snaps' = snaps /\ changes' = changes
    BY <1>5 DEF StructureCommit, BooksTypeOK, Runs
  <2> QED
    BY <1>0, <2>1 DEF Rows
<1>6. CASE StructureCompare
  <2>1. str'.pc \in {"idle", "refresh"}
    BY <1>0, <1>6 DEF StructureCompare, BooksTypeOK, Runs
  <2> QED
    BY <1>0, <1>6, <2>1 DEF Rows
<1> QED
  BY <1>1, <1>2, <1>3, <1>4, <1>5, <1>6 DEF StructureStep

\* The snapshot that is added comes last, and the others stay as they are.
LEMMA OneMoreSnapshot ==
    ASSUME BooksTypeOK, StructureSnapshot
    PROVE  /\ Len(snaps') = Len(snaps) + 1 /\ Len(snaps) \in Nat
           /\ \A i \in 1..Len(snaps) : snaps'[i] = snaps[i]
           /\ str.pc = "listed"
           /\ \A o \in Orders : snaps'[Len(snaps')][o] > 0 =>
                 \E r \in Rows(str) : r.order = o /\ r.volume = snaps'[Len(snaps')][o]
<1>1. PICK book \in Distinct(str.rows) : snaps' = Append(snaps, book)
  BY DEF StructureSnapshot
<1>2. str.pc = "listed" /\ Rows(str) = str.rows
  BY DEF StructureSnapshot, Rows, Listing
<1>3. StructureOrders \in SUBSET Orders /\ str \in Runs(StructurePcs, StructureOrders)
  BY BooksAssumption DEF BooksTypeOK
<1>4. book \in Books
  BY <1>3, BookOfRun
<1>5. \A o \in Orders : book[o] > 0 => \E r \in str.rows : r.order = o /\ r.volume = book[o]
  BY <1>3, BookOfRun
<1>6. snaps \in Seq(Books)
  BY DEF BooksTypeOK
<1>7. Len(snaps') = Len(snaps) + 1 /\ Len(snaps) \in Nat /\ snaps'[Len(snaps) + 1] = book
      /\ \A i \in 1..Len(snaps) : snaps'[i] = snaps[i]
  BY <1>1, <1>4, <1>6
<1> QED
  BY <1>2, <1>5, <1>7

\* The changes that a run is to add are those up to the last snapshot.
LEMMA ComparedSnapshots ==
    ASSUME BooksTypeOK, ChangesBehind, StructureCompare
    PROVE  LET D == SnapshotChanges(Len(snaps) - 1, Len(snaps), str.day) IN
           /\ changes' = changes \cup D /\ snaps' = snaps /\ UNCHANGED eve
           /\ Len(snaps) \in Nat /\ Len(snaps) >= 2 /\ str.day \in Nat \ {0}
           /\ str.pc = "compare" /\ \A d \in changes : d.to < Len(snaps)
<1>1. str.pc = "compare" /\ UNCHANGED eve /\ snaps' = snaps
      /\ changes' = changes \cup SnapshotChanges(Len(snaps) - 1, Len(snaps), str.day)
  BY DEF StructureCompare, Previous
<1>2. str.day \in Nat \ {0} /\ Len(snaps) \in Nat
  BY <1>1 DEF BooksTypeOK, Runs
<1>3. Len(snaps) >= 2 /\ \A d \in changes : d.to < Len(snaps)
  BY <1>1 DEF ChangesBehind
<1> QED
  BY <1>1, <1>2, <1>3

\* A snapshot is compared once, with the one before it, before there is another.
LEMMA ChangesBehindKept ==
    ASSUME BooksTypeOK, ChangesBehind, [Next]_vars
    PROVE  ChangesBehind'
<1>0. /\ Len(snaps) \in Nat /\ changes \subseteq Changes
      /\ \A d \in changes : d.from \in 1..Len(snaps) /\ d.to \in 1..Len(snaps)
  BY DEF BooksTypeOK, ChangesBehind
<1>1. CASE ~StructureStep
  <2>1. snaps' = snaps /\ changes' = changes /\ (str' = str \/ str' = NoRun)
    BY <1>1, SnapshotsLeftAlone
  <2>2. NoRun.pc = "idle"
    BY DEF NoRun
  <2> QED
    BY <2>1, <2>2 DEF ChangesBehind
<1>2. CASE StructureSnapshot
  <2>1. Len(snaps') = Len(snaps) + 1 /\ changes' = changes /\ str'.pc = "kept"
    BY <1>2, OneMoreSnapshot DEF StructureSnapshot, BooksTypeOK, Runs
  <2> QED
    BY <1>0, <2>1 DEF ChangesBehind
<1>3. CASE StructureCompare
  <2> DEFINE D == SnapshotChanges(Len(snaps) - 1, Len(snaps), str.day)
  <2>1. /\ changes' = changes \cup D /\ snaps' = snaps /\ Len(snaps) >= 2
        /\ str.day \in Nat \ {0}
    BY <1>3, ComparedSnapshots
  <2>2. Len(snaps) \in 1..Len(snaps) /\ Len(snaps) - 1 \in 1..Len(snaps) /\ snaps \in Seq(Books)
    BY <1>0, <2>1 DEF BooksTypeOK
  <2>3. \A d \in D : d.from = Len(snaps) - 1 /\ d.to = Len(snaps)
    BY <2>1, <2>2, ChangesOfSnapshots
  <2>4. str'.pc \in {"idle", "refresh"}
    BY <1>3 DEF StructureCompare, NoRun, BooksTypeOK, Runs
  <2> HIDE DEF D
  <2> QED
    BY <1>0, <2>1, <2>2, <2>3, <2>4 DEF ChangesBehind
<1>4. CASE StructureStep /\ ~StructureSnapshot /\ ~StructureCompare
  <2>1. /\ snaps' = snaps /\ changes' = changes
        /\ \/ str'.pc \in Listing
           \/ str'.pc = "idle"
           \/ str.pc = "kept" /\ str'.pc = "insert"
           \/ str.pc = "insert" /\ str'.pc = "compare" /\ Len(snaps) # 1
    BY <1>4, StructurePlaces
  <2>2. str.pc \in {"kept", "insert"} => Len(snaps) >= 1 /\ \A d \in changes : d.to < Len(snaps)
    BY DEF ChangesBehind
  <2>3. str'.pc \in {"kept", "insert", "compare"} => str.pc \in {"kept", "insert"}
    BY <2>1 DEF Listing
  <2>4. str'.pc = "compare" => Len(snaps) # 1
    BY <2>1 DEF Listing
  <2> QED
    <3>1. snaps' = snaps /\ changes' = changes
      BY <2>1
    <3>2. str'.pc \in {"kept", "insert", "compare"} =>
             Len(snaps') >= 1 /\ \A d \in changes' : d.to < Len(snaps')
      <4> SUFFICES ASSUME str'.pc \in {"kept", "insert", "compare"}
                   PROVE  Len(snaps) >= 1 /\ \A d \in changes : d.to < Len(snaps)
        BY <3>1
      <4> QED
        BY <2>2, <2>3
    <3>3. str'.pc = "compare" => Len(snaps') >= 2
      <4> SUFFICES ASSUME str'.pc = "compare" PROVE Len(snaps) >= 2
        BY <3>1
      <4>1. Len(snaps) >= 1
        BY <2>2, <2>3
      <4>2. Len(snaps) # 1 /\ Len(snaps) \in Nat
        BY <1>0, <2>4
      <4>3. \A n \in Nat : n >= 1 /\ n # 1 => n >= 2
        OBVIOUS
      <4> QED
        BY <4>1, <4>2, <4>3
    <3>4. \A d \in changes' : d.from \in 1..Len(snaps') /\ d.to \in 1..Len(snaps')
      BY <1>0, <3>1
    <3> QED
      BY <3>2, <3>3, <3>4 DEF ChangesBehind
<1> QED
  BY <1>1, <1>2, <1>3, <1>4

\* What is claimed for an order is a number, and its volumes are between 0 and Volume.
LEMMA ClaimedIsNumber ==
    ASSUME BooksTypeOK, NEW o \in Orders
    PROVE  /\ Claimed(o) \in Nat /\ market[o] \in 0..Volume /\ traded[o] \in 0..Volume
           /\ \A i \in 1..Len(snaps) : snaps[i][o] \in 0..Volume
<1>1. IsFiniteSet(changes) /\ \A d \in changes : d.units \in Nat
  BY DEF BooksTypeOK, Changes
<1>2. Claimed(o) \in Nat
  BY <1>1, WindowIsNumber DEF Claimed
<1>3. market[o] \in 0..Volume /\ traded[o] \in 0..Volume
  BY DEF BooksTypeOK, Books
<1>4. \A i \in 1..Len(snaps) : snaps[i] \in Books
  BY DEF BooksTypeOK
<1> QED
  BY <1>2, <1>3, <1>4 DEF Books

\* A comparison claims what the last snapshot has less of an order than the one before it,
\* and nothing for an order that is not in it any more.
LEMMA ClaimsGrow ==
    ASSUME BooksTypeOK, ChangesBehind, StructureCompare, NEW o \in Orders
    PROVE  Units(Within(changes', {o}, 0)) =
              Claimed(o) + UnitsSold(snaps[Len(snaps) - 1][o], snaps[Len(snaps)][o])
<1> DEFINE D == SnapshotChanges(Len(snaps) - 1, Len(snaps), str.day)
           old == snaps[Len(snaps) - 1][o]
           new == snaps[Len(snaps)][o]
<1>1. /\ changes' = changes \cup D /\ Len(snaps) \in Nat /\ Len(snaps) >= 2
      /\ str.day \in Nat \ {0} /\ \A d \in changes : d.to < Len(snaps)
  BY ComparedSnapshots
<1>2. Len(snaps) \in 1..Len(snaps) /\ Len(snaps) - 1 \in 1..Len(snaps) /\ snaps \in Seq(Books)
  BY <1>1 DEF BooksTypeOK
<1>3. /\ D \subseteq Changes
      /\ \A d \in D : d.to = Len(snaps)
      /\ IF old > 0 /\ new # old
         THEN \E d \in D : d.units = UnitsSold(old, new) /\ {e \in D : e.order = o} = {d}
         ELSE \A d \in D : d.order # o
  <2>0. str.day \in Nat \ {0}
    BY <1>1
  <2>1. D \subseteq Changes
    BY <1>2, <2>0, ChangesOfSnapshots
  <2>3. \A d \in D : d.to = Len(snaps)
    BY <1>2, <2>0, ChangesOfSnapshots
  <2>2. OneEach(D, Len(snaps) - 1, Len(snaps))
    BY <1>2, <2>0, ChangesOfSnapshots
  <2> HIDE DEF D
  <2> QED
    BY <2>1, <2>2, <2>3 DEF OneEach
<1>4. old \in 0..Volume /\ new \in 0..Volume /\ Claimed(o) \in Nat
  BY <1>2, ClaimedIsNumber
<1>5. /\ IsFiniteSet(changes) /\ \A d \in changes : d.units \in Nat
      /\ \A d \in D : d.units \in Nat /\ d.day > 0
  BY <1>3 DEF BooksTypeOK, Changes
<1> HIDE DEF D
<1>6. CASE old > 0 /\ new # old
  <2>1. PICK d \in D : d.units = UnitsSold(old, new) /\ {e \in D : e.order = o} = {d}
    BY <1>3, <1>6
  <2>2. d \notin changes
    <3>1. d \in changes => Len(snaps) < Len(snaps)
      BY <1>1, <1>3
    <3> QED
      BY <1>1, <3>1
  <2>3. Sole(D, o, d)
    BY <2>1 DEF Sole
  <2>4. IsFiniteSet(changes) /\ d.units \in Nat /\ d.day > 0
    BY <1>5
  <2>5. Units(Within(changes \cup D, {o}, 0)) = Units(Within(changes, {o}, 0)) + d.units
    BY <1>5, <2>2, <2>3, <2>4, OneOfOrder
  <2> QED
    BY <1>1, <2>1, <2>5 DEF Claimed
<1>7. CASE ~(old > 0 /\ new # old)
  <2>1. Within(changes \cup D, {o}, 0) = Within(changes, {o}, 0)
    BY <1>3, <1>7, NoneOfOrder
  <2>2. UnitsSold(old, new) = 0
    BY <1>4, <1>7, Losses
  <2> HIDE DEF old, new
  <2>3. Units(Within(changes', {o}, 0)) = Claimed(o)
    BY <1>1, <2>1 DEF Claimed
  <2> QED
    BY <1>4, <2>2, <2>3 DEF old, new
<1> QED
  BY <1>6, <1>7

\* The changes are the only thing that a claim depends on.
LEMMA ClaimsStay ==
    ASSUME changes' = changes, NEW o
    PROVE  Units(Within(changes', {o}, 0)) = Claimed(o)
  BY DEF Claimed

\* Nothing is claimed that was not traded.
LEMMA StructureClaimsKept ==
    ASSUME BooksTypeOK, EveSinks, ListsPast, ChangesBehind, ClaimsHaveRoom, StructureClaims,
           [Next]_vars
    PROVE  StructureClaims'
<1> SUFFICES ASSUME NEW o \in StructureOrders
             PROVE  Units(Within(changes', {o}, 0)) <= traded'[o]
  BY DEF StructureClaims
<1>0. /\ o \in Orders /\ Claimed(o) \in Nat /\ traded[o] \in 0..Volume /\ Claimed(o) <= traded[o]
  BY BooksAssumption, ClaimedIsNumber DEF StructureClaims, Claimed
<1>1. CASE ~StructureCompare
  <2>1. changes' = changes
    BY <1>1, SnapshotsLeftAlone, StructurePlaces
  <2>2. traded'[o] \in Nat /\ traded[o] <= traded'[o]
    <3>1. CASE \E p \in Orders : Post(p) \/ Trade(p) \/ Withdraw(p)
      <4>1. PICK p \in Orders : Post(p) \/ Trade(p) \/ Withdraw(p)
        BY <3>1
      <4>2. traded \in [Orders -> 0..Volume]
        BY DEF BooksTypeOK, Books
      <4>3. CASE Post(p) \/ Withdraw(p)
        BY <1>0, <4>3, Numbers DEF Post, Withdraw
      <4>4. CASE Trade(p)
        BY <1>0, <4>2, <4>4, Numbers DEF Trade
      <4> QED
        BY <4>1, <4>3, <4>4
    <3>2. CASE Midnight \/ RegionStep \/ StructureStep \/ Fail \/ UNCHANGED vars
      BY <1>0, <3>2, EveLeftAlone, Numbers DEF eve
    <3> QED
      BY <3>1, <3>2, Steps
  <2>3. Units(Within(changes', {o}, 0)) = Claimed(o)
    BY <2>1, ClaimsStay
  <2> QED
    BY <1>0, <2>2, <2>3
<1>2. CASE StructureCompare
  <2> DEFINE old == snaps[Len(snaps) - 1][o]
             new == snaps[Len(snaps)][o]
  <2>1. /\ Len(snaps) \in Nat /\ Len(snaps) >= 2 /\ str.pc = "compare" /\ traded' = traded
    BY <1>2, ComparedSnapshots DEF eve
  <2>2. Len(snaps) \in 1..Len(snaps) /\ Len(snaps) - 1 \in 1..Len(snaps)
    BY <2>1
  <2>3. old \in 0..Volume /\ new \in 0..Volume
    BY <1>0, <2>2, ClaimedIsNumber
  <2>4. RoomFor(o, old)
    BY <2>1, <2>2 DEF ClaimsHaveRoom
  <2>5. Past(o, new)
    BY <1>0, <2>2 DEF ListsPast
  <2>6. Units(Within(changes', {o}, 0)) = Claimed(o) + UnitsSold(old, new)
    BY <1>0, <1>2, ClaimsGrow
  <2>7. UnitsSold(old, new) = IF 0 < new /\ new < old THEN old - new ELSE 0
    BY <2>3, Losses
  <2> HIDE DEF old, new
  <2>8. CASE 0 < new /\ new < old
    <3>1. Claimed(o) + old <= Volume
      BY <2>3, <2>4, <2>8 DEF RoomFor
    <3>2. Volume <= new + traded[o]
      BY <2>5, <2>8 DEF Past
    <3>3. Units(Within(changes', {o}, 0)) = Claimed(o) + (old - new)
      BY <2>6, <2>7, <2>8
    <3> QED
      BY <1>0, <2>1, <2>3, <3>1, <3>2, <3>3, Numbers
  <2>9. CASE ~(0 < new /\ new < old)
    BY <1>0, <2>1, <2>6, <2>7, <2>9
  <2> QED
    BY <2>8, <2>9
<1> QED
  BY <1>1, <1>2

\* What is claimed for an order and what a list, a snapshot or EVE still has of it are
\* together not more than it was placed with, so that the next comparison has room.
LEMMA ClaimsHaveRoomKept ==
    ASSUME BooksTypeOK, EveSinks, ListsPast, ChangesBehind, ClaimsHaveRoom, StructureClaims,
           [Next]_vars
    PROVE  ClaimsHaveRoom'
<1> DEFINE Room(o, v) == v > 0 => Units(Within(changes', {o}, 0)) + v <= Volume
<1> SUFFICES
      /\ \A o \in StructureOrders :
            /\ Room(o, market'[o])
            /\ Len(snaps') >= 1 => Room(o, snaps'[Len(snaps')][o])
            /\ str'.pc \in {"kept", "insert", "compare"} /\ Len(snaps') >= 2 =>
                  Room(o, snaps'[Len(snaps') - 1][o])
      /\ \A r \in Rows(str') : Room(r.order, r.volume)
  BY DEF ClaimsHaveRoom, RoomFor, Claimed, Rows, Listing
<1>1. ASSUME changes' = changes, NEW o, NEW v, RoomFor(o, v) PROVE Room(o, v)
  <2>1. Units(Within(changes', {o}, 0)) = Claimed(o)
    BY <1>1, ClaimsStay
  <2> QED
    BY <1>1, <2>1 DEF RoomFor
<1>2. \A o \in StructureOrders : o \in Orders
  BY BooksAssumption
<1>3. /\ \A o \in StructureOrders :
            /\ RoomFor(o, market[o])
            /\ Len(snaps) >= 1 => RoomFor(o, snaps[Len(snaps)][o])
            /\ str.pc \in {"kept", "insert", "compare"} /\ Len(snaps) >= 2 =>
                  RoomFor(o, snaps[Len(snaps) - 1][o])
      /\ \A r \in Rows(str) : RoomFor(r.order, r.volume)
  BY DEF ClaimsHaveRoom
<1>4. Len(snaps) \in Nat
  BY DEF BooksTypeOK
<1>5. CASE \E p \in Orders : Post(p) \/ Trade(p) \/ Withdraw(p)
  <2>1. PICK p \in Orders : Post(p) \/ Trade(p) \/ Withdraw(p)
    BY <1>5
  <2>2. changes' = changes /\ snaps' = snaps /\ str' = str
    BY <2>1, EveOnly
  <2>3. ASSUME NEW o \in StructureOrders PROVE Room(o, market'[o])
    <3>1. /\ o \in Orders /\ Claimed(o) \in Nat /\ Claimed(o) <= traded[o]
          /\ traded[o] \in 0..Volume /\ market[o] \in 0..Volume
          /\ market \in [Orders -> 0..Volume]
      BY <1>2, <2>3, ClaimedIsNumber DEF StructureClaims, Claimed, BooksTypeOK, Books
    <3>2. Units(Within(changes', {o}, 0)) = Claimed(o)
      BY <2>2, ClaimsStay
    <3>3. CASE Post(p) /\ p = o
      <4>1. o \notin posted /\ market'[o] = Volume
        BY <3>1, <3>3 DEF Post
      <4>2. traded[o] = 0
        BY <3>1, <4>1 DEF EveSinks
      <4> QED
        BY <3>1, <3>2, <4>1, <4>2, Numbers
    <3>4. CASE ~(Post(p) /\ p = o)
      <4>1. market'[o] = market[o] \/ market'[o] = market[o] - 1 \/ market'[o] = 0
        BY <2>1, <3>1, <3>4 DEF Post, Trade, Withdraw
      <4>2. market[o] > 0 => Claimed(o) + market[o] <= Volume
        BY <1>3, <2>3 DEF RoomFor
      <4> QED
        BY <3>1, <3>2, <4>1, <4>2, Numbers
    <3> QED
      BY <3>3, <3>4
  <2> HIDE DEF Room
  <2> QED
    BY <1>1, <1>3, <2>2, <2>3
<1>6. ASSUME changes' = changes, snaps' = snaps, market' = market,
             str'.pc \in {"kept", "insert", "compare"} => str.pc \in {"kept", "insert", "compare"}
      PROVE  \A o \in StructureOrders :
                /\ Room(o, market'[o])
                /\ Len(snaps') >= 1 => Room(o, snaps'[Len(snaps')][o])
                /\ str'.pc \in {"kept", "insert", "compare"} /\ Len(snaps') >= 2 =>
                      Room(o, snaps'[Len(snaps') - 1][o])
  <2> HIDE DEF Room
  <2> QED
    BY <1>1, <1>3, <1>6
<1>7. ASSUME changes' = changes, Rows(str') \subseteq Rows(str)
      PROVE  \A r \in Rows(str') : Room(r.order, r.volume)
  <2> HIDE DEF Room
  <2> QED
    BY <1>1, <1>3, <1>7
<1>8. ASSUME ~(\E p \in Orders : Post(p) \/ Trade(p) \/ Withdraw(p)) PROVE UNCHANGED eve
  BY <1>8, Steps, EveLeftAlone
<1>9. CASE ~(\E p \in Orders : Post(p) \/ Trade(p) \/ Withdraw(p)) /\ ~StructureStep
  <2>1. snaps' = snaps /\ changes' = changes /\ (str' = str \/ str' = NoRun)
    BY <1>9, SnapshotsLeftAlone
  <2>2. market' = market
    BY <1>8, <1>9 DEF eve
  <2>3. /\ str'.pc \in {"kept", "insert", "compare"} => str.pc \in {"kept", "insert", "compare"}
        /\ Rows(str') \subseteq Rows(str)
    BY <2>1, NothingIsPast
  <2> HIDE DEF Room
  <2> QED
    BY <1>6, <1>7, <2>1, <2>2, <2>3
<1>10. CASE StructureBegin \/ StructureList
  <2>1. PICK run : (run = NoRun \/ (run = str /\ str.pc = "list")) /\ str' = Reads(run, StructureOrders)
    BY <1>10 DEF StructureBegin, StructureList
  <2>2. Listing \subseteq StructurePcs /\ StructureOrders \in SUBSET Orders
    BY BooksAssumption DEF Listing, StructurePcs
  <2>3. NoRun \in Runs(StructurePcs, StructureOrders)
    BY NoRunTyped DEF StructurePcs
  <2>4. /\ run \in Runs(StructurePcs, StructureOrders) /\ market \in Books /\ day \in Nat \ {0}
    BY <2>1, <2>3 DEF BooksTypeOK
  <2>5. str'.pc \in Listing /\ str'.rows = run.rows \cup Page(StructureOrders, run.next)
    BY <2>1, <2>2, <2>4, ReadsAPage
  <2>6. changes' = changes /\ snaps' = snaps /\ market' = market
    BY <1>10 DEF StructureBegin, StructureList, tables, eve
  <2>7. \A r \in run.rows : RoomFor(r.order, r.volume)
    <3>1. run.rows \subseteq Rows(str)
      BY <2>1, NoRunTyped DEF NoRun, Rows, Listing
    <3> QED
      BY <1>3, <3>1
  <2>8. \A r \in Page(StructureOrders, run.next) : RoomFor(r.order, r.volume)
    <3>1. run.next \in Nat
      BY <2>4 DEF Runs
    <3>2. \A r \in Page(StructureOrders, run.next) : r.order \in StructureOrders
      BY <2>2, <2>4, <3>1, PageShows
    <3>3. \A r \in Page(StructureOrders, run.next) : r.volume = market[r.order]
      BY <2>2, <2>4, <3>1, PageShows
    <3> QED
      BY <1>3, <3>2, <3>3
  <2>9. \A r \in Rows(str') : Room(r.order, r.volume)
    <3>1. Rows(str') = run.rows \cup Page(StructureOrders, run.next)
      BY <2>5 DEF Rows
    <3> HIDE DEF Room
    <3> QED
      BY <1>1, <2>6, <2>7, <2>8, <3>1
  <2>10. str'.pc \notin {"kept", "insert", "compare"}
    BY <2>5 DEF Listing
  <2> HIDE DEF Room
  <2> QED
    BY <1>6, <2>6, <2>9, <2>10
<1>11. CASE StructureSnapshot
  <2>1. changes' = changes /\ market' = market /\ Rows(str') = {}
    <3>1. str'.pc = "kept"
      BY <1>11 DEF StructureSnapshot, BooksTypeOK, Runs
    <3> QED
      BY <1>11, <3>1 DEF StructureSnapshot, eve, Rows, Listing
  <2>2. /\ Len(snaps') = Len(snaps) + 1
        /\ \A i \in 1..Len(snaps) : snaps'[i] = snaps[i]
        /\ \A o \in Orders : snaps'[Len(snaps')][o] > 0 =>
              \E r \in Rows(str) : r.order = o /\ r.volume = snaps'[Len(snaps')][o]
    BY <1>11, OneMoreSnapshot
  <2>3. ASSUME NEW o \in StructureOrders PROVE Room(o, snaps'[Len(snaps')][o])
    <3>1. CASE snaps'[Len(snaps')][o] > 0
      <4>1. PICK r \in Rows(str) : r.order = o /\ r.volume = snaps'[Len(snaps')][o]
        BY <1>2, <2>2, <2>3, <3>1
      <4>2. RoomFor(o, snaps'[Len(snaps')][o])
        BY <1>3, <4>1
      <4> HIDE DEF Room
      <4> QED
        BY <1>1, <2>1, <4>2
    <3>2. CASE ~(snaps'[Len(snaps')][o] > 0)
      BY <3>2
    <3> QED
      BY <3>1, <3>2
  <2>4. ASSUME NEW o \in StructureOrders, Len(snaps') >= 2 PROVE Room(o, snaps'[Len(snaps') - 1][o])
    <3>1. Len(snaps) >= 1 /\ Len(snaps) \in 1..Len(snaps) /\ Len(snaps') - 1 = Len(snaps)
      BY <1>4, <2>2, <2>4
    <3>2. snaps'[Len(snaps') - 1] = snaps[Len(snaps)]
      BY <2>2, <3>1
    <3>3. RoomFor(o, snaps[Len(snaps)][o])
      BY <1>3, <2>4, <3>1
    <3> HIDE DEF Room
    <3> QED
      BY <1>1, <2>1, <3>2, <3>3
  <2>5. ASSUME NEW o \in StructureOrders PROVE Room(o, market'[o])
    <3> HIDE DEF Room
    <3> QED
      BY <1>1, <1>3, <2>1, <2>5
  <2> HIDE DEF Room
  <2> QED
    BY <2>1, <2>3, <2>4, <2>5
<1>12. CASE StructureCompare
  <2>1. /\ Len(snaps) \in Nat /\ Len(snaps) >= 2 /\ str.pc = "compare"
        /\ market' = market /\ snaps' = snaps
    BY <1>12, ComparedSnapshots DEF eve
  <2>2. Len(snaps) \in 1..Len(snaps) /\ Len(snaps) - 1 \in 1..Len(snaps)
    BY <2>1
  <2>3. ASSUME NEW o \in StructureOrders
        PROVE  Room(o, market[o]) /\ Room(o, snaps[Len(snaps)][o])
    <3> DEFINE old == snaps[Len(snaps) - 1][o]
               new == snaps[Len(snaps)][o]
    <3>1. /\ Claimed(o) \in Nat /\ market[o] \in 0..Volume
          /\ old \in 0..Volume /\ new \in 0..Volume
      BY <1>2, <2>2, <2>3, ClaimedIsNumber
    <3>2. RoomFor(o, old) /\ RoomFor(o, new) /\ RoomFor(o, market[o])
      BY <1>3, <2>1, <2>3
    <3>3. Past(o, new)
      BY <1>2, <2>2, <2>3 DEF ListsPast
    <3>4. Units(Within(changes', {o}, 0)) = Claimed(o) + UnitsSold(old, new)
      BY <1>2, <1>12, <2>3, ClaimsGrow
    <3>5. UnitsSold(old, new) = IF 0 < new /\ new < old THEN old - new ELSE 0
      BY <3>1, Losses
    <3> HIDE DEF old, new, Room
    <3>6. CASE 0 < new /\ new < old
      <4>1. Claimed(o) + old <= Volume
        BY <3>1, <3>2, <3>6 DEF RoomFor
      <4>2. market[o] <= new
        BY <3>3, <3>6 DEF Past
      <4>3. Units(Within(changes', {o}, 0)) = Claimed(o) + (old - new)
        BY <3>4, <3>5, <3>6
      <4>4. /\ Units(Within(changes', {o}, 0)) + new <= Volume
            /\ Units(Within(changes', {o}, 0)) + market[o] <= Volume
        BY <3>1, <4>1, <4>2, <4>3, Numbers
      <4> QED
        BY <4>4 DEF Room, new
    <3>7. CASE ~(0 < new /\ new < old)
      <4>1. Units(Within(changes', {o}, 0)) = Claimed(o)
        BY <3>1, <3>4, <3>5, <3>7
      <4> QED
        BY <3>2, <4>1 DEF Room, RoomFor, new
    <3> QED
      BY <3>6, <3>7
  <2>4. str'.pc \in {"idle", "refresh"}
    BY <1>12 DEF StructureCompare, NoRun, BooksTypeOK, Runs
  <2>5. Rows(str') = {}
    BY <2>4 DEF Rows, Listing
  <2> HIDE DEF Room
  <2> QED
    BY <2>1, <2>3, <2>4, <2>5
<1>13. CASE /\ StructureStep /\ ~StructureBegin /\ ~StructureList
            /\ ~StructureSnapshot /\ ~StructureCompare
  <2>1. /\ snaps' = snaps /\ changes' = changes /\ Rows(str') = {}
        /\ str'.pc \in {"idle", "insert", "compare"}
        /\ str'.pc \in {"insert", "compare"} => str.pc \in {"kept", "insert"}
    BY <1>13, StructurePlaces
  <2>2. market' = market
    BY <1>13, EveLeftAlone DEF eve
  <2> HIDE DEF Room
  <2> QED
    BY <1>6, <2>1, <2>2
<1> QED
  BY <1>5, <1>9, <1>10, <1>11, <1>12, <1>13, EveOnly, EveLeftAlone

-----------------------------------------------------------------------------
(* The theorems                                                            *)

\* Nothing was listed, recorded or claimed at the start.
LEMMA StartsInBalance == Init => IInv
<1> SUFFICES ASSUME Init PROVE IInv
  OBVIOUS
<1>1. BooksTypeOK
  BY InitTyped
<1>2. /\ live = NoBook /\ trades = {} /\ snaps = <<>> /\ changes = {} /\ traded = NoBook
      /\ reg = NoRun /\ str = NoRun /\ regRuns = 0 /\ ever = {} /\ entered = NoBook
      /\ posted = Orders \ Late /\ market = [o \in Orders |-> IF o \in Late THEN 0 ELSE Volume]
  BY DEF Init
<1>3. /\ NoRun.pc = "idle" /\ Rows(NoRun) = {} /\ NoRun.book = NoBook /\ Len(snaps) = 0
      /\ \A o \in Orders : NoBook[o] = 0
  BY <1>2 DEF NoRun, Rows, Listing, NoBook
<1>4. EveSinks
  BY <1>2, <1>3, Numbers DEF EveSinks
<1>5. ListsPast
  <2>1. \A o \in Orders : Past(o, live[o]) /\ Past(o, reg.book[o]) /\ Past(o, str.book[o])
    BY <1>2, <1>3 DEF Past
  <2>2. 1..Len(snaps) = {} /\ Rows(reg) \cup Rows(str) = {}
    BY <1>2, <1>3
  <2> QED
    BY <2>1, <2>2 DEF ListsPast
<1>6. \A o : Within({}, {o}, 0) = {}
  BY DEF Within
<1>7. RegionInv
  <2>1. RegionSinks
    BY <1>2, <1>3 DEF RegionSinks, Stations
  <2>2. FoundIsDifference /\ DeletedIsOld
    BY <1>2, <1>3 DEF FoundIsDifference, DeletedIsOld
  <2>3. BooksBalance
    <3> SUFFICES ASSUME NEW o \in Stations
                 PROVE  live[o] + Units(Within(ever, {o}, 0)) = entered[o]
      BY DEF BooksBalance
    <3>1. Units(Within(ever, {o}, 0)) = 0
      BY <1>2, <1>6, UnitsOfNone
    <3>2. live[o] = 0 /\ entered[o] = 0
      BY <1>2, <1>3 DEF Stations
    <3> QED
      BY <3>1, <3>2
  <2> QED
    BY <2>1, <2>2, <2>3 DEF RegionInv
<1>8. StructureInv
  <2>1. \A o \in StructureOrders : Claimed(o) = 0 /\ o \in Orders
    BY <1>2, <1>6, UnitsOfNone, BooksAssumption DEF Claimed
  <2>2. ChangesBehind
    BY <1>2, <1>3 DEF ChangesBehind
  <2>3. ClaimsHaveRoom
    <3>1. \A o \in StructureOrders : market[o] \in 0..Volume
      BY <1>1, <2>1 DEF BooksTypeOK, Books
    <3>2. \A o \in StructureOrders : RoomFor(o, market[o])
      BY <2>1, <3>1, Numbers DEF RoomFor
    <3> QED
      BY <1>2, <1>3, <3>2 DEF ClaimsHaveRoom
  <2>4. StructureClaims
    BY <1>2, <1>3, <2>1 DEF StructureClaims, Claimed
  <2> QED
    BY <2>2, <2>3, <2>4 DEF StructureInv
<1> QED
  BY <1>1, <1>4, <1>5, <1>7, <1>8 DEF IInv

\* Every step keeps the inductive invariant, each part of it by the lemma of its name.
LEMMA StaysInBalance == IInv /\ [Next]_vars => IInv'
<1> SUFFICES ASSUME IInv, [Next]_vars PROVE IInv'
  OBVIOUS
<1>1. /\ BooksTypeOK /\ EveSinks /\ ListsPast
      /\ RegionSinks /\ FoundIsDifference /\ DeletedIsOld /\ BooksBalance
      /\ ChangesBehind /\ ClaimsHaveRoom /\ StructureClaims
  BY DEF IInv, RegionInv, StructureInv
<1>2. BooksTypeOK'
  BY <1>1, TypesKept
<1>3. EveSinks'
  BY <1>1, EveSinksKept
<1>4. ListsPast'
  BY <1>1, <1>2, ListsPastKept
<1>5. RegionInv'
  BY <1>1, RegionSinksKept, FoundIsDifferenceKept, DeletedIsOldKept, BooksBalanceKept
     DEF RegionInv
<1>6. StructureInv'
  BY <1>1, ChangesBehindKept, ClaimsHaveRoomKept, StructureClaimsKept
     DEF StructureInv
<1> QED
  BY <1>2, <1>3, <1>4, <1>5, <1>6 DEF IInv

\* The inductive invariant of the order books holds always.
THEOREM BooksInductive == Spec => []IInv
  BY StartsInBalance, StaysInBalance, PTL DEF Spec

\* For every region, station and structure, and however runs of the two kinds overlap, fail
\* or lose pages, what the station's book lost is what is recorded as traded at it: no trade
\* is lost and none is counted twice (orders_ingestion.py, the compare and the commit).
THEOREM StationBalances == Spec => []BooksBalance
<1>1. IInv => BooksBalance
  BY DEF IInv, RegionInv
<1> QED
  BY <1>1, BooksInductive, PTL

\* The changes between snapshots never claim more of an order than was sold, whatever pages
\* a list missed and whatever runs died between the snapshot and the comparison.
THEOREM ClaimsAreSales == Spec => []StructureClaims
<1>1. IInv => StructureClaims
  BY DEF IInv, StructureInv
<1> QED
  BY <1>1, BooksInductive, PTL

\* As long as trades are kept for at least the days that the periods look back, the demand
\* of a target moves only to the sum of all that was ever traded in the window.
THEOREM DemandCatchesUp ==
    ASSUME Period <= Retention
    PROVE  Spec => CatchesUp
<1>1. ASSUME IInv, [Next]_vars, NEW k \in DOMAIN Members, periods'[k] # periods[k]
      PROVE  periods'[k] = Units(Within(ever, Members[k], day - Period))
  <2>1. DeletedIsOld /\ BooksTypeOK
    BY <1>1 DEF IInv, RegionInv
  <2>2. k \in Kinds /\ k # "snapshots"
    BY DEF Members, Kinds
  <2>3. CASE RegionRefresh
    <3> DEFINE D == Within(trades, Members[k], day - Period)
    <3>1. periods'[k] = IF D = {} THEN periods[k] ELSE Units(D)
      BY <2>2, <2>3 DEF RegionRefresh, Refreshed, Summed
    <3>2. D = Within(ever, Members[k], day - Period)
      <4>1. /\ trades \subseteq ever /\ \A d \in ever : d.day \in Nat
            /\ day \in Nat
        BY <2>1 DEF BooksTypeOK, Trades
      <4>2. \A d \in ever \ trades : ~(d.day > day - Period)
        BY <2>1, <4>1, Numbers DEF DeletedIsOld
      <4> QED
        BY <4>1, <4>2 DEF Within
    <3> QED
      BY <1>1, <3>1, <3>2
  <2>4. CASE StructureRefresh
    BY <1>1, <2>1, <2>2, <2>4 DEF StructureRefresh, BooksTypeOK
  <2>5. CASE ~RegionRefresh /\ ~StructureRefresh
    <3>1. periods' = periods
      <4>1. CASE \E o \in Orders : Post(o) \/ Trade(o) \/ Withdraw(o)
        BY <4>1, EveOnly
      <4>2. CASE RegionStep
        BY <2>5, <4>2 DEF RegionStep, RegionBegin, RegionList, RegionCompare, RegionDelete,
                          RegionDeleted, RegionCommit, RegionRefused, tables
      <4>3. CASE StructureStep
        BY <2>5, <4>3 DEF StructureStep, StructureBegin, StructureList, StructureSkip,
                          StructureSnapshot, StructureDelete, StructureCommit,
                          StructureRefused, StructureCompare, tables
      <4>4. CASE Midnight \/ Fail \/ UNCHANGED vars
        BY <4>4 DEF Midnight, Fail, vars, tables
      <4> QED
        BY <1>1, <4>1, <4>2, <4>3, <4>4, Steps
    <3> QED
      BY <1>1, <3>1
  <2> QED
    BY <2>3, <2>4, <2>5
<1>2. IInv /\ [Next]_vars =>
         [\A k \in DOMAIN Members : periods'[k] # periods[k] =>
             periods'[k] = Units(Within(ever, Members[k], day - Period))]_vars
  BY <1>1
<1> QED
  BY <1>2, BooksInductive, PTL DEF Spec, CatchesUp
=============================================================================
