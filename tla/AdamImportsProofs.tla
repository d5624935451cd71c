--------------------------- MODULE AdamImportsProofs ---------------------------
(***************************************************************************)
(* What the Adam4EVE imports may skip, and what they derive, for any       *)
(* number and length of weeks, any regions, and any runs that fail, are    *)
(* cancelled or die, pages and clearings between them.  The runs decide by *)
(* cursors and by the first and last row of a table what they need not     *)
(* load, so the proofs rest on what a table is between two imports: the    *)
(* files of consecutive weeks, up to the one that the cursors reach.       *)
(***************************************************************************)
EXTENDS AdamImports, FiniteSetTheorems, WellFoundedInduction, TLAPS

-----------------------------------------------------------------------------
(* Numbers and weeks                                                       *)

\* A set of numbers that has one has a last one, if there is a bound.
LEMMA LastIsIn ==
    ASSUME NEW S \in SUBSET Int, S # {}, NEW b \in Int, \A x \in S : x <= b
    PROVE  Max(S) \in S /\ \A x \in S : x <= Max(S)
<1> DEFINE less == {p \in Nat \X Nat : p[1] < p[2]}
           T == {b - x : x \in S}
<1>1. IsWellFoundedOn(less, Nat)
  <2>1. OpToRel(<, Nat) = less
    BY DEF OpToRel
  <2> QED
    BY <2>1, NatLessThanWellFounded
<1>2. T \in SUBSET Nat /\ T # {}
  <2>1. \A x \in S : b - x \in Nat
    OBVIOUS
  <2>2. PICK x \in S : TRUE
    OBVIOUS
  <2>3. b - x \in T
    BY <2>2
  <2> QED
    BY <2>1, <2>3
<1> HIDE DEF less, T
<1>3. \E d \in T : \A e \in T : ~(<<e, d>> \in less)
  BY <1>1, <1>2, WFMin
<1>4. \E d \in T : \A e \in T : d <= e
  <2>1. \A e, d \in Nat : e < d => <<e, d>> \in less
    BY DEF less
  <2>2. \A e, d \in T : ~(e < d) => d <= e
    BY <1>2
  <2> QED
    BY <1>2, <1>3, <2>1, <2>2
<1>5. \E x \in S : \A y \in S : x >= y
  <2>1. PICK d \in T : \A e \in T : d <= e
    BY <1>4
  <2>2. PICK x \in S : d = b - x
    BY <2>1 DEF T
  <2>3. \A y \in S : b - y \in T
    BY DEF T
  <2>4. \A y \in S : b - x <= b - y
    BY <2>1, <2>2, <2>3
  <2> QED
    BY <2>2, <2>4
<1> QED
  BY <1>5 DEF Max

\* ... and a first one.
LEMMA FirstIsIn ==
    ASSUME NEW S \in SUBSET Int, S # {}, NEW b \in Int, \A x \in S : b <= x
    PROVE  Min(S) \in S /\ \A x \in S : Min(S) <= x
<1> DEFINE T == {-x : x \in S}
<1>1. T \in SUBSET Int /\ T # {} /\ -b \in Int /\ \A y \in T : y <= -b
  <2>1. \A x \in S : -x \in Int /\ -x <= -b
    OBVIOUS
  <2>2. PICK x \in S : TRUE
    OBVIOUS
  <2>3. -x \in T
    BY <2>2
  <2> QED
    BY <2>1, <2>3
<1>2. \E y \in T : \A z \in T : z <= y
  <2> HIDE DEF T
  <2>1. Max(T) \in T /\ \A x \in T : x <= Max(T)
    BY <1>1, LastIsIn
  <2> QED
    BY <2>1
<1>3. \E x \in S : \A y \in S : x <= y
  <2>1. PICK x \in S : \A z \in T : z <= -x
    BY <1>2
  <2>2. \A y \in S : -y <= -x
    BY <2>1
  <2> QED
    BY <2>1, <2>2
<1> QED
  BY <1>3 DEF Min

\* The weeks follow each other without a gap, and end with the last date.
LEMMA Calendar1 ==
    ASSUME NEW w \in 1..Weeks
    PROVE  /\ FirstDate(w) \in Nat /\ Covered(w) \in Nat
           /\ Covered(w) = FirstDate(w) + WeekDays - 1
           /\ 1 <= FirstDate(w) /\ FirstDate(w) <= Covered(w) /\ Covered(w) < LastDay
           /\ Covered(w) \in Dates /\ 0 <= Covered(w)
<1>1. Weeks \in Nat /\ WeekDays \in Nat /\ WeekDays > 0 /\ w \in Nat /\ w >= 1 /\ w <= Weeks
  BY AdamAssumption
<1>2. WeekDays * (w - 1) \in Nat /\ WeekDays * w = WeekDays * (w - 1) + WeekDays
  BY <1>1
<1>3. Weeks * WeekDays \in Nat /\ WeekDays * w <= Weeks * WeekDays
  BY <1>1
<1> QED
  BY <1>1, <1>2, <1>3 DEF FirstDate, Covered, LastDay, Dates

\* ... so a later week ends later, and the next one begins where one ends.
LEMMA Calendar2 ==
    ASSUME NEW v \in 1..Weeks, NEW w \in 1..Weeks
    PROVE  /\ v < w => Covered(v) < FirstDate(w)
           /\ v <= w <=> Covered(v) <= Covered(w)
           /\ w = v + 1 => FirstDate(w) = Covered(v) + 1
<1>1. WeekDays \in Nat /\ WeekDays > 0 /\ v \in Nat /\ w \in Nat
  BY AdamAssumption
<1>2. v < w => WeekDays * v <= WeekDays * (w - 1)
  BY <1>1
<1>3. v < w => Covered(v) < FirstDate(w)
  <2>1. WeekDays * v \in Nat /\ WeekDays * (w - 1) \in Int
    BY <1>1
  <2> QED
    BY <1>2, <2>1 DEF FirstDate, Covered
<1>4. v <= w <=> Covered(v) <= Covered(w)
  <2>1. w < v => WeekDays * w < WeekDays * v
    BY <1>1
  <2>2. v <= w => WeekDays * v <= WeekDays * w
    BY <1>1
  <2>3. WeekDays * v \in Nat /\ WeekDays * w \in Nat
    BY <1>1
  <2> QED
    BY <1>1, <2>1, <2>2, <2>3 DEF Covered
<1>5. w = v + 1 => FirstDate(w) = Covered(v) + 1
  BY <1>1 DEF FirstDate, Covered
<1> QED
  BY <1>3, <1>4, <1>5

\* If the last week is over, it is the last day.
LEMMA Calendar3 ==
    /\ LastDay \in Nat /\ LastDay > 1
    /\ \A w \in 1..Weeks : Covered(w) + 1 < LastDay => w < Weeks
<1>1. Weeks \in Nat /\ WeekDays \in Nat /\ WeekDays > 0 /\ Weeks > 0
  BY AdamAssumption
<1>2. Weeks * WeekDays \in Nat /\ Weeks * WeekDays > 0
  BY <1>1
<1>3. \A w \in 1..Weeks : ~(w < Weeks) => w = Weeks
  BY <1>1
<1>4. WeekDays * Weeks = Weeks * WeekDays
  BY <1>1
<1> QED
  BY <1>1, <1>2, <1>3, <1>4 DEF LastDay, Covered

\* The weeks that are listed on a day are the first ones, up to the latest.
LEMMA ListedOn ==
    ASSUME NEW day \in 2..LastDay, NEW L, L = {w \in 1..Weeks : FirstDate(w) < day}
    PROVE  /\ Max(L) \in 1..Weeks /\ FirstDate(Max(L)) < day
           /\ L = 1..Max(L) /\ Max(L) \in L
           /\ \A w \in L : w \in 1..Weeks /\ w <= Max(L)
           /\ Covered(Max(L)) \in Nat
<1>1. Weeks \in Nat /\ Weeks > 0 /\ day \in Nat
  BY AdamAssumption, Calendar3
<1>2. L \in SUBSET Int /\ \A w \in L : w <= Weeks
  BY <1>1
<1>3. 1 \in L
  BY <1>1, AdamAssumption DEF FirstDate
<1>4. Max(L) \in L /\ \A w \in L : w <= Max(L)
  BY <1>1, <1>2, <1>3, LastIsIn
<1>5. Max(L) \in 1..Weeks /\ FirstDate(Max(L)) < day
  BY <1>4
<1>6. L = 1..Max(L)
  <2>1. ASSUME NEW w \in 1..Max(L)
        PROVE  w \in L
    <3>1. w \in 1..Weeks /\ w <= Max(L)
      BY <1>1, <1>5
    <3>2. w < Max(L) => FirstDate(w) < FirstDate(Max(L))
      BY <1>5, <3>1, Calendar1, Calendar2
    <3>3. FirstDate(w) < day
      BY <1>1, <1>5, <3>1, <3>2, Calendar1
    <3> QED
      BY <3>1, <3>3
  <2>2. L \subseteq 1..Max(L)
    BY <1>4, <1>5
  <2> QED
    BY <2>1, <2>2
<1> QED
  BY <1>4, <1>5, <1>6, Calendar1

\* What is listed today.
LEMMA ListedAre ==
    ASSUME today \in 2..LastDay
    PROVE  /\ LatestExport \in 1..Weeks /\ FirstDate(LatestExport) < today
           /\ ListedWeeks = 1..LatestExport /\ LatestExport \in ListedWeeks
           /\ \A w \in ListedWeeks : w \in 1..Weeks /\ w <= LatestExport
           /\ \A since : ExportsSince(since) = Span(since, LatestExport)
           /\ Covered(LatestExport) \in Nat
<1> DEFINE L == {w \in 1..Weeks : FirstDate(w) < today}
<1>1. L = ListedWeeks /\ Max(L) = LatestExport
  BY DEF ListedWeeks, LatestExport
<1>2. /\ Max(L) \in 1..Weeks /\ FirstDate(Max(L)) < today
      /\ L = 1..Max(L) /\ Max(L) \in L
      /\ \A w \in L : w \in 1..Weeks /\ w <= Max(L)
      /\ Covered(Max(L)) \in Nat
  <2>1. L = {w \in 1..Weeks : FirstDate(w) < today}
    OBVIOUS
  <2> HIDE DEF L
  <2> QED
    BY <2>1, ListedOn
<1> HIDE DEF L
<1>3. \A since : ExportsSince(since) = Span(since, LatestExport)
  BY <1>1, <1>2 DEF ExportsSince, Span
<1> QED
  BY <1>1, <1>2, <1>3

\* The week of yesterday stays published when a day ends, and so do the others: if the latest
\* was over then the next one begins.
LEMMA DayAfterDay ==
    ASSUME AdamTypeOK, Calendar, Midnight
    PROVE  /\ today' \in 2..LastDay /\ today <= today'
           /\ Calendar'
           /\ LatestExport' \in 1..Weeks /\ LatestExport <= LatestExport'
           /\ ListedWeeks \subseteq ListedWeeks'
           /\ Covered(LatestExport) <= Covered(LatestExport)'
<1>1. today \in 2..LastDay /\ LastDay \in Nat
  BY Calendar3 DEF AdamTypeOK, Calendar
<1>2. today' \in 2..LastDay /\ (today' = today \/ today' = today + 1)
  BY <1>1 DEF Midnight
<1> DEFINE m == LatestExport
           n == LatestExport'
           L == {w \in 1..Weeks : FirstDate(w) < today'}
<1>3. L = ListedWeeks' /\ Max(L) = n
  BY DEF ListedWeeks, LatestExport, FirstDate
<1>4. m \in 1..Weeks /\ m \in Nat /\ ListedWeeks = 1..m /\ FirstDate(m) < today
  BY <1>1, ListedAre
<1>5. n \in 1..Weeks /\ n \in Nat /\ L = 1..n /\ \A w \in L : w <= n
  <2>1. L = {w \in 1..Weeks : FirstDate(w) < today'}
    OBVIOUS
  <2> HIDE DEF L, n
  <2> QED
    BY <1>2, <1>3, <2>1, ListedOn
<1>6. m \in L
  BY <1>1, <1>2, <1>4, Calendar1
<1> HIDE DEF m, n
<1>7. m <= n
  BY <1>4, <1>5, <1>6
<1>8. Covered(m) \in Nat /\ Covered(n) \in Nat /\ Covered(m) <= Covered(n)
  BY <1>4, <1>5, <1>7, Calendar1, Calendar2
<1>9. today <= Covered(m) + 1
  BY DEF Calendar, m
<1>10. today' <= Covered(n) + 1
  <2>1. CASE today <= Covered(m) \/ today' = today
    BY <1>1, <1>2, <1>8, <1>9, <2>1
  <2>2. CASE today = Covered(m) + 1 /\ today' = today + 1
    <3>1. m < Weeks /\ Weeks \in Nat
      BY <1>1, <1>2, <1>4, <2>2, Calendar3, AdamAssumption
    <3>2. m + 1 \in 1..Weeks
      BY <1>4, <3>1
    <3>3. FirstDate(m + 1) = today
      BY <1>4, <2>2, <3>2, Calendar2
    <3>4. m + 1 \in L
      BY <1>1, <2>2, <3>2, <3>3
    <3>5. m + 1 <= n
      BY <1>5, <3>4
    <3>6. Covered(m + 1) <= Covered(n) /\ FirstDate(m + 1) <= Covered(m + 1)
          /\ Covered(m + 1) \in Nat
      BY <1>5, <3>2, <3>5, Calendar1, Calendar2
    <3> QED
      BY <1>1, <1>8, <2>2, <3>3, <3>6
  <2> QED
    BY <1>1, <1>2, <1>8, <1>9, <2>1, <2>2
<1>11. Covered(n) = Covered(LatestExport)'
  BY DEF n, Covered
<1>12. Calendar'
  BY <1>2, <1>10, <1>11 DEF Calendar
<1>13. ListedWeeks \subseteq ListedWeeks'
  BY <1>3, <1>4, <1>5, <1>7
<1> QED
  BY <1>1, <1>2, <1>5, <1>7, <1>8, <1>11, <1>12, <1>13 DEF m, n

\* What the date to look back to is, and that there is always a file to look at: the week of
\* yesterday is published, and the period that is looked back over is longer than a day.
LEMMA SinceIs ==
    ASSUME Lookback > 1, today \in 2..LastDay, Calendar, NEW cursor \in Nat, NEW table \in SUBSET Dates,
           Behind(cursor), \A d \in table : Behind(d)
    PROVE  /\ SinceDate(cursor, table) \in Sinces
           /\ SinceDate(cursor, table) >= today - Lookback
           /\ cursor # 0 => SinceDate(cursor, table) >= cursor - Lookback
           /\ \/ SinceDate(cursor, table) = today - Lookback
              \/ SinceDate(cursor, table) <= Covered(LatestExport) - Lookback
           /\ LatestExport \in Span(SinceDate(cursor, table), LatestExport)
<1> DEFINE last == IF cursor # 0 THEN cursor ELSE Max(table \cup {0})
           S == {today - Lookback} \cup IF last = 0 THEN {} ELSE {last - Lookback}
           c == Covered(LatestExport)
<1>1. /\ Lookback \in Nat /\ today \in Nat /\ LastDay \in Nat /\ c \in Nat /\ c < LastDay
      /\ LatestExport \in 1..Weeks
  BY AdamAssumption, Calendar3, ListedAre, Calendar1
<1>2. last \in Nat /\ last <= c /\ (cursor # 0 => last = cursor)
  <2>1. table \cup {0} \in SUBSET Int /\ \A d \in table \cup {0} : d <= c /\ d \in Nat
    BY <1>1 DEF Behind, Dates
  <2> DEFINE U == table \cup {0}
  <2>3. U \in SUBSET Int /\ U # {} /\ c \in Int /\ \A d \in U : d <= c
    BY <1>1, <2>1
  <2> HIDE DEF U
  <2>4. Max(U) \in U
    BY <2>3, LastIsIn
  <2>2. Max(table \cup {0}) \in table \cup {0}
    BY <2>4 DEF U
  <2> QED
    BY <1>1, <2>1, <2>2 DEF Behind
<1> HIDE DEF last, c
<1>3. S \in SUBSET Int /\ S # {} /\ \A x \in S : x <= LastDay
  BY <1>1, <1>2
<1>4. SinceDate(cursor, table) = Max(S)
  BY DEF SinceDate, last
<1>5. Max(S) \in S /\ \A x \in S : x <= Max(S)
  <2> HIDE DEF S
  <2>1. LastDay \in Int
    BY <1>1
  <2> QED
    BY <1>3, <2>1, LastIsIn
<1>6. today <= c + 1
  BY DEF Calendar, c
<1> DEFINE m == Max(S)
<1>7. /\ m = today - Lookback \/ (last # 0 /\ m = last - Lookback)
      /\ m >= today - Lookback /\ (last # 0 => m >= last - Lookback)
  BY <1>1, <1>2, <1>5
<1> HIDE DEF m
<1>8. m < c
  BY <1>1, <1>2, <1>6, <1>7
<1>9. m \in Sinces
  BY <1>1, <1>2, <1>7 DEF Sinces
<1>10. LatestExport \in Span(m, LatestExport)
  BY <1>1, <1>8, <1>9 DEF Span, c, Sinces
<1>11. /\ cursor # 0 => m >= cursor - Lookback
       /\ m = today - Lookback \/ m <= c - Lookback
  BY <1>1, <1>2, <1>7
<1> QED
  BY <1>4, <1>7, <1>9, <1>10, <1>11 DEF m, c

\* The rows of a file are of the days of its week.
LEMMA RowsOfWeek ==
    ASSUME AdamTypeOK, NEW kind \in Kinds, NEW w \in 1..Weeks, NEW d \in DatesIn(kind, w)
    PROVE  d \in Dates /\ d \in Nat /\ FirstDate(w) <= d /\ d <= Covered(w)
<1>1. files[kind][w] \in Cut..WeekDays /\ WeekDays \in Nat /\ Cut \in Int
  BY AdamAssumption DEF AdamTypeOK, Cut
<1>2. d \in Dates /\ FirstDate(w) <= d /\ d < FirstDate(w) + files[kind][w]
  BY DEF DatesIn, FirstOf
<1>3. d \in Nat
  BY <1>2, AdamAssumption DEF Dates
<1> QED
  BY <1>1, <1>2, <1>3, Calendar1

\* A file has as many days as Adam4EVE has, a week of them at most.
LEMMA OnOfferType ==
    ASSUME NEW w \in 1..Weeks
    PROVE  OnOffer(w) \in 0..WeekDays
<1> DEFINE D == {d \in FirstOf(w, WeekDays) : d < today}
<1>1. /\ FirstDate(w) \in Int /\ Covered(w) \in Int /\ WeekDays \in Nat
      /\ Covered(w) = FirstDate(w) + WeekDays - 1 /\ FirstDate(w) <= Covered(w)
  BY Calendar1, AdamAssumption
<1>2. D \subseteq FirstDate(w)..Covered(w)
  <2>1. \A d \in D : d \in Int /\ FirstDate(w) <= d /\ d < FirstDate(w) + WeekDays
    BY AdamAssumption DEF FirstOf, Dates
  <2> QED
    BY <1>1, <2>1
<1>3. /\ IsFiniteSet(FirstDate(w)..Covered(w))
      /\ Cardinality(FirstDate(w)..Covered(w)) = WeekDays
  <2>1. FirstDate(w) > Covered(w) => FALSE
    BY <1>1
  <2>2. Covered(w) - FirstDate(w) + 1 = WeekDays
    BY <1>1
  <2> QED
    BY <1>1, <2>1, <2>2, FS_Interval
<1>4. Cardinality(D) <= WeekDays /\ IsFiniteSet(D)
  BY <1>2, <1>3, FS_Subset
<1>5. Cardinality(D) \in Nat
  BY <1>4, FS_CardinalityType
<1> QED
  BY <1>1, <1>4, <1>5 DEF OnOffer

-----------------------------------------------------------------------------
(* Types                                                                   *)

\* What is a number.
LEMMA Numbers ==
    AdamTypeOK =>
        /\ today \in Nat /\ Lookback \in Nat /\ WeekDays \in Nat /\ Weeks \in Nat
        /\ through \in Nat /\ priceThrough \in Nat
        /\ \A r \in Regions : marks[r].through \in Nat /\ marks[r].key \in 0..Weeks
        /\ raw \subseteq Nat /\ price \subseteq Nat
<1> SUFFICES ASSUME AdamTypeOK
             PROVE  /\ today \in Nat /\ Lookback \in Nat /\ WeekDays \in Nat /\ Weeks \in Nat
                    /\ through \in Nat /\ priceThrough \in Nat
                    /\ \A r \in Regions : marks[r].through \in Nat /\ marks[r].key \in 0..Weeks
                    /\ raw \subseteq Nat /\ price \subseteq Nat
  OBVIOUS
<1>1. LastDay \in Nat /\ Dates \subseteq Nat
  BY Calendar3 DEF Dates
<1>2. today \in Nat /\ Lookback \in Nat /\ WeekDays \in Nat /\ Weeks \in Nat
  BY <1>1, AdamAssumption DEF AdamTypeOK
<1>3. through \in Nat /\ priceThrough \in Nat /\ raw \subseteq Nat /\ price \subseteq Nat
  <2>1. through \in {0} \cup Dates /\ priceThrough \in {0} \cup Dates
    BY DEF AdamTypeOK
  <2>2. raw \subseteq Dates /\ price \subseteq Dates
    BY DEF AdamTypeOK
  <2> QED
    BY <1>1, <2>1, <2>2
<1>4. ASSUME NEW r \in Regions
      PROVE  marks[r].through \in Nat /\ marks[r].key \in 0..Weeks
  <2>1. marks[r] \in Mark
    BY DEF AdamTypeOK
  <2>2. marks[r].through \in {0} \cup Dates /\ marks[r].key \in 0..Weeks
    BY <2>1 DEF Mark
  <2> QED
    BY <1>1, <2>2
<1> QED
  BY <1>2, <1>3, <1>4

\* Where a region's data ends is a date too.
LEMMA SyncedType ==
    ASSUME AdamTypeOK, NEW r \in Regions
    PROVE  /\ SyncedThrough(r) \in {0} \cup Dates
           /\ marks[r].through = 0 => SyncedThrough(r) \in raw \cup {0}
           /\ marks[r].through # 0 => SyncedThrough(r) = marks[r].through
<1> DEFINE U == raw \cup {0}
<1>1. U \in SUBSET Int /\ U # {} /\ LastDay \in Int /\ \A d \in U : d <= LastDay
  BY Calendar3, Numbers DEF AdamTypeOK, Dates, LastDay
<1>2. Max(U) \in U
  <2> HIDE DEF U
  <2> QED
    BY <1>1, LastIsIn
<1> QED
  BY <1>2 DEF SyncedThrough, AdamTypeOK, Mark

\* Whatever was written of a file stays as it is.
FilesKept ==
    \A kind \in Kinds, w \in 1..Weeks : files[kind][w] # None => files'[kind][w] = files[kind][w]

\* A week's file, changed.
LEMMA FileChange ==
    ASSUME AdamTypeOK, NEW kind \in Kinds, NEW w \in 1..Weeks, NEW n \in Cut..WeekDays,
           files' = [files EXCEPT ![kind][w] = n]
    PROVE  /\ files' \in [Kinds -> [1..Weeks -> Cut..WeekDays]]
           /\ files'[kind][w] = n
           /\ \A k \in Kinds, v \in 1..Weeks :
                 (k # kind \/ v # w) => files'[k][v] = files[k][v]
BY DEF AdamTypeOK

\* The week that a run fetches is one of those it lists.
LEMMA NextWeek ==
    ASSUME AdamTypeOK, RunInHand, run.left # {}
    PROVE  Min(run.left) \in run.left /\ Min(run.left) \in 1..Weeks
<1>1. run.left \in SUBSET (1..Weeks)
  BY DEF AdamTypeOK, Run
<1> DEFINE S == run.left
<1>2. S \in SUBSET Int /\ S # {} /\ 1 \in Int /\ \A w \in S : 1 <= w
  BY <1>1
<1> HIDE DEF S
<1>3. Min(S) \in S
  BY <1>2, FirstIsIn
<1> QED
  BY <1>1, <1>3 DEF S

\* A fetch that ends writes the file, unless there is one.
LEMMA FetchIs ==
    ASSUME AdamTypeOK, RunInHand, NEW kind \in Kinds, Fetch(kind)
    PROVE  /\ files' \in [Kinds -> [1..Weeks -> Cut..WeekDays]]
           /\ FilesKept
           /\ files'[kind][Min(run.left)] # None
           /\ \A k \in Kinds, v \in 1..Weeks : k # kind => files'[k][v] = files[k][v]
<1> DEFINE w == Min(run.left)
<1>1. w \in 1..Weeks
  BY NextWeek DEF Fetch, Fetching
<1>2. files' = IF files[kind][w] # None THEN files ELSE [files EXCEPT ![kind][w] = OnOffer(w)]
  BY DEF Fetch
<1> HIDE DEF w
<1>3. OnOffer(w) \in Cut..WeekDays /\ OnOffer(w) # None
  BY <1>1, OnOfferType, AdamAssumption DEF Cut, None
<1>4. CASE files[kind][w] # None
  BY <1>1, <1>2, <1>4 DEF AdamTypeOK, FilesKept, w
<1>5. CASE files[kind][w] = None
  <2>1. files' = [files EXCEPT ![kind][w] = OnOffer(w)]
    BY <1>2, <1>5
  <2>2. /\ files' \in [Kinds -> [1..Weeks -> Cut..WeekDays]]
        /\ files'[kind][w] = OnOffer(w)
        /\ \A k \in Kinds, v \in 1..Weeks :
              (k # kind \/ v # w) => files'[k][v] = files[k][v]
    BY <1>1, <1>3, <2>1, FileChange
  <2> QED
    BY <1>1, <1>3, <1>5, <2>2 DEF FilesKept, w
<1> QED
  BY <1>4, <1>5

\* A process that dies while it writes a file changes no other, and none that was written.
LEMMA DieWritingIs ==
    ASSUME AdamTypeOK, RunInHand, NEW kind \in Kinds, DieWriting(kind)
    PROVE  /\ files' \in [Kinds -> [1..Weeks -> Cut..WeekDays]]
           /\ FilesKept
<1> DEFINE w == Min(run.left)
<1>1. w \in 1..Weeks
  BY NextWeek DEF DieWriting, Fetching
<1>2. files[kind][w] = None
  BY DEF DieWriting
<1>3. PICK n \in {Cut} \cup 0..(OnOffer(w) - 1) : files' = [files EXCEPT ![kind][w] = n]
  BY DEF DieWriting
<1> HIDE DEF w
<1>4. n \in Cut..WeekDays
  BY <1>1, OnOfferType, AdamAssumption DEF Cut
<1>5. /\ files' \in [Kinds -> [1..Weeks -> Cut..WeekDays]]
      /\ \A k \in Kinds, v \in 1..Weeks :
            (k # kind \/ v # w) => files'[k][v] = files[k][v]
  BY <1>1, <1>3, <1>4, FileChange
<1> QED
  BY <1>2, <1>5 DEF FilesKept

\* No step takes a file back.
LEMMA FilesStay ==
    ASSUME AdamTypeOK, RunInHand, [Next]_vars
    PROVE  FilesKept /\ files' \in [Kinds -> [1..Weeks -> Cut..WeekDays]]
<1>1. ASSUME files' = files
      PROVE  FilesKept /\ files' \in [Kinds -> [1..Weeks -> Cut..WeekDays]]
  BY <1>1 DEF FilesKept, AdamTypeOK
<1>2. ASSUME NEW kind \in Kinds, Fetch(kind)
      PROVE  FilesKept /\ files' \in [Kinds -> [1..Weeks -> Cut..WeekDays]]
  BY <1>2, FetchIs
<1>3. ASSUME NEW kind \in Kinds, DieWriting(kind)
      PROVE  FilesKept /\ files' \in [Kinds -> [1..Weeks -> Cut..WeekDays]]
  BY <1>3, DieWritingIs
<1>4. ASSUME \/ Begin \/ ListDemand \/ Refused \/ Ingest \/ MarkRegion \/ MarkAll
             \/ SkipHistory \/ ListPrices \/ TruncatePrices \/ ImportPrices \/ RefreshPrices
             \/ RecordCheck \/ TruncateVolumes \/ ImportVolumes \/ Resolve \/ Rebuild
             \/ Fail \/ Interrupt \/ Clear \/ Visit \/ Midnight \/ UNCHANGED vars
      PROVE  files' = files
  BY <1>4 DEF Begin, ListDemand, Refused, Ingest, MarkRegion, MarkAll, SkipHistory, ListPrices,
       TruncatePrices, ImportPrices, RefreshPrices, RecordCheck, TruncateVolumes, ImportVolumes,
       Resolve, Rebuild, Fail, Interrupt, Clear, Visit, Midnight, vars
<1> QED
  BY <1>1, <1>2, <1>3, <1>4 DEF Next, RunStep

\* The run that a step leaves, and what a run that ends is.
LEMMA EndedIs ==
    ASSUME AdamTypeOK, NEW verdict \in {"none", "success", "failed"}
    PROVE  /\ Ended(verdict) \in Run /\ Ended(verdict).pc = "idle"
           /\ Ended(verdict).exports = {} /\ Ended(verdict).left = {} /\ Ended(verdict).held = FALSE
           /\ Ended(verdict).verdict = verdict /\ Ended(verdict).alone = run.alone
<1>1. run.alone \in BOOLEAN /\ Weeks \in Nat
  BY AdamAssumption DEF AdamTypeOK, Run
<1>2. /\ NoRun \in Run /\ NoRun.pc = "idle"
      /\ NoRun.exports = {} /\ NoRun.left = {} /\ NoRun.held = FALSE
  BY <1>1 DEF NoRun, Run
<1>3. Ended(verdict) \in Run
  BY <1>1, <1>2 DEF Ended, Run
<1>4. /\ Ended(verdict).pc = "idle" /\ Ended(verdict).exports = {} /\ Ended(verdict).left = {}
      /\ Ended(verdict).held = FALSE
  BY <1>1, <1>2 DEF Ended, Run
<1>5. Ended(verdict).verdict = verdict
  BY <1>1, <1>2 DEF Ended, Run
<1>6. Ended(verdict).alone = run.alone
  BY <1>1, <1>2 DEF Ended, Run
<1> QED
  BY <1>3, <1>4, <1>5, <1>6

\* What a run lists is published.
LEMMA ExportsType ==
    ASSUME today \in 2..LastDay, NEW since
    PROVE  ExportsSince(since) \subseteq ListedWeeks /\ ExportsSince(since) \subseteq 1..Weeks
BY DEF ExportsSince, ListedWeeks

\* The run that begins.
LEMMA BeginRun ==
    ASSUME AdamTypeOK, Calendar, DemandSince \in Int, Begin
    PROVE  /\ run' \in Run /\ run'.pc \in {"history", "list"} /\ run'.latest = LatestExport
           /\ run'.since = DemandSince /\ run'.regions = ToFetch /\ run'.exports = {}
           /\ run'.left = {} /\ run'.held = FALSE /\ run'.verdict = "none" /\ run'.alone = TRUE
           /\ run'.pc = "list" <=> ToFetch # {}
<1>1. LatestExport \in 0..Weeks
  BY ListedAre, AdamAssumption DEF AdamTypeOK, Calendar
<1>2. ToFetch \in SUBSET Regions
  BY DEF ToFetch
<1>3. run' = [pc |-> IF ToFetch = {} THEN "history" ELSE "list", latest |-> LatestExport,
              since |-> DemandSince, regions |-> ToFetch, exports |-> {},
              left |-> {}, held |-> FALSE, verdict |-> "none", alone |-> TRUE]
  BY DEF Begin, NoRun
<1> QED
  BY <1>1, <1>2, <1>3 DEF Run

\* Every step leaves a run of its shape.
LEMMA RunTyped ==
    ASSUME AdamTypeOK, Calendar, RunInHand, DemandSince \in Int, PriceSince \in Int, [Next]_vars
    PROVE  run' \in Run
<1>0. today \in 2..LastDay
  BY Calendar3 DEF AdamTypeOK, Calendar
<1>1. /\ run \in Run /\ run.left \subseteq 1..Weeks /\ run.exports \subseteq 1..Weeks
      /\ today \in 2..LastDay
  BY <1>0 DEF AdamTypeOK, Run
<1>2. ASSUME Begin PROVE run' \in Run
  BY <1>2, BeginRun
<1>3. ASSUME ListDemand PROVE run' \in Run
  <2>1. ExportsSince(run.since) \subseteq 1..Weeks
    BY <1>1, ExportsType
  <2> QED
    BY <1>1, <1>3, <2>1 DEF ListDemand, Run
<1>4. ASSUME NEW kind \in Kinds, Fetch(kind) PROVE run' \in Run
  BY <1>1, <1>4 DEF Fetch, Run
<1>5. ASSUME Refused \/ Fail \/ Interrupt \/ Rebuild \/ \E kind \in Kinds : DieWriting(kind)
      PROVE  run' \in Run
  <2>1. run' = Ended("failed") \/ run' = Ended("success")
    BY <1>5 DEF Refused, Fail, Interrupt, Rebuild, DieWriting
  <2> QED
    BY <2>1, EndedIs
<1>6. ASSUME Ingest \/ SkipHistory \/ RefreshPrices \/ Resolve PROVE run' \in Run
  BY <1>1, <1>6 DEF Ingest, SkipHistory, RefreshPrices, Resolve, Run
<1>7. ASSUME MarkRegion PROVE run' \in Run
  BY <1>1, <1>7 DEF MarkRegion, Run
<1>8. ASSUME MarkAll PROVE run' \in Run
  BY <1>1, <1>8 DEF MarkAll, Run
<1>9. ASSUME ListPrices PROVE run' \in Run
  <2>1. ExportsSince(PriceSince) \subseteq 1..Weeks
    BY <1>1, ExportsType
  <2> QED
    BY <1>1, <1>9, <2>1 DEF ListPrices, Run
<1>10. ASSUME TruncatePrices \/ TruncateVolumes PROVE run' \in Run
  BY <1>1, <1>10 DEF TruncatePrices, TruncateVolumes, Run
<1>11. ASSUME ImportPrices \/ ImportVolumes PROVE run' \in Run
  <2>1. ASSUME ImportPrices PROVE run' \in Run
    BY <1>1, <2>1 DEF ImportPrices, Run
  <2>2. ASSUME ImportVolumes, run.left = {} PROVE run' \in Run
    BY <1>1, <2>2 DEF ImportVolumes, Run
  <2>3. ASSUME ImportVolumes, run.left # {} PROVE run' \in Run
    BY <1>1, <2>3 DEF ImportVolumes, Run
  <2> QED
    BY <1>11, <2>1, <2>2, <2>3
<1>12. ASSUME RecordCheck PROVE run' \in Run
  <2>1. ExportsSince(run.since) \subseteq 1..Weeks
    BY <1>1, ExportsType
  <2> QED
    BY <1>1, <1>12, <2>1 DEF RecordCheck, Run
<1>13. ASSUME Clear PROVE run' \in Run
  BY <1>1, <1>13 DEF Clear, Run
<1>14. ASSUME Visit \/ Midnight \/ UNCHANGED vars PROVE run' \in Run
  BY <1>1, <1>14 DEF Visit, Midnight, vars
<1> QED
  BY <1>2, <1>3, <1>4, <1>5, <1>6, <1>7, <1>8, <1>9, <1>10, <1>11, <1>12, <1>13, <1>14
  DEF Next, RunStep

\* What is derived from a table are days of that table.
LEMMA LatestType ==
    ASSUME NEW table \in SUBSET Dates
    PROVE  Latest(table) \in SUBSET Dates
BY DEF Latest

\* Rows of files are rows of dates.
LEMMA FileType ==
    ASSUME NEW kind, NEW W \in SUBSET (1..Weeks)
    PROVE  UNION {DatesIn(kind, w) : w \in W} \in SUBSET Dates
BY DEF DatesIn, FirstOf

\* Every table has rows of dates, whatever step loads, derives or clears it.
LEMMA TablesTyped ==
    ASSUME AdamTypeOK, RunInHand, [Next]_vars
    PROVE  {raw, price, volume, demand, priced, volumed}' \subseteq SUBSET Dates
<1>1. /\ raw \in SUBSET Dates /\ price \in SUBSET Dates /\ volume \in SUBSET Dates
      /\ demand \in SUBSET Dates /\ priced \in SUBSET Dates /\ volumed \in SUBSET Dates
      /\ run.left \subseteq 1..Weeks /\ run.exports \subseteq 1..Weeks
  BY DEF AdamTypeOK, Run
<1>2. raw' \in SUBSET Dates
  <2>1. ASSUME Ingest PROVE raw' \in SUBSET Dates
    BY <1>1, <2>1, FileType DEF Ingest
  <2>2. ASSUME ~Ingest PROVE raw' = raw \/ raw' = {}
    BY <2>2 DEF Next, RunStep, Begin, ListDemand, Fetch, Refused, Ingest, MarkRegion, MarkAll,
         SkipHistory, ListPrices, TruncatePrices, ImportPrices, RefreshPrices, RecordCheck,
         TruncateVolumes, ImportVolumes, Resolve, Rebuild, Fail, Interrupt, DieWriting, Clear,
         Visit, Midnight, vars, tables
  <2> QED
    BY <1>1, <2>1, <2>2
<1>3. price' \in SUBSET Dates
  <2>1. ASSUME ImportPrices PROVE price' \in SUBSET Dates
    BY <1>1, <2>1 DEF ImportPrices, DatesIn, FirstOf
  <2>2. ASSUME ~ImportPrices PROVE price' = price \/ price' = {}
    BY <2>2 DEF Next, RunStep, Begin, ListDemand, Fetch, Refused, Ingest, MarkRegion, MarkAll,
         SkipHistory, ListPrices, TruncatePrices, ImportPrices, RefreshPrices, RecordCheck,
         TruncateVolumes, ImportVolumes, Resolve, Rebuild, Fail, Interrupt, DieWriting, Clear,
         Visit, Midnight, vars, tables
  <2> QED
    BY <1>1, <2>1, <2>2
<1>4. volume' \in SUBSET Dates
  <2>1. ASSUME ImportVolumes PROVE volume' \in SUBSET Dates
    BY <1>1, <2>1 DEF ImportVolumes, DatesIn, FirstOf
  <2>2. ASSUME ~ImportVolumes PROVE volume' = volume \/ volume' = {}
    BY <2>2 DEF Next, RunStep, Begin, ListDemand, Fetch, Refused, Ingest, MarkRegion, MarkAll,
         SkipHistory, ListPrices, TruncatePrices, ImportPrices, RefreshPrices, RecordCheck,
         TruncateVolumes, ImportVolumes, Resolve, Rebuild, Fail, Interrupt, DieWriting, Clear,
         Visit, Midnight, vars, tables
  <2> QED
    BY <1>1, <2>1, <2>2
<1>5. demand' = demand \/ demand' = raw \/ demand' = {}
  BY DEF Next, RunStep, Begin, ListDemand, Fetch, Refused, Ingest, MarkRegion, MarkAll,
     SkipHistory, ListPrices, TruncatePrices, ImportPrices, RefreshPrices, RecordCheck,
     TruncateVolumes, ImportVolumes, Resolve, Rebuild, Fail, Interrupt, DieWriting, Clear,
     Visit, Midnight, vars, tables
<1>6. priced' = priced \/ priced' = Latest(price) \/ priced' = {}
  BY DEF Next, RunStep, Begin, ListDemand, Fetch, Refused, Ingest, MarkRegion, MarkAll,
     SkipHistory, ListPrices, TruncatePrices, ImportPrices, RefreshPrices, RecordCheck,
     TruncateVolumes, ImportVolumes, Resolve, Rebuild, Fail, Interrupt, DieWriting, Clear,
     Visit, Midnight, vars, tables, periods, Refreshed
<1>7. volumed' = volumed \/ volumed' = Latest(volume)
  BY DEF Next, RunStep, Begin, ListDemand, Fetch, Refused, Ingest, MarkRegion, MarkAll,
     SkipHistory, ListPrices, TruncatePrices, ImportPrices, RefreshPrices, RecordCheck,
     TruncateVolumes, ImportVolumes, Resolve, Rebuild, Fail, Interrupt, DieWriting, Clear,
     Visit, Midnight, vars, tables, periods, Refreshed, RefreshedVolumes
<1> QED
  BY <1>1, <1>2, <1>3, <1>4, <1>5, <1>6, <1>7, LatestType

\* The two looks back of a run.
LEMMA LooksBack ==
    ASSUME Lookback > 1, AdamTypeOK, Calendar, NoneAhead
    PROVE  /\ today \in 2..LastDay
           /\ DemandSince \in Sinces /\ DemandSince \in Int
           /\ LatestExport \in Span(DemandSince, LatestExport)
           /\ PriceSince \in Sinces /\ PriceSince \in Int
           /\ LatestExport \in Span(PriceSince, LatestExport)
           /\ PriceSince >= today - Lookback
           /\ priceThrough # 0 => PriceSince >= priceThrough - Lookback
           /\ \/ PriceSince <= today - Lookback
              \/ PriceSince <= Covered(LatestExport) - Lookback
<1>0. today \in 2..LastDay
  BY Calendar3 DEF AdamTypeOK, Calendar
<1>1. /\ Lookback \in Nat /\ today \in Nat /\ LastDay \in Nat
      /\ through \in Nat /\ priceThrough \in Nat /\ raw \in SUBSET Dates /\ price \in SUBSET Dates
  BY Numbers, Calendar3 DEF AdamTypeOK
<1>2. Sinces \subseteq Int
  BY <1>1 DEF Sinces
<1>3. /\ Behind(through) /\ Behind(priceThrough)
      /\ \A d \in raw : Behind(d)
      /\ \A d \in price : Behind(d)
  BY DEF NoneAhead
<1>4. /\ DemandSince \in Sinces
      /\ LatestExport \in Span(DemandSince, LatestExport)
  BY <1>0, <1>1, <1>3, SinceIs DEF DemandSince
<1>5. /\ PriceSince \in Sinces
      /\ LatestExport \in Span(PriceSince, LatestExport)
      /\ PriceSince >= today - Lookback
      /\ priceThrough # 0 => PriceSince >= priceThrough - Lookback
      /\ \/ PriceSince = today - Lookback
         \/ PriceSince <= Covered(LatestExport) - Lookback
  BY <1>0, <1>1, <1>3, SinceIs DEF PriceSince
<1> QED
  BY <1>0, <1>1, <1>2, <1>4, <1>5

\* The last of the files of a run.
LEMMA NewestIs ==
    ASSUME AdamTypeOK, run.exports # {}
    PROVE  /\ Max(run.exports) \in run.exports /\ Max(run.exports) \in 1..Weeks
           /\ \A w \in run.exports : w \in 1..Weeks /\ w <= Max(run.exports)
           /\ NewestExport = Max(run.exports)
<1> DEFINE S == run.exports
<1>0. Weeks \in Int
  BY AdamAssumption
<1>1. S \in SUBSET (1..Weeks) /\ S # {}
  BY DEF AdamTypeOK, Run
<1>2. NewestExport = Max(S)
  <2>1. (run.exports \cup IF run.exports = {} THEN {run.latest} ELSE {}) = S
    BY <1>1
  <2> QED
    BY <2>1 DEF NewestExport
<1> HIDE DEF S
<1>3. S \in SUBSET Int /\ \A w \in S : w <= Weeks
  BY <1>0, <1>1
<1>4. Max(S) \in S /\ \A w \in S : w <= Max(S)
  BY <1>0, <1>1, <1>3, LastIsIn
<1> QED
  BY <1>1, <1>2, <1>4 DEF S

\* ... which is the last week of a span, if they are one.
LEMMA LastOfSpan ==
    ASSUME NEW since \in Int, NEW last \in 1..Weeks, last \in Span(since, last),
           AdamTypeOK, run.exports = Span(since, last)
    PROVE  Max(run.exports) = last
<1>1. run.exports # {} /\ \A w \in run.exports : w <= last
  BY DEF Span
<1>2. /\ Max(run.exports) \in run.exports /\ Max(run.exports) \in 1..Weeks
      /\ \A w \in run.exports : w <= Max(run.exports)
  BY <1>1, NewestIs
<1> QED
  BY <1>1, <1>2

\* The later of two dates.
LEMMA LaterIs ==
    ASSUME NEW a \in Nat, NEW b \in Nat
    PROVE  /\ Later(a, b) \in {a, b} /\ a <= Later(a, b) /\ b <= Later(a, b)
           /\ \A c \in Nat : a <= c /\ b <= c => Later(a, b) <= c
           /\ a <= b => Later(a, b) = b
BY DEF Later

\* A run that records its prices has some.
LEMMA RecordsSome ==
    ASSUME AdamTypeOK, PricePhase, run.pc \in {"fetch price", "import price", "record"}
    PROVE  /\ run.exports # {}
           /\ Max(run.exports) \in 1..Weeks
           /\ priceThrough <= Covered(Max(run.exports))
           /\ run.exports = Span(run.since, Max(run.exports))
           /\ run.since \in Sinces
           /\ \/ run.since <= today - Lookback
              \/ run.since <= Covered(Max(run.exports)) - Lookback
<1>1. run.since \in Sinces /\ run.since \in Int /\ run.exports \subseteq 1..Weeks
  BY DEF AdamTypeOK, Run, PricePhase
<1>2. PICK last \in run.exports :
        /\ run.exports = Span(run.since, last) /\ priceThrough <= Covered(last)
        /\ run.since <= today - Lookback \/ run.since <= Covered(last) - Lookback
  BY DEF PricePhase
<1>3. last \in 1..Weeks /\ last \in Span(run.since, last)
  BY <1>1, <1>2
<1>4. Max(run.exports) = last
  BY <1>1, <1>2, <1>3, LastOfSpan
<1> QED
  BY <1>1, <1>2, <1>3, <1>4

\* A cursor is a date, also the one of a run that has no files: there is no such run.
LEMMA CursorsTyped ==
    ASSUME AdamTypeOK, Calendar, RunInHand, PricePhase, [Next]_vars
    PROVE  /\ marks' \in [Regions -> Mark]
           /\ {through, priceThrough}' \subseteq {0} \cup Dates
<1>1. /\ marks \in [Regions -> Mark] /\ through \in {0} \cup Dates
      /\ priceThrough \in {0} \cup Dates
      /\ \A r \in Regions : marks[r].through \in {0} \cup Dates /\ marks[r].key \in 0..Weeks
      /\ Dates \subseteq Nat
  BY Numbers, Calendar3 DEF AdamTypeOK, Mark, Dates
<1>2. LatestExport \in 0..Weeks
  BY ListedAre, Calendar3, AdamAssumption DEF AdamTypeOK, Calendar
<1>3. NoMark \in Mark
  BY AdamAssumption DEF NoMark, Mark
<1>4. run.pc = "mark" =>
        /\ NewestExport \in 0..Weeks /\ Covered(NewestExport) \in Dates
        /\ \A d \in {0} \cup Dates : Later(d, Covered(NewestExport)) \in {0} \cup Dates
  <2>1. run.pc = "mark" => NewestExport \in 1..Weeks
    BY NewestIs DEF RunInHand
  <2>2. run.pc = "mark" => Covered(NewestExport) \in Dates
    BY <2>1, Calendar1
  <2> QED
    BY <2>1, <2>2, AdamAssumption DEF Later
<1>5. ASSUME Begin PROVE marks' \in [Regions -> Mark]
  <2>1. \A r \in Regions : [through |-> SyncedThrough(r), key |-> LatestExport] \in Mark
    BY <1>2, SyncedType DEF Mark
  <2> QED
    BY <1>1, <1>5, <2>1 DEF Begin
<1>6. ASSUME MarkRegion PROVE marks' \in [Regions -> Mark]
  <2>1. PICK r \in run.regions :
          marks' = [marks EXCEPT ![r] = [through |-> Later(marks[r].through, Covered(NewestExport)),
                                         key |-> NewestExport]]
    BY <1>6 DEF MarkRegion
  <2>2. r \in Regions
    BY DEF AdamTypeOK, Run
  <2> DEFINE new == [through |-> Later(marks[r].through, Covered(NewestExport)),
                     key |-> NewestExport]
  <2>3. new \in Mark
    BY <1>1, <1>4, <1>6, <2>2 DEF Mark, MarkRegion
  <2> HIDE DEF new
  <2>4. marks' = [marks EXCEPT ![r] = new]
    BY <2>1 DEF new
  <2> QED
    BY <1>1, <2>3, <2>4
<1>7. ASSUME ~Begin, ~MarkRegion PROVE marks' \in [Regions -> Mark]
  <2>1. marks' = marks \/ marks' = [r \in Regions |-> NoMark]
    BY <1>7 DEF Next, RunStep, ListDemand, Fetch, Refused, Ingest, MarkAll, SkipHistory,
         ListPrices, TruncatePrices, ImportPrices, RefreshPrices, RecordCheck, TruncateVolumes,
         ImportVolumes, Resolve, Rebuild, Fail, Interrupt, DieWriting, Clear, Visit, Midnight,
         vars, cursors
  <2> QED
    BY <1>1, <1>3, <2>1
<1>8. through' \in {0} \cup Dates
  <2>1. ASSUME MarkAll PROVE through' \in {0} \cup Dates
    BY <1>1, <1>4, <2>1 DEF MarkAll
  <2>2. ASSUME ~MarkAll PROVE through' = through \/ through' = 0
    BY <2>2 DEF Next, RunStep, Begin, ListDemand, Fetch, Refused, Ingest, MarkRegion,
         SkipHistory, ListPrices, TruncatePrices, ImportPrices, RefreshPrices, RecordCheck,
         TruncateVolumes, ImportVolumes, Resolve, Rebuild, Fail, Interrupt, DieWriting, Clear,
         Visit, Midnight, vars, cursors
  <2> QED
    BY <1>1, <2>1, <2>2
<1>9. priceThrough' \in {0} \cup Dates
  <2>1. ASSUME RecordCheck PROVE priceThrough' \in {0} \cup Dates
    <3>1. run.exports # {} /\ Covered(Max(run.exports)) \in Dates
      BY <2>1, RecordsSome, Calendar1 DEF RecordCheck
    <3>2. priceThrough' = Later(priceThrough, Covered(Max(run.exports)))
      BY <2>1, <3>1 DEF RecordCheck
    <3> QED
      BY <1>1, <3>1, <3>2 DEF Later
  <2>2. ASSUME ~RecordCheck PROVE priceThrough' = priceThrough \/ priceThrough' = 0
    BY <2>2 DEF Next, RunStep, Begin, ListDemand, Fetch, Refused, Ingest, MarkRegion, MarkAll,
         SkipHistory, ListPrices, TruncatePrices, ImportPrices, RefreshPrices,
         TruncateVolumes, ImportVolumes, Resolve, Rebuild, Fail, Interrupt, DieWriting, Clear,
         Visit, Midnight, vars, cursors
  <2> QED
    BY <1>1, <2>1, <2>2
<1> QED
  BY <1>5, <1>6, <1>7, <1>8, <1>9

\* Days, flags and counters.
LEMMA OthersTyped ==
    ASSUME AdamTypeOK, Calendar, [Next]_vars
    PROVE  /\ today' \in 1..LastDay /\ checked' \in BOOLEAN
           /\ spoilt' \in {"no", "rerun", "cleared"}
           /\ failures' \in 0..MaxFailures /\ clears' \in 0..MaxClears
<1>1. today' \in 1..LastDay
  <2>1. today' = today \/ Midnight
    BY DEF Next, RunStep, Begin, ListDemand, Fetch, Refused, Ingest, MarkRegion, MarkAll,
       SkipHistory, ListPrices, TruncatePrices, ImportPrices, RefreshPrices, RecordCheck,
       TruncateVolumes, ImportVolumes, Resolve, Rebuild, Fail, Interrupt, DieWriting, Clear,
       Visit, vars, outside
  <2>2. Midnight => today' \in 1..LastDay
    BY DayAfterDay, Calendar3
  <2> QED
    BY <2>1, <2>2 DEF AdamTypeOK
<1>2. checked' = checked \/ checked' = TRUE \/ checked' = FALSE
  BY DEF Next, RunStep, Begin, ListDemand, Fetch, Refused, Ingest, MarkRegion, MarkAll,
     SkipHistory, ListPrices, TruncatePrices, ImportPrices, RefreshPrices, RecordCheck,
     TruncateVolumes, ImportVolumes, Resolve, Rebuild, Fail, Interrupt, DieWriting, Clear,
     Visit, Midnight, vars, cursors
<1>3. spoilt' \in {spoilt, "no", "rerun", "cleared"}
  BY DEF Next, RunStep, Begin, ListDemand, Fetch, Refused, Ingest, MarkRegion, MarkAll,
     SkipHistory, ListPrices, TruncatePrices, ImportPrices, RefreshPrices, RecordCheck,
     TruncateVolumes, ImportVolumes, Resolve, Rebuild, Fail, Interrupt, DieWriting, Clear,
     Visit, Midnight, vars
<1>4. /\ failures' = failures \/ (failures < MaxFailures /\ failures' = failures + 1)
      /\ clears' = clears \/ (clears < MaxClears /\ clears' = clears + 1)
  BY DEF Next, RunStep, Begin, ListDemand, Fetch, Refused, Ingest, MarkRegion, MarkAll,
     SkipHistory, ListPrices, TruncatePrices, ImportPrices, RefreshPrices, RecordCheck,
     TruncateVolumes, ImportVolumes, Resolve, Rebuild, Fail, Interrupt, DieWriting, Clear,
     Visit, Midnight, vars, outside, Failing
<1>5. failures' \in 0..MaxFailures /\ clears' \in 0..MaxClears
  BY <1>4, AdamAssumption DEF AdamTypeOK
<1> QED
  BY <1>1, <1>2, <1>3, <1>5 DEF AdamTypeOK

\* Every step keeps the types.
LEMMA TypeStep ==
    ASSUME Lookback > 1, IInv, [Next]_vars
    PROVE  AdamTypeOK'
<1>1. /\ AdamTypeOK /\ Calendar /\ NoneAhead /\ RunInHand /\ PricePhase
      /\ DemandSince \in Int /\ PriceSince \in Int
  BY LooksBack DEF IInv
<1>2. files' \in [Kinds -> [1..Weeks -> Cut..WeekDays]]
  BY <1>1, FilesStay
<1>3. run' \in Run
  BY <1>1, RunTyped
<1>4. {raw, price, volume, demand, priced, volumed}' \subseteq SUBSET Dates
  BY <1>1, TablesTyped
<1>5. marks' \in [Regions -> Mark] /\ {through, priceThrough}' \subseteq {0} \cup Dates
  BY <1>1, CursorsTyped
<1>6. /\ today' \in 1..LastDay /\ checked' \in BOOLEAN
      /\ spoilt' \in {"no", "rerun", "cleared"}
      /\ failures' \in 0..MaxFailures /\ clears' \in 0..MaxClears
  BY <1>1, OthersTyped
<1> QED
  BY <1>2, <1>3, <1>4, <1>5, <1>6 DEF AdamTypeOK, Kinds, Cut, Dates, LastDay, Mark, Run

-----------------------------------------------------------------------------
(* Days, and what a run has in hand                                        *)

\* A step of a run leaves the day as it is, and a day that ends leaves what is published.
LEMMA DaysPass ==
    ASSUME AdamTypeOK, Calendar, [Next]_vars
    PROVE  /\ today \in 2..LastDay /\ today' \in 2..LastDay /\ today <= today'
           /\ today \in Nat /\ today' \in Nat
           /\ Calendar'
           /\ LatestExport \in 1..Weeks /\ LatestExport' \in 1..Weeks
           /\ LatestExport <= LatestExport'
           /\ ListedWeeks \subseteq ListedWeeks' /\ LatestExport \in ListedWeeks
           /\ \A w \in ListedWeeks : w \in 1..Weeks /\ w <= LatestExport
           /\ Covered(LatestExport) \in Nat /\ Covered(LatestExport)' \in Nat
           /\ Covered(LatestExport) <= Covered(LatestExport)'
<1>1. today \in 2..LastDay /\ LastDay \in Nat
  BY Calendar3 DEF AdamTypeOK, Calendar
<1>2. /\ LatestExport \in 1..Weeks /\ Covered(LatestExport) \in Nat
      /\ LatestExport \in ListedWeeks
      /\ \A w \in ListedWeeks : w \in 1..Weeks /\ w <= LatestExport
  BY <1>1, ListedAre
<1>3. today' = today \/ Midnight
  BY DEF Next, RunStep, Begin, ListDemand, Fetch, Refused, Ingest, MarkRegion, MarkAll,
     SkipHistory, ListPrices, TruncatePrices, ImportPrices, RefreshPrices, RecordCheck,
     TruncateVolumes, ImportVolumes, Resolve, Rebuild, Fail, Interrupt, DieWriting, Clear,
     Visit, vars, outside
<1>4. ASSUME today' = today
      PROVE  /\ Calendar' /\ LatestExport' = LatestExport /\ ListedWeeks' = ListedWeeks
             /\ Covered(LatestExport)' = Covered(LatestExport)
  <2>1. ListedWeeks' = ListedWeeks
    BY <1>4 DEF ListedWeeks, FirstDate
  <2>2. LatestExport' = LatestExport
    BY <2>1 DEF LatestExport
  <2>3. Covered(LatestExport)' = Covered(LatestExport)
    BY <2>2 DEF Covered
  <2> QED
    BY <1>4, <2>1, <2>2, <2>3 DEF Calendar
<1>5. ASSUME today' = today
      PROVE  /\ today' \in 2..LastDay /\ today <= today' /\ Calendar'
             /\ LatestExport' \in 1..Weeks /\ LatestExport <= LatestExport'
             /\ ListedWeeks \subseteq ListedWeeks'
             /\ Covered(LatestExport)' \in Nat
             /\ Covered(LatestExport) <= Covered(LatestExport)'
  BY <1>1, <1>2, <1>4, <1>5
<1>6. ASSUME Midnight
      PROVE  /\ today' \in 2..LastDay /\ today <= today' /\ Calendar'
             /\ LatestExport' \in 1..Weeks /\ LatestExport <= LatestExport'
             /\ ListedWeeks \subseteq ListedWeeks'
             /\ Covered(LatestExport)' \in Nat
             /\ Covered(LatestExport) <= Covered(LatestExport)'
  <2>1. Covered(LatestExport)' = Covered(LatestExport')
    BY DEF Covered
  <2> QED
    BY <1>6, <2>1, DayAfterDay, Calendar1
<1> QED
  BY <1>1, <1>2, <1>3, <1>5, <1>6

\* Rows and cursors are of files, and files are of days that are past.
LEMMA NoneAheadStep ==
    ASSUME AdamTypeOK, Calendar, NoneAhead, RunInHand, PricePhase, AdamTypeOK', [Next]_vars
    PROVE  NoneAhead'
<1> DEFINE c == Covered(LatestExport)
<1>1. /\ c \in Nat /\ Covered(LatestExport)' \in Nat /\ c <= Covered(LatestExport)'
      /\ \A w \in ListedWeeks : w \in 1..Weeks /\ w <= LatestExport
      /\ LatestExport \in 1..Weeks
  BY DaysPass
<1>2. \A w \in ListedWeeks : Covered(w) \in Nat /\ Covered(w) <= c
  BY <1>1, Calendar1, Calendar2
<1>3. /\ raw \subseteq Nat /\ price \subseteq Nat /\ through \in Nat /\ priceThrough \in Nat
      /\ \A r \in Regions : marks[r].through \in Nat
      /\ \A d \in raw \cup price \cup {priceThrough, through} : d <= c
      /\ \A r \in Regions : marks[r].through <= c
  <2>1. /\ raw \subseteq Nat /\ price \subseteq Nat /\ through \in Nat /\ priceThrough \in Nat
        /\ \A r \in Regions : marks[r].through \in Nat
    BY Numbers
  <2> QED
    BY <2>1 DEF NoneAhead, Behind
<1>4. run.exports \subseteq ListedWeeks /\ run.left \subseteq ListedWeeks
  BY DEF RunInHand
<1>5. \A kind \in Kinds, w \in ListedWeeks : \A d \in DatesIn(kind, w) : d \in Nat /\ d <= c
  <2> SUFFICES ASSUME NEW kind \in Kinds, NEW w \in ListedWeeks, NEW d \in DatesIn(kind, w)
               PROVE  d \in Nat /\ d <= c
    OBVIOUS
  <2>1. d \in Nat /\ d <= Covered(w)
    BY <1>1, RowsOfWeek
  <2> QED
    BY <1>1, <1>2, <2>1
<1>0. c \in Nat
  BY <1>1
<1> HIDE DEF c
<1>6. \A d \in raw' : d \in Nat /\ d <= c
  <2>1. ASSUME Ingest PROVE \A d \in raw' : d \in Nat /\ d <= c
    BY <1>3, <1>4, <1>5, <2>1 DEF Ingest, Kinds
  <2>2. ASSUME ~Ingest PROVE raw' = raw \/ raw' = {}
    BY <2>2 DEF Next, RunStep, Begin, ListDemand, Fetch, Refused, MarkRegion, MarkAll,
         SkipHistory, ListPrices, TruncatePrices, ImportPrices, RefreshPrices, RecordCheck,
         TruncateVolumes, ImportVolumes, Resolve, Rebuild, Fail, Interrupt, DieWriting, Clear,
         Visit, Midnight, vars, tables
  <2> QED
    BY <1>3, <2>1, <2>2
<1>7. \A d \in price' : d \in Nat /\ d <= c
  <2>1. ASSUME ImportPrices PROVE \A d \in price' : d \in Nat /\ d <= c
    <3>1. Min(run.left) \in ListedWeeks
      BY <1>4, <2>1, NextWeek DEF ImportPrices
    <3>2. \A d \in DatesIn("price", Min(run.left)) : d \in Nat /\ d <= c
      BY <1>5, <3>1 DEF Kinds
    <3> QED
      BY <1>3, <2>1, <3>2 DEF ImportPrices
  <2>2. ASSUME ~ImportPrices PROVE price' = price \/ price' = {}
    BY <2>2 DEF Next, RunStep, Begin, ListDemand, Fetch, Refused, Ingest, MarkRegion, MarkAll,
         SkipHistory, ListPrices, TruncatePrices, RefreshPrices, RecordCheck,
         TruncateVolumes, ImportVolumes, Resolve, Rebuild, Fail, Interrupt, DieWriting, Clear,
         Visit, Midnight, vars, tables
  <2> QED
    BY <1>3, <2>1, <2>2
<1>8. run.pc = "mark" => Covered(NewestExport) \in Nat /\ Covered(NewestExport) <= c
  BY <1>2, <1>4, NewestIs DEF RunInHand
<1>9. through' \in Nat /\ through' <= c
  <2>1. ASSUME MarkAll PROVE through' \in Nat /\ through' <= c
    BY <1>0, <1>3, <1>8, <2>1, LaterIs DEF MarkAll
  <2>2. ASSUME ~MarkAll PROVE through' = through \/ through' = 0
    BY <2>2 DEF Next, RunStep, Begin, ListDemand, Fetch, Refused, Ingest, MarkRegion,
         SkipHistory, ListPrices, TruncatePrices, ImportPrices, RefreshPrices, RecordCheck,
         TruncateVolumes, ImportVolumes, Resolve, Rebuild, Fail, Interrupt, DieWriting, Clear,
         Visit, Midnight, vars, cursors
  <2> QED
    BY <1>0, <1>3, <2>1, <2>2
<1>10. priceThrough' \in Nat /\ priceThrough' <= c
  <2>1. ASSUME RecordCheck PROVE priceThrough' \in Nat /\ priceThrough' <= c
    <3>1. run.exports # {} /\ Max(run.exports) \in run.exports
      BY <2>1, RecordsSome, NewestIs DEF RecordCheck
    <3>2. priceThrough' = Later(priceThrough, Covered(Max(run.exports)))
      BY <2>1, <3>1 DEF RecordCheck
    <3>3. Covered(Max(run.exports)) \in Nat /\ Covered(Max(run.exports)) <= c
      BY <1>2, <1>4, <3>1
    <3> QED
      BY <1>0, <1>3, <3>2, <3>3, LaterIs
  <2>2. ASSUME ~RecordCheck PROVE priceThrough' = priceThrough \/ priceThrough' = 0
    BY <2>2 DEF Next, RunStep, Begin, ListDemand, Fetch, Refused, Ingest, MarkRegion, MarkAll,
         SkipHistory, ListPrices, TruncatePrices, ImportPrices, RefreshPrices,
         TruncateVolumes, ImportVolumes, Resolve, Rebuild, Fail, Interrupt, DieWriting, Clear,
         Visit, Midnight, vars, cursors
  <2> QED
    BY <1>0, <1>3, <2>1, <2>2
<1>11. ASSUME NEW r \in Regions
       PROVE  marks'[r].through \in Nat /\ marks'[r].through <= c
  <2>1. ASSUME Begin PROVE marks'[r].through \in Nat /\ marks'[r].through <= c
    <3>1. marks'[r] = marks[r] \/ marks'[r].through = SyncedThrough(r)
      BY <2>1 DEF Begin
    <3>2. SyncedThrough(r) = marks[r].through \/ SyncedThrough(r) \in raw \cup {0}
      BY SyncedType
    <3>3. marks[r].through \in Nat /\ marks[r].through <= c
      BY <1>3
    <3>4. \A d \in raw \cup {0} : d \in Nat /\ d <= c
      BY <1>0, <1>3
    <3>5. SyncedThrough(r) \in Nat /\ SyncedThrough(r) <= c
      BY <3>2, <3>3, <3>4
    <3> QED
      BY <3>1, <3>3, <3>5
  <2>2. ASSUME MarkRegion PROVE marks'[r].through \in Nat /\ marks'[r].through <= c
    <3>1. PICK q \in run.regions :
            marks' = [marks EXCEPT ![q] =
                        [through |-> Later(marks[q].through, Covered(NewestExport)),
                         key |-> NewestExport]]
      BY <2>2 DEF MarkRegion
    <3> DEFINE new == [through |-> Later(marks[q].through, Covered(NewestExport)),
                       key |-> NewestExport]
    <3>2. marks' = [marks EXCEPT ![q] = new] /\ marks \in [Regions -> Mark]
          /\ new.through = Later(marks[q].through, Covered(NewestExport))
      BY <3>1 DEF AdamTypeOK
    <3> HIDE DEF new
    <3>3. /\ q # r => marks'[r] = marks[r]
          /\ q = r => marks'[r] = new
      BY <3>2
    <3> QED
      BY <1>0, <1>3, <1>8, <2>2, <3>2, <3>3, LaterIs DEF MarkRegion
  <2>3. ASSUME ~Begin, ~MarkRegion PROVE marks' = marks \/ marks'[r].through = 0
    <3>1. marks' = marks \/ marks' = [q \in Regions |-> NoMark]
      BY <2>3 DEF Next, RunStep, ListDemand, Fetch, Refused, Ingest, MarkAll, SkipHistory,
           ListPrices, TruncatePrices, ImportPrices, RefreshPrices, RecordCheck,
           TruncateVolumes, ImportVolumes, Resolve, Rebuild, Fail, Interrupt, DieWriting, Clear,
           Visit, Midnight, vars, cursors
    <3> QED
      BY <3>1 DEF NoMark
  <2>4. marks[r].through \in Nat /\ marks[r].through <= c
    BY <1>3
  <2>5. ASSUME marks' = marks
        PROVE  marks'[r].through \in Nat /\ marks'[r].through <= c
    BY <2>4, <2>5
  <2>6. ASSUME marks'[r].through = 0
        PROVE  marks'[r].through \in Nat /\ marks'[r].through <= c
    <3>1. 0 \in Nat /\ 0 <= c
      BY <1>0
    <3> QED
      BY <2>6, <3>1
  <2> QED
    BY <2>1, <2>2, <2>3, <2>5, <2>6
<1> DEFINE e == Covered(LatestExport)'
<1>12. c \in Nat /\ e \in Nat /\ c <= e
  BY <1>1 DEF c
<1>13. \A d \in (raw \cup price \cup {priceThrough, through})' : d <= e
  <2> HIDE DEF e
  <2> QED
    BY <1>6, <1>7, <1>9, <1>10, <1>12
<1>14. \A r \in Regions : marks'[r].through <= e
  <2> HIDE DEF e
  <2> QED
    BY <1>11, <1>12
<1> QED
  BY <1>13, <1>14 DEF NoneAhead, Behind, Covered

\* The three kinds are fetched at three places.
LEMMA FetchPcs ==
    /\ FetchOf["demand"] = "fetch demand" /\ FetchOf["price"] = "fetch price"
    /\ FetchOf["volume"] = "fetch volume"
    /\ \A kind \in Kinds : FetchOf[kind] \in {"fetch demand", "fetch price", "fetch volume"}
    /\ \A j, k \in Kinds : FetchOf[j] = FetchOf[k] => j = k
BY DEF FetchOf, Kinds

\* A run that is nowhere near a file has only to hold what it lists.
LEMMA NothingInHand ==
    ASSUME AdamTypeOK', run'.exports = {}, run'.left = {}, run'.held = FALSE,
           run'.pc \in {"idle", "history"}
    PROVE  RunInHand'
BY FetchPcs DEF RunInHand

\* Every step keeps account of the files that a run has listed, fetched and loaded.
LEMMA RunInHandStep ==
    ASSUME Lookback > 1, IInv, AdamTypeOK', [Next]_vars
    PROVE  RunInHand'
<1>1. /\ AdamTypeOK /\ Calendar /\ NoneAhead /\ RunInHand /\ DemandPhase /\ PricePhase
      /\ ListedWeeks \subseteq ListedWeeks'
      /\ LatestExport \in 1..Weeks /\ LatestExport' \in 1..Weeks
      /\ LatestExport <= LatestExport'
  BY DaysPass DEF IInv
<1>2. /\ run \in Run /\ run.exports \subseteq ListedWeeks /\ run.left \subseteq run.exports
      /\ run.exports \subseteq 1..Weeks /\ FilesKept /\ today \in 2..LastDay
  BY <1>1, FilesStay, LooksBack DEF AdamTypeOK, RunInHand, Run
<1>3. ASSUME UNCHANGED run PROVE RunInHand'
  <2>1. /\ run'.exports \subseteq ListedWeeks' /\ run'.left \subseteq run'.exports
        /\ run'.held => run'.pc = "import price" /\ run'.left = run'.exports
        /\ run'.pc = "mark" => run'.exports # {} /\ run'.left = {}
    BY <1>1, <1>2, <1>3 DEF RunInHand
  <2>2. run'.pc = "list" =>
          run'.since \in Sinces /\ run'.latest \in Span(run'.since, LatestExport')
    BY <1>1, <1>3 DEF RunInHand, Span
  <2>3. \A kind \in Kinds :
          run'.pc = FetchOf[kind] => \A w \in run'.exports \ run'.left : files'[kind][w] # None
    BY <1>1, <1>2, <1>3 DEF RunInHand, FilesKept
  <2>4. run'.pc \in {"import price", "record"} =>
          \A w \in run'.exports : files'["price"][w] # None
    BY <1>1, <1>2, <1>3 DEF RunInHand, FilesKept, Kinds
  <2> QED
    BY <2>1, <2>2, <2>3, <2>4 DEF RunInHand, Span, Sinces, LastDay, Covered
<1>4. ASSUME Begin PROVE RunInHand'
  <2>1. /\ run'.pc \in {"history", "list"} /\ run'.latest = LatestExport
        /\ run'.since = DemandSince /\ run'.exports = {} /\ run'.left = {} /\ run'.held = FALSE
    BY <1>1, <1>4, LooksBack, BeginRun
  <2>2. DemandSince \in Sinces /\ LatestExport \in Span(DemandSince, LatestExport)
    BY <1>1, LooksBack
  <2>3. LatestExport \in Span(DemandSince, LatestExport')
    BY <1>1, <2>2 DEF Span
  <2> QED
    BY <2>1, <2>2, <2>3, FetchPcs DEF RunInHand, Span, Sinces, LastDay, Covered
<1>5. ASSUME Refused \/ Fail \/ Interrupt \/ Rebuild \/ \E kind \in Kinds : DieWriting(kind)
      PROVE  RunInHand'
  <2>1. run' = Ended("failed") \/ run' = Ended("success")
    BY <1>5 DEF Refused, Fail, Interrupt, Rebuild, DieWriting
  <2> QED
    BY <1>1, <2>1, EndedIs, NothingInHand
<1>6. ASSUME ListDemand \/ ListPrices \/ RecordCheck PROVE RunInHand'
  <2>1. \E since : run'.exports = ExportsSince(since) /\ run'.left = ExportsSince(since)
    BY <1>2, <1>6 DEF ListDemand, ListPrices, RecordCheck, Run
  <2>2. run'.pc \in {"fetch demand", "fetch price", "fetch volume"} /\ run'.held = run.held
    BY <1>2, <1>6 DEF ListDemand, ListPrices, RecordCheck, Run
  <2>3. ~run.held
    BY <1>1, <1>6 DEF RunInHand, ListDemand, ListPrices, RecordCheck
  <2>4. run'.exports \subseteq ListedWeeks' /\ run'.left = run'.exports
    BY <1>1, <1>2, <2>1, ExportsType
  <2> QED
    BY <2>2, <2>3, <2>4 DEF RunInHand
<1>7. ASSUME NEW kind \in Kinds, Fetch(kind) PROVE RunInHand'
  <2> DEFINE w == Min(run.left)
  <2>1. /\ run' = [run EXCEPT !.left = run.left \ {w}] /\ run.pc = FetchOf[kind]
        /\ w \in run.left /\ w \in 1..Weeks /\ files'[kind][w] # None
    BY <1>1, <1>7, NextWeek, FetchIs DEF Fetch, Fetching
  <2> HIDE DEF w
  <2>2. /\ run'.pc = run.pc /\ run'.exports = run.exports /\ run'.left = run.left \ {w}
        /\ run'.held = run.held
    BY <1>2, <2>1 DEF Run
  <2>3. ASSUME NEW k \in Kinds, run'.pc = FetchOf[k], NEW v \in run'.exports \ run'.left
        PROVE  files'[k][v] # None
    <3>1. k = kind /\ v \in 1..Weeks
      BY <1>2, <2>1, <2>2, <2>3, FetchPcs
    <3>2. v = w \/ v \in run.exports \ run.left
      BY <2>2
    <3>3. v # w => files[kind][v] # None
      BY <1>1, <2>1, <3>2 DEF RunInHand
    <3> QED
      BY <1>2, <2>1, <3>1, <3>3 DEF FilesKept
  <2>4. run'.pc \notin {"list", "mark", "import price", "record"} /\ ~run'.held
    BY <1>1, <2>1, <2>2, FetchPcs DEF RunInHand
  <2> QED
    BY <1>1, <1>2, <2>2, <2>3, <2>4 DEF RunInHand
<1>8. ASSUME Ingest PROVE RunInHand'
  <2>1. run.pc = "fetch demand" /\ run.left = {} /\ run.exports # {}
    BY <1>1, <1>8, FetchPcs DEF Ingest, Fetched, DemandPhase
  <2>2. /\ run'.pc = "mark" /\ run'.exports = run.exports /\ run'.left = run.left
        /\ run'.held = run.held
    BY <1>2, <1>8 DEF Ingest, Run
  <2> QED
    BY <1>1, <2>1, <2>2, FetchPcs DEF RunInHand
<1>9. ASSUME MarkRegion PROVE RunInHand'
  <2>1. /\ run.pc = "mark" /\ run'.pc = "mark" /\ run'.exports = run.exports
        /\ run'.left = run.left /\ run'.held = run.held
    BY <1>2, <1>9 DEF MarkRegion, Run
  <2> QED
    BY <1>1, <2>1, FetchPcs DEF RunInHand
<1>10. ASSUME MarkAll PROVE RunInHand'
  <2>1. /\ run.pc = "mark" /\ run'.pc = "history" /\ run'.exports = {}
        /\ run'.left = run.left /\ run'.held = run.held
    BY <1>2, <1>10 DEF MarkAll, Run
  <2>2. run'.left = {} /\ run'.held = FALSE
    BY <1>1, <1>2, <2>1 DEF RunInHand, Run
  <2> QED
    BY <2>1, <2>2, NothingInHand
<1>11. ASSUME SkipHistory \/ Resolve PROVE RunInHand'
  <2>1. /\ run.pc # "import price" /\ run'.pc \in {"resolve", "rebuild"}
        /\ run'.exports = run.exports /\ run'.left = run.left /\ run'.held = run.held
    BY <1>2, <1>11 DEF SkipHistory, Resolve, Run
  <2> QED
    BY <1>1, <1>2, <2>1, FetchPcs DEF RunInHand
<1>12. ASSUME TruncatePrices PROVE RunInHand'
  <2>1. /\ run.pc = "fetch price" /\ run.left = {} /\ run'.pc = "import price"
        /\ run'.exports = run.exports /\ run'.left = run.exports
    BY <1>2, <1>12, FetchPcs DEF TruncatePrices, Fetched, Run
  <2>2. \A w \in run.exports : files'["price"][w] # None
    <3>1. \A w \in run.exports : files["price"][w] # None
      BY <1>1, <2>1, FetchPcs DEF RunInHand, Kinds
    <3> QED
      BY <1>2, <3>1 DEF FilesKept, Kinds
  <2> QED
    BY <1>1, <1>2, <2>1, <2>2, FetchPcs DEF RunInHand
<1>13. ASSUME ImportPrices PROVE RunInHand'
  <2>1. /\ run.pc = "import price" /\ run'.pc = "import price" /\ run'.held = FALSE
        /\ run'.exports = run.exports /\ run'.left \subseteq run.left
    BY <1>2, <1>13 DEF ImportPrices, Run
  <2>2. \A w \in run.exports : files'["price"][w] # None
    <3>1. \A w \in run.exports : files["price"][w] # None
      BY <1>1, <2>1 DEF RunInHand
    <3> QED
      BY <1>2, <3>1 DEF FilesKept, Kinds
  <2> QED
    BY <1>1, <1>2, <2>1, <2>2, FetchPcs DEF RunInHand
<1>14. ASSUME RefreshPrices PROVE RunInHand'
  <2>1. /\ run.pc \in {"fetch price", "import price"} /\ run.left = {} /\ run'.pc = "record"
        /\ run'.exports = run.exports /\ run'.left = run.left /\ run'.held = run.held
    BY <1>2, <1>14, FetchPcs DEF RefreshPrices, Fetched, Run
  <2>2. ~run.held
    BY <1>1, <2>1, RecordsSome DEF RunInHand
  <2>3. \A w \in run.exports : files'["price"][w] # None
    <3>1. \A w \in run.exports : files["price"][w] # None
      BY <1>1, <2>1, FetchPcs DEF RunInHand, Kinds
    <3> QED
      BY <1>2, <3>1 DEF FilesKept, Kinds
  <2> QED
    BY <1>1, <1>2, <2>1, <2>2, <2>3, FetchPcs DEF RunInHand
<1>15. ASSUME TruncateVolumes \/ ImportVolumes PROVE RunInHand'
  <2>1. /\ run.pc # "import price" /\ run'.pc \in {"import volume", "resolve"}
        /\ run'.exports = run.exports /\ run'.left \subseteq run.exports /\ run'.held = run.held
    <3>1. ASSUME TruncateVolumes
          PROVE  /\ run.pc # "import price" /\ run'.pc \in {"import volume", "resolve"}
                 /\ run'.exports = run.exports /\ run'.left \subseteq run.exports
                 /\ run'.held = run.held
      BY <1>2, <3>1, FetchPcs DEF TruncateVolumes, Fetched, Run
    <3>2. ASSUME ImportVolumes
          PROVE  /\ run.pc # "import price" /\ run'.pc \in {"import volume", "resolve"}
                 /\ run'.exports = run.exports /\ run'.left \subseteq run.exports
                 /\ run'.held = run.held
      <4>1. /\ run.pc = "import volume"
            /\ \/ run' = [run EXCEPT !.pc = "resolve"]
               \/ run' = [run EXCEPT !.left = run.left \ {Min(run.left)}]
        BY <3>2 DEF ImportVolumes
      <4> QED
        BY <1>2, <4>1 DEF Run
    <3> QED
      BY <1>15, <3>1, <3>2
  <2> QED
    BY <1>1, <1>2, <2>1, FetchPcs DEF RunInHand
<1>16. ASSUME Clear PROVE RunInHand'
  <2>1. /\ run'.pc = run.pc /\ run'.exports = run.exports /\ run'.left = run.left
        /\ run'.held = run.held /\ run'.since = run.since /\ run'.latest = run.latest
        /\ files' = files
    BY <1>2, <1>16 DEF Clear, Run
  <2>2. run'.pc = "list" =>
          run'.since \in Sinces /\ run'.latest \in Span(run'.since, LatestExport')
    BY <1>1, <2>1 DEF RunInHand, Span
  <2> QED
    BY <1>1, <1>2, <2>1, <2>2 DEF RunInHand, Span, Sinces, LastDay, Covered
<1>17. ASSUME Visit \/ Midnight \/ UNCHANGED vars PROVE UNCHANGED run
  BY <1>17 DEF Visit, Midnight, vars
<1> QED
  BY <1>3, <1>4, <1>5, <1>6, <1>7, <1>8, <1>9, <1>10, <1>11, <1>12, <1>13, <1>14, <1>15, <1>16,
     <1>17 DEF Next, RunStep

\* A step that leaves a run where it is, or brings it to one of these places.
LEMMA DemandPhaseStep ==
    ASSUME Lookback > 1, IInv, AdamTypeOK', [Next]_vars
    PROVE  DemandPhase'
<1>1. /\ AdamTypeOK /\ Calendar /\ NoneAhead /\ RunInHand /\ DemandPhase
      /\ LatestExport \in 1..Weeks /\ today \in 2..LastDay
  BY DaysPass DEF IInv
<1>2. run \in Run /\ run' \in Run
  BY <1>1 DEF AdamTypeOK
<1>3. ASSUME run'.pc = run.pc, run'.exports = run.exports, run'.since = run.since,
             \A r \in Regions : marks'[r].through = marks[r].through \/ marks'[r].through = 0
      PROVE  DemandPhase'
  <2> SUFFICES ASSUME run.pc = "fetch demand"
               PROVE  /\ run.since \in Sinces
                      /\ \E last \in run.exports :
                            /\ run.exports = Span(run.since, last)
                            /\ \A r \in Regions : marks'[r].through <= Covered(last)
    BY <1>3 DEF DemandPhase, Span, Sinces, LastDay, Covered
  <2>1. PICK last \in run.exports :
          /\ run.exports = Span(run.since, last)
          /\ \A r \in Regions : marks[r].through <= Covered(last)
    BY <1>1 DEF DemandPhase
  <2>2. last \in 1..Weeks
    BY <1>2 DEF Run
  <2>3. 0 <= Covered(last)
    BY <2>2, Calendar1
  <2>4. ASSUME NEW r \in Regions PROVE marks'[r].through <= Covered(last)
    BY <1>3, <2>1, <2>3
  <2> QED
    BY <1>1, <2>1, <2>4 DEF DemandPhase
<1>4. ASSUME ListDemand PROVE DemandPhase'
  <2>1. /\ run.pc = "list" /\ run'.since = run.since /\ run'.exports = ExportsSince(run.since)
        /\ marks' = marks
    BY <1>2, <1>4 DEF ListDemand, Run, cursors
  <2>2. /\ run.since \in Sinces /\ run.latest \in Span(run.since, LatestExport)
        /\ ExportsSince(run.since) = Span(run.since, LatestExport)
    BY <1>1, <2>1, ListedAre DEF RunInHand
  <2>3. LatestExport \in Span(run.since, LatestExport)
    <3>1. run.latest \in 1..LatestExport /\ Covered(run.latest) > run.since
      BY <2>2 DEF Span
    <3>2. run.latest \in 1..Weeks /\ Covered(run.latest) <= Covered(LatestExport)
      BY <1>1, <3>1, Calendar2, AdamAssumption
    <3>3. Covered(run.latest) \in Nat /\ Covered(LatestExport) \in Nat /\ run.since \in Int
      BY <1>1, <1>2, <3>2, Calendar1 DEF Run
    <3>4. Covered(LatestExport) > run.since
      BY <3>1, <3>2, <3>3
    <3> QED
      BY <1>1, <3>4 DEF Span
  <2>4. \A r \in Regions : marks'[r].through <= Covered(LatestExport)
    BY <1>1, <2>1 DEF NoneAhead, Behind
  <2> HIDE DEF LatestExport
  <2>5. /\ run'.since \in Sinces /\ LatestExport \in run'.exports
        /\ run'.exports = Span(run'.since, LatestExport)
    BY <2>1, <2>2, <2>3
  <2>6. /\ run'.since \in Sinces
        /\ \E last \in run'.exports :
              /\ run'.exports = Span(run'.since, last)
              /\ \A r \in Regions : marks'[r].through <= Covered(last)
    BY <2>4, <2>5
  <2> QED
    BY <2>6 DEF DemandPhase, Span, Sinces, LastDay, Covered
<1>5. ASSUME Visit \/ Midnight \/ UNCHANGED vars PROVE DemandPhase'
  BY <1>3, <1>5 DEF Visit, Midnight, vars, cursors
<1>6. ASSUME Clear PROVE DemandPhase'
  BY <1>2, <1>3, <1>6 DEF Clear, NoMark, Run
<1>7. ASSUME NEW kind \in Kinds, Fetch(kind) PROVE DemandPhase'
  BY <1>2, <1>3, <1>7 DEF Fetch, cursors, Run
<1>8. ASSUME Begin PROVE DemandPhase'
  <2>1. run'.pc \in {"history", "list"}
    BY <1>1, <1>8, LooksBack, BeginRun
  <2> QED
    BY <2>1 DEF DemandPhase
<1>9. ASSUME Refused \/ Fail \/ Interrupt \/ Rebuild \/ \E kind \in Kinds : DieWriting(kind)
      PROVE  DemandPhase'
  <2>1. run' = Ended("failed") \/ run' = Ended("success")
    BY <1>9 DEF Refused, Fail, Interrupt, Rebuild, DieWriting
  <2>2. run'.pc = "idle"
    BY <1>1, <2>1, EndedIs
  <2> QED
    BY <2>2 DEF DemandPhase
<1>10. ASSUME \/ Ingest \/ MarkRegion \/ MarkAll \/ SkipHistory \/ ListPrices \/ TruncatePrices
              \/ ImportPrices \/ RefreshPrices \/ RecordCheck \/ TruncateVolumes
              \/ Resolve
       PROVE  DemandPhase'
  <2>1. \/ run'.pc = run.pc /\ run.pc # "fetch demand"
        \/ run'.pc \in {"mark", "history", "resolve", "fetch price", "import price", "record",
                       "fetch volume", "import volume", "rebuild"}
    BY <1>2, <1>10 DEF Ingest, MarkRegion, MarkAll, SkipHistory, ListPrices, TruncatePrices,
       ImportPrices, RefreshPrices, RecordCheck, TruncateVolumes, Resolve, Run
  <2> QED
    BY <2>1 DEF DemandPhase
<1>11. ASSUME ImportVolumes PROVE DemandPhase'
  <2>1. run'.pc = "resolve" \/ run'.pc = "import volume"
    BY <1>2, <1>11 DEF ImportVolumes, Run
  <2> QED
    BY <2>1 DEF DemandPhase
<1> QED
  BY <1>4, <1>5, <1>6, <1>7, <1>8, <1>9, <1>10, <1>11 DEF Next, RunStep

\* The files of the prices are those of all weeks since the look back, until they are recorded,
\* although days end and cursors are cleared in between.
LEMMA PricePhaseStep ==
    ASSUME Lookback > 1, IInv, AdamTypeOK', [Next]_vars
    PROVE  PricePhase'
<1>1. /\ AdamTypeOK /\ Calendar /\ NoneAhead /\ RunInHand /\ PricePhase
      /\ LatestExport \in 1..Weeks /\ today \in 2..LastDay
      /\ today \in Nat /\ today' \in Nat /\ today <= today' /\ Lookback \in Nat
  BY DaysPass, Numbers DEF IInv
<1>2. run \in Run /\ run' \in Run
  BY <1>1 DEF AdamTypeOK
<1>3. ASSUME run.pc \in {"fetch price", "import price", "record"},
             run'.exports = run.exports, run'.since = run.since,
             priceThrough' = priceThrough \/ priceThrough' = 0
      PROVE  PricePhase'
  <2>1. PICK last \in run.exports :
          /\ run.exports = Span(run.since, last) /\ priceThrough <= Covered(last)
          /\ run.since <= today - Lookback \/ run.since <= Covered(last) - Lookback
    BY <1>1, <1>3 DEF PricePhase
  <2>2. last \in 1..Weeks /\ run.since \in Int /\ run.since \in Sinces
    BY <1>1, <1>2, <1>3 DEF Run, PricePhase
  <2>3. Covered(last) \in Nat
    BY <2>2, Calendar1
  <2>4. priceThrough' <= Covered(last)
    <3>1. CASE priceThrough' = priceThrough
      BY <2>1, <3>1
    <3>2. CASE priceThrough' = 0
      <4>1. \A n \in Nat : 0 <= n
        OBVIOUS
      <4> QED
        BY <2>3, <3>2, <4>1
    <3> QED
      BY <1>3, <3>1, <3>2
  <2>5. run.since <= today' - Lookback \/ run.since <= Covered(last) - Lookback
    BY <1>1, <2>1, <2>2
  <2>6. /\ run'.since \in Sinces
        /\ \E v \in run'.exports :
              /\ run'.exports = Span(run'.since, v) /\ priceThrough' <= Covered(v)
              /\ run'.since <= today' - Lookback \/ run'.since <= Covered(v) - Lookback
    BY <1>3, <2>1, <2>2, <2>4, <2>5
  <2> QED
    BY <2>6 DEF PricePhase, Span, Sinces, LastDay, Covered
<1>4. ASSUME ListPrices PROVE PricePhase'
  <2>1. /\ run'.since = PriceSince /\ run'.exports = ExportsSince(PriceSince)
        /\ priceThrough' = priceThrough /\ today' = today
    BY <1>2, <1>4 DEF ListPrices, Run, cursors, outside
  <2>2. /\ PriceSince \in Sinces
        /\ LatestExport \in Span(PriceSince, LatestExport)
        /\ PriceSince <= today - Lookback \/ PriceSince <= Covered(LatestExport) - Lookback
    BY <1>1, LooksBack
  <2>3. ExportsSince(PriceSince) = Span(PriceSince, LatestExport)
    BY <1>1, ListedAre
  <2>4. priceThrough <= Covered(LatestExport)
    BY <1>1 DEF NoneAhead, Behind
  <2>5. /\ run'.since \in Sinces
        /\ \E last \in run'.exports :
              /\ run'.exports = Span(run'.since, last) /\ priceThrough' <= Covered(last)
              /\ run'.since <= today' - Lookback \/ run'.since <= Covered(last) - Lookback
    BY <2>1, <2>2, <2>3, <2>4
  <2> QED
    BY <2>5 DEF PricePhase, Span, Sinces, LastDay, Covered
<1>5. ASSUME UNCHANGED <<run, priceThrough>> \/ Clear
      PROVE  PricePhase'
  <2>1. /\ run'.pc = run.pc /\ run'.exports = run.exports /\ run'.since = run.since
        /\ priceThrough' = priceThrough \/ priceThrough' = 0
    BY <1>2, <1>5 DEF Clear, Run
  <2>2. CASE run.pc \in {"fetch price", "import price", "record"}
    BY <1>3, <2>1, <2>2
  <2>3. CASE run.pc \notin {"fetch price", "import price", "record"}
    BY <2>1, <2>3 DEF PricePhase
  <2> QED
    BY <2>2, <2>3
<1>6. ASSUME NEW kind \in Kinds, Fetch(kind) PROVE PricePhase'
  <2>1. /\ run'.pc = run.pc /\ run'.exports = run.exports /\ run'.since = run.since
        /\ priceThrough' = priceThrough
    BY <1>2, <1>6 DEF Fetch, cursors, Run
  <2>2. CASE run.pc = "fetch price"
    BY <1>3, <2>1, <2>2
  <2>3. CASE run.pc # "fetch price"
    <3>1. run.pc \in {"fetch demand", "fetch volume"}
      BY <1>6, <2>3, FetchPcs DEF Fetch, Fetching
    <3> QED
      BY <2>1, <3>1 DEF PricePhase
  <2> QED
    BY <2>2, <2>3
<1>7. ASSUME TruncatePrices \/ ImportPrices \/ RefreshPrices PROVE PricePhase'
  BY <1>2, <1>3, <1>7, FetchPcs DEF TruncatePrices, ImportPrices, RefreshPrices, Fetched, cursors,
     Run
<1>8. ASSUME Begin PROVE PricePhase'
  <2>1. run'.pc \in {"history", "list"}
    BY <1>1, <1>8, LooksBack, BeginRun
  <2> QED
    BY <2>1 DEF PricePhase
<1>9. ASSUME Refused \/ Fail \/ Interrupt \/ Rebuild \/ \E kind \in Kinds : DieWriting(kind)
      PROVE  PricePhase'
  <2>1. run' = Ended("failed") \/ run' = Ended("success")
    BY <1>9 DEF Refused, Fail, Interrupt, Rebuild, DieWriting
  <2>2. run'.pc = "idle"
    BY <1>1, <2>1, EndedIs
  <2> QED
    BY <2>2 DEF PricePhase
<1>10. ASSUME \/ ListDemand \/ Ingest \/ MarkRegion \/ MarkAll \/ SkipHistory \/ RecordCheck
              \/ TruncateVolumes \/ Resolve
       PROVE  PricePhase'
  <2>1. run'.pc \notin {"fetch price", "import price", "record"}
    BY <1>2, <1>10 DEF ListDemand, Ingest, MarkRegion, MarkAll, SkipHistory, RecordCheck,
       TruncateVolumes, Resolve, Run
  <2> QED
    BY <2>1 DEF PricePhase
<1>11. ASSUME ImportVolumes PROVE PricePhase'
  <2>1. run'.pc = "resolve" \/ run'.pc = "import volume"
    BY <1>2, <1>11 DEF ImportVolumes, Run
  <2> QED
    BY <2>1 DEF PricePhase
<1>12. ASSUME Visit \/ Midnight \/ UNCHANGED vars PROVE PricePhase'
  BY <1>5, <1>12 DEF Visit, Midnight, vars, cursors
<1> QED
  BY <1>4, <1>5, <1>6, <1>7, <1>8, <1>9, <1>10, <1>11, <1>12 DEF Next, RunStep

-----------------------------------------------------------------------------
(* Tables and their files                                                  *)

\* The rows of files that are there stay the same.
LEMMA RowsStay ==
    ASSUME FilesKept, NEW kind \in Kinds, NEW W \in SUBSET (1..Weeks),
           \A w \in W : files[kind][w] # None
    PROVE  /\ \A w \in W : DatesIn(kind, w)' = DatesIn(kind, w)
           /\ \A w \in W : files'[kind][w] # None
           /\ UNION {DatesIn(kind, w)' : w \in W} = UNION {DatesIn(kind, w) : w \in W}
<1>1. \A w \in W : files'[kind][w] = files[kind][w]
  BY DEF FilesKept
<1>2. \A w \in W : DatesIn(kind, w)' = DatesIn(kind, w)
  BY <1>1 DEF DatesIn, FirstOf, FirstDate, Dates
<1> QED
  BY <1>1, <1>2

\* A table that is loaded stays so, and there is as much published as there was.
LEMMA LoadedStays ==
    ASSUME AdamTypeOK, FilesKept, NEW kind \in Kinds, NEW since \in Int, NEW last \in 1..Weeks,
           NEW table, Loaded(kind, table, Span(since, last))
    PROVE  /\ table = UNION {DatesIn(kind, w)' : w \in Span(since, last)}
           /\ \A w \in Span(since, last) : files'[kind][w] # None
<1> DEFINE W == Span(since, last)
<1>1. W \in SUBSET (1..Weeks)
  BY AdamAssumption DEF Span
<1>2. table = UNION {DatesIn(kind, w) : w \in W} /\ \A w \in W : files[kind][w] # None
  BY DEF Loaded
<1> HIDE DEF W
<1>3. /\ table = UNION {DatesIn(kind, w)' : w \in W}
      /\ \A w \in W : files'[kind][w] # None
  BY <1>1, <1>2, RowsStay
<1> QED
  BY <1>3 DEF W

\* The price table of a run that met no clearing is the files it has imported.
LEMMA PriceTableStep ==
    ASSUME Lookback > 1, IInv, AdamTypeOK', [Next]_vars
    PROVE  PriceTable'
<1>1. /\ AdamTypeOK /\ Calendar /\ NoneAhead /\ RunInHand /\ PricePhase /\ PriceTable
      /\ FilesKept /\ run \in Run /\ run.exports \in SUBSET (1..Weeks)
  BY FilesStay DEF IInv, AdamTypeOK, Run
<1>2. run.pc \in {"import price", "record"} =>
        /\ \A w \in run.exports : DatesIn("price", w)' = DatesIn("price", w)
        /\ \A w \in run.exports : files["price"][w] # None
  BY <1>1, RowsStay DEF RunInHand, Kinds
<1>3. ASSUME run'.pc \notin {"import price", "record"} \/ ~run'.alone
      PROVE  PriceTable'
  BY <1>3 DEF PriceTable
<1>4. ASSUME run'.pc = run.pc, run'.exports = run.exports, run'.left = run.left,
             run'.held = run.held, run'.alone = run.alone, price' = price
      PROVE  PriceTable'
  <2> SUFFICES ASSUME run.alone, run.pc \in {"import price", "record"}
               PROVE  PriceTable'
    BY <1>4 DEF PriceTable
  <2>1. ASSUME run.pc = "import price", ~run.held
        PROVE  price' = UNION {DatesIn("price", w)' : w \in run.exports \ run.left}
    <3>1. price = UNION {DatesIn("price", w) : w \in run.exports \ run.left}
      BY <1>1, <2>1 DEF PriceTable
    <3> QED
      BY <1>2, <1>4, <2>1, <3>1
  <2>2. ASSUME run.pc = "record"
        PROVE  price' = UNION {DatesIn("price", w)' : w \in run.exports}
    <3>1. price = UNION {DatesIn("price", w) : w \in run.exports}
      BY <1>1, <2>2 DEF PriceTable
    <3> QED
      BY <1>2, <1>4, <2>2, <3>1
  <2> QED
    BY <1>4, <2>1, <2>2 DEF PriceTable
<1>5. ASSUME TruncatePrices PROVE PriceTable'
  <2>1. run'.pc = "import price" /\ run'.held
    BY <1>1, <1>5 DEF TruncatePrices, Run
  <2> QED
    BY <2>1 DEF PriceTable
<1>6. ASSUME ImportPrices PROVE PriceTable'
  <2> DEFINE w == Min(run.left)
  <2>1. /\ run.pc = "import price" /\ w \in run.left /\ run.left \subseteq run.exports
        /\ run.held => run.left = run.exports
        /\ price' = (IF run.held THEN {} ELSE price) \cup DatesIn("price", w)
        /\ run' = [run EXCEPT !.left = run.left \ {w}, !.held = FALSE]
    BY <1>1, <1>6, NextWeek DEF ImportPrices, RunInHand
  <2> HIDE DEF w
  <2>2. /\ run'.pc = run.pc /\ run'.exports = run.exports /\ run'.left = run.left \ {w}
        /\ run'.alone = run.alone
    BY <1>1, <2>1 DEF Run
  <2>3. ASSUME run.alone
        PROVE  price' = UNION {DatesIn("price", v)' : v \in run.exports \ run'.left}
    <3>1. run.exports \ run'.left = (run.exports \ run.left) \cup {w}
      BY <2>1, <2>2
    <3>2. (IF run.held THEN {} ELSE price)
             = UNION {DatesIn("price", v) : v \in run.exports \ run.left}
      <4>1. CASE run.held
        BY <2>1, <4>1
      <4>2. CASE ~run.held
        BY <1>1, <2>1, <2>3, <4>2 DEF PriceTable
      <4> QED
        BY <4>1, <4>2
    <3>3. price' = UNION {DatesIn("price", v) : v \in (run.exports \ run.left) \cup {w}}
      <4> DEFINE A == run.exports \ run.left
                 B == IF run.held THEN {} ELSE price
      <4>1. price' = B \cup DatesIn("price", w) /\ B = UNION {DatesIn("price", v) : v \in A}
        BY <2>1, <3>2
      <4> HIDE DEF A, B
      <4>2. price' = UNION {DatesIn("price", v) : v \in A \cup {w}}
        BY <4>1
      <4> QED
        BY <4>2 DEF A
    <3>4. \A v \in (run.exports \ run.left) \cup {w} : DatesIn("price", v)' = DatesIn("price", v)
      BY <1>2, <2>1
    <3> QED
      BY <3>1, <3>3, <3>4
  <2> QED
    BY <2>1, <2>2, <2>3 DEF PriceTable
<1>7. ASSUME RefreshPrices PROVE PriceTable'
  <2>1. /\ run'.pc = "record" /\ run'.exports = run.exports /\ run'.alone = run.alone
        /\ price' = price
    BY <1>1, <1>7 DEF RefreshPrices, Run
  <2>2. run.exports # {}
    BY <1>1, <1>7, RecordsSome, FetchPcs DEF RefreshPrices, Fetched
  <2>3. run.pc = "import price" /\ run.left = {} /\ ~run.held
    BY <1>1, <1>7, <2>2 DEF RefreshPrices, RunInHand
  <2>4. ASSUME run.alone PROVE price' = UNION {DatesIn("price", w)' : w \in run.exports}
    <3>1. price = UNION {DatesIn("price", w) : w \in run.exports \ run.left}
      BY <1>1, <2>3, <2>4 DEF PriceTable
    <3>2. run.exports \ run.left = run.exports
      BY <2>3
    <3> QED
      BY <1>2, <2>1, <2>3, <3>1, <3>2
  <2> QED
    BY <2>1, <2>4 DEF PriceTable
<1>8. ASSUME Begin PROVE PriceTable'
  <2>1. run'.pc \in {"history", "list"}
    BY <1>1, <1>8, LooksBack, BeginRun
  <2> QED
    BY <1>3, <2>1
<1>9. ASSUME Refused \/ Fail \/ Interrupt \/ Rebuild \/ \E kind \in Kinds : DieWriting(kind)
      PROVE  PriceTable'
  <2>1. run' = Ended("failed") \/ run' = Ended("success")
    BY <1>9 DEF Refused, Fail, Interrupt, Rebuild, DieWriting
  <2> QED
    BY <1>1, <1>3, <2>1, EndedIs
<1>10. ASSUME \/ ListDemand \/ Ingest \/ MarkRegion \/ MarkAll \/ SkipHistory \/ RecordCheck
              \/ ListPrices \/ TruncateVolumes \/ Resolve \/ Clear
       PROVE  PriceTable'
  <2>1. run'.pc \notin {"import price", "record"} \/ run'.alone = FALSE
    BY <1>1, <1>10 DEF ListDemand, Ingest, MarkRegion, MarkAll, SkipHistory, RecordCheck,
       ListPrices, TruncateVolumes, Resolve, Clear, Run
  <2> QED
    BY <1>3, <2>1
<1>11. ASSUME ImportVolumes PROVE PriceTable'
  <2>1. run'.pc = "resolve" \/ run'.pc = "import volume"
    BY <1>1, <1>11 DEF ImportVolumes, Run
  <2> QED
    BY <1>3, <2>1
<1>12. ASSUME NEW kind \in Kinds, Fetch(kind) PROVE PriceTable'
  <2>1. run'.pc \in {"fetch demand", "fetch price", "fetch volume"}
    BY <1>1, <1>12, FetchPcs DEF Fetch, Fetching, Run
  <2> QED
    BY <1>3, <2>1
<1>13. ASSUME Visit \/ Midnight \/ UNCHANGED vars PROVE PriceTable'
  BY <1>4, <1>13 DEF Visit, Midnight, vars, tables
<1> QED
  BY <1>5, <1>6, <1>7, <1>8, <1>9, <1>10, <1>11, <1>12, <1>13 DEF Next, RunStep

\* Without a target market nothing of the demand is ever listed.
LEMMA NobodyAsksStep ==
    ASSUME Lookback > 1, IInv, AdamTypeOK', [Next]_vars
    PROVE  NobodyAsks'
<1>1. /\ AdamTypeOK /\ Calendar /\ NoneAhead /\ RunInHand /\ NobodyAsks /\ run \in Run
  BY DEF IInv, AdamTypeOK
<1> SUFFICES ASSUME Regions = {}
             PROVE  /\ run'.pc \notin {"list", "fetch demand"}
                    /\ \A w \in 1..Weeks : files'["demand"][w] = None
  BY DEF NobodyAsks
<1>2. run.pc \notin {"list", "fetch demand"} /\ \A w \in 1..Weeks : files["demand"][w] = None
  BY <1>1 DEF NobodyAsks
<1>3. run'.pc \notin {"list", "fetch demand"}
  <2>1. ASSUME Begin PROVE run'.pc \notin {"list", "fetch demand"}
    <3>1. ToFetch = {}
      BY DEF ToFetch
    <3> QED
      BY <1>1, <2>1, <3>1, LooksBack, BeginRun
  <2>2. ASSUME Refused \/ Fail \/ Interrupt \/ Rebuild \/ \E kind \in Kinds : DieWriting(kind)
        PROVE  run'.pc \notin {"list", "fetch demand"}
    <3>1. run' = Ended("failed") \/ run' = Ended("success")
      BY <2>2 DEF Refused, Fail, Interrupt, Rebuild, DieWriting
    <3> QED
      BY <1>1, <3>1, EndedIs
  <2>3. ASSUME \/ Ingest \/ MarkRegion \/ MarkAll \/ SkipHistory \/ RecordCheck \/ ListPrices
               \/ TruncatePrices \/ ImportPrices \/ RefreshPrices \/ TruncateVolumes \/ Resolve
        PROVE  run'.pc \notin {"list", "fetch demand"}
    <3>1. \/ run'.pc = run.pc
          \/ run'.pc \in {"mark", "history", "resolve", "fetch price", "import price", "record",
                         "fetch volume", "import volume", "rebuild"}
      BY <1>1, <2>3 DEF Ingest, MarkRegion, MarkAll, SkipHistory, RecordCheck, ListPrices,
         TruncatePrices, ImportPrices, RefreshPrices, TruncateVolumes, Resolve, Run
    <3> QED
      BY <1>2, <3>1
  <2>4. ASSUME ImportVolumes \/ Clear \/ \E kind \in Kinds : Fetch(kind)
        PROVE  run'.pc \notin {"list", "fetch demand"}
    <3>1. run'.pc = run.pc \/ run'.pc = "resolve"
      BY <1>1, <2>4 DEF ImportVolumes, Clear, Fetch, Run
    <3> QED
      BY <1>2, <3>1
  <2>5. ASSUME Visit \/ Midnight \/ UNCHANGED vars
        PROVE  run'.pc \notin {"list", "fetch demand"}
    BY <1>2, <2>5 DEF Visit, Midnight, vars
  <2> QED
    BY <1>2, <2>1, <2>2, <2>3, <2>4, <2>5 DEF Next, RunStep, ListDemand
<1>4. ASSUME NEW w \in 1..Weeks PROVE files'["demand"][w] = None
  <2>1. ASSUME files' = files PROVE files'["demand"][w] = None
    BY <1>2, <2>1
  <2>2. ASSUME NEW kind \in Kinds, Fetch(kind) PROVE files'["demand"][w] = None
    <3>1. kind # "demand"
      BY <1>2, <2>2, FetchPcs DEF Fetch, Fetching
    <3> QED
      BY <1>1, <1>2, <2>2, <3>1, FetchIs DEF Kinds
  <2>3. ASSUME NEW kind \in Kinds, DieWriting(kind) PROVE files'["demand"][w] = None
    <3>1. kind # "demand"
      BY <1>2, <2>3, FetchPcs DEF DieWriting, Fetching
    <3>2. PICK v, n : files' = [files EXCEPT ![kind][v] = n]
      BY <2>3 DEF DieWriting
    <3>3. files'["demand"] = files["demand"]
      BY <1>1, <3>1, <3>2 DEF AdamTypeOK, Kinds
    <3> QED
      BY <1>2, <3>3
  <2> QED
    BY <2>1, <2>2, <2>3 DEF Next, RunStep, Begin, ListDemand, Refused, Ingest, MarkRegion, MarkAll,
       SkipHistory, ListPrices, TruncatePrices, ImportPrices, RefreshPrices, RecordCheck,
       TruncateVolumes, ImportVolumes, Resolve, Rebuild, Fail, Interrupt, Clear, Visit, Midnight,
       vars
<1> QED
  BY <1>3, <1>4

\* Looks back are numbers, of days that may be before the first.
LEMMA SincesAre ==
    Sinces \subseteq Int
<1>1. LastDay \in Nat /\ Lookback \in Nat
  BY Calendar3, AdamAssumption
<1> QED
  BY <1>1 DEF Sinces

\* The weeks of the last import of the demand, and how far its regions may be marked.
Imported(since, last) ==
    /\ Loaded("demand", raw, Span(since, last))
    /\ \A r \in Regions : marks[r].through <= Covered(last)
    /\ run.pc = "mark" => \A w \in run.exports : w <= last

\* The demand rows stay those of one import: a run that failed before it marked a region leaves
\* marks of earlier ones, which reach no further.
LEMMA RawWholeStep ==
    ASSUME Lookback > 1, IInv, AdamTypeOK', [Next]_vars
    PROVE  RawWhole'
<1>0. /\ AdamTypeOK /\ Calendar /\ NoneAhead /\ RunInHand /\ DemandPhase /\ RawWhole
      /\ Sinces \subseteq Int
  BY SincesAre DEF IInv
<1>1. /\ AdamTypeOK /\ Calendar /\ NoneAhead /\ RunInHand /\ DemandPhase /\ RawWhole
      /\ Sinces \subseteq Int
      /\ FilesKept /\ run \in Run /\ run.exports \in SUBSET (1..Weeks)
      /\ ListedWeeks \subseteq ListedWeeks' /\ ListedWeeks \subseteq 1..Weeks
  BY <1>0, FilesStay, DaysPass DEF AdamTypeOK, Run, ListedWeeks
<1>2. ASSUME NEW since \in Sinces, NEW last \in ListedWeeks,
             raw' = UNION {DatesIn("demand", w)' : w \in Span(since, last)},
             \A w \in Span(since, last) : files'["demand"][w] # None,
             \A r \in Regions : marks'[r].through <= Covered(last),
             run'.pc = "mark" => \A w \in run'.exports : w <= last
      PROVE  RawWhole'
  <2>1. since \in Sinces' /\ last \in ListedWeeks'
    BY <1>1 DEF Sinces, LastDay
  <2>2. Imported(since, last)'
    BY <1>2 DEF Imported, Loaded, Span, Covered
  <2> QED
    BY <2>1, <2>2 DEF RawWhole, Imported, Loaded, Span, Covered
<1>3. ASSUME raw # {}
      PROVE  \E since \in Sinces, last \in ListedWeeks : Imported(since, last)
  BY <1>1, <1>3 DEF RawWhole, Imported
<1>4. ASSUME NEW since \in Sinces, NEW last \in ListedWeeks, Imported(since, last)
      PROVE  /\ raw = UNION {DatesIn("demand", w)' : w \in Span(since, last)}
             /\ \A w \in Span(since, last) : files'["demand"][w] # None
             /\ \A r \in Regions : marks[r].through <= Covered(last)
             /\ raw = UNION {DatesIn("demand", w) : w \in Span(since, last)}
             /\ last \in 1..Weeks /\ 0 <= Covered(last) /\ Covered(last) \in Nat
             /\ run.pc = "mark" => \A w \in run.exports : w <= last
  <2>1. since \in Int /\ last \in 1..Weeks
    BY <1>1
  <2>2. Loaded("demand", raw, Span(since, last))
    BY <1>4 DEF Imported
  <2>3. /\ raw = UNION {DatesIn("demand", w)' : w \in Span(since, last)}
        /\ \A w \in Span(since, last) : files'["demand"][w] # None
    BY <1>1, <2>1, <2>2, LoadedStays DEF Kinds
  <2> QED
    BY <1>4, <2>1, <2>2, <2>3, Calendar1 DEF Imported, Loaded
<1>5. ASSUME raw' = raw, marks' = marks,
             run'.pc = "mark" => run.pc = "mark" /\ run'.exports = run.exports
      PROVE  RawWhole'
  <2>1. CASE raw = {}
    BY <1>5, <2>1 DEF RawWhole
  <2>2. CASE raw # {}
    <3>1. PICK since \in Sinces, last \in ListedWeeks : Imported(since, last)
      BY <1>3, <2>2
    <3> QED
      BY <1>2, <1>4, <1>5, <3>1
  <2> QED
    BY <2>1, <2>2
<1>6. ASSUME Ingest PROVE RawWhole'
  <2>1. run.pc = "fetch demand" /\ run.left = {}
    BY <1>6, FetchPcs DEF Ingest, Fetched
  <2>2. PICK last \in run.exports :
          /\ run.exports = Span(run.since, last)
          /\ \A r \in Regions : marks[r].through <= Covered(last)
    BY <1>1, <2>1 DEF DemandPhase
  <2>3. run.since \in Sinces /\ last \in ListedWeeks /\ run.exports # {}
    BY <1>1, <2>1, <2>2 DEF DemandPhase, RunInHand
  <2>4. /\ raw' = UNION {DatesIn("demand", w) : w \in run.exports} /\ marks' = marks
        /\ run'.exports = run.exports
    BY <1>1, <1>6, <2>3 DEF Ingest, cursors, Run
  <2>5. \A w \in run.exports : files["demand"][w] # None
    BY <1>1, <2>1, FetchPcs DEF RunInHand, Kinds
  <2>6. /\ UNION {DatesIn("demand", w)' : w \in run.exports}
             = UNION {DatesIn("demand", w) : w \in run.exports}
        /\ \A w \in run.exports : files'["demand"][w] # None
    BY <1>1, <2>5, RowsStay DEF Kinds
  <2>7. \A w \in run.exports : w <= last
    BY <2>2 DEF Span
  <2> QED
    BY <1>2, <2>2, <2>3, <2>4, <2>6, <2>7
<1>7. ASSUME MarkRegion PROVE RawWhole'
  <2>1. run.pc = "mark" /\ run'.exports = run.exports /\ raw' = raw
    BY <1>1, <1>7 DEF MarkRegion, tables, Run
  <2>2. CASE raw = {}
    BY <2>1, <2>2 DEF RawWhole
  <2>3. CASE raw # {}
    <3>1. PICK since \in Sinces, last \in ListedWeeks : Imported(since, last)
      BY <1>3, <2>3
    <3>2. /\ \A r \in Regions : marks[r].through <= Covered(last)
          /\ last \in 1..Weeks /\ Covered(last) \in Nat
          /\ \A w \in run.exports : w <= last
      BY <1>4, <2>1, <3>1
    <3>3. NewestExport \in 1..Weeks /\ NewestExport <= last
      BY <1>1, <2>1, <3>2, NewestIs DEF RunInHand
    <3>4. Covered(NewestExport) \in Nat /\ Covered(NewestExport) <= Covered(last)
      BY <3>2, <3>3, Calendar1, Calendar2
    <3>5. ASSUME NEW r \in Regions PROVE marks'[r].through <= Covered(last)
      <4>1. PICK q \in run.regions :
              marks' = [marks EXCEPT ![q] =
                          [through |-> Later(marks[q].through, Covered(NewestExport)),
                           key |-> NewestExport]]
        BY <1>7 DEF MarkRegion
      <4> DEFINE new == [through |-> Later(marks[q].through, Covered(NewestExport)),
                         key |-> NewestExport]
      <4>2. marks' = [marks EXCEPT ![q] = new] /\ marks \in [Regions -> Mark]
            /\ new.through = Later(marks[q].through, Covered(NewestExport))
        BY <1>1, <4>1 DEF AdamTypeOK
      <4> HIDE DEF new
      <4>3. (q # r => marks'[r] = marks[r]) /\ (q = r => marks'[r] = new)
        BY <4>2
      <4>4. marks[r].through \in Nat /\ marks[r].through <= Covered(last)
        BY <1>1, <3>2, Numbers
      <4>5. Later(marks[r].through, Covered(NewestExport)) <= Covered(last)
        BY <3>2, <3>4, <4>4, LaterIs
      <4> QED
        BY <4>2, <4>3, <4>4, <4>5
    <3> QED
      BY <1>2, <1>4, <2>1, <3>1, <3>2, <3>5
  <2> QED
    BY <2>2, <2>3
<1>8. ASSUME Begin PROVE RawWhole'
  <2>1. run'.pc \in {"history", "list"} /\ raw' = raw
    BY <1>1, <1>8, LooksBack, BeginRun DEF Begin, tables
  <2>2. CASE raw = {}
    BY <2>1, <2>2 DEF RawWhole
  <2>3. CASE raw # {}
    <3>1. PICK since \in Sinces, last \in ListedWeeks : Imported(since, last)
      BY <1>3, <2>3
    <3>2. /\ \A r \in Regions : marks[r].through <= Covered(last)
          /\ last \in 1..Weeks /\ Covered(last) \in Nat /\ 0 <= Covered(last)
          /\ raw = UNION {DatesIn("demand", w) : w \in Span(since, last)}
      BY <1>4, <3>1
    <3>3. ASSUME NEW d \in raw PROVE d <= Covered(last)
      <4>1. PICK w \in Span(since, last) : d \in DatesIn("demand", w)
        BY <3>2
      <4>2. w \in 1..Weeks /\ w <= last
        BY <3>2, <4>1, AdamAssumption DEF Span
      <4>3. d \in Nat /\ d <= Covered(w)
        BY <1>1, <4>1, <4>2, RowsOfWeek DEF Kinds
      <4>4. Covered(w) \in Nat /\ Covered(w) <= Covered(last)
        BY <3>2, <4>2, Calendar1, Calendar2
      <4> QED
        BY <3>2, <4>3, <4>4
    <3>4. ASSUME NEW r \in Regions PROVE marks'[r].through <= Covered(last)
      <4>1. marks'[r] = marks[r] \/ marks'[r].through = SyncedThrough(r)
        BY <1>8 DEF Begin
      <4>2. SyncedThrough(r) = marks[r].through \/ SyncedThrough(r) \in raw \cup {0}
        BY <1>1, SyncedType
      <4>3. marks[r].through <= Covered(last)
        BY <3>2
      <4>4. SyncedThrough(r) <= Covered(last)
        BY <3>2, <3>3, <4>2, <4>3
      <4> QED
        BY <4>1, <4>3, <4>4
    <3> QED
      BY <1>2, <1>4, <2>1, <3>1, <3>4
  <2> QED
    BY <2>2, <2>3
<1>9. ASSUME Clear PROVE RawWhole'
  BY <1>9 DEF Clear, RawWhole
<1>10. ASSUME Refused \/ Fail \/ Interrupt \/ Rebuild \/ \E kind \in Kinds : DieWriting(kind)
       PROVE  RawWhole'
  <2>1. run' = Ended("failed") \/ run' = Ended("success")
    BY <1>10 DEF Refused, Fail, Interrupt, Rebuild, DieWriting
  <2>2. run'.pc = "idle"
    BY <1>1, <2>1, EndedIs
  <2>3. raw' = raw /\ marks' = marks
    BY <1>10 DEF Refused, Fail, Interrupt, Rebuild, DieWriting, tables, cursors
  <2> QED
    BY <1>5, <2>2, <2>3
<1>11. ASSUME \/ ListDemand \/ MarkAll \/ SkipHistory \/ RecordCheck \/ ListPrices
              \/ TruncatePrices \/ ImportPrices \/ RefreshPrices \/ TruncateVolumes \/ Resolve
       PROVE  RawWhole'
  <2>1. run'.pc \in {"fetch demand", "history", "resolve", "fetch price", "import price",
                     "record", "fetch volume", "import volume", "rebuild"}
    BY <1>1, <1>11 DEF ListDemand, MarkAll, SkipHistory, RecordCheck, ListPrices,
       TruncatePrices, ImportPrices, RefreshPrices, TruncateVolumes, Resolve, Run
  <2>2. raw' = raw /\ marks' = marks
    BY <1>11 DEF ListDemand, MarkAll, SkipHistory, RecordCheck, ListPrices,
       TruncatePrices, ImportPrices, RefreshPrices, TruncateVolumes, Resolve, tables, cursors
  <2> QED
    BY <1>5, <2>1, <2>2
<1>12. ASSUME ImportVolumes PROVE RawWhole'
  <2>1. /\ run'.pc = "resolve" \/ run'.pc = "import volume"
        /\ raw' = raw /\ marks' = marks
    BY <1>1, <1>12 DEF ImportVolumes, Run, cursors
  <2> QED
    BY <1>5, <2>1
<1>13. ASSUME NEW kind \in Kinds, Fetch(kind) PROVE RawWhole'
  <2>1. run'.pc \in {"fetch demand", "fetch price", "fetch volume"}
    BY <1>1, <1>13, FetchPcs DEF Fetch, Fetching, Run
  <2> QED
    BY <1>5, <1>13, <2>1 DEF Fetch, tables, cursors
<1>14. ASSUME Visit \/ Midnight \/ UNCHANGED vars PROVE RawWhole'
  BY <1>5, <1>14 DEF Visit, Midnight, vars, tables, cursors
<1> QED
  BY <1>6, <1>7, <1>8, <1>9, <1>10, <1>11, <1>12, <1>13, <1>14 DEF Next, RunStep

\* The weeks of the last import of the prices, which begin with those that a look back from
\* the cursor, or from today, would begin with.
PricedFrom(since, last) ==
    /\ Loaded("price", price, Span(since, last)) /\ priceThrough <= Covered(last)
    /\ \/ since <= today - Lookback
       \/ priceThrough # 0 /\ since <= priceThrough - Lookback

\* What is so long before a day is so long before a later one.
LEMMA BackFrom ==
    ASSUME NEW since \in Int, NEW a \in Nat, NEW b \in Nat, NEW n \in Nat, a <= b, since <= a - n
    PROVE  since <= b - n
OBVIOUS

\* Periods follow a table that stays, if they are left or computed anew.
LEMMA PricesFollowStay ==
    ASSUME price' = price, priced' = priced \/ priced' = Latest(price), PricesFollow
    PROVE  PricesFollow'
BY DEF PricesFollow, Latest

\* A run that succeeded undisturbed has refreshed the periods, if it has prices.
LEMMA RefreshedAre ==
    ASSUME run.exports # {}, RefreshPrices
    PROVE  PricesFollow'
BY DEF RefreshPrices, Refreshed, PricesFollow, Latest

\* Prices that were checked stay those of one import until a step spoils them, the day ends or
\* they are cleared.
LEMMA PricesWholeStep ==
    ASSUME Lookback > 1, IInv, AdamTypeOK', [Next]_vars
    PROVE  PricesWhole'
<1>0. /\ AdamTypeOK /\ Calendar /\ NoneAhead /\ RunInHand /\ PricePhase /\ PriceTable
      /\ PricesWhole /\ DerivedSoFar /\ Sinces \subseteq Int
  BY SincesAre DEF IInv
<1>1. /\ FilesKept /\ run \in Run /\ run.exports \in SUBSET (1..Weeks)
      /\ today \in Nat /\ today' \in Nat /\ today <= today' /\ today \in 2..LastDay
      /\ ListedWeeks \subseteq ListedWeeks' /\ ListedWeeks \subseteq 1..Weeks
  BY <1>0, FilesStay, DaysPass DEF AdamTypeOK, Run, ListedWeeks
<1>2. ASSUME NEW since \in Sinces, NEW last \in ListedWeeks,
             price' = UNION {DatesIn("price", w)' : w \in Span(since, last)},
             \A w \in Span(since, last) : files'["price"][w] # None,
             priceThrough' <= Covered(last),
             \/ since <= today' - Lookback
             \/ priceThrough' # 0 /\ since <= priceThrough' - Lookback,
             run'.pc # "import price", PricesFollow'
      PROVE  PricesWhole'
  <2>1. since \in Sinces' /\ last \in ListedWeeks'
    BY <1>1 DEF Sinces, LastDay
  <2>2. PricedFrom(since, last)'
    BY <1>2 DEF PricedFrom, Loaded, Span, Covered
  <2> QED
    BY <1>2, <2>1, <2>2 DEF PricesWhole, PricedFrom, Loaded, Span, Covered
<1>3. ASSUME checked' = checked, spoilt' = spoilt, priceThrough' = priceThrough,
             checked /\ spoilt = "no" =>
                /\ price' = price /\ run'.pc # "import price"
                /\ priced' = priced \/ priced' = Latest(price)
      PROVE  PricesWhole'
  <2>1. CASE ~(checked /\ spoilt = "no")
    BY <1>3, <2>1 DEF PricesWhole
  <2>2. CASE checked /\ spoilt = "no"
    <3>1. /\ run.pc # "import price" /\ PricesFollow
          /\ \E since \in Sinces, last \in ListedWeeks : PricedFrom(since, last)
      BY <1>0, <2>2 DEF PricesWhole, PricedFrom
    <3>2. PICK since \in Sinces, last \in ListedWeeks : PricedFrom(since, last)
      BY <3>1
    <3>3. since \in Int /\ last \in 1..Weeks /\ Lookback \in Nat
      BY <1>0, <1>1, AdamAssumption
    <3>4. Loaded("price", price, Span(since, last)) /\ priceThrough <= Covered(last)
          /\ \/ since <= today - Lookback
             \/ priceThrough # 0 /\ since <= priceThrough - Lookback
      BY <3>2 DEF PricedFrom
    <3>5. /\ price = UNION {DatesIn("price", w)' : w \in Span(since, last)}
          /\ \A w \in Span(since, last) : files'["price"][w] # None
      BY <1>0, <1>1, <3>3, <3>4, LoadedStays DEF Kinds
    <3>6. \/ since <= today' - Lookback
          \/ priceThrough' # 0 /\ since <= priceThrough' - Lookback
      <4>1. since <= today - Lookback => since <= today' - Lookback
        BY <1>1, <3>3, BackFrom
      <4> QED
        BY <1>3, <3>4, <4>1
    <3>7. PricesFollow'
      BY <1>3, <2>2, <3>1, PricesFollowStay
    <3> QED
      BY <1>2, <1>3, <2>2, <3>4, <3>5, <3>6, <3>7
  <2> QED
    BY <2>1, <2>2
<1>4. ASSUME RecordCheck PROVE PricesWhole'
  <2>1. CASE ~run.alone
    BY <1>4, <2>1 DEF RecordCheck, PricesWhole
  <2>2. CASE run.alone
    <3> DEFINE last == Max(run.exports)
    <3>1. run.pc = "record"
      BY <1>4 DEF RecordCheck
    <3>2. /\ run.exports # {} /\ last \in 1..Weeks
          /\ priceThrough <= Covered(last)
          /\ run.exports = Span(run.since, last)
          /\ run.since \in Sinces
          /\ run.since <= today - Lookback \/ run.since <= Covered(last) - Lookback
          /\ last \in run.exports
      BY <1>0, <3>1, RecordsSome, NewestIs
    <3>3. /\ priceThrough' = Later(priceThrough, Covered(last))
          /\ price' = price /\ priced' = priced /\ today' = today
          /\ run'.pc = "fetch volume"
      BY <1>1, <1>4, <3>2 DEF RecordCheck, tables, periods, outside, Run
    <3> HIDE DEF last
    <3>4. Covered(last) \in Nat /\ Covered(last) \in Dates /\ priceThrough \in Nat
          /\ Covered(last) > 0
      BY <1>0, <3>2, Calendar1, Numbers DEF Dates
    <3>5. priceThrough' = Covered(last)
      BY <3>2, <3>3, <3>4, LaterIs
    <3>6. price = UNION {DatesIn("price", w) : w \in run.exports} /\ PricesFollow
      BY <1>0, <2>2, <3>1 DEF PriceTable, DerivedSoFar
    <3>7. \A w \in run.exports : files["price"][w] # None
      BY <1>0, <3>1 DEF RunInHand
    <3>8. /\ price = UNION {DatesIn("price", w)' : w \in run.exports}
          /\ \A w \in run.exports : files'["price"][w] # None
      BY <1>1, <3>6, <3>7, RowsStay DEF Kinds
    <3>9. PricesFollow'
      BY <3>3, <3>6, PricesFollowStay
    <3>10. last \in ListedWeeks
      BY <1>0, <3>2 DEF RunInHand
    <3>11. \/ run.since <= today' - Lookback
           \/ priceThrough' # 0 /\ run.since <= priceThrough' - Lookback
      <4>1. CASE run.since <= today - Lookback
        BY <3>3, <4>1
      <4>2. CASE run.since <= Covered(last) - Lookback
        BY <3>4, <3>5, <4>2
      <4> QED
        BY <3>2, <4>1, <4>2
    <3>12. priceThrough' <= Covered(last)
      BY <3>4, <3>5
    <3> QED
      BY <1>2, <3>2, <3>3, <3>8, <3>9, <3>10, <3>11, <3>12
  <2> QED
    BY <2>1, <2>2
<1>5. ASSUME TruncatePrices PROVE PricesWhole'
  <2>1. ~(checked' /\ spoilt' = "no")
    BY <1>5 DEF TruncatePrices, cursors
  <2> QED
    BY <2>1 DEF PricesWhole
<1>6. ASSUME Clear \/ Midnight PROVE PricesWhole'
  BY <1>6 DEF Clear, Midnight, PricesWhole
<1>7. checked /\ spoilt = "no" => run.pc # "import price" /\ ~run.held
  BY <1>0 DEF PricesWhole, RunInHand
<1>8. ASSUME ImportPrices \/ RefreshPrices PROVE PricesWhole'
  <2>1. run.pc = "import price"
    BY <1>0, <1>8, FetchPcs, RecordsSome DEF ImportPrices, RefreshPrices, Fetched
  <2>2. ~(checked' /\ spoilt' = "no")
    BY <1>7, <1>8, <2>1 DEF ImportPrices, RefreshPrices, cursors
  <2> QED
    BY <2>2 DEF PricesWhole
<1>9. ASSUME Begin PROVE PricesWhole'
  <2>1. run'.pc \in {"history", "list"}
    BY <1>0, <1>9, LooksBack, BeginRun
  <2> QED
    BY <1>3, <1>9, <2>1 DEF Begin, tables, periods, outside
<1>10. ASSUME Refused \/ Fail \/ Interrupt \/ Rebuild \/ \E kind \in Kinds : DieWriting(kind)
       PROVE  PricesWhole'
  <2>1. run' = Ended("failed") \/ run' = Ended("success")
    BY <1>10 DEF Refused, Fail, Interrupt, Rebuild, DieWriting
  <2>2. run'.pc = "idle"
    BY <1>0, <2>1, EndedIs
  <2>3. /\ checked' = checked /\ spoilt' = spoilt /\ priceThrough' = priceThrough
        /\ price' = price \/ run.held
        /\ priced' = priced
    BY <1>10 DEF Refused, Fail, Interrupt, Rebuild, DieWriting, tables, cursors, periods
  <2> QED
    BY <1>3, <1>7, <2>2, <2>3
<1>11. ASSUME \/ ListDemand \/ Ingest \/ MarkRegion \/ MarkAll \/ SkipHistory \/ ListPrices
              \/ TruncateVolumes \/ Resolve
       PROVE  PricesWhole'
  <2>1. run'.pc \in {"fetch demand", "mark", "history", "resolve", "fetch price", "import volume",
                     "rebuild"}
    BY <1>1, <1>11 DEF ListDemand, Ingest, MarkRegion, MarkAll, SkipHistory, ListPrices,
       TruncateVolumes, Resolve, Run
  <2>2. /\ checked' = checked /\ spoilt' = spoilt /\ priceThrough' = priceThrough
        /\ price' = price /\ priced' = priced
    BY <1>11 DEF ListDemand, Ingest, MarkRegion, MarkAll, SkipHistory, ListPrices,
       TruncateVolumes, Resolve, tables, cursors, periods
  <2> QED
    BY <1>3, <2>1, <2>2
<1>12. ASSUME ImportVolumes PROVE PricesWhole'
  <2>1. run'.pc = "resolve" \/ run'.pc = "import volume"
    BY <1>1, <1>12 DEF ImportVolumes, Run
  <2> QED
    BY <1>3, <1>12, <2>1 DEF ImportVolumes, cursors
<1>13. ASSUME NEW kind \in Kinds, Fetch(kind) PROVE PricesWhole'
  <2>1. run'.pc \in {"fetch demand", "fetch price", "fetch volume"}
    BY <1>1, <1>13, FetchPcs DEF Fetch, Fetching, Run
  <2> QED
    BY <1>3, <1>13, <2>1 DEF Fetch, tables, cursors, periods
<1>14. ASSUME Visit \/ UNCHANGED vars PROVE PricesWhole'
  BY <1>3, <1>7, <1>14 DEF Visit, vars, cursors, periods
<1> QED
  BY <1>4, <1>5, <1>6, <1>8, <1>9, <1>10, <1>11, <1>12, <1>13, <1>14 DEF Next, RunStep

\* A run that met no clearing keeps what it has derived, whatever pages compute meanwhile.
LEMMA DerivedSoFarStep ==
    ASSUME Lookback > 1, IInv, AdamTypeOK', [Next]_vars
    PROVE  DerivedSoFar'
<1>1. /\ AdamTypeOK /\ Calendar /\ NoneAhead /\ RunInHand /\ PricePhase /\ PricesWhole
      /\ DerivedSoFar /\ run \in Run
  BY DEF IInv, AdamTypeOK
<1> DEFINE Late == {"fetch volume", "import volume", "resolve", "rebuild"}
<1>2. ASSUME run'.pc \notin Late \cup {"record"} \/ ~run'.alone
      PROVE  DerivedSoFar'
  BY <1>2 DEF DerivedSoFar
<1>3. ASSUME run'.alone => run.alone, run'.pc = run.pc \/ (run.pc \in Late /\ run'.pc \in Late),
             spoilt' = spoilt, price' = price, priced' = priced \/ priced' = Latest(price),
             run'.pc = "rebuild" =>
                \/ demand' = raw'
                \/ run.pc = "rebuild" /\ demand' = demand /\ raw' = raw
      PROVE  DerivedSoFar'
  <2> SUFFICES ASSUME run'.alone, run'.pc \in Late \cup {"record"}
               PROVE  DerivedSoFar'
    BY <1>2
  <2>1. run'.pc = "record" => PricesFollow'
    BY <1>1, <1>3, PricesFollowStay DEF DerivedSoFar
  <2>2. run'.pc \in Late /\ spoilt' = "no" => PricesFollow'
    BY <1>1, <1>3, PricesFollowStay DEF DerivedSoFar
  <2>3. run'.pc = "rebuild" => demand' = raw'
    BY <1>1, <1>3 DEF DerivedSoFar
  <2> QED
    BY <2>1, <2>2, <2>3 DEF DerivedSoFar
<1>4. ASSUME RefreshPrices PROVE DerivedSoFar'
  <2>1. run.exports # {}
    BY <1>1, <1>4, RecordsSome, FetchPcs DEF RefreshPrices, Fetched
  <2>2. PricesFollow' /\ run'.pc = "record"
    BY <1>1, <1>4, <2>1, RefreshedAre DEF RefreshPrices, Run
  <2> QED
    BY <2>2 DEF DerivedSoFar
<1>5. ASSUME RecordCheck PROVE DerivedSoFar'
  <2>1. /\ run.pc = "record" /\ run'.pc = "fetch volume" /\ run'.alone = run.alone
        /\ price' = price /\ priced' = priced
    BY <1>1, <1>5 DEF RecordCheck, Run, tables, periods
  <2>2. run.alone => PricesFollow'
    BY <1>1, <2>1, PricesFollowStay DEF DerivedSoFar
  <2> QED
    BY <2>1, <2>2 DEF DerivedSoFar
<1>6. ASSUME SkipHistory PROVE DerivedSoFar'
  <2>1. /\ run'.pc = "resolve" /\ run'.alone = run.alone /\ spoilt' = spoilt
        /\ price' = price /\ priced' = priced /\ checked
    BY <1>1, <1>6 DEF SkipHistory, CheckedToday, Run, tables, periods
  <2>2. spoilt = "no" => PricesFollow'
    BY <1>1, <2>1, PricesFollowStay DEF PricesWhole
  <2> QED
    BY <2>1, <2>2 DEF DerivedSoFar
<1>7. ASSUME Resolve PROVE DerivedSoFar'
  <2>1. /\ run.pc = "resolve" /\ run'.pc = "rebuild" /\ run'.alone = run.alone
        /\ demand' = raw' /\ price' = price /\ priced' = priced /\ spoilt' = spoilt
    BY <1>1, <1>7 DEF Resolve, Run, periods
  <2> QED
    BY <1>3, <2>1
<1>8. ASSUME TruncateVolumes \/ ImportVolumes PROVE DerivedSoFar'
  <2>1. run.pc \in Late
    BY <1>8, FetchPcs DEF TruncateVolumes, Fetched, ImportVolumes
  <2>2. run'.pc \in {"import volume", "resolve"} /\ run'.alone = run.alone
    <3>1. TruncateVolumes => run'.pc \in {"import volume", "resolve"} /\ run'.alone = run.alone
      BY <1>1 DEF TruncateVolumes, Run
    <3>2. ASSUME ImportVolumes
          PROVE  run'.pc \in {"import volume", "resolve"} /\ run'.alone = run.alone
      <4>1. /\ run.pc = "import volume"
            /\ \/ run' = [run EXCEPT !.pc = "resolve"]
               \/ run' = [run EXCEPT !.left = run.left \ {Min(run.left)}]
        BY <3>2 DEF ImportVolumes
      <4> QED
        BY <1>1, <4>1 DEF Run
    <3> QED
      BY <1>8, <3>1, <3>2
  <2>3. price' = price /\ priced' = priced /\ spoilt' = spoilt
    BY <1>8 DEF TruncateVolumes, ImportVolumes, periods
  <2> QED
    BY <1>3, <2>1, <2>2, <2>3
<1>9. ASSUME NEW kind \in Kinds, Fetch(kind) PROVE DerivedSoFar'
  <2>1. run'.pc = run.pc /\ run'.alone = run.alone /\ run.pc # "rebuild"
    BY <1>1, <1>9, FetchPcs DEF Fetch, Fetching, Run
  <2> QED
    BY <1>3, <1>9, <2>1 DEF Fetch, tables, periods
<1>10. ASSUME Begin PROVE DerivedSoFar'
  <2>1. run'.pc \in {"history", "list"}
    BY <1>1, <1>10, LooksBack, BeginRun
  <2> QED
    BY <1>2, <2>1
<1>11. ASSUME Refused \/ Fail \/ Interrupt \/ Rebuild \/ \E kind \in Kinds : DieWriting(kind)
       PROVE  DerivedSoFar'
  <2>1. run' = Ended("failed") \/ run' = Ended("success")
    BY <1>11 DEF Refused, Fail, Interrupt, Rebuild, DieWriting
  <2>2. run'.pc = "idle"
    BY <1>1, <2>1, EndedIs
  <2> QED
    BY <1>2, <2>2
<1>12. ASSUME \/ ListDemand \/ Ingest \/ MarkRegion \/ MarkAll \/ ListPrices \/ TruncatePrices
              \/ ImportPrices
       PROVE  DerivedSoFar'
  <2>1. run'.pc \in {"fetch demand", "mark", "history", "fetch price", "import price"}
    BY <1>1, <1>12 DEF ListDemand, Ingest, MarkRegion, MarkAll, ListPrices, TruncatePrices,
       ImportPrices, Run
  <2> QED
    BY <1>2, <2>1
<1>13. ASSUME Clear PROVE DerivedSoFar'
  <2>1. run'.alone = FALSE
    BY <1>1, <1>13 DEF Clear, Run
  <2> QED
    BY <1>2, <2>1
<1>14. ASSUME Visit PROVE DerivedSoFar'
  <2>1. /\ run' = run /\ spoilt' = spoilt /\ price' = price /\ raw' = raw
        /\ priced' = priced \/ priced' = Latest(price)
        /\ demand' = raw \/ demand' = demand
    BY <1>14 DEF Visit
  <2> QED
    BY <1>3, <2>1
<1>15. ASSUME Midnight \/ UNCHANGED vars PROVE DerivedSoFar'
  BY <1>3, <1>15 DEF Midnight, vars, tables, periods
<1> QED
  BY <1>4, <1>5, <1>6, <1>7, <1>8, <1>9, <1>10, <1>11, <1>12, <1>13, <1>14, <1>15
  DEF Next, RunStep

\* After its success nobody but pages writes what it derived, and they derive the same.
LEMMA DerivedFollowsStep ==
    ASSUME Lookback > 1, IInv, AdamTypeOK', [Next]_vars
    PROVE  DerivedFollows'
<1>1. /\ AdamTypeOK /\ Calendar /\ NoneAhead /\ DerivedSoFar /\ DerivedFollows /\ run \in Run
  BY DEF IInv, AdamTypeOK
<1>2. ASSUME run'.pc # "idle" \/ run'.verdict # "success" \/ ~run'.alone
      PROVE  DerivedFollows'
  BY <1>2 DEF DerivedFollows
<1>3. ASSUME run' = run, spoilt' = spoilt, price' = price, raw' = raw,
             priced' = priced \/ priced' = Latest(price),
             demand' = raw \/ demand' = demand
      PROVE  DerivedFollows'
  <2>1. Latest(price)' = Latest(price)
    BY <1>3 DEF Latest
  <2> SUFFICES ASSUME run.verdict = "success", run.alone, run.pc = "idle"
               PROVE  /\ demand' = raw'
                      /\ spoilt' = "no" /\ price' \cap Traded # {} => priced' = Latest(price)'
    BY <1>3 DEF DerivedFollows
  <2>2. /\ demand = raw
        /\ spoilt = "no" /\ price \cap Traded # {} => priced = Latest(price)
    BY <1>1 DEF DerivedFollows
  <2> QED
    BY <1>3, <2>1, <2>2
<1>4. ASSUME Rebuild PROVE DerivedFollows'
  <2>1. /\ run.pc = "rebuild" /\ run'.alone = run.alone
        /\ raw' = raw /\ price' = price /\ demand' = demand /\ priced' = priced
        /\ spoilt' = spoilt
    BY <1>1, <1>4, EndedIs DEF Rebuild, tables, periods
  <2>2. run.alone => demand = raw /\ (spoilt = "no" => PricesFollow)
    BY <1>1, <2>1 DEF DerivedSoFar
  <2>3. PricesFollow => PricesFollow'
    BY <2>1, PricesFollowStay
  <2> QED
    BY <2>1, <2>2, <2>3 DEF DerivedFollows, PricesFollow
<1>5. ASSUME Refused \/ Fail \/ Interrupt \/ \E kind \in Kinds : DieWriting(kind)
      PROVE  DerivedFollows'
  <2>1. run' = Ended("failed")
    BY <1>5 DEF Refused, Fail, Interrupt, DieWriting
  <2>2. run'.verdict = "failed"
    BY <1>1, <2>1, EndedIs
  <2> QED
    BY <1>2, <2>2
<1>6. ASSUME Begin PROVE DerivedFollows'
  <2>1. run'.pc \in {"history", "list"}
    BY <1>1, <1>6, LooksBack, BeginRun
  <2> QED
    BY <1>2, <2>1
<1>7. ASSUME \/ ListDemand \/ Ingest \/ MarkRegion \/ MarkAll \/ SkipHistory \/ RecordCheck
             \/ ListPrices \/ TruncatePrices \/ ImportPrices \/ RefreshPrices \/ TruncateVolumes
             \/ Resolve
      PROVE  DerivedFollows'
  <2>1. \/ run'.pc = run.pc /\ run.pc \in {"mark", "import price"}
        \/ run'.pc \in {"fetch demand", "mark", "history", "resolve", "fetch price",
                       "import price", "record", "fetch volume", "import volume", "rebuild"}
    BY <1>1, <1>7 DEF ListDemand, Ingest, MarkRegion, MarkAll, SkipHistory, RecordCheck, ListPrices,
       TruncatePrices, ImportPrices, RefreshPrices, TruncateVolumes, Resolve, Run
  <2> QED
    BY <1>2, <2>1
<1>8. ASSUME ImportVolumes PROVE DerivedFollows'
  <2>1. run'.pc = "resolve" \/ run'.pc = "import volume"
    BY <1>1, <1>8 DEF ImportVolumes, Run
  <2> QED
    BY <1>2, <2>1
<1>9. ASSUME NEW kind \in Kinds, Fetch(kind) PROVE DerivedFollows'
  <2>1. run'.pc \in {"fetch demand", "fetch price", "fetch volume"}
    BY <1>1, <1>9, FetchPcs DEF Fetch, Fetching, Run
  <2> QED
    BY <1>2, <2>1
<1>10. ASSUME Clear PROVE DerivedFollows'
  <2>1. run'.alone = FALSE
    BY <1>1, <1>10 DEF Clear, Run
  <2> QED
    BY <1>2, <2>1
<1>11. ASSUME Visit PROVE DerivedFollows'
  <2>1. /\ run' = run /\ spoilt' = spoilt /\ price' = price /\ raw' = raw
        /\ priced' = priced \/ priced' = Latest(price)
        /\ demand' = raw \/ demand' = demand
    BY <1>11 DEF Visit
  <2> QED
    BY <1>3, <2>1
<1>12. ASSUME Midnight \/ UNCHANGED vars PROVE DerivedFollows'
  BY <1>3, <1>12 DEF Midnight, vars, tables, periods
<1> QED
  BY <1>4, <1>5, <1>6, <1>7, <1>8, <1>9, <1>10, <1>11, <1>12 DEF Next, RunStep

-----------------------------------------------------------------------------
(* The theorems                                                            *)

\* Nothing is loaded at first.
LEMMA InitInvariant ==
    Init => IInv
<1> SUFFICES ASSUME Init
             PROVE  IInv
  OBVIOUS
<1>1. LastDay \in Nat /\ LastDay > 1 /\ AdamAssumption
  BY Calendar3, AdamAssumption
<1>2. today = 2 /\ today \in 2..LastDay
  BY <1>1 DEF Init
<1>3. /\ run = NoRun /\ run \in Run /\ run.pc = "idle" /\ run.exports = {} /\ run.left = {}
      /\ run.held = FALSE /\ run.verdict = "none"
  BY AdamAssumption DEF Init, NoRun, Run
<1>4. files \in [Kinds -> [1..Weeks -> Cut..WeekDays]]
  <2>1. None \in Cut..WeekDays
    BY AdamAssumption DEF None, Cut
  <2> QED
    BY <2>1 DEF Init
<1>5. marks \in [Regions -> Mark]
  <2>1. NoMark \in Mark
    BY AdamAssumption DEF NoMark, Mark
  <2> QED
    BY <2>1 DEF Init
<1>6. AdamTypeOK
  <2>1. failures \in 0..MaxFailures /\ clears \in 0..MaxClears
    BY AdamAssumption DEF Init
  <2>2. {raw, price, volume, demand, priced, volumed} \subseteq SUBSET Dates
    BY DEF Init
  <2>3. /\ {through, priceThrough} \subseteq {0} \cup Dates /\ checked \in BOOLEAN
        /\ spoilt \in {"no", "rerun", "cleared"}
    BY DEF Init
  <2>4. today \in 1..LastDay
    BY <1>1, <1>2
  <2> QED
    BY <1>3, <1>4, <1>5, <2>1, <2>2, <2>3, <2>4 DEF AdamTypeOK
<1>7. LatestExport \in 1..Weeks /\ Covered(LatestExport) \in Nat /\ Covered(LatestExport) > 0
  BY <1>2, ListedAre, Calendar1 DEF Dates
<1>8. Calendar
  BY <1>2, <1>7 DEF Calendar
<1>9. NoneAhead
  BY <1>7 DEF Init, NoneAhead, Behind, NoMark
<1>10. RunInHand /\ DemandPhase /\ PricePhase /\ PriceTable
  BY <1>3, FetchPcs DEF RunInHand, DemandPhase, PricePhase, PriceTable
<1>11. RawWhole /\ PricesWhole /\ NobodyAsks
  BY <1>3 DEF Init, RawWhole, PricesWhole, NobodyAsks, Kinds
<1>12. DerivedSoFar /\ DerivedFollows
  BY <1>3 DEF DerivedSoFar, DerivedFollows
<1> QED
  BY <1>6, <1>8, <1>9, <1>10, <1>11, <1>12 DEF IInv

\* Between two imports a table is the files of weeks that follow each other.  It takes a
\* look back of more than one day: if it is one day then a run on the first day of a week
\* finds no file that is new enough, and leaves the periods of its prices as they are.
THEOREM Invariant ==
    ASSUME Lookback > 1
    PROVE  Spec => []IInv
<1>1. ASSUME IInv, [Next]_vars
      PROVE  IInv'
  <2>1. AdamTypeOK'
    BY <1>1, TypeStep
  <2>2. Calendar'
    BY <1>1, DaysPass DEF IInv
  <2>3. NoneAhead'
    BY <1>1, <2>1, NoneAheadStep DEF IInv
  <2>4. RunInHand' /\ DemandPhase' /\ PricePhase' /\ PriceTable'
    BY <1>1, <2>1, RunInHandStep, DemandPhaseStep, PricePhaseStep, PriceTableStep
  <2>5. RawWhole' /\ NobodyAsks' /\ PricesWhole' /\ DerivedSoFar' /\ DerivedFollows'
    BY <1>1, <2>1, RawWholeStep, NobodyAsksStep, PricesWholeStep, DerivedSoFarStep,
       DerivedFollowsStep
  <2> QED
    BY <2>1, <2>2, <2>3, <2>4, <2>5 DEF IInv
<1> QED
  BY <1>1, InitInvariant, PTL DEF Spec

\* _ingest_adam4eve_market_data and its history: a run that succeeds undisturbed leaves demand
\* and price periods of exactly the rows there are, whatever runs died before it.
THEOREM SuccessDerives ==
    ASSUME Lookback > 1
    PROVE  Spec => []DerivedFollows
<1>1. IInv => DerivedFollows
  BY DEF IInv
<1> QED
  BY <1>1, Invariant, PTL

\* A run that finds every region synced leaves no row of its files behind: the mark of a region
\* goes no further than the last week of the rows there are, and the first row no later than
\* the look back, so that the weeks between, being consecutive, are all among them.
LEMMA SyncedIsWhole ==
    ASSUME Lookback > 1, IInv, Begin, run'.pc = "history"
    PROVE  KeptSince("demand", run'.since) \subseteq raw
<1>1. /\ AdamTypeOK /\ Calendar /\ NoneAhead /\ RawWhole /\ NobodyAsks
      /\ Sinces \subseteq Int
  BY SincesAre DEF IInv
<1>2. /\ today \in 2..LastDay /\ DemandSince \in Int
      /\ run'.since = DemandSince /\ ToFetch = {}
  <2>1. today \in 2..LastDay /\ DemandSince \in Int
    BY <1>1, LooksBack
  <2> QED
    BY <1>1, <2>1, BeginRun
<1>3. /\ LatestExport \in 1..Weeks /\ ListedWeeks = 1..LatestExport
      /\ \A w \in ListedWeeks : w \in 1..Weeks /\ w <= LatestExport
  BY <1>2, ListedAre
<1> SUFFICES ASSUME NEW w \in ExportsSince(DemandSince), NEW d \in DatesIn("demand", w)
             PROVE  d \in raw
  BY <1>2 DEF KeptSince
<1>4. w \in 1..Weeks /\ w <= LatestExport /\ Covered(w) > DemandSince
  BY <1>3 DEF ExportsSince
<1>5. CASE Regions = {}
  <2>1. files["demand"][w] = None
    BY <1>1, <1>4, <1>5 DEF NobodyAsks
  <2>2. FirstDate(w) \in Nat /\ d \in Nat
    BY <1>1, <1>4, Calendar1, RowsOfWeek DEF Kinds
  <2>3. FirstDate(w) <= d /\ d < FirstDate(w) - 1
    BY <2>1 DEF DatesIn, FirstOf, None
  <2> QED
    BY <2>2, <2>3
<1>6. CASE Regions # {}
  <2>1. PICK r \in Regions : Synced(r)
    BY <1>2, <1>6 DEF ToFetch
  <2>2. /\ raw # {} /\ Min(raw) <= DemandSince
        /\ SyncedThrough(r) >= Covered(LatestExport)
    BY <2>1 DEF Synced
  <2>3. PICK since \in Sinces, last \in ListedWeeks :
          /\ raw = UNION {DatesIn("demand", v) : v \in Span(since, last)}
          /\ marks[r].through <= Covered(last)
    BY <1>1, <2>2 DEF RawWhole, Loaded
  <2>4. since \in Int /\ last \in 1..Weeks /\ Covered(last) \in Nat /\ 0 <= Covered(last)
    BY <1>1, <1>3, <2>3, Calendar1
  <2>5. ASSUME NEW e \in raw
        PROVE  \E v \in Span(since, last) :
                  /\ v \in 1..Weeks /\ v <= last /\ Covered(v) > since
                  /\ e \in Nat /\ FirstDate(v) <= e /\ e <= Covered(last)
    <3>1. PICK v \in Span(since, last) : e \in DatesIn("demand", v)
      BY <2>3
    <3>2. v \in 1..Weeks /\ v <= last /\ Covered(v) > since
      BY <2>4, <3>1, AdamAssumption DEF Span
    <3>3. e \in Nat /\ FirstDate(v) <= e /\ e <= Covered(v)
      BY <1>1, <3>1, <3>2, RowsOfWeek DEF Kinds
    <3>4. Covered(v) \in Nat /\ Covered(v) <= Covered(last)
      BY <2>4, <3>2, Calendar1, Calendar2
    <3> QED
      BY <2>4, <3>1, <3>2, <3>3, <3>4
  <2>6. SyncedThrough(r) <= Covered(last) /\ SyncedThrough(r) \in Nat
    <3>1. SyncedThrough(r) = marks[r].through \/ SyncedThrough(r) \in raw \cup {0}
      BY <1>1, SyncedType
    <3>2. marks[r].through \in Nat
      BY <1>1, Numbers
    <3> QED
      BY <2>3, <2>4, <2>5, <3>1, <3>2
  <2>7. LatestExport <= last
    <3>1. Covered(LatestExport) \in Nat /\ Covered(LatestExport) <= Covered(last)
      BY <1>3, <2>2, <2>4, <2>6, Calendar1
    <3> QED
      BY <1>3, <2>4, <3>1, Calendar2
  <2>8. Min(raw) \in raw
    <3>1. raw \in SUBSET Int /\ 0 \in Int /\ \A e \in raw : 0 <= e
      BY <1>1, Numbers
    <3> QED
      BY <2>2, <3>1, FirstIsIn
  <2>9. PICK v \in Span(since, last) :
          /\ v \in 1..Weeks /\ v <= last /\ Covered(v) > since
          /\ Min(raw) \in Nat /\ FirstDate(v) <= Min(raw)
    BY <2>5, <2>8
  <2>10. v <= w
    <3>1. w < v => Covered(w) < FirstDate(v)
      BY <1>4, <2>9, Calendar2
    <3>2. Covered(w) \in Nat /\ FirstDate(v) \in Nat
      BY <1>4, <2>9, Calendar1
    <3>3. ~(w < v)
      BY <1>2, <1>4, <2>2, <2>9, <3>1, <3>2
    <3> QED
      BY <1>4, <2>9, <3>3
  <2>11. w \in Span(since, last)
    <3>1. Covered(v) \in Nat /\ Covered(w) \in Nat /\ Covered(v) <= Covered(w)
      BY <1>4, <2>9, <2>10, Calendar1, Calendar2
    <3>2. Covered(w) > since
      BY <2>4, <2>9, <3>1
    <3>3. w \in 1..last
      BY <1>3, <1>4, <2>4, <2>7
    <3> QED
      BY <3>2, <3>3 DEF Span
  <2> QED
    BY <2>3, <2>11
<1> QED
  BY <1>5, <1>6

\* Prices that were checked today are all there, as far as the cursor goes.
LEMMA SkippedAreWhole ==
    ASSUME Lookback > 1, IInv, SkipHistory, spoilt = "no",
           NEW w \in ExportsSince(PriceSince), Covered(w) <= priceThrough
    PROVE  DatesIn("price", w) \subseteq price
<1>1. /\ AdamTypeOK /\ Calendar /\ NoneAhead /\ PricesWhole
      /\ Sinces \subseteq Int
  BY SincesAre DEF IInv
<1>2. /\ today \in 2..LastDay /\ PriceSince \in Int
      /\ PriceSince >= today - Lookback
      /\ priceThrough # 0 => PriceSince >= priceThrough - Lookback
  BY <1>1, LooksBack
<1>3. w \in 1..Weeks /\ Covered(w) > PriceSince /\ Covered(w) \in Nat
  BY <1>2, ListedAre, Calendar1 DEF ExportsSince
<1>4. checked
  BY DEF SkipHistory, CheckedToday
<1>5. PICK since \in Sinces, last \in ListedWeeks :
        /\ price = UNION {DatesIn("price", v) : v \in Span(since, last)}
        /\ priceThrough <= Covered(last)
        /\ \/ since <= today - Lookback
           \/ priceThrough # 0 /\ since <= priceThrough - Lookback
  BY <1>1, <1>4 DEF PricesWhole, Loaded
<1>6. /\ since \in Int /\ last \in 1..Weeks /\ Covered(last) \in Nat
      /\ today \in Nat /\ Lookback \in Nat /\ priceThrough \in Nat
  BY <1>1, <1>2, <1>5, ListedAre, Calendar1, Numbers
<1>7. since <= PriceSince
  <2>1. CASE since <= today - Lookback
    BY <1>2, <1>6, <2>1
  <2>2. CASE priceThrough # 0 /\ since <= priceThrough - Lookback
    BY <1>2, <1>6, <2>2
  <2> QED
    BY <1>5, <2>1, <2>2
<1>8. Covered(w) > since
  BY <1>2, <1>3, <1>6, <1>7
<1>9. w <= last
  <2>1. Covered(w) <= Covered(last)
    BY <1>3, <1>5, <1>6
  <2> QED
    BY <1>3, <1>6, <2>1, Calendar2
<1>10. w \in Span(since, last)
  BY <1>3, <1>6, <1>8, <1>9 DEF Span
<1> QED
  BY <1>5, <1>10

\* _adam_demand_region_synced_for_export, _history_checked_today (DEVLOG.md: files are skipped
\* "only after successful ingestion"): what a run does not load is there.
THEOREM NothingSkippedInVain ==
    ASSUME Lookback > 1
    PROVE  Spec => SkipsOnlyIngested
<1>1. ASSUME IInv, [Next]_vars
      PROVE  [/\ Begin /\ run'.pc = "history" => KeptSince("demand", run'.since) \subseteq raw
              /\ SkipHistory /\ spoilt = "no" =>
                   \A w \in ExportsSince(PriceSince) :
                       Covered(w) <= priceThrough => DatesIn("price", w) \subseteq price]_vars
  BY <1>1, SyncedIsWhole, SkippedAreWhole
<1> QED
  BY <1>1, Invariant, PTL DEF Spec, SkipsOnlyIngested
================================================================================
