-------------------------- MODULE MarketDemandProofs --------------------------
(***************************************************************************)
(* An import that nothing disturbs leaves a row for each key that was sold *)
(* of, whoever else may write the rows, for any types, figures, refreshers *)
(* and pollers.  The work is in two layers: what the ORM writes for what   *)
(* it has loaded, so that rows stay rows under every interleaving, and     *)
(* what an undisturbed import still has to do for a key.                   *)
(***************************************************************************)
EXTENDS MarketDemand, TLAPS

-----------------------------------------------------------------------------
(* Keys, history and rows                                                  *)

\* A key is of the station or of the structure, and of a type.
LEMMA KeysAre ==
    /\ \A k \in Keys : TypeOf(k) \in Types /\ (k \in Structure <=> k \notin Station)
    /\ Station \subseteq Keys /\ Structure \subseteq Keys
    /\ \A k \in Structure : k \notin Station
<1>1. \A k \in Station : k[1] = "station" /\ k[2] \in Types
  BY DEF Station
<1>2. \A k \in Structure : k[1] = "structure" /\ k[2] \in Types
  BY DEF Structure
<1> QED
  BY <1>1, <1>2 DEF Keys, TypeOf

\* The sources that a market asks, by their place.
LEMMA ChainAsks ==
    ASSUME NEW k \in Keys
    PROVE  /\ \A i \in DOMAIN Chain(k) : Chain(k)[i] \in Sources /\ i \in {1, 2, 3}
           /\ k \in Station => DOMAIN Chain(k) = {1, 2, 3} /\ Chain(k)[1] = "adam4eve"
                               /\ Chain(k)[2] = "npc_station_period" /\ Chain(k)[3] = "esi_live"
           /\ k \notin Station => DOMAIN Chain(k) = {1, 2} /\ Chain(k)[1] = "local_structure"
                                  /\ Chain(k)[2] = "esi_live"
<1>1. CASE k \in Station
  BY <1>1 DEF Chain, Sources
<1>2. CASE k \notin Station
  BY <1>2 DEF Chain, Sources
<1> QED
  BY <1>1, <1>2

\* Of the sources that sold, one comes first.
LEMMA FirstOfSome ==
    ASSUME NEW S \in SUBSET {1, 2, 3}, S # {}
    PROVE  Min(S) \in S
<1>1. \E x \in S : \A y \in S : x <= y
  <2>1. CASE 1 \in S
    BY <2>1
  <2>2. CASE 1 \notin S /\ 2 \in S
    BY <2>2
  <2>3. CASE 1 \notin S /\ 2 \notin S
    <3>1. S = {3}
      BY <2>3
    <3> QED
      BY <3>1
  <2> QED
    BY <2>1, <2>2, <2>3
<1> QED
  BY <1>1 DEF Min

\* What is derived is a row, and there is one if a source that is asked has sold.
LEMMA ResolvedIsRow ==
    ASSUME NEW k \in Keys, NEW f, \A s \in Sources : f[s] \in Figures
    PROVE  /\ Resolved(k, f) \in Rows
           /\ (\E i \in DOMAIN Chain(k) : Sold(f[Chain(k)[i]])) => Resolved(k, f) # NoRow
<1> DEFINE sold == {i \in DOMAIN Chain(k) : Sold(f[Chain(k)[i]])}
<1>0. \A s \in Sources, u \in Figures : Result(s, u) \in Rows /\ Result(s, u) # NoRow
  <2>1. "none" \notin Sources
    BY DEF Sources
  <2> QED
    BY <2>1 DEF Result, Rows, NoRow
<1>1. CASE sold = {}
  <2>1. Resolved(k, f) = Rest(k)
    BY <1>1 DEF Resolved
  <2>2. Rest(k) \in Rows
    <3>1. 0 \in Figures /\ "regional_fallback" \in Sources
      BY DemandAssumption DEF Sources
    <3> QED
      BY <1>0, <3>1 DEF Rest, Rows
  <2> QED
    BY <1>1, <2>1, <2>2
<1>2. CASE sold # {}
  <2>1. sold \in SUBSET {1, 2, 3}
    BY ChainAsks
  <2> DEFINE s == Chain(k)[Min(sold)]
  <2>2. Resolved(k, f) = Result(s, f[s])
    BY <1>2 DEF Resolved
  <2> HIDE DEF sold
  <2>3. Min(sold) \in sold
    BY <1>2, <2>1, FirstOfSome
  <2>4. s \in Sources
    BY <2>3, ChainAsks DEF sold
  <2> HIDE DEF s
  <2> QED
    BY <1>0, <2>2, <2>4
<1> QED
  BY <1>1, <1>2

\* What is derived depends on the sources that are asked.
LEMMA ResolvedOfAsked ==
    ASSUME NEW k \in Keys, NEW f, NEW g,
           \A i \in DOMAIN Chain(k) : f[Chain(k)[i]] = g[Chain(k)[i]]
    PROVE  Resolved(k, f) = Resolved(k, g)
<1> DEFINE soldF == {i \in DOMAIN Chain(k) : Sold(f[Chain(k)[i]])}
           soldG == {i \in DOMAIN Chain(k) : Sold(g[Chain(k)[i]])}
<1>1. soldF = soldG
  OBVIOUS
<1>2. soldF \in SUBSET {1, 2, 3}
  BY ChainAsks
<1>3. CASE soldF = {}
  BY <1>1, <1>3 DEF Resolved
<1>4. CASE soldF # {}
  <2>1. /\ Resolved(k, f) = Result(Chain(k)[Min(soldF)], f[Chain(k)[Min(soldF)]])
        /\ Resolved(k, g) = Result(Chain(k)[Min(soldG)], g[Chain(k)[Min(soldG)]])
    BY <1>1, <1>4 DEF Resolved
  <2> HIDE DEF soldF, soldG
  <2>2. Min(soldF) \in DOMAIN Chain(k)
    BY <1>2, <1>4, FirstOfSome DEF soldF
  <2> QED
    BY <1>1, <2>1, <2>2
<1> QED
  BY <1>3, <1>4

\* Each source answers with its input's figure, Adam4EVE with its own.
LEMMA AskedAnswers ==
    ASSUME NEW a, NEW p, NEW h
    PROVE  /\ Asked(a, p, h)["adam4eve"] = a /\ Asked(a, p, h)["esi_live"] = h
           /\ Asked(a, p, h)["npc_station_period"] = p
           /\ Asked(a, p, h)["local_structure"] = p
BY DEF Asked, Sources

\* A figure that is asked is one of the three inputs', or 0.
LEMMA AskedFigures ==
    ASSUME NEW a \in Figures, NEW p \in Figures, NEW h \in Figures
    PROVE  \A s \in Sources : Asked(a, p, h)[s] \in Figures
<1>1. 0 \in Figures
  BY DemandAssumption
<1> QED
  BY <1>1 DEF Asked, Sources

\* The row as it should be is a row.
LEMMA CurrentIsRow ==
    ASSUME DemandTypeOK, NEW k \in Keys
    PROVE  Current(k) \in Rows
<1>1. raw[TypeOf(k)] \in Figures /\ period[k] \in Figures /\ history[TypeOf(k)] \in Figures
  BY KeysAre DEF DemandTypeOK
<1>2. \A s \in Sources : Asked(raw[TypeOf(k)], period[k], history[TypeOf(k)])[s] \in Figures
  BY <1>1, AskedFigures
<1> QED
  BY <1>2, ResolvedIsRow DEF Current

\* What the job derives of a key is a row.  If it has loaded what is there, it is the row of
\* the first source that sold, for a key that Adam4EVE does not cover, and some row for any.
LEMMA DerivedIsRow ==
    ASSUME DemandTypeOK, NEW k \in job.left
    PROVE  /\ Derived(k) \in Rows
           /\ /\ k \in job.covered <=> Covers(k)
              /\ k \in Station => job.period[k] = period[k]
              /\ job.history = history
              => /\ HasDemand(k) => Derived(k) # NoRow
                 /\ ~Covers(k) => Derived(k) = Current(k)
<1> DEFINE a == IF k \in job.covered THEN raw[TypeOf(k)] ELSE 0
           p == IF k \in Station THEN job.period[k] ELSE period[k]
           h == job.history[TypeOf(k)]
           f == Asked(a, p, h)
           x == raw[TypeOf(k)]
           y == period[k]
           z == history[TypeOf(k)]
           g == Asked(x, y, z)
<1>1. /\ k \in Keys /\ TypeOf(k) \in Types
      /\ raw[TypeOf(k)] \in Figures /\ period[k] \in Figures /\ history[TypeOf(k)] \in Figures
      /\ a \in Figures /\ p \in Figures /\ h \in Figures
  <2>1. k \in Keys /\ job.period \in [Keys -> Figures] /\ job.history \in [Types -> Figures]
        /\ 0 \in Figures
    BY DemandAssumption DEF DemandTypeOK, Job
  <2>2. TypeOf(k) \in Types
    BY <2>1, KeysAre
  <2> QED
    BY <2>1, <2>2 DEF DemandTypeOK
<1>2. Derived(k) = Resolved(k, f) /\ Current(k) = Resolved(k, g)
  BY DEF Derived, Current
<1> HIDE DEF a, p, h
<1>3. /\ \A s \in Sources : f[s] \in Figures
      /\ f["adam4eve"] = a /\ f["esi_live"] = h
      /\ f["npc_station_period"] = p /\ f["local_structure"] = p
  <2>1. \A s \in Sources : f[s] \in Figures
    BY <1>1, AskedFigures
  <2> QED
    BY <2>1, AskedAnswers
<1>4. /\ g["adam4eve"] = x /\ g["esi_live"] = z
      /\ g["npc_station_period"] = y /\ g["local_structure"] = y
  BY AskedAnswers
<1> HIDE DEF f, g
<1>5. Derived(k) \in Rows
  BY <1>1, <1>2, <1>3, ResolvedIsRow
<1>6. ASSUME k \in job.covered <=> Covers(k), k \in Station => job.period[k] = period[k],
             job.history = history
      PROVE  /\ HasDemand(k) => Derived(k) # NoRow
             /\ ~Covers(k) => Derived(k) = Current(k)
  <2>1. p = period[k] /\ h = history[TypeOf(k)]
    BY <1>6 DEF p, h
  <2>2. ASSUME HasDemand(k) PROVE Derived(k) # NoRow
    <3>1. \E i \in DOMAIN Chain(k) : Sold(f[Chain(k)[i]])
      <4>1. CASE Sold(history[TypeOf(k)])
        <5>1. Sold(f["esi_live"])
          BY <1>3, <2>1, <4>1
        <5>2. \E i \in DOMAIN Chain(k) : Chain(k)[i] = "esi_live"
          BY <1>1, ChainAsks
        <5> QED
          BY <5>1, <5>2
      <4>2. CASE k \in Station /\ Sold(period[k])
        <5>1. Sold(f["npc_station_period"])
          BY <1>3, <2>1, <4>2
        <5>2. \E i \in DOMAIN Chain(k) : Chain(k)[i] = "npc_station_period"
          BY <1>1, <4>2, ChainAsks
        <5> QED
          BY <5>1, <5>2
      <4> QED
        BY <2>2, <4>1, <4>2 DEF HasDemand
    <3> QED
      BY <1>1, <1>2, <1>3, <3>1, ResolvedIsRow
  <2>3. ASSUME ~Covers(k) PROVE Derived(k) = Current(k)
    <3>1. CASE k \in Station
      <4>1. a = raw[TypeOf(k)]
        BY <1>6, <2>3, <3>1 DEF a, Covers
      <4>2. \A i \in DOMAIN Chain(k) : f[Chain(k)[i]] = g[Chain(k)[i]]
        BY <1>1, <1>3, <1>4, <2>1, <3>1, <4>1, ChainAsks
      <4> QED
        BY <1>1, <1>2, <4>2, ResolvedOfAsked
    <3>2. CASE k \notin Station
      <4>1. \A i \in DOMAIN Chain(k) : f[Chain(k)[i]] = g[Chain(k)[i]]
        BY <1>1, <1>3, <1>4, <2>1, <3>2, ChainAsks
      <4> QED
        BY <1>1, <1>2, <4>1, ResolvedOfAsked
    <3> QED
      BY <3>1, <3>2
  <2> QED
    BY <2>2, <2>3
<1> QED
  BY <1>5, <1>6

\* What the ORM writes, unless it fails, is a row; it is the new one if nobody has written
\* since the old one was loaded, and if it deletes none it leaves one.
LEMMA FlushedIsRow ==
    ASSUME NEW k, NEW old \in Rows, NEW new \in Rows, NEW gone \in BOOLEAN, rows[k] \in Rows,
           old # NoRow /\ rows[k] = NoRow => gone, ~Clashes(k, old, new, gone)
    PROVE  /\ Flushed(k, old, new, gone) \in Rows
           /\ new # NoRow => Flushed(k, old, new, gone) # NoRow
           /\ old = rows[k] /\ new # NoRow => Flushed(k, old, new, gone) = new
<1> DEFINE Full == [source : Sources, units : Sources \X Figures]
<1>0. NoRow \notin Full /\ Rows = Full \cup {NoRow}
  BY DEF Rows, NoRow, Sources
<1>1. CASE new = NoRow
  <2>1. Written(old, new, rows[k]) = new
    BY <1>1 DEF Written
  <2> QED
    BY <1>1, <2>1 DEF Flushed
<1>2. CASE new # NoRow /\ old = NoRow
  <2>1. Written(old, new, rows[k]) = new
    BY <1>2 DEF Written
  <2> QED
    BY <1>2, <2>1 DEF Flushed
<1>3. CASE new # NoRow /\ old # NoRow
  <2>1. old \in Full /\ new \in Full /\ rows[k] \in Full
    BY <1>0, <1>3 DEF Clashes
  <2>2. Flushed(k, old, new, gone) = Written(old, new, rows[k])
    BY <1>3 DEF Flushed
  <2>3. Written(old, new, rows[k]) =
          [source |-> IF new.source # old.source THEN new.source ELSE rows[k].source,
           units |-> IF new.units # old.units THEN new.units ELSE rows[k].units]
    BY <1>3 DEF Written
  <2> HIDE DEF Full
  <2>4. Written(old, new, rows[k]) \in Full
    BY <2>1, <2>3 DEF Full
  <2>5. old = rows[k] => Written(old, new, rows[k]) = new
    BY <2>1, <2>3 DEF Full
  <2> QED
    BY <1>0, <2>2, <2>4, <2>5
<1> QED
  BY <1>1, <1>2, <1>3

\* A structure always has a row, of demand 0 in the end.
LEMMA StructureHasRow ==
    ASSUME NEW k \in Structure, NEW f
    PROVE  Resolved(k, f) # NoRow
<1> DEFINE sold == {i \in DOMAIN Chain(k) : Sold(f[Chain(k)[i]])}
<1>1. k \in Keys /\ k \notin Station
  BY KeysAre
<1>2. CASE sold = {}
  BY <1>1, <1>2 DEF Resolved, Rest, Result, NoRow
<1>3. CASE sold # {}
  <2>1. sold \in SUBSET {1, 2, 3}
    BY <1>1, ChainAsks
  <2> DEFINE s == Chain(k)[Min(sold)]
  <2>2. Resolved(k, f) = Result(s, f[s])
    BY <1>3 DEF Resolved
  <2> HIDE DEF sold
  <2>3. Min(sold) \in DOMAIN Chain(k)
    BY <1>3, <2>1, FirstOfSome DEF sold
  <2>4. s \in Sources
    BY <1>1, <2>3, ChainAsks
  <2> HIDE DEF s
  <2> QED
    BY <2>2, <2>4 DEF Result, NoRow, Sources
<1> QED
  BY <1>2, <1>3

-----------------------------------------------------------------------------
(* Types, and rows that are gone                                           *)

\* What nobody has begun is typed.
LEMMA NothingTyped ==
    /\ NoRow \in Rows /\ NoRefresh \in Refresh /\ NoJob \in Job /\ NoPoll \in Poll
    /\ 0 \in Figures
    /\ NoJob.left = {} /\ NoJob.pending = {} /\ ~NoJob.alone /\ NoPoll.at = {}
    /\ [NoJob EXCEPT !.alone = job.alone].left = {}
    /\ [NoJob EXCEPT !.alone = job.alone].pending = {}
<1>1. 0 \in Figures /\ NoRow \in Rows
  BY DemandAssumption DEF Rows
<1> QED
  BY <1>1 DEF NoRefresh, Refresh, NoJob, Job, NoPoll, Poll

\* What a commit tells the others of the rows that it deletes.
LEMMA MetTells ==
    ASSUME DemandTypeOK, NEW deleted \in SUBSET Keys, Met(deleted)
    PROVE  /\ job' \in Job /\ ~job'.alone
           /\ job'.left = job.left /\ job'.pending = job.pending
           /\ job'.old = job.old /\ job'.new = job.new
           /\ \A k \in Keys : k \in job'.gone <=>
                 k \in job.gone \/ (k \in deleted /\ job.old[k] # NoRow)
           /\ poll' \in [Pollers -> Poll]
           /\ \A p \in Pollers : /\ poll'[p].at = poll[p].at /\ poll'[p].old = poll[p].old
                                 /\ poll'[p].new = poll[p].new
                                 /\ poll[p].gone \/ poll[p].at \cap deleted # {} => poll'[p].gone
<1>0. job \in Job /\ poll \in [Pollers -> Poll]
  BY DEF DemandTypeOK
<1> DEFINE more == {k \in deleted : job.old[k] # NoRow}
<1>1. job' = [job EXCEPT !.alone = FALSE, !.gone = job.gone \cup more]
  BY DEF Met
<1>2. more \subseteq Keys /\ \A k \in Keys : k \in more <=> k \in deleted /\ job.old[k] # NoRow
  OBVIOUS
<1> HIDE DEF more
<1>3. /\ job' \in Job /\ ~job'.alone
      /\ job'.left = job.left /\ job'.pending = job.pending
      /\ job'.old = job.old /\ job'.new = job.new /\ job'.gone = job.gone \cup more
  BY <1>0, <1>1, <1>2 DEF Job
<1>4. poll' = [p \in Pollers |-> [poll[p] EXCEPT !.gone = poll[p].gone \/ poll[p].at \cap deleted # {}]]
  BY DEF Met
<1>5. ASSUME NEW p \in Pollers
      PROVE  /\ poll'[p] \in Poll
             /\ poll'[p].at = poll[p].at /\ poll'[p].old = poll[p].old
             /\ poll'[p].new = poll[p].new
             /\ poll[p].gone \/ poll[p].at \cap deleted # {} => poll'[p].gone
  <2>1. poll[p] \in Poll
    BY <1>0
  <2>2. poll'[p] = [poll[p] EXCEPT !.gone = poll[p].gone \/ poll[p].at \cap deleted # {}]
    BY <1>4
  <2> DEFINE gone == poll[p].gone \/ poll[p].at \cap deleted # {}
  <2>3. gone \in BOOLEAN
    OBVIOUS
  <2>4. poll[p].gone \/ poll[p].at \cap deleted # {} => gone
    OBVIOUS
  <2> HIDE DEF gone
  <2>5. /\ [poll[p] EXCEPT !.gone = gone] \in Poll
        /\ [poll[p] EXCEPT !.gone = gone].at = poll[p].at
        /\ [poll[p] EXCEPT !.gone = gone].old = poll[p].old
        /\ [poll[p] EXCEPT !.gone = gone].new = poll[p].new
        /\ [poll[p] EXCEPT !.gone = gone].gone = gone
    BY <2>1, <2>3 DEF Poll
  <2>6. poll'[p] = [poll[p] EXCEPT !.gone = gone]
    BY <2>2 DEF gone
  <2> QED
    BY <2>4, <2>5, <2>6
<1>6. poll' \in [Pollers -> Poll]
  BY <1>4, <1>5
<1> QED
  BY <1>2, <1>3, <1>5, <1>6

\* What the job commits: rows, those that it has derived and no others.
LEMMA CommittedRows ==
    ASSUME DemandTypeOK, VanishedIsGone, ~Clashing
    PROVE  /\ Committed \in [Keys -> Rows]
           /\ \A k \in Keys :
                 /\ k \notin job.pending => Committed[k] = rows[k]
                 /\ k \in job.pending /\ job.new[k] # NoRow =>
                       /\ Committed[k] # NoRow
                       /\ job.old[k] = rows[k] => Committed[k] = job.new[k]
<1>1. /\ rows \in [Keys -> Rows] /\ job.old \in [Keys -> Rows] /\ job.new \in [Keys -> Rows]
      /\ job.pending \subseteq Keys
  BY DEF DemandTypeOK, Job
<1>2. ASSUME NEW k \in job.pending
      PROVE  LET w == Flushed(k, job.old[k], job.new[k], k \in job.gone) IN
             /\ w \in Rows
             /\ job.new[k] # NoRow => w # NoRow /\ (job.old[k] = rows[k] => w = job.new[k])
  <2>1. job.old[k] \in Rows /\ job.new[k] \in Rows /\ rows[k] \in Rows
    BY <1>1, <1>2
  <2>2. job.old[k] # NoRow /\ rows[k] = NoRow => k \in job.gone
    BY <1>2 DEF VanishedIsGone
  <2>3. ~Clashes(k, job.old[k], job.new[k], k \in job.gone)
    BY <1>2 DEF Clashing
  <2> DEFINE gone == k \in job.gone
             old == job.old[k]
             new == job.new[k]
  <2>4. gone \in BOOLEAN
    OBVIOUS
  <2>5. old \in Rows /\ new \in Rows /\ (old # NoRow /\ rows[k] = NoRow => gone)
        /\ ~Clashes(k, old, new, gone)
    BY <2>1, <2>2, <2>3
  <2> HIDE DEF gone, old, new
  <2>6. /\ Flushed(k, old, new, gone) \in Rows
        /\ new # NoRow => Flushed(k, old, new, gone) # NoRow
        /\ old = rows[k] /\ new # NoRow => Flushed(k, old, new, gone) = new
    BY <2>1, <2>4, <2>5, FlushedIsRow
  <2> QED
    BY <2>6 DEF gone, old, new
<1>3. /\ Committed = [k \in Keys |-> Committed[k]]
      /\ \A k \in Keys : Committed[k] = IF k \in job.pending
                                        THEN Flushed(k, job.old[k], job.new[k], k \in job.gone)
                                        ELSE rows[k]
  BY DEF Committed
<1>4. \A k \in Keys : Committed[k] \in Rows
  BY <1>1, <1>2, <1>3
<1> HIDE DEF Committed
<1>5. Committed \in [Keys -> Rows]
  BY <1>3, <1>4
<1> QED
  BY <1>2, <1>3, <1>5

Shape == DemandTypeOK /\ VanishedIsGone /\ OneList

\* The steps of the job up to its commit keep the shape of everything; so do those that change
\* only what other sessions have in hand.
LEMMA ShapeOfJob ==
    ASSUME Shape, due' \in BOOLEAN, Look \/ Exclude \/ Preload
    PROVE  Shape'
<1>0. DemandTypeOK /\ VanishedIsGone /\ OneList /\ job \in Job /\ rows \in [Keys -> Rows]
  BY DEF Shape, DemandTypeOK
<1>1. UNCHANGED <<raw, period, history, rows, refresh, poll, happened>>
  BY DEF Look, Exclude, Preload, inputs
<1>2. CASE Look
  <2>1. PICK ordered \in SUBSET Keys :
           LET keys == {k \in Keys : Sold(history[TypeOf(k)])}
                          \cup {k \in Station : Sold(period[k])} \cup ordered
           IN job' = [NoJob EXCEPT !.pc = "exclude", !.left = keys, !.alone = TRUE,
                                   !.covered = CoveredBy(keys)]
    BY <1>2 DEF Look
  <2> DEFINE keys == {k \in Keys : Sold(history[TypeOf(k)])}
                        \cup {k \in Station : Sold(period[k])} \cup ordered
  <2>2. keys \subseteq Keys /\ CoveredBy(keys) \subseteq Station
    BY KeysAre DEF CoveredBy
  <2>3. job' = [NoJob EXCEPT !.pc = "exclude", !.left = keys, !.alone = TRUE,
                             !.covered = CoveredBy(keys)]
    BY <2>1
  <2> HIDE DEF keys
  <2>4. job' \in Job /\ job'.pending = {} /\ \A k \in Keys : job'.old[k] = NoRow
    BY <2>2, <2>3, NothingTyped DEF Job, NoJob
  <2>5. job'.left \subseteq Keys
    BY <2>4 DEF Job
  <2> QED
    BY <1>0, <1>1, <2>4, <2>5 DEF Shape, DemandTypeOK, VanishedIsGone, OneList
<1>3. CASE Exclude
  <2>1. /\ job' \in Job /\ job'.left \subseteq job.left /\ job'.pending = job.pending
        /\ job'.old = job.old /\ job'.new = job.new /\ job'.gone = job.gone
    BY <1>0, <1>3 DEF Exclude, Job
  <2> QED
    BY <1>0, <1>1, <2>1 DEF Shape, DemandTypeOK, VanishedIsGone, OneList
<1>4. CASE Preload /\ job.left = {}
  <2>1. job' = [NoJob EXCEPT !.alone = job.alone]
    BY <1>4 DEF Preload, Ended
  <2>2. job' \in Job /\ job'.left = {} /\ job'.pending = {}
    BY <1>0, <2>1, NothingTyped DEF Job
  <2> QED
    BY <1>0, <1>1, <2>2 DEF Shape, DemandTypeOK, VanishedIsGone, OneList
<1>5. CASE Preload /\ job.left # {}
  <2> DEFINE P == [k \in Keys |-> IF k \in job.left \cap Station THEN period[k] ELSE 0]
             R == [k \in Keys |-> IF k \in job.left THEN rows[k] ELSE NoRow]
  <2>1. P \in [Keys -> Figures] /\ R \in [Keys -> Rows] /\ history \in [Types -> Figures]
        /\ \A k \in Keys : R[k] = rows[k] \/ R[k] = NoRow
    BY <1>0, NothingTyped DEF DemandTypeOK
  <2>2. job' = [job EXCEPT !.pc = "derive", !.history = history, !.period = P, !.old = R]
    BY <1>5 DEF Preload
  <2> HIDE DEF P, R
  <2>3. /\ job' \in Job /\ job'.left = job.left /\ job'.pending = job.pending
        /\ job'.old = R /\ job'.new = job.new /\ job'.gone = job.gone
    BY <1>0, <2>1, <2>2 DEF Job
  <2>4. job'.left \cup job'.pending \subseteq Keys
    BY <2>3 DEF Job
  <2> QED
    BY <1>0, <1>1, <2>1, <2>3, <2>4 DEF Shape, DemandTypeOK, VanishedIsGone, OneList
<1> QED
  BY <1>2, <1>3, <1>4, <1>5

\* A key is derived: it goes from one list to the other, with the row that it is to have.
LEMMA DeriveMoves ==
    ASSUME DemandTypeOK, Derive
    PROVE  \E k \in job.left :
              /\ k \in Keys
              /\ job' \in Job /\ job'.alone = job.alone
              /\ job'.left = job.left \ {k} /\ job'.pending = job.pending \cup {k}
              /\ job'.pc = "commit" \/ (job'.pc = "derive" /\ job'.left # {})
              /\ job'.new = [job.new EXCEPT ![k] = Derived(k)]
              /\ \A j \in Keys : j # k =>
                    /\ job'.old[j] = job.old[j]
                    /\ job'.period[j] = job.period[j]
                    /\ j \in job'.gone <=> j \in job.gone
                    /\ j \in job'.covered <=> j \in job.covered
              /\ \/ job'.old[k] = job.old[k] /\ (k \in job'.gone <=> k \in job.gone)
                 \/ job'.old[k] = rows[k] /\ job'.gone = job.gone \ {k}
              /\ job'.gone \subseteq job.gone
              /\ job'.left # {} => job'.history = job.history
<1>0. job \in Job /\ rows \in [Keys -> Rows]
  BY DEF DemandTypeOK
<1>1. PICK k \in job.left :
        job' = [job EXCEPT !.left = @ \ {k}, !.pending = @ \cup {k}, !.new[k] = Derived(k),
                           !.pc = IF \/ Cardinality(job.pending) + 1 = Interval
                                     \/ job.left = {k}
                                  THEN "commit" ELSE "derive",
                           !.old[k] = IF LookedUp(k) THEN rows[k] ELSE @,
                           !.gone = IF LookedUp(k) THEN @ \ {k} ELSE @,
                           !.covered = @ \ {k}, !.period[k] = 0,
                           !.history = IF job.left = {k} THEN NoJob.history ELSE @]
  BY DEF Derive
<1>2. k \in Keys /\ Derived(k) \in Rows
  BY <1>0, DerivedIsRow DEF Job
<1> DEFINE full == Cardinality(job.pending) + 1 = Interval \/ job.left = {k}
           last == job.left = {k}
           found == LookedUp(k)
           row == Derived(k)
<1>3. job' = [job EXCEPT !.left = job.left \ {k}, !.pending = job.pending \cup {k},
                         !.new = [job.new EXCEPT ![k] = row],
                         !.pc = IF full THEN "commit" ELSE "derive",
                         !.old = [job.old EXCEPT ![k] = IF found THEN rows[k] ELSE job.old[k]],
                         !.gone = IF found THEN job.gone \ {k} ELSE job.gone,
                         !.covered = job.covered \ {k},
                         !.period = [job.period EXCEPT ![k] = 0],
                         !.history = IF last THEN NoJob.history ELSE job.history]
  BY <1>0, <1>1 DEF Job
<1>4. (last => full) /\ row \in Rows /\ (last <=> job.left = {k})
      /\ NoJob.history \in [Types -> Figures]
  BY <1>2, NothingTyped DEF NoJob
<1> HIDE DEF full, last, found, row
<1>5. job' \in Job
  <2>1. /\ [job.new EXCEPT ![k] = row] \in [Keys -> Rows]
        /\ [job.old EXCEPT ![k] = IF found THEN rows[k] ELSE job.old[k]] \in [Keys -> Rows]
        /\ [job.period EXCEPT ![k] = 0] \in [Keys -> Figures]
    BY <1>0, <1>2, <1>4, NothingTyped DEF Job
  <2>2. /\ job.left \ {k} \in SUBSET Keys /\ job.pending \cup {k} \in SUBSET Keys
        /\ (IF full THEN "commit" ELSE "derive") \in {"idle", "exclude", "preload", "derive", "commit"}
        /\ (IF found THEN job.gone \ {k} ELSE job.gone) \in SUBSET Keys
        /\ job.covered \ {k} \in SUBSET Station
        /\ (IF last THEN NoJob.history ELSE job.history) \in [Types -> Figures]
    BY <1>0, <1>2, <1>4 DEF Job
  <2> QED
    BY <1>0, <1>3, <2>1, <2>2 DEF Job
<1>6. /\ job'.alone = job.alone
      /\ job'.left = job.left \ {k} /\ job'.pending = job.pending \cup {k}
      /\ job'.new = [job.new EXCEPT ![k] = row]
      /\ job'.pc = IF full THEN "commit" ELSE "derive"
      /\ job'.old = [job.old EXCEPT ![k] = IF found THEN rows[k] ELSE job.old[k]]
      /\ job'.gone = IF found THEN job.gone \ {k} ELSE job.gone
      /\ job'.covered = job.covered \ {k}
      /\ job'.period = [job.period EXCEPT ![k] = 0]
      /\ job'.history = IF last THEN NoJob.history ELSE job.history
  BY <1>0, <1>3 DEF Job
<1>7. /\ job.old \in [Keys -> Rows] /\ job.period \in [Keys -> Figures]
  BY <1>0 DEF Job
<1>8. job'.pc = "commit" \/ (job'.pc = "derive" /\ job'.left # {})
  <2>1. ~full => job.left # {k}
    BY <1>4
  <2> QED
    BY <1>6, <2>1
<1>9. job'.left # {} => job'.history = job.history
  BY <1>4, <1>6
<1>10. /\ \A j \in Keys : j # k =>
             /\ job'.old[j] = job.old[j]
             /\ job'.period[j] = job.period[j]
             /\ j \in job'.gone <=> j \in job.gone
             /\ j \in job'.covered <=> j \in job.covered
       /\ \/ job'.old[k] = job.old[k] /\ (k \in job'.gone <=> k \in job.gone)
          \/ job'.old[k] = rows[k] /\ job'.gone = job.gone \ {k}
       /\ job'.gone \subseteq job.gone
  BY <1>2, <1>6, <1>7
<1> QED
  BY <1>2, <1>5, <1>6, <1>8, <1>9, <1>10 DEF row

\* Deriving a key keeps the shape of everything.
LEMMA ShapeOfDerive ==
    ASSUME Shape, due' \in BOOLEAN, Derive
    PROVE  Shape'
<1>0. DemandTypeOK /\ VanishedIsGone /\ OneList /\ job \in Job /\ rows \in [Keys -> Rows]
  BY DEF Shape, DemandTypeOK
<1>1. UNCHANGED <<raw, period, history, rows, refresh, poll, happened>>
  BY DEF Derive, inputs
<1>2. PICK k \in job.left :
        /\ k \in Keys /\ job' \in Job
        /\ job'.left = job.left \ {k} /\ job'.pending = job.pending \cup {k}
        /\ job'.new = [job.new EXCEPT ![k] = Derived(k)]
        /\ \A j \in Keys : j # k =>
              /\ job'.old[j] = job.old[j]
              /\ j \in job'.gone <=> j \in job.gone
        /\ \/ job'.old[k] = job.old[k] /\ (k \in job'.gone <=> k \in job.gone)
           \/ job'.old[k] = rows[k]
  BY <1>0, DeriveMoves
<1>3. DemandTypeOK'
  BY <1>0, <1>1, <1>2 DEF DemandTypeOK
<1>4. OneList'
  BY <1>0, <1>2 DEF OneList
<1>5. \A j \in job'.left \cup job'.pending : job'.old[j] # NoRow /\ rows'[j] = NoRow => j \in job'.gone
  <2> SUFFICES ASSUME NEW j \in job'.left \cup job'.pending
               PROVE  job'.old[j] # NoRow /\ rows[j] = NoRow => j \in job'.gone
    BY <1>1
  <2>1. j \in Keys /\ j \in job.left \cup job.pending
    BY <1>0, <1>2 DEF Job
  <2>2. job.old[j] # NoRow /\ rows[j] = NoRow => j \in job.gone
    BY <1>0, <2>1 DEF VanishedIsGone
  <2>3. CASE j = k
    BY <1>2, <2>2, <2>3
  <2>4. CASE j # k
    BY <1>2, <2>1, <2>2, <2>4
  <2> QED
    BY <2>3, <2>4
<1>6. \A j \in job'.pending \cap Structure : job'.new[j] # NoRow
  <2>1. job.new \in [Keys -> Rows] /\ Structure \subseteq Keys
    BY <1>0, KeysAre DEF Job
  <2>2. k \in Structure => Derived(k) # NoRow
    BY StructureHasRow DEF Derived
  <2>3. \A j \in job.pending \cap Structure : job.new[j] # NoRow
    BY <1>0 DEF VanishedIsGone
  <2> QED
    BY <1>2, <2>1, <2>2, <2>3
<1>7. \A p \in Pollers : \A j \in poll'[p].at :
         /\ poll'[p].old # NoRow /\ rows'[j] = NoRow => poll'[p].gone
         /\ poll'[p].new # NoRow
  BY <1>0, <1>1 DEF VanishedIsGone
<1>8. VanishedIsGone'
  BY <1>5, <1>6, <1>7 DEF VanishedIsGone
<1> QED
  BY <1>3, <1>4, <1>8 DEF Shape

\* What the job commits leaves the others what they have in hand.
LEMMA CommitShape ==
    ASSUME DemandTypeOK, VanishedIsGone, ~Clashing
    PROVE  \A p \in Pollers : \A k \in poll[p].at :
              /\ poll[p].old # NoRow /\ Committed[k] = NoRow => poll[p].gone
              /\ poll[p].new # NoRow
<1>1. ASSUME NEW p \in Pollers, NEW k \in poll[p].at
      PROVE  /\ poll[p].old # NoRow /\ Committed[k] = NoRow => poll[p].gone
             /\ poll[p].new # NoRow
  <2>1. k \in Structure /\ k \in Keys
    BY <1>1, KeysAre DEF DemandTypeOK, Poll
  <2>2. /\ poll[p].old # NoRow /\ rows[k] = NoRow => poll[p].gone
        /\ poll[p].new # NoRow
        /\ k \in job.pending => job.new[k] # NoRow
    BY <1>1, <2>1 DEF VanishedIsGone
  <2>3. /\ k \notin job.pending => Committed[k] = rows[k]
        /\ k \in job.pending /\ job.new[k] # NoRow => Committed[k] # NoRow
    BY <2>1, CommittedRows
  <2> QED
    BY <2>2, <2>3
<1> QED
  BY <1>1

\* The job's commit, also the one that an interruption makes, keeps the shape of everything.
LEMMA ShapeOfCommit ==
    ASSUME Shape, due' \in BOOLEAN, Commit \/ Interrupt
    PROVE  Shape'
<1>0. /\ DemandTypeOK /\ VanishedIsGone /\ OneList /\ job \in Job /\ rows \in [Keys -> Rows]
      /\ refresh \in [Refreshers -> Refresh] /\ happened \in 0..MaxHappenings
  BY DEF Shape, DemandTypeOK
<1>1. /\ UNCHANGED <<raw, period, history, poll>>
      /\ happened' = happened \/ (happened < MaxHappenings /\ happened' = happened + 1)
  BY DEF Commit, Interrupt, Happening, inputs
<1>2. /\ rows' \in [Keys -> Rows]
      /\ \A p \in Pollers : \A k \in poll[p].at :
            /\ poll[p].old # NoRow /\ rows'[k] = NoRow => poll[p].gone
            /\ poll[p].new # NoRow
  <2>1. CASE rows' = rows
    BY <1>0, <2>1 DEF VanishedIsGone
  <2>2. CASE ~Clashing /\ rows' = Committed
    BY <1>0, <2>2, CommittedRows, CommitShape
  <2> QED
    BY <2>1, <2>2 DEF Commit, Interrupt
<1>3. refresh' \in [Refreshers -> Refresh]
  <2>1. ASSUME NEW S PROVE [r \in Refreshers |-> [refresh[r] EXCEPT !.seen = refresh[r].seen \ S]]
                              \in [Refreshers -> Refresh]
    BY <1>0 DEF Refresh
  <2>2. CASE Clashing
    <3>1. refresh' = refresh \/ refresh' = [r \in Refreshers |-> [refresh[r] EXCEPT !.seen = refresh[r].seen]]
      BY <2>2 DEF Commit, Interrupt
    <3>2. \A r \in Refreshers : [refresh[r] EXCEPT !.seen = refresh[r].seen] \in Refresh
      BY <1>0 DEF Refresh
    <3> QED
      BY <1>0, <3>1, <3>2
  <2>3. CASE ~Clashing
    <3>1. refresh' = [r \in Refreshers |-> [refresh[r] EXCEPT !.seen = refresh[r].seen \ Removed]]
      BY <2>3 DEF Commit, Interrupt
    <3> QED
      BY <2>1, <3>1
  <2> QED
    BY <2>2, <2>3
<1>4. /\ job' \in Job /\ OneList'
      /\ \A k \in job'.left \cup job'.pending :
            job'.old[k] # NoRow /\ rows'[k] = NoRow => k \in job'.gone
      /\ \A k \in job'.pending \cap Structure : job'.new[k] # NoRow
  <2>1. CASE job' = NoJob \/ job' = [NoJob EXCEPT !.alone = job.alone]
    <3>1. job' \in Job /\ job'.left = {} /\ job'.pending = {}
      BY <1>0, <2>1, NothingTyped DEF Job
    <3> QED
      BY <3>1 DEF OneList
  <2>2. CASE Commit /\ ~Clashing /\ job.left # {}
    <3> DEFINE N == [k \in Keys |-> NoRow]
               O == [k \in Keys |-> IF k \in job.left THEN job.old[k] ELSE NoRow]
    <3>1. job' = [job EXCEPT !.pc = "derive", !.pending = {}, !.new = N, !.old = O,
                             !.gone = job.gone \ job.pending]
      BY <1>0, <2>2 DEF Commit, Job
    <3>2. N \in [Keys -> Rows] /\ O \in [Keys -> Rows] /\ job.gone \ job.pending \in SUBSET Keys
      BY <1>0, NothingTyped DEF Job
    <3>3. \A k \in job.left : k \in Keys /\ O[k] = job.old[k]
      BY <1>0 DEF Job
    <3> HIDE DEF N, O
    <3>4. /\ job' \in Job /\ job'.left = job.left /\ job'.pending = {} /\ job'.old = O
          /\ job'.gone = job.gone \ job.pending
      BY <1>0, <3>1, <3>2 DEF Job
    <3>5. rows' = Committed
      BY <2>2 DEF Commit
    <3>6. ASSUME NEW k \in job.left, O[k] # NoRow, rows'[k] = NoRow
          PROVE  k \in job.gone \ job.pending
      <4>1. k \notin job.pending
        BY <1>0, <3>6 DEF OneList
      <4>2. rows[k] = NoRow
        BY <1>0, <2>2, <3>3, <3>5, <3>6, <4>1, CommittedRows
      <4>3. job.old[k] # NoRow
        BY <3>3, <3>6
      <4>4. k \in job.gone
        BY <1>0, <3>6, <4>2, <4>3 DEF VanishedIsGone
      <4> QED
        BY <4>1, <4>4
    <3> QED
      BY <3>4, <3>6 DEF OneList
  <2> QED
    BY <2>1, <2>2 DEF Commit, Interrupt, Ended
<1>5. happened' \in 0..MaxHappenings
  BY <1>0, <1>1, DemandAssumption
<1>6. DemandTypeOK'
  BY <1>0, <1>1, <1>2, <1>3, <1>4, <1>5 DEF DemandTypeOK
<1>7. VanishedIsGone'
  BY <1>1, <1>2, <1>4 DEF VanishedIsGone
<1> QED
  BY <1>4, <1>6, <1>7 DEF Shape

\* Refreshers tell the job which rows they delete.
LEMMA ShapeOfRefresh ==
    ASSUME Shape, due' \in BOOLEAN, NEW r \in Refreshers, RefreshStart(r) \/ RefreshStep(r)
    PROVE  Shape'
<1>0. /\ DemandTypeOK /\ VanishedIsGone /\ OneList /\ job \in Job /\ rows \in [Keys -> Rows]
      /\ refresh \in [Refreshers -> Refresh] /\ happened \in 0..MaxHappenings
      /\ raw \in [Types -> Figures]
  BY DEF Shape, DemandTypeOK
<1>1. CASE RefreshStart(r)
  <2>1. UNCHANGED <<raw, period, history, rows, job, poll>>
    BY <1>1 DEF RefreshStart, inputs
  <2>2. happened' \in 0..MaxHappenings
    <3>1. happened' = happened \/ (happened < MaxHappenings /\ happened' = happened + 1)
      BY <1>1 DEF RefreshStart, Happening
    <3> QED
      BY <1>0, <3>1, DemandAssumption
  <2>3. refresh' \in [Refreshers -> Refresh]
    <3> DEFINE S == {k \in Station : rows[k].source = "adam4eve"}
    <3>1. refresh' = [refresh EXCEPT ![r] = [refresh[r] EXCEPT !.pc = "delete", !.seen = S]]
      BY <1>0, <1>1 DEF RefreshStart
    <3>2. S \in SUBSET Station
      OBVIOUS
    <3> HIDE DEF S
    <3>3. [refresh[r] EXCEPT !.pc = "delete", !.seen = S] \in Refresh
      BY <1>0, <3>2 DEF Refresh
    <3> QED
      BY <1>0, <3>1, <3>3
  <2> QED
    BY <1>0, <2>1, <2>2, <2>3 DEF Shape, DemandTypeOK, VanishedIsGone, OneList
<1>2. CASE RefreshDelete(r)
  <2>1. UNCHANGED <<raw, period, history, rows, job, poll, happened>>
    BY <1>2 DEF RefreshDelete, inputs
  <2>2. refresh' \in [Refreshers -> Refresh]
    <3> DEFINE S == {k \in refresh[r].seen : rows[k].source = "adam4eve"}
    <3>1. refresh' = [refresh EXCEPT ![r] = [refresh[r] EXCEPT !.pc = "insert", !.seen = {},
                                                              !.held = S]]
      BY <1>0, <1>2 DEF RefreshDelete
    <3>2. S \in SUBSET Station
      BY <1>0 DEF Refresh
    <3> HIDE DEF S
    <3>3. [refresh[r] EXCEPT !.pc = "insert", !.seen = {}, !.held = S] \in Refresh
      BY <1>0, <3>2 DEF Refresh
    <3> QED
      BY <1>0, <3>1, <3>3
  <2> QED
    BY <1>0, <2>1, <2>2 DEF Shape, DemandTypeOK, VanishedIsGone, OneList
<1>3. CASE RefreshInsert(r)
  <2> DEFINE D == refresh[r].held
  <2>1. /\ rows' = Inserted(r) /\ Met(D) /\ UNCHANGED <<raw, period, history, happened>>
        /\ refresh' = [s \in Refreshers |->
                         IF s = r THEN NoRefresh
                         ELSE [refresh[s] EXCEPT !.seen = refresh[s].seen \ D]]
    BY <1>3 DEF RefreshInsert, inputs
  <2>2. D \in SUBSET Keys /\ D \in SUBSET Station
    BY <1>0, KeysAre DEF Refresh
  <2>3. refresh' \in [Refreshers -> Refresh]
    <3>1. \A s \in Refreshers : [refresh[s] EXCEPT !.seen = refresh[s].seen \ D] \in Refresh
      BY <1>0 DEF Refresh
    <3> HIDE DEF D
    <3> QED
      BY <2>1, <3>1, NothingTyped
  <2>4. /\ rows' \in [Keys -> Rows]
        /\ \A k \in Keys : rows'[k] = NoRow => rows[k] = NoRow \/ k \in D
    <3>1. ASSUME NEW k \in Keys
          PROVE  /\ Inserted(r)[k] \in Rows
                 /\ Inserted(r)[k] = NoRow => rows[k] = NoRow \/ k \in D
      <4>1. raw[TypeOf(k)] \in Figures
        BY <1>0, KeysAre
      <4>2. /\ Result("adam4eve", raw[TypeOf(k)]) \in Rows
            /\ Result("adam4eve", raw[TypeOf(k)]) # NoRow
        BY <4>1 DEF Result, Rows, NoRow, Sources
      <4>3. Inserted(r)[k] = IF k \in Station /\ Sold(raw[TypeOf(k)])
                             THEN Result("adam4eve", raw[TypeOf(k)])
                             ELSE IF k \in D THEN NoRow ELSE rows[k]
        BY DEF Inserted
      <4> HIDE DEF D
      <4> QED
        BY <1>0, <4>2, <4>3, NothingTyped
    <3>2. Inserted(r) = [k \in Keys |-> Inserted(r)[k]]
      BY DEF Inserted
    <3> HIDE DEF D
    <3> QED
      BY <2>1, <3>1, <3>2
  <2> HIDE DEF D
  <2>5. /\ job' \in Job
        /\ job'.left = job.left /\ job'.pending = job.pending
        /\ job'.old = job.old /\ job'.new = job.new
        /\ \A k \in Keys : k \in job'.gone <=>
              k \in job.gone \/ (k \in D /\ job.old[k] # NoRow)
        /\ poll' \in [Pollers -> Poll]
        /\ \A p \in Pollers : /\ poll'[p].at = poll[p].at /\ poll'[p].old = poll[p].old
                              /\ poll'[p].new = poll[p].new
                              /\ poll[p].gone \/ poll[p].at \cap D # {} => poll'[p].gone
    BY <1>0, <2>1, <2>2, MetTells
  <2>6. DemandTypeOK'
    BY <1>0, <2>1, <2>3, <2>4, <2>5 DEF DemandTypeOK
  <2>7. VanishedIsGone'
    <3>1. \A k \in job'.left \cup job'.pending : k \in Keys
      BY <2>5 DEF Job
    <3>2. \A p \in Pollers : \A k \in poll'[p].at : k \in Keys
      BY <2>5, KeysAre DEF Poll
    <3> QED
      BY <1>0, <2>4, <2>5, <3>1, <3>2 DEF VanishedIsGone
  <2> QED
    BY <1>0, <2>5, <2>6, <2>7 DEF Shape, OneList
<1> QED
  BY <1>1, <1>2, <1>3 DEF RefreshStep

\* Pollers know of each structure's row whether it is still there when they write it.
LEMMA ShapeOfPoll ==
    ASSUME Shape, due' \in BOOLEAN, NEW p \in Pollers, PollStart(p) \/ PollStep(p)
    PROVE  Shape'
<1>0. /\ DemandTypeOK /\ VanishedIsGone /\ OneList /\ job \in Job /\ rows \in [Keys -> Rows]
      /\ poll \in [Pollers -> Poll] /\ poll[p] \in Poll
  BY DEF Shape, DemandTypeOK
<1>1. UNCHANGED <<raw, period, history, refresh, happened>>
  BY DEF PollStart, PollStep, PollRead, PollWrite, inputs
<1>2. \A k \in Structure : k \in Keys
  BY KeysAre
<1>3. ASSUME UNCHANGED <<rows, job>>, NEW q \in Poll, poll' = [poll EXCEPT ![p] = q],
             \A k \in q.at : (q.old # NoRow /\ rows[k] = NoRow => q.gone) /\ q.new # NoRow
      PROVE  Shape'
  <2>1. poll' \in [Pollers -> Poll]
    BY <1>0, <1>3
  <2>2. DemandTypeOK'
    BY <1>0, <1>1, <1>3, <2>1 DEF DemandTypeOK
  <2>3. \A r \in Pollers : poll'[r] = IF r = p THEN q ELSE poll[r]
    BY <1>0, <1>3
  <2>4. VanishedIsGone'
    BY <1>0, <1>3, <2>3 DEF VanishedIsGone
  <2>5. OneList'
    BY <1>0, <1>3 DEF OneList
  <2> QED
    BY <2>2, <2>4, <2>5 DEF Shape
<1>4. CASE PollStart(p)
  <2>1. PICK keys \in SUBSET Structure \ {{}} : poll' = [poll EXCEPT ![p].left = keys]
    BY <1>4 DEF PollStart
  <2> DEFINE q == [poll[p] EXCEPT !.left = keys]
  <2>2. /\ UNCHANGED <<rows, job>> /\ poll' = [poll EXCEPT ![p] = q]
        /\ poll[p] = NoPoll
    BY <1>0, <1>4, <2>1 DEF PollStart
  <2>3. q \in Poll /\ q.at = {}
    <3>1. keys \in SUBSET Structure
      BY <2>1
    <3>2. poll[p].at = {}
      BY <2>2, NothingTyped
    <3>3. q \in Poll /\ q.at = poll[p].at
      BY <1>0, <3>1 DEF Poll
    <3> QED
      BY <3>2, <3>3
  <2> HIDE DEF q
  <2> QED
    BY <1>3, <2>2, <2>3
<1>5. CASE PollRead(p)
  <2>1. PICK k \in poll[p].left :
          poll' = [poll EXCEPT ![p].at = {k}, ![p].left = @ \ {k},
                               ![p].old = rows[k], ![p].new = Current(k)]
    BY <1>5 DEF PollRead
  <2>2. k \in Structure /\ k \in Keys
    BY <1>0, <1>2 DEF Poll
  <2> DEFINE c == Current(k)
             left == poll[p].left \ {k}
             q == [poll[p] EXCEPT !.at = {k}, !.left = left, !.old = rows[k], !.new = c]
  <2>3. c \in Rows /\ c # NoRow /\ rows[k] \in Rows
    BY <1>0, <2>2, CurrentIsRow, StructureHasRow DEF Current
  <2>4. UNCHANGED <<rows, job>> /\ poll' = [poll EXCEPT ![p] = q]
    BY <1>0, <1>5, <2>1 DEF PollRead
  <2>5. left \in SUBSET Structure /\ {k} \in SUBSET Structure
    BY <1>0, <2>2 DEF Poll
  <2> HIDE DEF c, left
  <2>6. q \in Poll /\ q.at = {k} /\ q.old = rows[k] /\ q.new = c
    BY <1>0, <2>3, <2>5 DEF Poll
  <2> HIDE DEF q
  <2> QED
    BY <1>3, <2>3, <2>4, <2>6
<1>6. CASE PollWrite(p)
  <2>1. PICK k \in poll[p].at :
          IF Clashes(k, poll[p].old, poll[p].new, poll[p].gone)
          THEN poll' = [poll EXCEPT ![p] = NoPoll] /\ UNCHANGED <<rows, job>>
          ELSE /\ rows' = [rows EXCEPT ![k] = Flushed(k, poll[p].old, poll[p].new,
                                                      poll[p].gone)]
               /\ poll' = [poll EXCEPT ![p] = [NoPoll EXCEPT !.left = poll[p].left]]
               /\ MetQuietly
    BY <1>6 DEF PollWrite
  <2>2. CASE Clashes(k, poll[p].old, poll[p].new, poll[p].gone)
    <3>1. NoPoll \in Poll /\ NoPoll.at = {}
      BY NothingTyped
    <3> QED
      BY <1>3, <2>1, <2>2, <3>1
  <2>3. CASE ~Clashes(k, poll[p].old, poll[p].new, poll[p].gone)
    <3> DEFINE f == Flushed(k, poll[p].old, poll[p].new, poll[p].gone)
               q == [NoPoll EXCEPT !.left = poll[p].left]
    <3>1. /\ rows' = [rows EXCEPT ![k] = f] /\ poll' = [poll EXCEPT ![p] = q]
          /\ job' = [job EXCEPT !.alone = FALSE]
      BY <2>1, <2>3 DEF MetQuietly
    <3>2. k \in Keys /\ poll[p].old \in Rows /\ poll[p].new \in Rows /\ poll[p].gone \in BOOLEAN
      BY <1>0, <1>2 DEF Poll
    <3>3. poll[p].new # NoRow /\ (poll[p].old # NoRow /\ rows[k] = NoRow => poll[p].gone)
      BY <1>0, <2>1 DEF VanishedIsGone
    <3>4. f \in Rows /\ f # NoRow
      BY <1>0, <2>3, <3>2, <3>3, FlushedIsRow
    <3>5. q \in Poll /\ q.at = {}
      BY <1>0, NothingTyped DEF Poll
    <3>6. /\ job' \in Job /\ job'.left = job.left /\ job'.pending = job.pending
          /\ job'.old = job.old /\ job'.new = job.new /\ job'.gone = job.gone
      BY <1>0, <3>1 DEF Job
    <3> HIDE DEF f, q
    <3>7. /\ rows' \in [Keys -> Rows] /\ poll' \in [Pollers -> Poll]
          /\ \A j \in Keys : rows'[j] = NoRow => rows[j] = NoRow
          /\ \A r \in Pollers : poll'[r] = IF r = p THEN q ELSE poll[r]
      BY <1>0, <3>1, <3>2, <3>4, <3>5
    <3>8. DemandTypeOK'
      BY <1>0, <1>1, <3>6, <3>7 DEF DemandTypeOK
    <3>9. VanishedIsGone'
      <4>1. \A j \in job.left \cup job.pending : j \in Keys
        BY <1>0 DEF Job
      <4>2. \A r \in Pollers : \A j \in poll[r].at : j \in Keys
        BY <1>0, <1>2 DEF Poll
      <4> QED
        BY <1>0, <3>5, <3>6, <3>7, <4>1, <4>2 DEF VanishedIsGone
    <3> QED
      BY <1>0, <3>6, <3>8, <3>9 DEF Shape, OneList
  <2> QED
    BY <2>2, <2>3
<1> QED
  BY <1>4, <1>5, <1>6 DEF PollStep

\* Inputs that change, and runs that end before their time.
LEMMA ShapeOfFail ==
    ASSUME Shape, due' \in BOOLEAN, Publish \/ Change \/ Fail \/ UNCHANGED vars
    PROVE  Shape'
<1>0. /\ DemandTypeOK /\ VanishedIsGone /\ OneList /\ job \in Job /\ rows \in [Keys -> Rows]
      /\ refresh \in [Refreshers -> Refresh] /\ poll \in [Pollers -> Poll]
      /\ raw \in [Types -> Figures] /\ period \in [Keys -> Figures]
      /\ history \in [Types -> Figures]
      /\ happened \in 0..MaxHappenings
  BY DEF Shape, DemandTypeOK
<1>1. CASE Change
  <2>1. /\ MetQuietly /\ UNCHANGED <<rows, refresh, poll>>
        /\ happened < MaxHappenings /\ happened' = happened + 1
    BY <1>1 DEF Change, Happening
  <2>2. happened' \in 0..MaxHappenings
    BY <1>0, <2>1, DemandAssumption
  <2>3. /\ raw' \in [Types -> Figures] /\ period' \in [Keys -> Figures]
        /\ history' \in [Types -> Figures]
    BY <1>0, <1>1 DEF Change, Figures
  <2>4. /\ job' \in Job /\ job'.left = job.left /\ job'.pending = job.pending
        /\ job'.old = job.old /\ job'.new = job.new /\ job'.gone = job.gone
    BY <1>0, <2>1 DEF Job, MetQuietly
  <2>5. DemandTypeOK'
    BY <1>0, <2>1, <2>2, <2>3, <2>4 DEF DemandTypeOK
  <2>6. VanishedIsGone'
    BY <1>0, <2>1, <2>4 DEF VanishedIsGone
  <2> QED
    BY <1>0, <2>4, <2>5, <2>6 DEF Shape, OneList
<1>2. CASE Fail
  <2>1. /\ UNCHANGED <<raw, period, history, rows>>
        /\ happened < MaxHappenings /\ happened' = happened + 1
    BY <1>2 DEF Fail, Happening, inputs
  <2>2. happened' \in 0..MaxHappenings
    BY <1>0, <2>1, DemandAssumption
  <2>3. CASE job' = NoJob /\ UNCHANGED <<refresh, poll>>
    <3>1. job' \in Job /\ job'.left = {} /\ job'.pending = {}
      BY <2>3, NothingTyped
    <3>2. DemandTypeOK'
      BY <1>0, <2>1, <2>2, <2>3, <3>1 DEF DemandTypeOK
    <3>3. VanishedIsGone'
      BY <1>0, <2>1, <2>3, <3>1 DEF VanishedIsGone
    <3> QED
      BY <3>1, <3>2, <3>3 DEF Shape, OneList
  <2>4. CASE /\ \E r \in Refreshers : refresh' = [refresh EXCEPT ![r] = NoRefresh]
             /\ UNCHANGED <<job, poll>>
    <3>1. refresh' \in [Refreshers -> Refresh]
      BY <1>0, <2>4, NothingTyped
    <3>2. DemandTypeOK'
      BY <1>0, <2>1, <2>2, <2>4, <3>1 DEF DemandTypeOK
    <3> QED
      BY <1>0, <2>1, <2>4, <3>2 DEF Shape, OneList, VanishedIsGone
  <2>5. CASE /\ \E p \in Pollers : poll' = [poll EXCEPT ![p] = NoPoll]
             /\ UNCHANGED <<job, refresh>>
    <3>1. PICK p \in Pollers : poll' = [poll EXCEPT ![p] = NoPoll]
      BY <2>5
    <3>2. /\ poll' \in [Pollers -> Poll] /\ NoPoll.at = {}
          /\ \A q \in Pollers : poll'[q] = IF q = p THEN NoPoll ELSE poll[q]
      BY <1>0, <3>1, NothingTyped
    <3>3. DemandTypeOK'
      BY <1>0, <2>1, <2>2, <2>5, <3>2 DEF DemandTypeOK
    <3>4. VanishedIsGone'
      BY <1>0, <2>1, <2>5, <3>2 DEF VanishedIsGone
    <3> QED
      BY <1>0, <2>5, <3>3, <3>4 DEF Shape, OneList
  <2> QED
    BY <1>2, <2>3, <2>4, <2>5 DEF Fail
<1>3. CASE Publish \/ UNCHANGED vars
  <2>1. UNCHANGED <<raw, period, history, rows, refresh, job, poll, happened>>
    BY <1>3 DEF Publish, inputs, vars
  <2> QED
    BY <1>0, <2>1 DEF Shape, DemandTypeOK, VanishedIsGone, OneList
<1> QED
  BY <1>1, <1>2, <1>3

\* Whoever has loaded rows is told what a clearing takes away.
LEMMA ShapeOfClear ==
    ASSUME Shape, due' \in BOOLEAN, Clear
    PROVE  Shape'
<1>0. /\ DemandTypeOK /\ VanishedIsGone /\ OneList /\ job \in Job /\ rows \in [Keys -> Rows]
      /\ refresh \in [Refreshers -> Refresh] /\ poll \in [Pollers -> Poll]
      /\ raw \in [Types -> Figures] /\ period \in [Keys -> Figures]
      /\ history \in [Types -> Figures]
      /\ happened \in 0..MaxHappenings /\ 0 \in Figures /\ NoRow \in Rows
  BY NothingTyped DEF Shape, DemandTypeOK
<1>1. happened' \in 0..MaxHappenings
  BY <1>0, DemandAssumption DEF Clear, Happening
<1>2. ASSUME NEW D \in SUBSET Keys, Met(D), rows' = Without(D),
             raw' \in [Types -> Figures], period' \in [Keys -> Figures],
             history' \in [Types -> Figures], refresh' \in [Refreshers -> Refresh]
      PROVE  Shape'
  <2>1. /\ rows' \in [Keys -> Rows]
        /\ \A k \in Keys : rows'[k] = NoRow => rows[k] = NoRow \/ k \in D
    BY <1>0, <1>2 DEF Without
  <2>2. /\ job' \in Job
        /\ job'.left = job.left /\ job'.pending = job.pending
        /\ job'.old = job.old /\ job'.new = job.new
        /\ \A k \in Keys : k \in job'.gone <=>
              k \in job.gone \/ (k \in D /\ job.old[k] # NoRow)
        /\ poll' \in [Pollers -> Poll]
        /\ \A p \in Pollers : /\ poll'[p].at = poll[p].at /\ poll'[p].old = poll[p].old
                              /\ poll'[p].new = poll[p].new
                              /\ poll[p].gone \/ poll[p].at \cap D # {} => poll'[p].gone
    BY <1>0, <1>2, MetTells
  <2>3. DemandTypeOK'
    BY <1>1, <1>2, <2>1, <2>2 DEF DemandTypeOK
  <2>4. VanishedIsGone'
    <3>1. \A k \in job'.left \cup job'.pending : k \in Keys
      BY <2>2 DEF Job
    <3>2. \A p \in Pollers : \A k \in poll'[p].at : k \in Keys
      BY <2>2, KeysAre DEF Poll
    <3> QED
      BY <1>0, <2>1, <2>2, <3>1, <3>2 DEF VanishedIsGone
  <2> QED
    BY <1>0, <2>2, <2>3, <2>4 DEF Shape, OneList
<1>3. CASE ClearAdam
  <2>1. /\ Met(Station) /\ rows' = Without(Station) /\ UNCHANGED <<period, history>>
        /\ raw' = [t \in Types |-> 0]
        /\ refresh' = [r \in Refreshers |-> [refresh[r] EXCEPT !.seen = {}]]
    BY <1>3 DEF ClearAdam
  <2>2. \A r \in Refreshers : [refresh[r] EXCEPT !.seen = {}] \in Refresh
    BY <1>0 DEF Refresh
  <2>3. raw' \in [Types -> Figures] /\ refresh' \in [Refreshers -> Refresh]
    BY <1>0, <2>1, <2>2
  <2> QED
    BY <1>0, <1>2, <2>1, <2>3, KeysAre
<1>4. CASE ClearSnapshots
  <2>1. /\ Met(Structure) /\ rows' = Without(Structure) /\ UNCHANGED <<raw, history, refresh>>
        /\ period' = [k \in Keys |-> IF k \in Structure THEN 0 ELSE period[k]]
    BY <1>4 DEF ClearSnapshots
  <2>2. period' \in [Keys -> Figures]
    BY <1>0, <2>1
  <2> QED
    BY <1>0, <1>2, <2>1, <2>2, KeysAre
<1>5. CASE ClearHistory
  <2>1. /\ MetQuietly /\ UNCHANGED <<rows, raw, period, refresh, poll>>
        /\ history' = [t \in Types |-> 0]
    BY <1>5 DEF ClearHistory
  <2>2. /\ job' \in Job /\ job'.left = job.left /\ job'.pending = job.pending
        /\ job'.old = job.old /\ job'.new = job.new /\ job'.gone = job.gone
    BY <1>0, <2>1 DEF Job, MetQuietly
  <2>3. DemandTypeOK'
    BY <1>0, <1>1, <2>1, <2>2 DEF DemandTypeOK
  <2>4. VanishedIsGone'
    BY <1>0, <2>1, <2>2 DEF VanishedIsGone
  <2> QED
    BY <1>0, <2>2, <2>3, <2>4 DEF Shape, OneList
<1> QED
  BY <1>3, <1>4, <1>5 DEF Clear

-----------------------------------------------------------------------------
(* An import that nothing disturbs                                         *)

Undisturbed == job.alone => LoadedIsThere /\ NoneDropped

\* What is to be resolved follows from the inputs.
LEMMA WantedOfInputs ==
    ASSUME UNCHANGED <<raw, period, history>>
    PROVE  /\ Wanted' = Wanted
           /\ \A k \in Keys : (Covers(k)' <=> Covers(k)) /\ Current(k)' = Current(k)
<1>1. \A k \in Keys : HasDemand(k)' <=> HasDemand(k)
  BY DEF HasDemand
<1>2. \A k \in Keys : Covers(k)' <=> Covers(k)
  BY DEF Covers
<1>3. \A k \in Keys : Current(k)' = Current(k)
  BY DEF Current
<1> QED
  BY <1>1, <1>2, <1>3 DEF Wanted

\* As long as neither the import nor what it reads moves, nothing is dropped.
LEMMA UndisturbedAtRest ==
    ASSUME Undisturbed, DemandTypeOK, UNCHANGED <<raw, period, history, rows, job>>
    PROVE  Undisturbed'
<1>1. /\ Wanted' = Wanted
      /\ \A k \in Keys : (Covers(k)' <=> Covers(k)) /\ Current(k)' = Current(k)
  BY WantedOfInputs
<1>2. Wanted \subseteq Keys /\ job.left \subseteq Keys /\ job.pending \subseteq Keys
  BY DEF Wanted, DemandTypeOK, Job
<1>3. ASSUME job.alone PROVE LoadedIsThere' /\ NoneDropped'
  <2>1. LoadedIsThere /\ NoneDropped
    BY <1>3 DEF Undisturbed
  <2>2. LoadedIsThere'
    BY <1>1, <1>2, <2>1 DEF LoadedIsThere
  <2>3. \A k \in Keys : (Settled(k)' <=> Settled(k)) /\ (WellDerived(k)' <=> WellDerived(k))
    BY <1>1 DEF Settled, WellDerived
  <2>4. NoneDropped'
    <3>1. job.pc = "exclude" => Wanted' \subseteq job.left
      BY <1>1, <2>1 DEF NoneDropped
    <3>2. job.pc = "preload" => \A k \in Wanted' \ job.left : Covers(k)' /\ rows[k] # NoRow
      BY <1>1, <1>2, <2>1 DEF NoneDropped
    <3>3. job.pc \in {"derive", "commit"} =>
             /\ \A k \in Wanted' \ (job.left \cup job.pending) : Settled(k)'
             /\ \A k \in Wanted' \cap job.pending : WellDerived(k)'
      BY <1>1, <1>2, <2>1, <2>3 DEF NoneDropped
    <3>4. job.pc = "idle" => \A k \in Wanted' : Settled(k)'
      BY <1>1, <1>2, <2>1, <2>3 DEF NoneDropped
    <3> QED
      BY <3>1, <3>2, <3>3, <3>4 DEF NoneDropped
  <2> QED
    BY <2>2, <2>4
<1> QED
  BY <1>3 DEF Undisturbed

\* The look finds every key that something was sold of, with what Adam4EVE covers of them.
LEMMA LookFinds ==
    ASSUME Shape, Look
    PROVE  Undisturbed'
<1>1. PICK ordered \in SUBSET Keys :
         LET keys == {k \in Keys : Sold(history[TypeOf(k)])}
                        \cup {k \in Station : Sold(period[k])} \cup ordered
         IN job' = [NoJob EXCEPT !.pc = "exclude", !.left = keys, !.alone = TRUE,
                                 !.covered = CoveredBy(keys)]
  BY DEF Look
<1> DEFINE keys == {k \in Keys : Sold(history[TypeOf(k)])}
                      \cup {k \in Station : Sold(period[k])} \cup ordered
           covered == CoveredBy(keys)
<1>2. /\ UNCHANGED <<raw, period, history, rows>>
      /\ job' = [NoJob EXCEPT !.pc = "exclude", !.left = keys, !.alone = TRUE,
                              !.covered = covered]
  BY <1>1 DEF Look, inputs
<1>3. /\ \A k \in keys : k \in Keys /\ (k \in covered <=> Covers(k))
      /\ Wanted \subseteq keys
  <2>1. keys \subseteq Keys
    BY KeysAre
  <2>2. Wanted \subseteq keys
    BY DEF Wanted, HasDemand
  <2> HIDE DEF keys
  <2>3. \A k \in keys : k \in covered <=> Covers(k)
    BY DEF CoveredBy, Covers
  <2> QED
    BY <2>1, <2>2, <2>3
<1> HIDE DEF keys, covered
<1>4. /\ job'.pc = "exclude" /\ job'.left = keys /\ job'.covered = covered /\ job'.gone = {}
      /\ job'.pending = {}
  BY <1>2 DEF NoJob
<1>5. /\ Wanted' = Wanted
      /\ \A k \in Keys : Covers(k)' <=> Covers(k)
  BY <1>2, WantedOfInputs
<1>6. LoadedIsThere'
  BY <1>3, <1>4, <1>5 DEF LoadedIsThere
<1>7. NoneDropped'
  BY <1>3, <1>4, <1>5 DEF NoneDropped
<1> QED
  BY <1>6, <1>7 DEF Undisturbed

\* What is excluded has a row of what Adam4EVE covers, and the rest is loaded.
LEMMA LoadingKeeps ==
    ASSUME Shape, Undisturbed, Exclude \/ Preload
    PROVE  Undisturbed'
<1> SUFFICES ASSUME job'.alone PROVE LoadedIsThere' /\ NoneDropped'
  BY DEF Undisturbed
<1>0. DemandTypeOK /\ OneList /\ job \in Job /\ rows \in [Keys -> Rows]
  BY DEF Shape, DemandTypeOK
<1>1. UNCHANGED <<raw, period, history, rows>>
  BY DEF Exclude, Preload, inputs
<1>2. /\ Wanted' = Wanted
      /\ \A k \in Keys : (Covers(k)' <=> Covers(k)) /\ Current(k)' = Current(k)
  BY <1>1, WantedOfInputs
<1>3. Wanted \subseteq Keys /\ job.left \subseteq Keys
  BY <1>0 DEF Wanted, Job
<1>4. CASE Exclude
  <2> DEFINE resolved == CoveredAndResolved
  <2>1. /\ job.pc = "exclude" /\ job'.pc = "preload" /\ job'.left = job.left \ resolved
        /\ job'.covered = job.covered /\ job'.gone = job.gone /\ job'.alone = job.alone
        /\ job'.pending = job.pending
    BY <1>0, <1>4 DEF Exclude, Job
  <2>2. LoadedIsThere /\ NoneDropped
    BY <2>1 DEF Undisturbed
  <2>3. Wanted \subseteq job.left
    BY <2>1, <2>2 DEF NoneDropped
  <2>4. \A k \in job.left : k \in job.covered <=> Covers(k)
    BY <2>2 DEF LoadedIsThere
  <2>5. \A k \in resolved : k \in job.covered /\ rows[k] # NoRow
    BY DEF CoveredAndResolved
  <2> HIDE DEF resolved
  <2>6. LoadedIsThere'
    BY <1>2, <1>3, <2>1, <2>2, <2>4 DEF LoadedIsThere
  <2>7. \A k \in Wanted \ job'.left : Covers(k)' /\ rows'[k] # NoRow
    BY <1>1, <1>2, <1>3, <2>1, <2>3, <2>4, <2>5
  <2>8. NoneDropped'
    BY <1>2, <2>1, <2>7 DEF NoneDropped
  <2> QED
    BY <2>6, <2>8
<1>5. CASE Preload /\ job.left = {}
  <2>1. job' = [NoJob EXCEPT !.alone = job.alone] /\ job.pc = "preload"
    BY <1>5 DEF Preload, Ended
  <2>2. job'.left = {} /\ job'.gone = {} /\ job'.pc = "idle" /\ job'.alone = job.alone
    BY <2>1 DEF NoJob
  <2>3. NoneDropped
    BY <2>2 DEF Undisturbed
  <2>4. \A k \in Wanted : Covers(k) /\ rows[k] # NoRow
    BY <1>5, <2>1, <2>3 DEF NoneDropped
  <2>5. \A k \in Wanted : Settled(k)'
    BY <1>1, <1>2, <1>3, <2>4 DEF Settled
  <2>6. NoneDropped'
    BY <1>2, <2>2, <2>5 DEF NoneDropped
  <2>7. LoadedIsThere'
    BY <2>2 DEF LoadedIsThere
  <2> QED
    BY <2>6, <2>7
<1>6. CASE Preload /\ job.left # {}
  <2> DEFINE P == [k \in Keys |-> IF k \in job.left \cap Station THEN period[k] ELSE 0]
             R == [k \in Keys |-> IF k \in job.left THEN rows[k] ELSE NoRow]
  <2>1. /\ \A k \in job.left : R[k] = rows[k]
        /\ \A k \in job.left \cap Station : P[k] = period[k]
    BY <1>3
  <2>2. job' = [job EXCEPT !.pc = "derive", !.history = history, !.period = P, !.old = R]
        /\ job.pc = "preload"
    BY <1>6 DEF Preload
  <2> HIDE DEF P, R
  <2>3. /\ job'.pc = "derive" /\ job'.left = job.left /\ job'.pending = job.pending
        /\ job'.old = R /\ job'.period = P /\ job'.history = history
        /\ job'.gone = job.gone /\ job'.covered = job.covered /\ job'.alone = job.alone
    BY <1>0, <2>2 DEF Job
  <2>4. LoadedIsThere /\ NoneDropped
    BY <2>3 DEF Undisturbed
  <2>5. job.pending = {}
    BY <2>2, <2>4 DEF LoadedIsThere
  <2>6. \A k \in job.left : k \in job.covered <=> Covers(k)
    BY <2>4 DEF LoadedIsThere
  <2>7. LoadedIsThere'
    BY <1>1, <1>2, <1>3, <2>1, <2>3, <2>4, <2>5, <2>6 DEF LoadedIsThere
  <2>8. \A k \in Wanted \ job.left : Covers(k) /\ rows[k] # NoRow
    BY <2>2, <2>4 DEF NoneDropped
  <2>9. \A k \in Wanted \ job.left : Settled(k)'
    BY <1>1, <1>2, <1>3, <2>8 DEF Settled
  <2>10. NoneDropped'
    BY <1>2, <2>3, <2>5, <2>9 DEF NoneDropped
  <2> QED
    BY <2>7, <2>10
<1> QED
  BY <1>4, <1>5, <1>6

\* A key that is derived of what is there gets the row it is to have.
LEMMA DerivingKeeps ==
    ASSUME Shape, Undisturbed, Derive
    PROVE  Undisturbed'
<1> SUFFICES ASSUME job'.alone PROVE LoadedIsThere' /\ NoneDropped'
  BY DEF Undisturbed
<1>0. DemandTypeOK /\ OneList /\ job \in Job /\ rows \in [Keys -> Rows]
  BY DEF Shape, DemandTypeOK
<1>1. UNCHANGED <<raw, period, history, rows>> /\ job.pc = "derive"
  BY DEF Derive, inputs
<1>2. /\ Wanted' = Wanted
      /\ \A k \in Keys : (Covers(k)' <=> Covers(k)) /\ Current(k)' = Current(k)
  BY <1>1, WantedOfInputs
<1>3. Wanted \subseteq Keys /\ job.left \subseteq Keys /\ job.pending \subseteq Keys
      /\ job.new \in [Keys -> Rows]
  BY <1>0 DEF Wanted, Job
<1>4. PICK k \in job.left :
              /\ k \in Keys
              /\ job' \in Job /\ job'.alone = job.alone
              /\ job'.left = job.left \ {k} /\ job'.pending = job.pending \cup {k}
              /\ job'.pc = "commit" \/ (job'.pc = "derive" /\ job'.left # {})
              /\ job'.new = [job.new EXCEPT ![k] = Derived(k)]
              /\ \A j \in Keys : j # k =>
                    /\ job'.old[j] = job.old[j]
                    /\ job'.period[j] = job.period[j]
                    /\ j \in job'.gone <=> j \in job.gone
                    /\ j \in job'.covered <=> j \in job.covered
              /\ \/ job'.old[k] = job.old[k] /\ (k \in job'.gone <=> k \in job.gone)
                 \/ job'.old[k] = rows[k] /\ job'.gone = job.gone \ {k}
              /\ job'.gone \subseteq job.gone
              /\ job'.left # {} => job'.history = job.history
  BY <1>0, DeriveMoves
<1>5. LoadedIsThere /\ NoneDropped
  BY <1>4 DEF Undisturbed
<1>6. /\ job.gone = {}
      /\ \A j \in job.left : j \in job.covered <=> Covers(j)
      /\ \A j \in job.left \cup job.pending : job.old[j] = rows[j]
      /\ \A j \in job.left \cap Station : job.period[j] = period[j]
      /\ job.history = history
  BY <1>1, <1>4, <1>5 DEF LoadedIsThere
<1>7. /\ HasDemand(k) => Derived(k) # NoRow
      /\ ~Covers(k) => Derived(k) = Current(k)
  <2>1. /\ k \in job.covered <=> Covers(k)
        /\ k \in Station => job.period[k] = period[k]
        /\ job.history = history
    BY <1>4, <1>6
  <2> QED
    BY <1>0, <1>4, <2>1, DerivedIsRow
<1>8. LoadedIsThere'
  <2>1. job'.gone = {}
    BY <1>4, <1>6
  <2>2. \A j \in job'.left : j \in job'.covered <=> Covers(j)'
    BY <1>2, <1>3, <1>4, <1>6
  <2>3. \A j \in job'.left \cup job'.pending : job'.old[j] = rows'[j]
    <3>1. ASSUME NEW j \in job.left \cup job.pending, j # k PROVE job'.old[j] = rows'[j]
      BY <1>1, <1>3, <1>4, <1>6, <3>1
    <3>2. job'.old[k] = rows'[k]
      BY <1>1, <1>4, <1>6
    <3> QED
      BY <1>4, <3>1, <3>2
  <2>4. \A j \in job'.left \cap Station : job'.period[j] = period'[j]
    BY <1>1, <1>3, <1>4, <1>6
  <2>5. job'.left # {} => job'.history = history'
    BY <1>1, <1>4, <1>6
  <2>6. job'.pc \notin {"exclude", "preload"}
    BY <1>4
  <2> QED
    BY <2>1, <2>2, <2>3, <2>4, <2>5, <2>6 DEF LoadedIsThere
<1>9. NoneDropped'
  <2>1. /\ \A j \in Wanted \ (job.left \cup job.pending) : Settled(j)
        /\ \A j \in Wanted \cap job.pending : WellDerived(j)
    BY <1>1, <1>5 DEF NoneDropped
  <2>2. job'.pc \in {"derive", "commit"}
    BY <1>4
  <2>3. \A j \in Wanted' \ (job'.left \cup job'.pending) : Settled(j)'
    <3>1. ASSUME NEW j \in Wanted, j \notin job'.left \cup job'.pending PROVE Settled(j)'
      <4>1. Settled(j) /\ j \in Keys
        BY <1>3, <1>4, <2>1, <3>1
      <4> QED
        BY <1>1, <1>2, <4>1 DEF Settled
    <3> QED
      BY <1>2, <3>1
  <2>4. \A j \in Wanted' \cap job'.pending : WellDerived(j)'
    <3>1. ASSUME NEW j \in Wanted \cap job.pending, j # k PROVE WellDerived(j)'
      <4>1. WellDerived(j) /\ j \in Keys /\ job'.new[j] = job.new[j]
        BY <1>3, <1>4, <2>1, <3>1
      <4> QED
        BY <1>2, <4>1 DEF WellDerived
    <3>2. ASSUME k \in Wanted PROVE WellDerived(k)'
      <4>1. HasDemand(k)
        BY <3>2 DEF Wanted
      <4>2. job'.new[k] = Derived(k)
        BY <1>3, <1>4
      <4>3. job'.new[k] # NoRow /\ (~Covers(k)' => job'.new[k] = Current(k)')
        BY <1>2, <1>4, <1>7, <4>1, <4>2
      <4> QED
        BY <4>3 DEF WellDerived
    <3> QED
      BY <1>2, <1>4, <3>1, <3>2
  <2> QED
    BY <2>2, <2>3, <2>4 DEF NoneDropped
<1> QED
  BY <1>8, <1>9

\* A commit writes what was derived, for nobody has written since.
LEMMA CommittingKeeps ==
    ASSUME Shape, Undisturbed, Commit
    PROVE  Undisturbed'
<1> SUFFICES ASSUME job'.alone PROVE LoadedIsThere' /\ NoneDropped'
  BY DEF Undisturbed
<1>0. DemandTypeOK /\ VanishedIsGone /\ OneList /\ job \in Job /\ rows \in [Keys -> Rows]
  BY DEF Shape, DemandTypeOK
<1>1. /\ UNCHANGED <<raw, period, history>> /\ job.pc = "commit" /\ ~Clashing
      /\ rows' = Committed
  <2>1. ~Clashing
    BY NothingTyped DEF Commit
  <2> QED
    BY <2>1 DEF Commit, inputs
<1>2. /\ Wanted' = Wanted
      /\ \A k \in Keys : (Covers(k)' <=> Covers(k)) /\ Current(k)' = Current(k)
  BY <1>1, WantedOfInputs
<1>3. Wanted \subseteq Keys /\ job.left \subseteq Keys /\ job.pending \subseteq Keys
  BY <1>0 DEF Wanted, Job
<1>4. job'.alone = job.alone
  <2>1. CASE job.left = {}
    BY <1>1, <2>1 DEF Commit, Ended, NoJob
  <2>2. CASE job.left # {}
    BY <1>0, <1>1, <2>2 DEF Commit, Job
  <2> QED
    BY <2>1, <2>2
<1>5. LoadedIsThere /\ NoneDropped
  BY <1>4 DEF Undisturbed
<1>6. /\ job.gone = {}
      /\ \A j \in job.left : j \in job.covered <=> Covers(j)
      /\ \A j \in job.left \cup job.pending : job.old[j] = rows[j]
      /\ \A j \in job.left \cap Station : job.period[j] = period[j]
      /\ job.left # {} => job.history = history
  BY <1>1, <1>5 DEF LoadedIsThere
<1>7. /\ \A j \in Wanted \ (job.left \cup job.pending) : Settled(j)
      /\ \A j \in Wanted \cap job.pending : WellDerived(j)
  BY <1>1, <1>5 DEF NoneDropped
<1>8. \A j \in Keys :
         /\ j \notin job.pending => rows'[j] = rows[j]
         /\ j \in job.pending /\ job.new[j] # NoRow =>
               /\ rows'[j] # NoRow
               /\ job.old[j] = rows[j] => rows'[j] = job.new[j]
  BY <1>0, <1>1, CommittedRows
<1>9. ASSUME NEW j \in Wanted, j \notin job.left PROVE Settled(j)'
  <2>1. CASE j \in job.pending
    <3>1. job.new[j] # NoRow /\ (~Covers(j) => job.new[j] = Current(j))
      BY <1>7, <2>1 DEF WellDerived
    <3>2. rows'[j] = job.new[j]
      BY <1>3, <1>6, <1>8, <2>1, <3>1
    <3> QED
      BY <1>2, <1>3, <3>1, <3>2 DEF Settled
  <2>2. CASE j \notin job.pending
    <3>1. Settled(j) /\ rows'[j] = rows[j] /\ j \in Keys
      BY <1>3, <1>7, <1>8, <1>9, <2>2
    <3> QED
      BY <1>2, <3>1 DEF Settled
  <2> QED
    BY <2>1, <2>2
<1>10. CASE job.left = {}
  <2>1. job' = [NoJob EXCEPT !.alone = job.alone]
    BY <1>1, <1>10 DEF Commit, Ended
  <2>2. job'.left = {} /\ job'.gone = {} /\ job'.pc = "idle"
    BY <2>1 DEF NoJob
  <2>3. LoadedIsThere'
    BY <2>2 DEF LoadedIsThere
  <2>4. \A j \in Wanted : Settled(j)'
    BY <1>9, <1>10
  <2>5. NoneDropped'
    BY <1>2, <2>2, <2>4 DEF NoneDropped
  <2> QED
    BY <2>3, <2>5
<1>11. CASE job.left # {}
  <2> DEFINE N == [k \in Keys |-> NoRow]
             O == [k \in Keys |-> IF k \in job.left THEN job.old[k] ELSE NoRow]
  <2>1. job' = [job EXCEPT !.pc = "derive", !.pending = {}, !.new = N, !.old = O,
                           !.gone = job.gone \ job.pending]
    BY <1>0, <1>1, <1>11 DEF Commit, Job
  <2>2. \A k \in job.left : O[k] = job.old[k]
    BY <1>3
  <2> HIDE DEF N, O
  <2>3. /\ job'.pc = "derive" /\ job'.left = job.left /\ job'.pending = {} /\ job'.old = O
        /\ job'.gone = job.gone \ job.pending /\ job'.covered = job.covered
        /\ job'.period = job.period /\ job'.history = job.history
    BY <1>0, <2>1 DEF Job
  <2>4. \A j \in job.left : j \notin job.pending /\ rows'[j] = rows[j]
    BY <1>0, <1>3, <1>8 DEF OneList
  <2>5. LoadedIsThere'
    BY <1>1, <1>2, <1>3, <1>6, <2>2, <2>3, <2>4 DEF LoadedIsThere
  <2>6. \A j \in Wanted \ job.left : Settled(j)'
    BY <1>9
  <2>7. NoneDropped'
    BY <1>2, <2>3, <2>6 DEF NoneDropped
  <2> QED
    BY <2>5, <2>7
<1> QED
  BY <1>10, <1>11

\* Every other step that moves what the import has read disturbs it, or ends it.
LEMMA OthersDisturb ==
    ASSUME Shape, Undisturbed,
           \/ \E r \in Refreshers : RefreshStart(r) \/ RefreshStep(r)
           \/ \E p \in Pollers : PollStart(p) \/ PollStep(p)
           \/ Publish \/ Change \/ Fail \/ Interrupt \/ Clear \/ UNCHANGED vars
    PROVE  Undisturbed'
<1>0. DemandTypeOK /\ job \in Job
  BY DEF Shape, DemandTypeOK
<1>1. ASSUME job' = NoJob \/ MetQuietly \/ (\E D : Met(D)) PROVE Undisturbed'
  <2>1. ~job'.alone
    <3>1. CASE job' = NoJob
      BY <3>1, NothingTyped
    <3>2. CASE MetQuietly
      BY <1>0, <3>2 DEF MetQuietly, Job
    <3>3. CASE \E D : Met(D)
      <4>1. PICK D : Met(D)
        BY <3>3
      <4> DEFINE G == job.gone \cup {k \in D : job.old[k] # NoRow}
      <4>2. job' = [job EXCEPT !.alone = FALSE, !.gone = G]
        BY <4>1 DEF Met
      <4> HIDE DEF G
      <4> QED
        BY <1>0, <4>2 DEF Job
    <3> QED
      BY <1>1, <3>1, <3>2, <3>3
  <2> QED
    BY <2>1 DEF Undisturbed
<1>2. ASSUME UNCHANGED <<raw, period, history, rows, job>> PROVE Undisturbed'
  BY <1>0, <1>2, UndisturbedAtRest
<1>3. ASSUME NEW r \in Refreshers, RefreshStart(r) \/ RefreshStep(r) PROVE Undisturbed'
  <2>1. CASE RefreshStart(r) \/ RefreshDelete(r)
    BY <1>2, <2>1 DEF RefreshStart, RefreshDelete, inputs
  <2>2. CASE RefreshInsert(r)
    BY <1>1, <2>2 DEF RefreshInsert
  <2> QED
    BY <1>3, <2>1, <2>2 DEF RefreshStep
<1>4. ASSUME NEW p \in Pollers, PollStart(p) \/ PollStep(p) PROVE Undisturbed'
  <2>1. CASE PollStart(p) \/ PollRead(p)
    BY <1>2, <2>1 DEF PollStart, PollRead, inputs
  <2>2. CASE PollWrite(p)
    BY <1>1, <1>2, <2>2 DEF PollWrite, inputs
  <2> QED
    BY <1>4, <2>1, <2>2 DEF PollStep
<1>5. CASE Change \/ Interrupt
  BY <1>1, <1>5 DEF Change, Interrupt
<1>6. CASE Fail
  BY <1>1, <1>2, <1>6 DEF Fail, inputs
<1>7. CASE Clear
  BY <1>1, <1>7 DEF Clear, ClearAdam, ClearSnapshots, ClearHistory
<1>8. CASE Publish \/ UNCHANGED vars
  BY <1>2, <1>8 DEF Publish, inputs, vars
<1> QED
  BY <1>3, <1>4, <1>5, <1>6, <1>7, <1>8

-----------------------------------------------------------------------------
(* The theorem                                                             *)

\* The invariant holds before anything was derived.
LEMMA NothingYet ==
    ASSUME Init
    PROVE  IInv
<1>1. /\ rows \in [Keys -> Rows] /\ poll \in [Pollers -> Poll] /\ job \in Job
      /\ refresh \in [Refreshers -> Refresh]
      /\ raw \in [Types -> Figures] /\ period \in [Keys -> Figures]
      /\ history \in [Types -> Figures] /\ due \in BOOLEAN
      /\ happened \in 0..MaxHappenings
  BY NothingTyped, DemandAssumption DEF Init
<1>2. job.left = {} /\ job.pending = {} /\ ~job.alone
  BY NothingTyped DEF Init
<1>3. \A p \in Pollers : poll[p].at = {}
  BY NothingTyped DEF Init
<1> QED
  BY <1>1, <1>2, <1>3 DEF IInv, DemandTypeOK, VanishedIsGone, OneList

\* Files become due, and are loaded or cleared.
LEMMA DueOrNot ==
    ASSUME DemandTypeOK, [Next]_vars
    PROVE  due' \in BOOLEAN
<1>1. CASE JobStep \/ Interrupt
  BY <1>1 DEF JobStep, Look, Exclude, Preload, Derive, Commit, Interrupt, DemandTypeOK
<1>2. CASE \E r \in Refreshers : RefreshStart(r) \/ RefreshStep(r)
  BY <1>2 DEF RefreshStart, RefreshStep, RefreshDelete, RefreshInsert, DemandTypeOK
<1>3. CASE \E p \in Pollers : PollStart(p) \/ PollStep(p)
  BY <1>3 DEF PollStart, PollStep, PollRead, PollWrite, DemandTypeOK
<1>4. CASE Publish \/ Change \/ Fail \/ Clear \/ UNCHANGED vars
  BY <1>4 DEF Publish, Change, Fail, Clear, ClearAdam, ClearSnapshots, ClearHistory, vars,
              DemandTypeOK
<1> QED
  BY <1>1, <1>2, <1>3, <1>4 DEF Next

\* Every step keeps it.
LEMMA NothingSlips ==
    ASSUME IInv, [Next]_vars
    PROVE  IInv'
<1>1. Shape /\ Undisturbed
  BY DEF IInv, Shape, Undisturbed
<1>0. due' \in BOOLEAN
  BY <1>1, DueOrNot DEF Shape
<1>2. Shape'
  <2>1. CASE JobStep \/ Interrupt
    BY <1>0, <1>1, <2>1, ShapeOfJob, ShapeOfDerive, ShapeOfCommit DEF JobStep
  <2>2. CASE \E r \in Refreshers : RefreshStart(r) \/ RefreshStep(r)
    BY <1>0, <1>1, <2>2, ShapeOfRefresh
  <2>3. CASE \E p \in Pollers : PollStart(p) \/ PollStep(p)
    BY <1>0, <1>1, <2>3, ShapeOfPoll
  <2>4. CASE Publish \/ Change \/ Fail \/ UNCHANGED vars
    BY <1>0, <1>1, <2>4, ShapeOfFail
  <2>5. CASE Clear
    BY <1>0, <1>1, <2>5, ShapeOfClear
  <2> QED
    BY <2>1, <2>2, <2>3, <2>4, <2>5 DEF Next
<1>3. Undisturbed'
  <2>1. CASE JobStep
    BY <1>1, <2>1, LookFinds, LoadingKeeps, DerivingKeeps, CommittingKeeps DEF JobStep
  <2>2. CASE \/ \E r \in Refreshers : RefreshStart(r) \/ RefreshStep(r)
             \/ \E p \in Pollers : PollStart(p) \/ PollStep(p)
             \/ Publish \/ Change \/ Fail \/ Interrupt \/ Clear \/ UNCHANGED vars
    BY <1>1, <2>2, OthersDisturb
  <2> QED
    BY <2>1, <2>2 DEF Next
<1> QED
  BY <1>2, <1>3 DEF IInv, Shape, Undisturbed

\* Keys that Adam4EVE covers but has not resolved must be derived by the import, "otherwise
\* they fall through both syncs" (service.py:2109): with any types, figures, refreshers and
\* pollers, an import that nothing disturbs leaves a row for each key that was sold of, and
\* the row of the first source that sold where it is not Adam4EVE's.
THEOREM NoneFallsThrough == Spec => []NothingFallsThrough
<1>1. IInv => NothingFallsThrough
  <2> SUFFICES ASSUME IInv, job.pc = "idle", job.alone, NEW k \in Keys, HasDemand(k)
               PROVE  rows[k] # NoRow /\ (~Covers(k) => rows[k] = Current(k))
    BY DEF NothingFallsThrough
  <2>1. k \in Wanted
    BY DEF Wanted
  <2>2. Settled(k)
    BY <2>1 DEF IInv, NoneDropped
  <2> QED
    BY <2>2 DEF Settled
<1>2. Init => IInv
  BY NothingYet
<1>3. IInv /\ [Next]_vars => IInv'
  BY NothingSlips
<1> QED
  BY <1>1, <1>2, <1>3, PTL DEF Spec
=============================================================================
