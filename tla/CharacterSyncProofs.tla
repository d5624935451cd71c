-------------------------- MODULE CharacterSyncProofs --------------------------
(***************************************************************************)
(* Characters and tokens, for any number of characters and any number of   *)
(* things that happen to them.  The job, a visit, the structure client and *)
(* a login all load a token in one transaction and use, or write, it in a  *)
(* later one.  The proofs rest on what none of them loses hold of: a token *)
(* in anybody's hands is one that SSO gave out for that very character.    *)
(***************************************************************************)
EXTENDS CharacterSync, WellFoundedInduction, TLAPS

-----------------------------------------------------------------------------
(* The parts of the invariant, by who has them                             *)

RowsInv ==
    /\ connected \subseteq Characters /\ known \subseteq connected /\ asked \subseteq connected
    /\ enabled \in [Characters -> BOOLEAN] /\ status \in [Characters -> Statuses]
    /\ rows \in [Characters -> [Kinds -> SUBSET Places]]
    /\ place \in [Characters -> Places]
    /\ \A c \in Characters : enabled[c] => c \in connected

CountersInv == left \in [Happenings -> Nat] /\ count \in 0..MaxHappenings

TokensInv ==
    /\ token \in [Characters -> [refresh : Nat, fresh : BOOLEAN]]
    /\ \A c \in Characters :
          token[c].refresh <= issued[c] /\ (c \in connected => token[c].refresh # 0)

IssuedInv ==
    /\ issued \in [Characters -> Nat] /\ live \in [Characters -> SUBSET Nat]
    /\ \A c \in Characters : live[c] \subseteq 1..issued[c]

GoodSync(r) ==
    /\ r \in Sessions /\ r.todo \subseteq connected /\ ListsFetched(r)
    /\ r.pc \notin {"idle", "next"} => r.char \in connected /\ Given(r.char, r.hand)

SyncsInv == sync \in [Syncers -> Sessions] /\ \A s \in Syncers : GoodSync(sync[s])

GoodSnap(r) ==
    /\ r \in SnapSessions /\ r.todo \subseteq connected /\ r.hope \subseteq connected
    /\ r.pc \in Asking => r.char \in connected /\ Given(r.char, r.hand)
    /\ \A c \in Characters : r.renewed[c] # NotRenewed => Given(c, r.renewed[c])

GoodLogin(r) ==
    /\ r \in Callbacks
    /\ r.pc # "idle" => r.char \in Characters /\ r.to \in 1..issued[r.char]
    /\ r.pc = "loaded" /\ r.was => r.char \in connected

\* The parts are the whole.
LEMMA Parts ==
    SessionsInv <=> /\ RowsInv /\ CountersInv /\ TokensInv /\ IssuedInv /\ SyncsInv
                    /\ GoodSnap(snap) /\ GoodLogin(callback)
<1>1. \A r \in SnapSessions : r.pc \in SnapPcs /\ r.renewed \in [Characters -> Renewal]
                              /\ r.hand \in Renewal
  BY DEF SnapSessions
<1>2. \A r \in Callbacks : r.pc \in {"idle", "exchanged", "loaded"}
                           /\ r.loaded \in Statuses \cup {"gone"}
  BY DEF Callbacks
<1>3. \A t \in [refresh : Nat, fresh : BOOLEAN] : t.refresh \in Nat /\ t.fresh \in BOOLEAN
  OBVIOUS
<1>4. TokensInv /\ IssuedInv => \A c \in Characters :
          token[c].fresh \in BOOLEAN /\ token[c].refresh \in 0..issued[c]
  BY <1>3 DEF TokensInv, IssuedInv
<1>5. SessionsInv => /\ RowsInv /\ CountersInv /\ TokensInv /\ IssuedInv /\ SyncsInv
                     /\ GoodSnap(snap) /\ GoodLogin(callback)
  BY <1>3 DEF SessionsInv, CharactersTypeOK, Shapes, HandsGiven, EnabledHaveRows, RowsInv,
     CountersInv, TokensInv, IssuedInv, SyncsInv, GoodSync, GoodSnap, GoodLogin
<1>6. ASSUME RowsInv, CountersInv, TokensInv, IssuedInv, SyncsInv,
             GoodSnap(snap), GoodLogin(callback)
      PROVE  SessionsInv
  <2>1. CharactersTypeOK
    BY <1>6, <1>1, <1>2, <1>4 DEF CharactersTypeOK, RowsInv, CountersInv, TokensInv, IssuedInv,
       SyncsInv, GoodSync, GoodSnap, GoodLogin, SnapPcs
  <2>2. Shapes /\ EnabledHaveRows
    BY <1>6 DEF Shapes, EnabledHaveRows, RowsInv, TokensInv, IssuedInv, SyncsInv,
       GoodSync, GoodSnap, GoodLogin
  <2>3. HandsGiven
    BY <1>6 DEF HandsGiven, SyncsInv, GoodSync, GoodSnap, GoodLogin
  <2>4. \A s \in Syncers : ListsFetched(sync[s])
    BY <1>6 DEF SyncsInv, GoodSync
  <2> QED
    BY <2>1, <2>2, <2>3, <2>4 DEF SessionsInv
<1> QED
  BY <1>5, <1>6

\* ... and so they are after a step.
LEMMA PartsNext ==
    SessionsInv' <=> /\ RowsInv' /\ CountersInv' /\ TokensInv' /\ IssuedInv' /\ SyncsInv'
                     /\ GoodSnap(snap)' /\ GoodLogin(callback)'
  BY Parts, PTL

\* A set of numbers that has one has a first one: the character that the job takes next.
LEMMA FirstIsIn ==
    ASSUME NEW S \in SUBSET Nat, S # {}
    PROVE  Min(S) \in S
<1> DEFINE less == {p \in Nat \X Nat : p[1] < p[2]}
<1>1. IsWellFoundedOn(less, Nat)
  <2>1. OpToRel(<, Nat) = less
    BY DEF OpToRel
  <2> QED
    BY <2>1, NatLessThanWellFounded
<1> HIDE DEF less
<1>2. \E d \in S : \A e \in S : ~(<<e, d>> \in less)
  BY <1>1, WFMin
<1>3. \E d \in S : \A e \in S : d <= e
  <2>1. \A e, d \in Nat : e < d => <<e, d>> \in less
    BY DEF less
  <2>2. \A e, d \in S : ~(e < d) => d <= e
    OBVIOUS
  <2> QED
    BY <1>2, <2>1, <2>2
<1> QED
  BY <1>3 DEF Min

\* Sessions that have not begun.
LEMMA Idle ==
    /\ NotRenewed \in Renewal
    /\ NoSync \in Sessions /\ NoSync.pc = "idle"
    /\ NoSnap \in SnapSessions /\ NoSnap.pc = "idle" /\ NoSnap.todo = {} /\ NoSnap.hope = {}
    /\ \A c \in Characters : NoSnap.renewed[c] = NotRenewed
    /\ NoCallback \in Callbacks /\ NoCallback.pc = "idle"
<1>1. NotRenewed \in Renewal
  BY DEF NotRenewed, Renewal
<1>2. NoSync \in Sessions /\ NoSync.pc = "idle"
  BY <1>1 DEF NoSync, Sessions, Statuses
<1>3. [c \in Characters |-> NotRenewed] \in [Characters -> Renewal]
  BY <1>1
<1>4. NoSnap \in SnapSessions
  BY <1>1, <1>3 DEF NoSnap, SnapSessions, SnapPcs
<1>5. /\ NoSnap.pc = "idle" /\ NoSnap.todo = {} /\ NoSnap.hope = {}
      /\ \A c \in Characters : NoSnap.renewed[c] = NotRenewed
  BY DEF NoSnap
<1>6. NoCallback \in Callbacks /\ NoCallback.pc = "idle"
  BY DEF NoCallback, Callbacks, Statuses
<1> QED
  BY <1>1, <1>2, <1>4, <1>5, <1>6

-----------------------------------------------------------------------------
(* What others do leaves a session good                                    *)

\* Rows of characters are not taken away, and tokens are only added.
Grows ==
    /\ connected \subseteq connected'
    /\ issued' \in [Characters -> Nat] /\ \A c \in Characters : issued[c] <= issued'[c]

\* A token that was given out stays one that was given out, and a row stays there.
LEMMA GoodStays ==
    ASSUME SessionsInv, Grows
    PROVE  /\ \A c \in Characters : \A h : Given(c, h) => Given(c, h)'
           /\ \A r : GoodSync(r) => GoodSync(r)'
           /\ \A r : GoodSnap(r) => GoodSnap(r)'
           /\ \A r : GoodLogin(r) => GoodLogin(r)'
<1>1. connected \subseteq Characters /\ issued \in [Characters -> Nat]
  BY Parts DEF RowsInv, IssuedInv
<1>2. \A c \in Characters : \A n : n \in 1..issued[c] => n \in 1..issued'[c]
  BY <1>1 DEF Grows
<1>3. \A c \in Characters : \A h : Given(c, h) => Given(c, h)'
  BY <1>2 DEF Given
<1>4. \A r : GoodSync(r) => GoodSync(r)'
  BY <1>1, <1>3 DEF GoodSync, Grows
<1>5. \A r : GoodSnap(r) => GoodSnap(r)'
  BY <1>1, <1>3 DEF GoodSnap, Grows
<1>6. \A r : GoodLogin(r) => GoodLogin(r)'
  BY <1>1, <1>2 DEF GoodLogin, Grows
<1> QED
  BY <1>3, <1>4, <1>5, <1>6

\* What a step does not touch stays as good as it was.
LEMMA KeptParts ==
    ASSUME SessionsInv, Grows
    PROVE  /\ UNCHANGED sync => SyncsInv'
           /\ UNCHANGED snap => GoodSnap(snap)'
           /\ UNCHANGED callback => GoodLogin(callback)'
           /\ UNCHANGED counters => CountersInv'
           /\ \A what \in Happenings : Happens(what) => CountersInv'
           /\ UNCHANGED <<connected, known, asked, enabled, status, rows, place>> => RowsInv'
           /\ UNCHANGED <<connected, token>> => TokensInv'
           /\ UNCHANGED <<live, issued>> => IssuedInv'
<1>1. UNCHANGED sync => SyncsInv'
  BY GoodStays, Parts DEF SyncsInv
<1>2. UNCHANGED snap => GoodSnap(snap)'
  <2>1. GoodSnap(snap)
    BY Parts
  <2>2. \A r : GoodSnap(r) => GoodSnap(r)'
    BY GoodStays
  <2>3. GoodSnap(snap) /\ UNCHANGED snap => GoodSnap(snap)'
    BY <2>2 DEF GoodSnap
  <2> QED
    BY <2>1, <2>3
<1>3. UNCHANGED callback => GoodLogin(callback)'
  <2>1. GoodLogin(callback)
    BY Parts
  <2>2. \A r : GoodLogin(r) => GoodLogin(r)'
    BY GoodStays
  <2>3. GoodLogin(callback) /\ UNCHANGED callback => GoodLogin(callback)'
    BY <2>2 DEF GoodLogin
  <2> QED
    BY <2>1, <2>3
<1>4. UNCHANGED counters => CountersInv'
  BY Parts DEF CountersInv, counters
<1>5. \A what \in Happenings : Happens(what) => CountersInv'
  BY Parts, CharactersAssumption DEF CountersInv, Happens
<1>6. UNCHANGED <<connected, known, asked, enabled, status, rows, place>> => RowsInv'
  BY Parts DEF RowsInv
<1>7. UNCHANGED <<connected, token>> => TokensInv'
  <2>1. \A t \in [refresh : Nat, fresh : BOOLEAN] : t.refresh \in Nat
    OBVIOUS
  <2> QED
    BY <2>1, Parts DEF TokensInv, Grows, IssuedInv
<1>8. UNCHANGED <<live, issued>> => IssuedInv'
  BY Parts DEF IssuedInv
<1> QED
  BY <1>1, <1>2, <1>3, <1>4, <1>5, <1>6, <1>7, <1>8

\* Nothing was issued, and nobody lost a row.
LEMMA GrowsNot ==
    ASSUME SessionsInv, UNCHANGED <<connected, issued>>
    PROVE  Grows
  BY Parts DEF Grows, IssuedInv

\* SSO answers a token that it gave out with one that it gave out.
LEMMA AnswerGiven ==
    ASSUME SessionsInv, NEW c \in Characters, NEW old \in 1..issued[c], NEW new,
           Answer(c, old, new), UNCHANGED connected
    PROVE  /\ Grows /\ IssuedInv' /\ CountersInv'
           /\ old \in 1..issued'[c] /\ new \in 1..issued'[c]
<1>1. IssuedInv /\ issued[c] \in Nat
  BY Parts DEF IssuedInv
<1>2. CASE new = old /\ UNCHANGED <<live, issued, counters>>
  BY <1>2, KeptParts, GrowsNot
<1>3. CASE /\ Happens("rotate")
           /\ new = issued[c] + 1
           /\ issued' = [issued EXCEPT ![c] = new]
           /\ live' = [live EXCEPT ![c] = (IF OldTokensLive THEN @ ELSE @ \ {old}) \cup {new}]
  <2>1. Grows
    BY <1>1, <1>3 DEF Grows, IssuedInv
  <2>2. old \in 1..issued'[c] /\ new \in 1..issued'[c]
    BY <1>1, <1>3 DEF IssuedInv
  <2>3. live' \in [Characters -> SUBSET Nat]
    BY <1>1, <1>3 DEF IssuedInv
  <2>4. \A d \in Characters : live'[d] \subseteq 1..issued'[d]
    BY <1>1, <1>3 DEF IssuedInv
  <2>5. "rotate" \in Happenings
    BY DEF Happenings
  <2> QED
    BY <1>3, <2>1, <2>2, <2>3, <2>4, <2>5, KeptParts DEF IssuedInv, Grows
<1> QED
  BY <1>2, <1>3 DEF Answer

-----------------------------------------------------------------------------
(* The sessions of the job and of a visit                                  *)

\* A syncer goes on, and the other is as it was.
LEMMA SyncGoesOn ==
    ASSUME SessionsInv, Grows, NEW s \in Syncers, NEW r,
           sync' = [sync EXCEPT ![s] = r], GoodSync(r)'
    PROVE  SyncsInv'
<1>1. \A t \in Syncers : GoodSync(sync[t])'
  <2>1. \A t \in Syncers : GoodSync(sync[t]) /\ sync \in [Syncers -> Sessions]
    BY Parts DEF SyncsInv
  <2>2. \A q : GoodSync(q) => GoodSync(q)'
    BY GoodStays
  <2> QED
    BY <2>1, <2>2 DEF GoodSync
<1> QED
  BY <1>1, Parts DEF SyncsInv, GoodSync

\* One that waited for the session that ends deletes the rows that are there, or none.
LEMMA WokenGood ==
    ASSUME SessionsInv, NEW t \in Syncers, sync[t].pc = "waits", NEW committed \in BOOLEAN
    PROVE  GoodSync(Woken(t, committed))
<1> DEFINE k == IF sync[t].got["orders"] = Nowhere THEN "assets" ELSE "orders"
           gone == IF committed THEN {} ELSE rows[sync[t].char][k]
<1>1. GoodSync(sync[t]) /\ sync[t] \in Sessions /\ sync[t].char \in connected
      /\ Given(sync[t].char, sync[t].hand) /\ ListsFetched(sync[t])
  BY Parts DEF SyncsInv, GoodSync
<1>2. k \in Kinds
  BY DEF Kinds
<1>3. gone \in SUBSET Places
  BY <1>1, <1>2, Parts DEF RowsInv
<1>4. Woken(t, committed) = Deleted(sync[t], k, gone)
  BY DEF Woken
<1> HIDE DEF k, gone
<1>5. GoodSync(Deleted(sync[t], k, gone))
  <2>1. sync[t].gone \in [Kinds -> SUBSET Places]
    BY <1>1 DEF Sessions
  <2>2. [sync[t].gone EXCEPT ![k] = gone] \in [Kinds -> SUBSET Places]
    BY <2>1, <1>2, <1>3
  <2>3. /\ Deleted(sync[t], k, gone) \in Sessions
        /\ Deleted(sync[t], k, gone).char = sync[t].char
        /\ Deleted(sync[t], k, gone).todo = sync[t].todo
        /\ Deleted(sync[t], k, gone).hand = sync[t].hand
        /\ Deleted(sync[t], k, gone).got = sync[t].got
        /\ Deleted(sync[t], k, gone).pc = IF k = "assets" THEN "orders" ELSE "structures"
    BY <1>1, <2>2 DEF Deleted, Sessions
  <2>4. sync[t].got["assets"] \in Places /\ (k # "assets" => sync[t].got["orders"] \in Places)
    BY <1>1 DEF ListsFetched, k, Sessions, Kinds
  <2>5. ListsFetched(Deleted(sync[t], k, gone))
    BY <2>3, <2>4 DEF ListsFetched
  <2> QED
    BY <1>1, <2>3, <2>5 DEF GoodSync
<1> QED
  BY <1>4, <1>5

\* The session of a syncer ends.
LEMMA EndedGood ==
    ASSUME SessionsInv, Grows, NEW s \in Syncers, NEW r, NEW committed \in BOOLEAN,
           Ended(s, r, committed), GoodSync(r)
    PROVE  SyncsInv'
<1>1. \A t \in Syncers : GoodSync(sync'[t])
  BY Parts, WokenGood DEF Ended, SyncsInv
<1>2. \A t \in Syncers : GoodSync(sync[t])'
  <2>1. \A q : GoodSync(q) => GoodSync(q)'
    BY GoodStays
  <2> QED
    BY <1>1, <2>1 DEF GoodSync
<1>3. sync' \in [Syncers -> Sessions]
  BY <1>1 DEF Ended, GoodSync
<1> QED
  BY <1>2, <1>3 DEF SyncsInv, GoodSync
\* A token that is loaded was given out for the character it is loaded with.
LEMMA LoadedGiven ==
    ASSUME SessionsInv, NEW c \in connected
    PROVE  /\ c \in Characters
           /\ [from |-> token[c].refresh, to |-> token[c].refresh] \in Renewal
           /\ Given(c, [from |-> token[c].refresh, to |-> token[c].refresh])
<1>1. c \in Characters /\ token[c] \in [refresh : Nat, fresh : BOOLEAN] /\ issued[c] \in Nat
  BY Parts DEF RowsInv, TokensInv, IssuedInv
<1>2. token[c].refresh \in 1..issued[c]
  BY <1>1, Parts DEF TokensInv
<1> QED
  BY <1>1, <1>2 DEF Given, Renewal

\* The session that synchronises a character begins with its token.
LEMMA OpenedGood ==
    ASSUME SessionsInv, NEW c \in connected, NEW todo \in SUBSET connected
    PROVE  GoodSync(Opened(c, todo))
<1>1. enabled[c] \in BOOLEAN
  BY LoadedGiven, Parts DEF RowsInv
<1>2. /\ Opened(c, todo) \in Sessions /\ Opened(c, todo).char = c /\ Opened(c, todo).todo = todo
      /\ Opened(c, todo).hand = [from |-> token[c].refresh, to |-> token[c].refresh]
      /\ Opened(c, todo).pc \in {"assets", "refresh"}
  BY <1>1, LoadedGiven, Idle, Parts DEF Opened, NoSync, Sessions, RowsInv
<1> QED
  BY <1>2, LoadedGiven DEF GoodSync, ListsFetched

\* The job lists the enabled characters, and takes the first that remains; a visit takes one.
LEMMA BeginSteps ==
    ASSUME SessionsInv, JobStart \/ JobNext \/ \E c \in Characters : Visit(c)
    PROVE  SessionsInv'
<1>1. UNCHANGED <<connected, enabled, status, token, rows, known, asked, eve, snap, callback>>
  BY DEF JobStart, JobNext, Visit
<1>2. Grows /\ CountersInv'
  <2>1. Grows
    BY <1>1, GrowsNot DEF eve
  <2>2. UNCHANGED counters \/ Happens("visit")
    BY DEF JobStart, JobNext, Visit
  <2>3. "visit" \in Happenings
    BY DEF Happenings
  <2> QED
    BY <2>1, <2>2, <2>3, KeptParts
<1>3. ASSUME NEW s \in Syncers, NEW r, GoodSync(r), sync' = [sync EXCEPT ![s] = r]
      PROVE  SyncsInv'
  BY <1>2, <1>3, SyncGoesOn, GoodStays
<1>4. /\ sync["job"] \in Sessions /\ sync["job"].todo \in SUBSET connected
      /\ {"job", "visit"} = Syncers /\ sync \in [Syncers -> Sessions]
  BY Parts DEF SyncsInv, GoodSync, Syncers
<1>5. ASSUME JobStart PROVE SyncsInv'
  <2> DEFINE r == [sync["job"] EXCEPT !.pc = "next", !.todo = {c \in connected : enabled[c]}]
  <2>1. {c \in connected : enabled[c]} \in SUBSET Characters
    BY Parts DEF RowsInv
  <2>2. r \in Sessions /\ r.pc = "next" /\ r.todo \subseteq connected
    BY <1>4, <2>1 DEF Sessions
  <2>3. GoodSync(r)
    BY <2>2 DEF GoodSync, ListsFetched
  <2>4. sync' = [sync EXCEPT !["job"] = r]
    BY <1>4, <1>5 DEF JobStart
  <2> HIDE DEF r
  <2> QED
    BY <1>3, <1>4, <2>3, <2>4
<1>6. ASSUME JobNext PROVE SyncsInv'
  <2> DEFINE todo == sync["job"].todo
             r == IF todo = {} THEN NoSync ELSE Opened(Min(todo), todo \ {Min(todo)})
  <2>1. sync["job"].pc = "next" /\ sync' = [sync EXCEPT !["job"] = r]
    BY <1>6 DEF JobNext
  <2>2. GoodSync(NoSync)
    BY Idle DEF GoodSync, ListsFetched, NoSync
  <2>3. todo # {} => Min(todo) \in todo
    <3>1. todo \in SUBSET Nat
      BY <1>4, CharactersAssumption, Parts DEF RowsInv
    <3> QED
      BY <3>1, FirstIsIn
  <2>4. todo # {} => Min(todo) \in connected /\ todo \ {Min(todo)} \in SUBSET connected
    BY <1>4, <2>3
  <2>5. GoodSync(r)
    BY <1>4, <2>2, <2>4, OpenedGood
  <2> QED
    BY <1>3, <1>4, <2>1, <2>5
<1>7. ASSUME NEW c \in Characters, Visit(c)
      PROVE  SyncsInv'
  <2>1. c \in connected /\ sync' = [sync EXCEPT !["visit"] = Opened(c, {})]
    BY <1>7 DEF Visit
  <2> QED
    BY <1>3, <1>4, <2>1, OpenedGood
<1>8. SyncsInv'
  BY <1>5, <1>6, <1>7
<1> QED
  BY <1>1, <1>2, <1>8, KeptParts, PartsNext DEF eve

\* What is known of a session that has a character in hand.
LEMMA InHand ==
    ASSUME SessionsInv, NEW s \in Syncers, sync[s].pc \notin {"idle", "next"}
    PROVE  /\ sync[s] \in Sessions /\ sync[s].todo \subseteq connected
           /\ sync[s].char \in connected /\ sync[s].char \in Characters
           /\ Given(sync[s].char, sync[s].hand) /\ sync[s].hand \in Renewal
           /\ sync[s].hand.from \in 1..issued[sync[s].char]
           /\ sync[s].hand.to \in 1..issued[sync[s].char]
           /\ sync \in [Syncers -> Sessions] /\ ListsFetched(sync[s])
  BY Parts DEF SyncsInv, GoodSync, RowsInv, Sessions, Given

\* A session may always end; the job's may go on with the characters that remain.
LEMMA RestGood ==
    ASSUME SessionsInv, NEW s \in Syncers
    PROVE  GoodSync(NoSync) /\ GoodSync(Rest(s))
<1>1. NoSync \in Sessions /\ NoSync.pc = "idle" /\ NoSync.todo = {}
  BY Idle DEF NoSync
<1>2. sync[s].todo \in SUBSET Characters /\ sync[s].todo \subseteq connected
  BY Parts DEF SyncsInv, GoodSync, RowsInv
<1>3. [NoSync EXCEPT !.pc = "next", !.todo = sync[s].todo] \in Sessions
  BY <1>1, <1>2 DEF Sessions
<1>4. /\ [NoSync EXCEPT !.pc = "next", !.todo = sync[s].todo].pc = "next"
      /\ [NoSync EXCEPT !.pc = "next", !.todo = sync[s].todo].todo = sync[s].todo
  BY DEF NoSync
<1> QED
  BY <1>1, <1>2, <1>3, <1>4 DEF Rest, GoodSync, ListsFetched

\* A refresh, and the row of the token that it flushes.
LEMMA RefreshSteps ==
    ASSUME SessionsInv, NEW s \in Syncers, Refresh(s) \/ Flush(s)
    PROVE  SessionsInv'
<1>1. UNCHANGED <<connected, enabled, status, token, rows, known, asked, place, snap, callback>>
  BY DEF Refresh, Flush, eve
<1>2. sync[s].pc \notin {"idle", "next"}
  BY DEF Refresh, Flush
<1>3. CASE Refresh(s)
  <2> DEFINE c == sync[s].char
             old == sync[s].hand.from
  <2>1. PICK new \in {old, issued[c] + 1} :
            Answer(c, old, new) /\ sync' = [sync EXCEPT ![s].pc = "flush", ![s].hand.to = new]
    BY <1>3 DEF Refresh
  <2> DEFINE r == [sync[s] EXCEPT !.pc = "flush", !.hand.to = new]
  <2>2. /\ Grows /\ IssuedInv' /\ CountersInv'
        /\ old \in 1..issued'[c] /\ new \in 1..issued'[c]
    <3>1. Answer(c, old, new) /\ c \in Characters /\ old \in 1..issued[c]
      BY <1>2, <2>1, InHand
    <3> HIDE DEF c, old
    <3> QED
      BY <1>1, <3>1, AnswerGiven
  <2>3. old \in Nat /\ new \in Nat
    <3>1. issued'[c] \in Nat
      BY <1>2, <2>2, InHand DEF Grows
    <3> QED
      BY <2>2, <3>1
  <2>4. sync[s] \in Sessions /\ sync[s].hand \in Renewal
    BY <1>2, InHand
  <2> DEFINE h == [sync[s].hand EXCEPT !.to = new]
  <2>5. h \in Renewal /\ h.from = old /\ h.to = new
    BY <2>3, <2>4 DEF Renewal
  <2>6. /\ r = [sync[s] EXCEPT !.pc = "flush", !.hand = h]
        /\ [sync EXCEPT ![s] = r] = [sync EXCEPT ![s].pc = "flush", ![s].hand.to = new]
    BY <1>2, <2>4, InHand DEF Sessions
  <2> HIDE DEF h
  <2>7. /\ r \in Sessions /\ r.char = c /\ r.todo = sync[s].todo /\ r.hand = h
        /\ r.pc = "flush"
    BY <2>4, <2>5, <2>6 DEF Sessions
  <2> HIDE DEF r
  <2>8. PICK q : q = r
    OBVIOUS
  <2>9. q \in Sessions /\ q.char = c /\ q.todo \subseteq connected'
        /\ q.hand.from = old /\ q.hand.to = new /\ c \in connected' /\ q.pc = "flush"
    BY <1>1, <1>2, <2>5, <2>7, <2>8, InHand
  <2>10. GoodSync(q)'
    BY <2>2, <2>9 DEF GoodSync, ListsFetched, Given
  <2>11. SyncsInv'
    BY <2>1, <2>2, <2>6, <2>8, <2>10, SyncGoesOn
  <2> QED
    BY <1>1, <2>2, <2>11, KeptParts, PartsNext
<1>4. CASE Flush(s)
  <2> DEFINE r == [sync[s] EXCEPT !.pc = "assets", !.renewed = TRUE]
  <2>1. sync' = [sync EXCEPT ![s] = r] /\ UNCHANGED eve /\ UNCHANGED counters
    BY <1>2, <1>4, InHand DEF Flush
  <2>2. Grows
    BY <1>1, <2>1, GrowsNot DEF eve
  <2>3. /\ r \in Sessions /\ r.char = sync[s].char /\ r.todo = sync[s].todo
        /\ r.hand = sync[s].hand /\ r.pc = "assets"
    BY <1>2, InHand DEF Sessions
  <2>4. GoodSync(r)
    BY <1>2, <2>3, InHand DEF GoodSync, ListsFetched
  <2>5. SyncsInv'
    <3> HIDE DEF r
    <3> QED
      BY <2>1, <2>2, <2>4, SyncGoesOn, GoodStays
  <2> QED
    BY <1>1, <2>1, <2>2, <2>5, KeptParts, PartsNext DEF eve
<1> QED
  BY <1>3, <1>4

\* What a list shows is put in the place of the rows that are deleted.
LEMMA FetchSteps ==
    ASSUME SessionsInv, NEW s \in Syncers, NEW k \in Kinds, Fetch(s, k)
    PROVE  SessionsInv'
<1> DEFINE c == sync[s].char
           fetched == [sync[s] EXCEPT !.got[k] = place[c]]
           waiting == [fetched EXCEPT !.pc = "waits"]
           deleted == Deleted(fetched, k, rows[c][k])
<1>1. /\ UNCHANGED <<connected, enabled, status, token, rows, known, asked, eve, snap, callback,
                     counters>>
      /\ sync' = [sync EXCEPT ![s] = waiting] \/ sync' = [sync EXCEPT ![s] = deleted]
  BY DEF Fetch
<1>2. sync[s].pc \notin {"idle", "next"}
  BY DEF Fetch, Kinds
<1>3. place[c] \in Places /\ rows[c][k] \in SUBSET Places
  BY <1>2, InHand, Parts DEF RowsInv
<1>4. /\ fetched \in Sessions /\ fetched.char = c /\ fetched.todo = sync[s].todo
      /\ fetched.hand = sync[s].hand /\ fetched.got["assets"] \in Places
      /\ k = "orders" => fetched.got["orders"] \in Places
  <2> DEFINE got == [sync[s].got EXCEPT ![k] = place[c]]
  <2>1. /\ got \in [Kinds -> Places \cup {Nowhere}] /\ got[k] = place[c]
        /\ k # "assets" => got["assets"] = sync[s].got["assets"]
    BY <1>2, <1>3, InHand DEF Sessions, Kinds
  <2>2. k # "assets" => k = "orders" /\ sync[s].got["assets"] \in Places
    BY <1>2, InHand DEF ListsFetched, Fetch, Kinds
  <2>3. sync[s] \in Sessions
    BY <1>2, InHand
  <2>4. fetched = [sync[s] EXCEPT !.got = got]
    BY <2>3 DEF Sessions
  <2> HIDE DEF got, fetched
  <2>5. fetched \in Sessions
    BY <2>1, <2>3, <2>4 DEF Sessions
  <2>6. /\ fetched.char = c /\ fetched.todo = sync[s].todo
        /\ fetched.hand = sync[s].hand /\ fetched.got = got
    BY <2>3, <2>4 DEF Sessions
  <2> QED
    BY <1>3, <2>1, <2>2, <2>5, <2>6
<1> HIDE DEF fetched
<1>5. GoodSync(waiting)
  <2>1. /\ waiting \in Sessions /\ waiting.char = c /\ waiting.todo = sync[s].todo
        /\ waiting.hand = sync[s].hand /\ waiting.got = fetched.got /\ waiting.pc = "waits"
    BY <1>4 DEF Sessions
  <2> QED
    BY <1>2, <1>4, <2>1, InHand DEF GoodSync, ListsFetched
<1>6. GoodSync(deleted)
  <2>1. [fetched.gone EXCEPT ![k] = rows[c][k]] \in [Kinds -> SUBSET Places]
    BY <1>3, <1>4 DEF Sessions
  <2>2. /\ deleted \in Sessions /\ deleted.char = c /\ deleted.todo = sync[s].todo
        /\ deleted.hand = sync[s].hand /\ deleted.got = fetched.got
        /\ deleted.pc = IF k = "assets" THEN "orders" ELSE "structures"
    BY <1>4, <2>1 DEF Sessions, Deleted
  <2> QED
    BY <1>2, <1>4, <2>2, InHand DEF GoodSync, ListsFetched, Kinds
<1> HIDE DEF waiting, deleted
<1>7. Grows
  BY <1>1, GrowsNot DEF eve
<1>8. SyncsInv'
  BY <1>1, <1>5, <1>6, <1>7, SyncGoesOn, GoodStays
<1> QED
  BY <1>1, <1>7, <1>8, KeptParts, PartsNext DEF eve

\* What was discovered, and what the state of the character was.
LEMMA DiscoverSteps ==
    ASSUME SessionsInv, NEW s \in Syncers, Discover(s)
    PROVE  SessionsInv'
<1> DEFINE c == sync[s].char
<1>1. /\ UNCHANGED <<connected, enabled, status, token, rows, known, asked, eve, snap, callback>>
      /\ sync[s].pc \notin {"idle", "next"} /\ sync[s].pc = "structures"
      /\ UNCHANGED counters \/ Happens("fail")
      /\ \E f \in {"nothing", "insert", "update"} :
            sync' = [sync EXCEPT ![s].pc = "state", ![s].loaded = status[c], ![s].found = f]
  BY DEF Discover, Persisted
<1>2. PICK f \in {"nothing", "insert", "update"} :
          sync' = [sync EXCEPT ![s].pc = "state", ![s].loaded = status[c], ![s].found = f]
  BY <1>1
<1> DEFINE r == [sync[s] EXCEPT !.pc = "state", !.loaded = status[c], !.found = f]
<1>3. sync' = [sync EXCEPT ![s] = r]
  BY <1>1, <1>2, InHand
<1>4. /\ r \in Sessions /\ r.char = c /\ r.todo = sync[s].todo /\ r.hand = sync[s].hand
      /\ r.got = sync[s].got
  <2>1. status[c] \in Statuses \cup {"gone"}
    BY <1>1, InHand, Parts DEF RowsInv
  <2>2. f \in {"nothing", "insert", "update", "gone"}
    BY <1>2
  <2>3. sync[s] \in Sessions
    BY <1>1, InHand
  <2> HIDE DEF c
  <2>4. r \in Sessions
    BY <2>1, <2>2, <2>3 DEF Sessions
  <2> QED
    BY <2>3, <2>4 DEF Sessions, c
<1>5. GoodSync(r)
  BY <1>1, <1>4, InHand DEF GoodSync, ListsFetched
<1> HIDE DEF r
<1>6. Grows /\ "fail" \in Happenings
  BY <1>1, GrowsNot DEF eve, Happenings
<1>7. SyncsInv'
  BY <1>3, <1>5, <1>6, SyncGoesOn, GoodStays
<1> QED
  BY <1>1, <1>6, <1>7, KeptParts, PartsNext DEF eve

\* A token that is saved was given out; if SSO answered no other, the one that is there stays.
LEMMA SavedGiven ==
    ASSUME SessionsInv, NEW c \in Characters, NEW h \in Renewal, Given(c, h)
    PROVE  /\ Saved(token[c], h) \in [refresh : Nat, fresh : BOOLEAN]
           /\ Saved(token[c], h).refresh <= issued[c]
           /\ c \in connected => Saved(token[c], h).refresh # 0
<1>1. /\ token[c] \in [refresh : Nat, fresh : BOOLEAN] /\ token[c].refresh <= issued[c]
      /\ c \in connected => token[c].refresh # 0
      /\ issued[c] \in Nat
  BY Parts DEF TokensInv, IssuedInv
<1> QED
  BY <1>1 DEF Saved, Given, Renewal

\* A session that is rejected, clashes, fails or is killed leaves nothing but the mark.
LEMMA AbandonSteps ==
    ASSUME SessionsInv, NEW s \in Syncers, RefreshRejected(s) \/ CommitClashes(s) \/ SyncFail(s)
    PROVE  SessionsInv'
<1>1. /\ UNCHANGED <<connected, token, rows, known, asked, eve, snap, callback>>
      /\ Ended(s, NoSync, FALSE)
      /\ UNCHANGED counters \/ Happens("fail")
  BY DEF RefreshRejected, CommitClashes, SyncFail, Abandoned
<1>2. Grows /\ "fail" \in Happenings
  BY <1>1, GrowsNot DEF eve, Happenings
<1>3. SyncsInv'
  <2>1. GoodSync(NoSync)
    BY RestGood
  <2> QED
    BY <1>1, <1>2, <2>1, EndedGood
<1>4. RowsInv'
  <2>1. \/ UNCHANGED <<enabled, status>>
        \/ Mark(sync[s].char, sync[s].was)
    BY DEF RefreshRejected, CommitClashes, SyncFail
  <2>2. CASE Mark(sync[s].char, sync[s].was)
    <3>1. enabled' \in [Characters -> BOOLEAN] /\ status' \in [Characters -> Statuses]
      BY <2>2, Parts DEF Mark, RowsInv, Statuses
    <3>2. \A c \in Characters : enabled'[c] => enabled[c]
      BY <2>2, Parts DEF Mark, RowsInv
    <3> QED
      BY <1>1, <3>1, <3>2, Parts DEF RowsInv, eve
  <2> QED
    BY <1>1, <2>1, <2>2, <1>2, KeptParts DEF eve
<1> QED
  BY <1>1, <1>2, <1>3, <1>4, KeptParts, PartsNext DEF eve

\* The rows of a character, its structure, its token and its state are committed together.
LEMMA CommitSteps ==
    ASSUME SessionsInv, NEW s \in Syncers, Commit(s)
    PROVE  SessionsInv'
<1> DEFINE c == sync[s].char
<1>1. /\ UNCHANGED <<connected, enabled, asked, eve, snap, callback, counters>>
      /\ Ended(s, Rest(s), TRUE)
      /\ sync[s].pc \notin {"idle", "next"}
      /\ rows' = [rows EXCEPT ![c] =
                     [k \in Kinds |-> (@[k] \ sync[s].gone[k]) \cup {sync[s].got[k]}]]
      /\ known' = IF sync[s].found = "insert" THEN known \cup {c} ELSE known
      /\ token' = IF sync[s].renewed THEN [token EXCEPT ![c] = Saved(@, sync[s].hand)] ELSE token
      /\ status' = IF sync[s].loaded = "ok" THEN status ELSE [status EXCEPT ![c] = "ok"]
  BY DEF Commit
<1>2. Grows
  BY <1>1, GrowsNot DEF eve
<1>3. SyncsInv'
  BY <1>1, <1>2, RestGood, EndedGood
<1>4. TokensInv'
  <2>1. /\ Saved(token[c], sync[s].hand) \in [refresh : Nat, fresh : BOOLEAN]
        /\ Saved(token[c], sync[s].hand).refresh <= issued[c]
        /\ Saved(token[c], sync[s].hand).refresh # 0
    BY <1>1, InHand, SavedGiven
  <2>2. c \in Characters
    BY <1>1, InHand
  <2> HIDE DEF c
  <2> QED
    BY <1>1, <2>1, <2>2, Parts DEF TokensInv, eve
<1>5. RowsInv'
  <2>1. c \in Characters /\ c \in connected /\ sync[s] \in Sessions
    BY <1>1, InHand
  <2>2. rows' \in [Characters -> [Kinds -> SUBSET Places]]
    <3>1. \A k \in Kinds : sync[s].got[k] \in Places
      BY <1>1, InHand DEF ListsFetched, Kinds, Commit
    <3>2. \A k \in Kinds : (rows[c][k] \ sync[s].gone[k]) \cup {sync[s].got[k]} \in SUBSET Places
      BY <2>1, <3>1, Parts DEF RowsInv
    <3>3. [k \in Kinds |-> (rows[c][k] \ sync[s].gone[k]) \cup {sync[s].got[k]}]
              \in [Kinds -> SUBSET Places]
      BY <3>2
    <3> QED
      BY <1>1, <3>3, Parts DEF RowsInv
  <2>3. known' \subseteq connected
    BY <1>1, <2>1, Parts DEF RowsInv
  <2>4. status' \in [Characters -> Statuses]
    BY <1>1, Parts DEF RowsInv, Statuses
  <2> QED
    BY <1>1, <2>2, <2>3, <2>4, Parts DEF RowsInv, eve
<1> QED
  BY <1>1, <1>2, <1>3, <1>4, <1>5, KeptParts, PartsNext DEF eve

-----------------------------------------------------------------------------
(* The structure client                                                    *)

\* What is known of the structure client, and of the candidate it has in hand.
LEMMA SnapInHand ==
    ASSUME SessionsInv
    PROVE  /\ snap \in SnapSessions /\ snap.todo \subseteq connected /\ snap.hope \subseteq connected
           /\ connected \subseteq Characters
           /\ snap.renewed \in [Characters -> Renewal] /\ snap.hand \in Renewal
           /\ \A c \in Characters : snap.renewed[c] # NotRenewed => Given(c, snap.renewed[c])
           /\ snap.pc \in Asking =>
                 /\ snap.char \in connected /\ snap.char \in Characters
                 /\ Given(snap.char, snap.hand)
                 /\ snap.hand.from \in 1..issued[snap.char]
  BY Parts DEF GoodSnap, RowsInv, SnapSessions, Given

\* The commit of its session writes tokens that were given out.
LEMMA SnapCommitGood ==
    ASSUME SessionsInv, SnapCommit, UNCHANGED <<connected, issued>>
    PROVE  TokensInv'
<1>1. ASSUME NEW c \in Characters
      PROVE  /\ token'[c] \in [refresh : Nat, fresh : BOOLEAN]
             /\ token'[c].refresh <= issued[c] /\ (c \in connected => token'[c].refresh # 0)
  <2>1. CASE snap.renewed[c] = NotRenewed
    BY <2>1, Parts DEF SnapCommit, TokensInv
  <2>2. CASE snap.renewed[c] # NotRenewed
    <3>1. snap.renewed[c] \in Renewal /\ Given(c, snap.renewed[c])
      BY <2>2, SnapInHand
    <3> QED
      BY <2>2, <3>1, SavedGiven DEF SnapCommit
  <2> QED
    BY <2>1, <2>2
<1>2. token' \in [Characters -> [refresh : Nat, fresh : BOOLEAN]]
  BY <1>1 DEF SnapCommit
<1> QED
  BY <1>1, <1>2 DEF TokensInv

\* After it the client has no token in hand.
LEMMA CommittedGood ==
    ASSUME SessionsInv, NEW pc \in {"next", "none"}
    PROVE  /\ GoodSnap([Committed EXCEPT !.pc = pc])
           /\ GoodSnap([Committed EXCEPT !.pc = "served", !.todo = {}])
<1>1. /\ Committed \in SnapSessions /\ Committed.renewed = NoSnap.renewed
      /\ Committed.todo = snap.todo /\ Committed.hope = snap.hope
  BY SnapInHand, Idle DEF Committed, SnapSessions
<1>2. pc \in SnapPcs /\ pc \notin Asking /\ "served" \in SnapPcs /\ "served" \notin Asking
  BY DEF SnapPcs, Asking
<1>3. GoodSnap([Committed EXCEPT !.pc = pc])
  BY <1>1, <1>2, SnapInHand, Idle DEF GoodSnap, SnapSessions
<1>4. GoodSnap([Committed EXCEPT !.pc = "served", !.todo = {}])
  BY <1>1, <1>2, SnapInHand, Idle DEF GoodSnap, SnapSessions
<1> QED
  BY <1>3, <1>4

\* Steps of the client that only it sees.
LEMMA SnapOwnSteps ==
    ASSUME SessionsInv,
           \/ SnapList \/ SnapFlush \/ SnapFail
           \/ \E c \in Characters : SnapOpen(c)
    PROVE  SessionsInv'
<1>1. /\ UNCHANGED <<connected, enabled, status, token, rows, known, asked, eve, sync, callback>>
      /\ UNCHANGED counters \/ Happens("snapshot") \/ Happens("fail")
  BY DEF SnapList, SnapFlush, SnapFail, SnapOpen
<1>2. Grows /\ {"snapshot", "fail"} \subseteq Happenings
  BY <1>1, GrowsNot DEF eve, Happenings
<1>3. ASSUME SnapList PROVE GoodSnap(snap')
  <2>1. /\ Candidates \subseteq connected /\ Candidates \in SUBSET Characters
        /\ Candidates \cap Access \in SUBSET Characters
    BY SnapInHand DEF Candidates
  <2> DEFINE r == [NoSnap EXCEPT !.pc = "next", !.todo = Candidates,
                                 !.hope = Candidates \cap Access]
  <2>2. "next" \in SnapPcs /\ "next" \notin Asking
    BY DEF SnapPcs, Asking
  <2>3. /\ r \in SnapSessions /\ r.pc = "next" /\ r.todo = Candidates
        /\ r.hope = Candidates \cap Access /\ r.renewed = NoSnap.renewed
    BY <2>1, <2>2, Idle DEF SnapSessions
  <2>4. GoodSnap(r)
    BY <2>1, <2>2, <2>3, Idle DEF GoodSnap
  <2> QED
    BY <1>3, <2>4 DEF SnapList
<1>4. ASSUME SnapFlush PROVE GoodSnap(snap')
  <2>1. snap.pc = "flush" /\ "flush" \in Asking /\ "ask" \in SnapPcs
    BY <1>4 DEF SnapFlush, Asking, SnapPcs
  <2> DEFINE c == snap.char
             r == [snap EXCEPT !.pc = "ask", !.renewed[snap.char] = snap.hand]
             renewed == [snap.renewed EXCEPT ![c] = snap.hand]
  <2>2. renewed \in [Characters -> Renewal]
    BY SnapInHand
  <2>3. \A d \in Characters : renewed[d] # NotRenewed => Given(d, renewed[d])
    BY <2>1, SnapInHand
  <2>4. r = [snap EXCEPT !.pc = "ask", !.renewed = renewed]
    BY SnapInHand DEF SnapSessions
  <2> HIDE DEF renewed
  <2>5. /\ r \in SnapSessions /\ r.renewed = renewed /\ r.todo = snap.todo
        /\ r.hope = snap.hope /\ r.char = snap.char /\ r.hand = snap.hand
    BY <2>1, <2>2, <2>4, SnapInHand DEF SnapSessions
  <2>6. GoodSnap(r)
    BY <2>1, <2>3, <2>5, SnapInHand DEF GoodSnap
  <2> QED
    BY <1>4, <2>6 DEF SnapFlush
<1>5. ASSUME SnapFail PROVE GoodSnap(snap')
  <2>1. "idle" \notin Asking
    BY DEF Asking
  <2>2. GoodSnap(NoSnap)
    BY <2>1, Idle DEF GoodSnap
  <2> QED
    BY <1>5, <2>2 DEF SnapFail
<1>6. ASSUME NEW c \in Characters, SnapOpen(c) PROVE GoodSnap(snap')
  <2> DEFINE h == [from |-> token[c].refresh, to |-> token[c].refresh]
             pc == IF token[c].fresh THEN "ask" ELSE "refresh"
             r == [snap EXCEPT !.pc = pc, !.todo = @ \ {c}, !.char = c, !.hand = h]
  <2>1. c \in connected /\ snap' = r
    BY <1>6, SnapInHand DEF SnapOpen
  <2>2. h \in Renewal /\ Given(c, h)
    BY <2>1, LoadedGiven
  <2>3. pc \in SnapPcs
    BY DEF SnapPcs
  <2>4. snap.todo \ {c} \in SUBSET Characters
    BY SnapInHand
  <2> HIDE DEF h, pc
  <2>5. /\ r \in SnapSessions /\ r.renewed = snap.renewed /\ r.todo = snap.todo \ {c}
        /\ r.hope = snap.hope /\ r.char = c /\ r.hand = h
    BY <2>2, <2>3, <2>4, SnapInHand DEF SnapSessions
  <2>6. GoodSnap(r)
    BY <2>1, <2>2, <2>5, SnapInHand DEF GoodSnap
  <2> HIDE DEF r
  <2> QED
    BY <2>1, <2>6
<1>7. GoodSnap(snap')
  BY <1>3, <1>4, <1>5, <1>6
<1>8. GoodSnap(snap)'
  BY <1>2, <1>7, GoodStays DEF GoodSnap
<1> QED
  BY <1>1, <1>2, <1>8, KeptParts, PartsNext DEF eve

\* The client's refresh.
LEMMA SnapRefreshStep ==
    ASSUME SessionsInv, SnapRefresh
    PROVE  SessionsInv'
<1> DEFINE c == snap.char
           old == snap.hand.from
<1>1. /\ UNCHANGED <<connected, enabled, status, token, rows, known, asked, place, sync, callback>>
      /\ snap.pc \in Asking /\ "flush" \in SnapPcs
  BY DEF SnapRefresh, Asking, SnapPcs
<1>2. PICK new \in {old, issued[c] + 1} :
          Answer(c, old, new) /\ snap' = [snap EXCEPT !.pc = "flush", !.hand.to = new]
  BY DEF SnapRefresh
<1>3. c \in connected /\ c \in Characters /\ old \in 1..issued[c]
  BY <1>1, SnapInHand
<1>4. /\ Grows /\ IssuedInv' /\ CountersInv'
      /\ old \in 1..issued'[c] /\ new \in 1..issued'[c]
  <2>1. Answer(c, old, new)
    BY <1>2
  <2> HIDE DEF c, old
  <2> QED
    BY <1>1, <1>3, <2>1, AnswerGiven
<1>5. old \in Nat /\ new \in Nat
  <2>1. issued'[c] \in Nat
    BY <1>3, <1>4 DEF Grows
  <2> QED
    BY <1>4, <2>1
<1> DEFINE h == [snap.hand EXCEPT !.to = new]
           r == [snap EXCEPT !.pc = "flush", !.hand = h]
<1>6. h \in Renewal /\ h.from = old /\ h.to = new
  BY <1>5, SnapInHand DEF Renewal
<1>7. snap' = r
  BY <1>2, SnapInHand DEF SnapSessions
<1> HIDE DEF h
<1>8. /\ r \in SnapSessions /\ r.renewed = snap.renewed /\ r.todo = snap.todo
      /\ r.hope = snap.hope /\ r.char = c /\ r.hand = h /\ r.pc = "flush"
  BY <1>1, <1>6, SnapInHand DEF SnapSessions
<1>9. PICK q : q = r
  OBVIOUS
<1>10. GoodSnap(q)'
  <2>1. \A d \in Characters : snap.renewed[d] # NotRenewed => Given(d, snap.renewed[d])
    BY SnapInHand
  <2>2. \A d \in Characters : q.renewed[d] # NotRenewed => Given(d, q.renewed[d])'
    BY <1>4, <1>8, <1>9, <2>1, GoodStays
  <2>3. q.char = c /\ q.hand.from = old /\ q.hand.to = new
    BY <1>6, <1>8, <1>9
  <2>4. /\ q \in SnapSessions /\ q.todo \subseteq connected' /\ q.hope \subseteq connected'
        /\ q.char \in connected' /\ Given(q.char, q.hand)'
    <3>1. Given(q.char, q.hand)'
      BY <1>4, <2>3 DEF Given
    <3> HIDE DEF c, old
    <3> QED
      BY <1>1, <1>3, <1>8, <1>9, <2>3, <3>1, SnapInHand
  <2> QED
    BY <2>2, <2>4 DEF GoodSnap
<1>11. GoodSnap(snap)'
  BY <1>7, <1>9, <1>10 DEF GoodSnap
<1> QED
  BY <1>1, <1>4, <1>11, KeptParts, PartsNext

\* A mark disables and says so; it enables nobody.
LEMMA MarkGood ==
    ASSUME SessionsInv, NEW c, NEW was \in BOOLEAN, Mark(c, was),
           UNCHANGED <<connected, known, asked, rows, place>>
    PROVE  RowsInv'
<1>1. enabled' \in [Characters -> BOOLEAN] /\ status' \in [Characters -> Statuses]
  BY Parts DEF Mark, RowsInv, Statuses
<1>2. \A d \in Characters : enabled'[d] => enabled[d]
  BY Parts DEF Mark, RowsInv
<1> QED
  BY <1>1, <1>2, Parts DEF RowsInv

\* The steps of the client that end a transaction, or do not.
LEMMA SnapCommitSteps ==
    ASSUME SessionsInv, SnapRejected \/ SnapAsk \/ SnapNone
    PROVE  SessionsInv'
<1>1. UNCHANGED <<connected, rows, known, asked, eve, sync, callback, counters>>
  BY DEF SnapRejected, SnapAsk, SnapNone
<1>2. Grows
  BY <1>1, GrowsNot DEF eve
<1>3. RowsInv'
  <2>1. Mark(snap.char, TRUE) \/ UNCHANGED <<enabled, status>>
    BY DEF SnapRejected, SnapAsk, SnapNone
  <2> QED
    BY <1>1, <1>2, <2>1, MarkGood, KeptParts DEF eve
<1>4. TokensInv'
  <2>1. SnapCommit \/ UNCHANGED token
    BY DEF SnapRejected, SnapAsk, SnapNone
  <2> QED
    BY <1>1, <1>2, <2>1, SnapCommitGood, KeptParts DEF eve
<1>5. GoodSnap(snap')
  <2>1. \/ \E pc \in {"next", "none"} : snap' = [Committed EXCEPT !.pc = pc]
        \/ snap' = [Committed EXCEPT !.pc = "served", !.todo = {}]
        \/ snap' = [snap EXCEPT !.pc = "next"]
    BY DEF SnapRejected, SnapAsk, SnapNone
  <2>2. CASE snap' = [snap EXCEPT !.pc = "next"]
    <3>1. "next" \in SnapPcs /\ "next" \notin Asking
      BY DEF SnapPcs, Asking
    <3> QED
      BY <2>2, <3>1, SnapInHand DEF GoodSnap, SnapSessions
  <2> QED
    BY <2>1, <2>2, CommittedGood
<1>6. GoodSnap(snap)'
  BY <1>2, <1>5, GoodStays DEF GoodSnap
<1> QED
  BY <1>1, <1>2, <1>3, <1>4, <1>6, KeptParts, PartsNext DEF eve

-----------------------------------------------------------------------------
(* Logins, the operator and EVE                                            *)

\* What is known of a login that has been answered.
LEMMA LoginInHand ==
    ASSUME SessionsInv, callback.pc # "idle"
    PROVE  /\ callback \in Callbacks /\ callback.char \in Characters
           /\ callback.to \in 1..issued[callback.char] /\ callback.was \in BOOLEAN
           /\ (callback.pc = "loaded" /\ callback.was) => callback.char \in connected
  BY Parts DEF GoodLogin, Callbacks

\* SSO gives the player a token.
LEMMA ExchangeStep ==
    ASSUME SessionsInv, NEW c \in Characters, Exchange(c)
    PROVE  SessionsInv'
<1>1. /\ UNCHANGED <<connected, enabled, status, token, rows, known, asked, place, sync, snap>>
      /\ Happens("connect") /\ "connect" \in Happenings
      /\ issued' = [issued EXCEPT ![c] = @ + 1]
      /\ live' = [live EXCEPT ![c] = @ \cup {issued[c] + 1}]
      /\ callback' = [NoCallback EXCEPT !.pc = "exchanged", !.char = c, !.to = issued[c] + 1]
  BY DEF Exchange, Happenings
<1>2. IssuedInv /\ issued[c] \in Nat
  BY Parts DEF IssuedInv
<1>3. Grows
  BY <1>1, <1>2 DEF Grows, IssuedInv
<1>4. IssuedInv'
  <2>1. live' \in [Characters -> SUBSET Nat]
    BY <1>1, <1>2 DEF IssuedInv
  <2>2. \A d \in Characters : live'[d] \subseteq 1..issued'[d]
    BY <1>1, <1>2 DEF IssuedInv
  <2> QED
    BY <1>3, <2>1, <2>2 DEF IssuedInv, Grows
<1>5. TokensInv'
  <2>1. \A d \in Characters : token[d].refresh \in Nat
    BY Parts DEF TokensInv
  <2> QED
    BY <1>1, <1>2, <1>3, <2>1, Parts DEF TokensInv, Grows, IssuedInv
<1>6. GoodLogin(callback)'
  <2>1. callback' \in Callbacks /\ callback'.pc = "exchanged" /\ callback'.char = c
        /\ callback'.to = issued[c] + 1
    <3>1. NoCallback \in Callbacks /\ c \in Characters \cup {0} /\ issued[c] + 1 \in Nat
      BY <1>2, Idle
    <3> QED
      BY <1>1, <3>1 DEF Callbacks
  <2>2. issued'[c] = issued[c] + 1
    BY <1>1, <1>2 DEF IssuedInv
  <2>3. callback'.to \in 1..issued'[c]
    BY <1>2, <2>1, <2>2
  <2> QED
    BY <2>1, <2>3 DEF GoodLogin
<1> QED
  BY <1>1, <1>3, <1>4, <1>5, <1>6, KeptParts, PartsNext

\* A login loads the character, or comes to nothing.
LEMMA LoginSteps ==
    ASSUME SessionsInv, CallbackLoad \/ CallbackRefused \/ CallbackFail
    PROVE  SessionsInv'
<1>1. /\ UNCHANGED <<connected, enabled, status, token, rows, known, asked, eve, sync, snap>>
      /\ UNCHANGED counters \/ Happens("fail")
      /\ callback.pc # "idle"
  BY DEF CallbackLoad, CallbackRefused, CallbackFail
<1>2. Grows /\ "fail" \in Happenings
  BY <1>1, GrowsNot DEF eve, Happenings
<1>3. GoodLogin(callback')
  <2>1. CASE callback' = NoCallback
    BY <2>1, Idle DEF GoodLogin
  <2>2. CASE CallbackLoad
    <3> DEFINE c == callback.char
    <3>1. callback' = [callback EXCEPT !.pc = "loaded", !.was = enabled[c], !.loaded = status[c]]
      BY <2>2 DEF CallbackLoad
    <3>2. /\ enabled[c] \in BOOLEAN /\ status[c] \in Statuses
          /\ enabled[c] => c \in connected
      BY <1>1, LoginInHand, Parts DEF RowsInv
    <3>3. /\ callback' \in Callbacks /\ callback'.was = enabled[c] /\ callback'.char = c
          /\ callback'.to = callback.to
      BY <1>1, <3>1, <3>2, LoginInHand DEF Callbacks
    <3> QED
      BY <1>1, <3>2, <3>3, LoginInHand DEF GoodLogin
  <2> QED
    BY <2>1, <2>2 DEF CallbackLoad, CallbackRefused, CallbackFail
<1>4. GoodLogin(callback)'
  BY <1>2, <1>3, GoodStays DEF GoodLogin
<1> QED
  BY <1>1, <1>2, <1>4, KeptParts, PartsNext DEF eve

\* A login stores the token, and a character that is met for the first time is enabled.
LEMMA LoginCommitStep ==
    ASSUME SessionsInv, CallbackCommit
    PROVE  SessionsInv'
<1> DEFINE c == callback.char
<1>1. /\ UNCHANGED <<rows, known, eve, sync, snap, counters>>
      /\ callback.pc = "loaded"
      /\ connected' = connected \cup {c}
      /\ enabled' = [enabled EXCEPT ![c] = @ \/ ~callback.was]
      /\ token' = [token EXCEPT ![c] = [refresh |-> callback.to, fresh |-> TRUE]]
      /\ status' = IF callback.loaded = "pending" THEN status
                   ELSE [status EXCEPT ![c] = "pending"]
      /\ asked' = asked \cup {c}
      /\ callback' = NoCallback
  BY DEF CallbackCommit
<1>2. c \in Characters /\ callback.to \in 1..issued[c] /\ callback.was \in BOOLEAN
  BY <1>1, LoginInHand
<1>3. Grows
  BY <1>1, Parts DEF Grows, IssuedInv, eve
<1>4. RowsInv'
  <2>1. enabled' \in [Characters -> BOOLEAN] /\ status' \in [Characters -> Statuses]
    BY <1>1, Parts DEF RowsInv, Statuses
  <2>2. \A d \in Characters : enabled'[d] => d \in connected'
    BY <1>1, Parts DEF RowsInv
  <2> QED
    BY <1>1, <1>2, <2>1, <2>2, Parts DEF RowsInv, eve
<1>5. TokensInv'
  <2>1. issued[c] \in Nat
    BY <1>2, Parts DEF IssuedInv
  <2>2. callback.to \in Nat /\ callback.to # 0 /\ callback.to <= issued[c]
    BY <1>2, <2>1
  <2> HIDE DEF c
  <2>3. token' \in [Characters -> [refresh : Nat, fresh : BOOLEAN]]
    BY <1>1, <1>2, <2>2, Parts DEF TokensInv
  <2>4. token'[c].refresh = callback.to /\ \A d \in Characters \ {c} : token'[d] = token[d]
    BY <1>1, <1>2, Parts DEF TokensInv
  <2>5. \A d \in Characters : d \in connected' => d \in connected \/ d = c
    BY <1>1
  <2> QED
    BY <1>1, <1>2, <2>2, <2>3, <2>4, <2>5, Parts DEF TokensInv, eve
<1>6. GoodLogin(callback)'
  BY <1>1, Idle DEF GoodLogin
<1> QED
  BY <1>1, <1>3, <1>4, <1>5, <1>6, KeptParts, PartsNext DEF eve

\* Things move, a player revokes, an access token expires, an operator switches a character.
LEMMA OutsideSteps ==
    ASSUME SessionsInv, NEW c \in Characters,
           MoveThings(c) \/ Revoke(c) \/ Expire(c) \/ Patch(c)
    PROVE  SessionsInv'
<1>1. /\ UNCHANGED <<connected, status, rows, known, asked, issued, sync, snap, callback>>
      /\ \E what \in Happenings : Happens(what)
  BY DEF MoveThings, Revoke, Expire, Patch, Happenings, eve
<1>2. Grows
  BY <1>1, GrowsNot
<1>3. RowsInv'
  <2>1. place' \in [Characters -> Places]
    BY Parts DEF RowsInv, MoveThings, Revoke, Expire, Patch, eve
  <2>2. enabled' \in [Characters -> BOOLEAN] /\ \A d \in Characters : enabled'[d] => d \in connected
    BY Parts DEF RowsInv, MoveThings, Revoke, Expire, Patch
  <2> QED
    BY <1>1, <2>1, <2>2, Parts DEF RowsInv
<1>4. TokensInv'
  <2>1. UNCHANGED token \/ token' = [token EXCEPT ![c].fresh = FALSE]
    BY DEF MoveThings, Revoke, Expire, Patch
  <2>2. CASE token' = [token EXCEPT ![c].fresh = FALSE]
    <3>1. /\ token' \in [Characters -> [refresh : Nat, fresh : BOOLEAN]]
          /\ \A d \in Characters : token'[d].refresh = token[d].refresh
      BY <2>2, Parts DEF TokensInv
    <3> QED
      BY <1>1, <3>1, Parts DEF TokensInv
  <2> QED
    BY <1>1, <1>2, <2>1, <2>2, KeptParts
<1>5. IssuedInv'
  BY <1>1, Parts DEF IssuedInv, MoveThings, Revoke, Expire, Patch, eve
<1> QED
  BY <1>1, <1>2, <1>3, <1>4, <1>5, KeptParts, PartsNext

\* Clearing takes no session's token, list or character away.
LEMMA ClearStep ==
    ASSUME SessionsInv, Clear
    PROVE  SessionsInv'
<1>1. /\ UNCHANGED <<connected, enabled, token, asked, eve, snap>>
      /\ Happens("clear") /\ "clear" \in Happenings
      /\ rows' = [c \in Characters |-> [k \in Kinds |-> {}]]
      /\ known' = {} /\ status' = [c \in Characters |-> "none"]
      /\ sync' = [s \in Syncers |->
                   IF sync[s].pc = "state"
                   THEN [sync[s] EXCEPT !.loaded = IF @ = "none" THEN @ ELSE "gone",
                                        !.found = IF @ = "update" THEN "gone" ELSE @]
                   ELSE sync[s]]
      /\ callback' = IF callback.pc = "loaded" /\ callback.loaded # "none"
                     THEN [callback EXCEPT !.loaded = "gone"] ELSE callback
  BY DEF Clear, Happenings
<1>2. Grows
  BY <1>1, GrowsNot DEF eve
<1>3. RowsInv'
  BY <1>1, Parts DEF RowsInv, Statuses, eve
<1>4. \A s \in Syncers : GoodSync(sync'[s])
  <2> SUFFICES ASSUME NEW s \in Syncers, sync[s].pc = "state"
               PROVE  GoodSync(sync'[s])
    BY <1>1, Parts DEF SyncsInv
  <2> DEFINE r == [sync[s] EXCEPT !.loaded = IF @ = "none" THEN @ ELSE "gone",
                                  !.found = IF @ = "update" THEN "gone" ELSE @]
  <2>1. sync'[s] = r
    BY <1>1
  <2>2. sync[s] \in Sessions
    BY Parts DEF SyncsInv
  <2>3. /\ r \in Sessions /\ r.char = sync[s].char /\ r.todo = sync[s].todo
        /\ r.hand = sync[s].hand /\ r.got = sync[s].got /\ r.pc = sync[s].pc
    BY <2>2 DEF Sessions
  <2>4. GoodSync(r)
    BY <2>3, InHand DEF GoodSync, ListsFetched
  <2> QED
    BY <2>1, <2>4
<1>5. SyncsInv'
  <2>1. sync' \in [Syncers -> Sessions]
    BY <1>1, <1>4 DEF GoodSync
  <2>2. \A s \in Syncers : GoodSync(sync[s])'
    BY <1>2, <1>4, GoodStays DEF GoodSync
  <2> QED
    BY <2>1, <2>2 DEF SyncsInv, GoodSync
<1>6. GoodLogin(callback')
  BY <1>1, Parts DEF GoodLogin, Callbacks
<1>7. GoodLogin(callback)'
  BY <1>2, <1>6, GoodStays DEF GoodLogin
<1> QED
  BY <1>1, <1>2, <1>3, <1>5, <1>7, KeptParts, PartsNext DEF eve

-----------------------------------------------------------------------------
(* Every state of every behaviour                                          *)

\* At the start every character that is connected has a token, the first one.
LEMMA Starts == Init => SessionsInv
<1> SUFFICES ASSUME Init PROVE SessionsInv
  OBVIOUS
<1>1. RowsInv /\ CountersInv
  <2>1. /\ connected \subseteq Characters /\ known \subseteq connected /\ asked \subseteq connected
        /\ CountersInv
    BY CharactersAssumption DEF Init, CountersInv
  <2>2. /\ enabled \in [Characters -> BOOLEAN] /\ status \in [Characters -> Statuses]
        /\ place \in [Characters -> Places]
    BY DEF Init, Statuses, Places
  <2>3. rows \in [Characters -> [Kinds -> SUBSET Places]]
    BY DEF Init
  <2>4. \A c \in Characters : enabled[c] => c \in connected
    BY DEF Init
  <2> QED
    BY <2>1, <2>2, <2>3, <2>4 DEF RowsInv
<1>2. IssuedInv
  BY DEF Init, IssuedInv
<1>3. TokensInv
  <2>1. token \in [Characters -> [refresh : Nat, fresh : BOOLEAN]]
    BY DEF Init
  <2>2. \A c \in Characters : token[c].refresh = issued[c] /\ issued[c] \in Nat
                             /\ (c \in connected => token[c].refresh = 1)
    BY DEF Init
  <2> QED
    BY <2>1, <2>2 DEF TokensInv
<1>4. SyncsInv
  <2>1. NoSync.todo = {} /\ ListsFetched(NoSync)
    BY DEF NoSync, ListsFetched
  <2> QED
    BY <2>1, Idle DEF Init, SyncsInv, GoodSync
<1>5. GoodSnap(snap) /\ GoodLogin(callback)
  BY Idle DEF Init, GoodSnap, GoodLogin, Asking
<1> QED
  BY <1>1, <1>2, <1>3, <1>4, <1>5, Parts

\* One step of a syncer.
LEMMA SyncSteps ==
    ASSUME SessionsInv, NEW s \in Syncers, SyncStep(s) \/ SyncFail(s)
    PROVE  SessionsInv'
  BY RefreshSteps, FetchSteps, DiscoverSteps, CommitSteps, AbandonSteps DEF SyncStep

\* No step of anybody breaks the invariant.
LEMMA Inductive == SessionsInv /\ [Next]_vars => SessionsInv'
<1> SUFFICES ASSUME SessionsInv, [Next]_vars PROVE SessionsInv'
  OBVIOUS
<1>1. "job" \in Syncers /\ "visit" \in Syncers
  BY DEF Syncers
<1>2. ASSUME NEW c \in Characters,
             MoveThings(c) \/ Revoke(c) \/ Expire(c) \/ Exchange(c) \/ Patch(c) \/ Visit(c)
      PROVE  SessionsInv'
  BY <1>2, OutsideSteps, ExchangeStep, BeginSteps
<1>3. CASE JobStep \/ SyncStep("visit") \/ \E s \in Syncers : SyncFail(s)
  BY <1>1, <1>3, BeginSteps, SyncSteps DEF JobStep
<1>4. CASE SnapList \/ SnapStep \/ SnapFail
  BY <1>4, SnapOwnSteps, SnapRefreshStep, SnapCommitSteps DEF SnapStep
<1>5. CASE CallbackStep \/ CallbackFail
  BY <1>5, LoginSteps, LoginCommitStep DEF CallbackStep
<1>6. CASE UNCHANGED vars
  <2>1. UNCHANGED <<connected, issued>> /\ UNCHANGED counters
    BY <1>6 DEF vars, counters
  <2>2. Grows
    BY <2>1, GrowsNot
  <2> QED
    BY <1>6, <2>1, <2>2, KeptParts, PartsNext DEF vars
<1> QED
  BY <1>2, <1>3, <1>4, <1>5, <1>6, ClearStep DEF Next

\* Every row, session and token is of its kind, a refresh token that is stored was given out by
\* SSO to that character, and a character that has a row has one: whatever SSO thinks of older
\* tokens, and in whichever order the four sessions load and write.
THEOREM TypesCorrect == Spec => []CharactersTypeOK
<1>1. SessionsInv => CharactersTypeOK
  BY DEF SessionsInv
<1> QED
  BY <1>1, Starts, Inductive, PTL DEF Spec

-----------------------------------------------------------------------------
(* Nobody is disabled, and no candidate lost, but by a revocation          *)

\* SSO rejects a token that it gave out only after the player has revoked.
LEMMA RejectedRevoked ==
    ASSUME TokensLive, NEW c \in Characters, NEW old \in 1..issued[c], Rejected(c, old)
    PROVE  c \in withdrawn
  BY DEF TokensLive, Rejected

\* SSO goes on accepting what it gave out: a refresh and a login add a token to those, and a
\* revocation takes them all away.
LEMMA TokensLiveStep ==
    ASSUME OldTokensLive, SessionsInv, TokensLive, [Next]_vars
    PROVE  TokensLive' /\ withdrawn \subseteq withdrawn'
<1>1. issued \in [Characters -> Nat] /\ live \in [Characters -> SUBSET Nat]
  BY Parts DEF IssuedInv
<1>2. ASSUME UNCHANGED <<live, issued, withdrawn>>
      PROVE  TokensLive' /\ withdrawn \subseteq withdrawn'
  BY <1>2 DEF TokensLive
<1>3. ASSUME NEW c \in Characters, NEW n, n = issued[c] + 1, UNCHANGED withdrawn,
             issued' = [issued EXCEPT ![c] = n], live' = [live EXCEPT ![c] = @ \cup {n}]
      PROVE  TokensLive' /\ withdrawn \subseteq withdrawn'
  <2>1. (1..issued[c]) \cup {issued[c] + 1} = 1..(issued[c] + 1)
    BY <1>1
  <2>2. /\ issued'[c] = issued[c] + 1 /\ live'[c] = live[c] \cup {issued[c] + 1}
        /\ \A d \in Characters \ {c} : issued'[d] = issued[d] /\ live'[d] = live[d]
    BY <1>1, <1>3
  <2> QED
    BY <1>3, <2>1, <2>2 DEF TokensLive
<1>4. ASSUME NEW c \in Characters, NEW old, NEW new, Answer(c, old, new), UNCHANGED withdrawn
      PROVE  TokensLive' /\ withdrawn \subseteq withdrawn'
  <2>1. \/ UNCHANGED <<live, issued>>
        \/ /\ new = issued[c] + 1
           /\ issued' = [issued EXCEPT ![c] = new]
           /\ live' = [live EXCEPT ![c] = @ \cup {new}]
    BY <1>4 DEF Answer
  <2> QED
    BY <1>2, <1>3, <1>4, <2>1
<1>5. ASSUME NEW c \in Characters,
             MoveThings(c) \/ Revoke(c) \/ Expire(c) \/ Exchange(c) \/ Patch(c) \/ Visit(c)
      PROVE  TokensLive' /\ withdrawn \subseteq withdrawn'
  <2>1. CASE Revoke(c)
    BY <1>1, <2>1 DEF Revoke, TokensLive
  <2>2. CASE Exchange(c)
    <3>1. /\ issued' = [issued EXCEPT ![c] = issued[c] + 1]
          /\ live' = [live EXCEPT ![c] = @ \cup {issued[c] + 1}]
          /\ UNCHANGED withdrawn
      BY <2>2 DEF Exchange, history
    <3> QED
      BY <1>3, <3>1
  <2> QED
    BY <1>2, <1>5, <2>1, <2>2 DEF MoveThings, Expire, Patch, Visit, eve, history
<1>6. ASSUME NEW s \in Syncers, SyncStep(s) \/ SyncFail(s)
      PROVE  TokensLive' /\ withdrawn \subseteq withdrawn'
  <2>1. CASE Refresh(s)
    <3>1. sync[s].char \in Characters
      BY <2>1, InHand DEF Refresh
    <3> QED
      BY <2>1, <3>1, <1>4 DEF Refresh, history
  <2> QED
    BY <1>2, <1>6, <2>1 DEF SyncStep, SyncFail, RefreshRejected, Flush, Fetch, Discover, Commit,
       CommitClashes, eve, history
<1>7. CASE SnapRefresh
  <2>1. snap.char \in Characters
    BY <1>7, SnapInHand DEF SnapRefresh, Asking
  <2> QED
    BY <1>7, <2>1, <1>4 DEF SnapRefresh, history
<1>8. CASE SnapList \/ (SnapStep /\ ~SnapRefresh) \/ SnapFail
  BY <1>2, <1>8 DEF SnapList, SnapStep, SnapOpen, SnapFlush, SnapRejected, SnapAsk, SnapNone,
     SnapFail, eve, history
<1>9. CASE CallbackStep \/ CallbackFail \/ Clear \/ JobStart \/ JobNext \/ UNCHANGED vars
  BY <1>2, <1>9 DEF CallbackStep, CallbackLoad, CallbackCommit, CallbackRefused, CallbackFail,
     Clear, JobStart, JobNext, vars, eve, history
<1>10. "job" \in Syncers /\ "visit" \in Syncers
  BY DEF Syncers
<1> QED
  BY <1>5, <1>6, <1>7, <1>8, <1>9, <1>10 DEF Next, JobStep

\* A character is disabled by its operator, or by a session that SSO rejected.
LEMMA DisabledStep ==
    ASSUME SessionsInv, TokensLive, DisabledOnlyIfRevoked, [Next]_vars
    PROVE  DisabledOnlyIfRevoked'
<1> DEFINE Excused(c) == c \in withdrawn' \/ c \in switchedOff'
<1>1. enabled \in [Characters -> BOOLEAN] /\ connected \subseteq Characters
  BY Parts DEF RowsInv
<1>2. ASSUME UNCHANGED connected, withdrawn \subseteq withdrawn', switchedOff \subseteq switchedOff',
             \A c \in Characters : enabled[c] => enabled'[c] \/ Excused(c)
      PROVE  DisabledOnlyIfRevoked'
  BY <1>1, <1>2 DEF DisabledOnlyIfRevoked
<1>3. ASSUME UNCHANGED <<connected, enabled, switchedOff>>, withdrawn \subseteq withdrawn'
      PROVE  DisabledOnlyIfRevoked'
  BY <1>2, <1>3
<1>4. ASSUME NEW c \in Characters, NEW old \in 1..issued[c], Rejected(c, old),
             NEW was \in BOOLEAN, Mark(c, was), UNCHANGED <<connected, withdrawn, switchedOff>>
      PROVE  DisabledOnlyIfRevoked'
  <2>1. c \in withdrawn
    BY <1>4, RejectedRevoked
  <2>2. \A d \in Characters \ {c} : enabled'[d] = enabled[d]
    BY <1>1, <1>4 DEF Mark
  <2> QED
    BY <1>2, <1>4, <2>1, <2>2
<1>5. ASSUME NEW c \in Characters,
             MoveThings(c) \/ Revoke(c) \/ Expire(c) \/ Exchange(c) \/ Patch(c) \/ Visit(c)
      PROVE  DisabledOnlyIfRevoked'
  <2>1. CASE Patch(c)
    BY <1>1, <1>2, <2>1 DEF Patch
  <2> QED
    BY <1>3, <1>5, <2>1 DEF MoveThings, Revoke, Expire, Exchange, Visit, eve, history
<1>6. ASSUME NEW s \in Syncers, SyncStep(s) \/ SyncFail(s)
      PROVE  DisabledOnlyIfRevoked'
  <2>1. CASE RefreshRejected(s)
    <3>1. /\ sync[s].char \in Characters /\ sync[s].was \in BOOLEAN
          /\ sync[s].hand.from \in 1..issued[sync[s].char]
      BY <2>1, InHand DEF RefreshRejected, Sessions
    <3> QED
      BY <2>1, <3>1, <1>4 DEF RefreshRejected, history
  <2> QED
    BY <1>3, <1>6, <2>1 DEF SyncStep, SyncFail, Refresh, Flush, Fetch, Discover, Commit,
       CommitClashes, eve, history
<1>7. CASE SnapRejected
  <2>1. snap.char \in Characters /\ snap.hand.from \in 1..issued[snap.char]
    BY <1>7, SnapInHand DEF SnapRejected, Asking
  <2> QED
    BY <1>7, <2>1, <1>4 DEF SnapRejected, history
<1>8. CASE SnapList \/ (SnapStep /\ ~SnapRejected) \/ SnapFail
  BY <1>3, <1>8 DEF SnapList, SnapStep, SnapOpen, SnapRefresh, SnapFlush, SnapAsk, SnapNone,
     SnapFail, eve, history
\* A character that was not there when the login loaded it is enabled by it.
<1>9. CASE CallbackCommit
  <2>1. /\ callback.char \in Characters /\ callback.was \in BOOLEAN
        /\ callback.was => callback.char \in connected
        /\ connected' = connected \cup {callback.char}
        /\ enabled' = [enabled EXCEPT ![callback.char] = @ \/ ~callback.was]
        /\ UNCHANGED <<withdrawn, switchedOff>>
    BY <1>9, LoginInHand DEF CallbackCommit, history
  <2> QED
    BY <1>1, <2>1 DEF DisabledOnlyIfRevoked
<1>10. CASE CallbackLoad \/ CallbackRefused \/ CallbackFail \/ Clear \/ JobStart \/ JobNext
            \/ UNCHANGED vars
  BY <1>3, <1>10 DEF CallbackLoad, CallbackRefused, CallbackFail, Clear, JobStart, JobNext,
     vars, eve, history
<1>11. "job" \in Syncers /\ "visit" \in Syncers
  BY DEF Syncers
<1> QED
  BY <1>5, <1>6, <1>7, <1>8, <1>9, <1>10, <1>11 DEF Next, JobStep, CallbackStep

\* A candidate of whom there is hope is asked, or lost to a revocation, before the client ends.
LEMMA HopeStep ==
    ASSUME SessionsInv, TokensLive, HopeLeft, [Next]_vars, withdrawn \subseteq withdrawn'
    PROVE  HopeLeft'
<1>1. ASSUME UNCHANGED snap
      PROVE  HopeLeft'
  BY <1>1 DEF HopeLeft
<1>2. CASE SnapList
  <2>1. /\ snap'.pc = "next" /\ snap'.todo = Candidates /\ snap'.hope = Candidates \cap Access
    BY <1>2 DEF SnapList, NoSnap
  <2> QED
    BY <2>1 DEF HopeLeft
<1>3. ASSUME NEW c \in Characters, SnapOpen(c)
      PROVE  HopeLeft'
  <2>1. /\ snap.pc = "next" /\ snap'.pc \in Asking /\ snap'.todo = snap.todo \ {c}
        /\ snap'.char = c /\ snap'.hope = snap.hope /\ "next" \notin Asking
    BY <1>3, SnapInHand DEF SnapOpen, SnapSessions, Asking
  <2> QED
    BY <2>1 DEF HopeLeft, Asking
<1>4. CASE SnapRefresh \/ SnapFlush
  <2>1. /\ snap.pc \in Asking /\ snap'.pc \in Asking /\ snap'.todo = snap.todo
        /\ snap'.char = snap.char /\ snap'.hope = snap.hope
    BY <1>4, SnapInHand DEF SnapRefresh, SnapFlush, SnapSessions, Asking
  <2> QED
    BY <2>1 DEF HopeLeft, Asking
<1>5. CASE SnapRejected
  <2>1. /\ snap.pc \in Asking /\ snap'.pc = "next" /\ snap'.todo = snap.todo
        /\ snap'.hope = snap.hope /\ "next" \notin Asking
    BY <1>5, SnapInHand DEF SnapRejected, Committed, SnapSessions, Asking
  <2>2. snap.char \in withdrawn
    BY <1>5, <2>1, SnapInHand, RejectedRevoked DEF SnapRejected
  <2> QED
    BY <2>1, <2>2 DEF HopeLeft
<1>6. CASE SnapAsk
  <2>1. snap.pc = "ask" /\ "ask" \in Asking /\ "next" \notin Asking /\ "served" \notin Asking
    BY <1>6 DEF SnapAsk, Asking
  <2>2. CASE snap'.pc = "served"
    BY <2>1, <2>2 DEF HopeLeft
  <2>3. CASE snap.char \notin Access /\ snap' = [snap EXCEPT !.pc = "next"]
    <3>1. snap'.pc = "next" /\ snap'.todo = snap.todo /\ snap'.hope = snap.hope
      BY <2>3, SnapInHand DEF SnapSessions
    <3> QED
      BY <2>1, <2>3, <3>1 DEF HopeLeft
  <2> QED
    BY <1>6, <2>2, <2>3, SnapInHand DEF SnapAsk, Committed, SnapSessions
<1>7. CASE SnapNone
  <2>1. /\ snap.pc = "next" /\ snap.todo = {} /\ snap'.pc = "none" /\ snap'.todo = snap.todo
        /\ snap'.hope = snap.hope /\ "next" \notin Asking /\ "none" \notin Asking
    BY <1>7, SnapInHand DEF SnapNone, Committed, SnapSessions, Asking
  <2> QED
    BY <2>1 DEF HopeLeft
<1>8. CASE SnapFail
  <2>1. snap'.pc = "idle" /\ "idle" \notin Asking
    BY <1>8 DEF SnapFail, NoSnap, Asking
  <2> QED
    BY <2>1 DEF HopeLeft
<1>9. CASE \E s \in Syncers : SyncStep(s) \/ SyncFail(s)
  BY <1>1, <1>9 DEF SyncStep, SyncFail, Refresh, RefreshRejected, Flush, Fetch, Discover, Commit,
     CommitClashes
<1>10. ASSUME NEW c \in Characters,
              MoveThings(c) \/ Revoke(c) \/ Expire(c) \/ Exchange(c) \/ Patch(c) \/ Visit(c)
       PROVE  HopeLeft'
  BY <1>1, <1>10 DEF MoveThings, Revoke, Expire, Exchange, Patch, Visit
<1>11. CASE CallbackStep \/ CallbackFail \/ Clear \/ JobStart \/ JobNext \/ UNCHANGED vars
  BY <1>1, <1>11 DEF CallbackStep, CallbackLoad, CallbackCommit, CallbackRefused, CallbackFail,
     Clear, JobStart, JobNext, vars
<1>12. "job" \in Syncers /\ "visit" \in Syncers
  BY DEF Syncers
<1>13. ASSUME SnapStep
       PROVE  HopeLeft'
  BY <1>3, <1>4, <1>5, <1>6, <1>7, <1>13 DEF SnapStep
<1> QED
  BY <1>2, <1>8, <1>9, <1>10, <1>11, <1>12, <1>13 DEF Next, JobStep

\* Where SSO keeps accepting its older tokens, the whole invariant holds in every state.
LEMMA Authorised == ASSUME OldTokensLive PROVE Spec => []AuthorisedInv
<1>1. Init => AuthorisedInv
  <2> SUFFICES ASSUME Init PROVE AuthorisedInv
    OBVIOUS
  <2>1. TokensLive
    <3>1. \A c \in Characters : (IF c \in Connected THEN {1} ELSE {})
                                   = 1..(IF c \in Connected THEN 1 ELSE 0)
      <4>1. 1..1 = {1} /\ 1..0 = {}
        OBVIOUS
      <4> QED
        BY <4>1
    <3> QED
      BY <3>1 DEF Init, TokensLive
  <2>2. HopeLeft /\ DisabledOnlyIfRevoked
    BY CharactersAssumption DEF Init, HopeLeft, DisabledOnlyIfRevoked, NoSnap, Asking
  <2> QED
    BY <2>1, <2>2, Starts DEF AuthorisedInv
<1>2. AuthorisedInv /\ [Next]_vars => AuthorisedInv'
  BY Inductive, TokensLiveStep, DisabledStep, HopeStep DEF AuthorisedInv
<1> QED
  BY <1>1, <1>2, PTL DEF Spec

\* A character whose player never withdrew the authorisation is only ever disabled by the
\* operator, however the job, visits, the structure client and logins interleave, fail and save
\* each other's tokens over: as long as SSO keeps accepting a refresh token after it gave out
\* another (with one that does not, the second of two sessions that loaded the same token is
\* rejected, and disables the character).
THEOREM RevocationOnly == ASSUME OldTokensLive PROVE Spec => []DisabledOnlyIfRevoked
<1>1. AuthorisedInv => DisabledOnlyIfRevoked
  BY DEF AuthorisedInv
<1> QED
  BY <1>1, Authorised, PTL

\* The structure client comes back with nothing only if every candidate that may dock was lost to
\* a revocation: no candidate that is rejected, or refused, stands in the way of the others.
THEOREM AnotherAnswers == ASSUME OldTokensLive PROVE Spec => []AnotherServes
<1>1. AuthorisedInv => AnotherServes
  BY DEF AuthorisedInv, HopeLeft, AnotherServes, Asking
<1> QED
  BY <1>1, Authorised, PTL
================================================================================
