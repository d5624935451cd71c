----------------------------- MODULE CharacterSync -----------------------------
(***************************************************************************)
(* The connected EVE characters: their tokens, and what is synchronised    *)
(* with them.  Four threads work on the same rows, each in a session of    *)
(* its own: the character_sync job, which goes through all the enabled     *)
(* characters; a visit (POST /characters/{id}/sync), which synchronises    *)
(* one; the structure client, which looks for a character that may read    *)
(* the orders of a structure; and the callback of a login.  A session      *)
(* reads committed rows, sends its changes to the database only where the  *)
(* code flushes, deletes or commits, and of a row it loaded writes only    *)
(* the columns that it changed.                                            *)
(*                                                                         *)
(* A token is its number, in the order in which SSO gave them out; 0 is    *)
(* none.  A character has one thing, and one order for it, in one place.   *)
(***************************************************************************)
EXTENDS Integers, FiniteSets, FiniteSetsExt

CONSTANTS
    Characters,     \* their ids, which order the job's list
    Connected,      \* those that are connected at the start
    Access,         \* those that may dock at the structure
    Scoped,         \* those that granted esi-markets.structure_markets.v1
    Discovered,     \* those for which the structure is known to be accessible at the start
    OldTokensLive,  \* does SSO accept a refresh token after it gave out another for it
    Bounds,         \* bound: how often each of Happenings may happen
    MaxHappenings   \* bound: how many of them there may be

Happenings ==
    {"move", "revoke", "connect", "patch", "visit", "snapshot", "clear",
     "expire", "rotate", "fail"}

ASSUME CharactersAssumption ==
    /\ Characters \subseteq Nat \ {0} /\ IsFiniteSet(Characters)
    /\ Connected \subseteq Characters /\ Discovered \subseteq Connected
    /\ Access \subseteq Characters /\ Scoped \subseteq Characters
    /\ OldTokensLive \in BOOLEAN
    /\ Bounds \in [Happenings -> Nat] /\ MaxHappenings \in Nat

VARIABLES
    connected,  \* the characters that have rows
    enabled,    \* esi_characters.sync_enabled
    status,     \* esi_character_sync_state, of assets, orders and structures alike
    token,      \* esi_character_tokens: the refresh token; is the access token fresh
    rows,       \* character_assets and character_orders: the places they show
    known,      \* the characters that have the structure in character_accessible_structures
    asked,      \* the characters that have a pending row in sync_job_runs
    place,      \* EVE: where the character's thing and order are
    live,       \* SSO: the refresh tokens of a character that it accepts
    issued,     \* SSO: how many it gave out
    sync,       \* the sessions of the job and of a visit
    snap,       \* the session of the structure client
    callback,   \* the session of a login
    left, count,  \* the bounded counters: what remains of the bounds, what has happened
    withdrawn, switchedOff  \* history: the players that revoked, the operators that disabled

eve == <<place, live, issued>>
history == <<withdrawn, switchedOff>>
counters == <<left, count>>
vars == <<connected, enabled, status, token, rows, known, asked, place, live, issued,
          sync, snap, callback, left, count, withdrawn, switchedOff>>

-----------------------------------------------------------------------------
(* Rows and sessions                                                       *)

Syncers == {"job", "visit"}
Kinds == {"assets", "orders"}
Places == {"station", "structure"}
Nowhere == "nowhere"
Statuses == {"none", "pending", "ok", "reauth_required"}  \* none: there is no row

\* The columns a refresh has in hand: the token that was loaded and the one that SSO answered.
Renewal == [from : Nat, to : Nat]
NotRenewed == [from |-> 0, to |-> 0]

NoSync ==
    [pc |-> "idle", todo |-> {}, char |-> 0, was |-> FALSE, hand |-> NotRenewed, renewed |-> FALSE,
     gone |-> [k \in Kinds |-> {}], got |-> [k \in Kinds |-> Nowhere],
     found |-> "nothing", loaded |-> "ok"]

NoSnap ==
    [pc |-> "idle", todo |-> {}, char |-> 0, hand |-> NotRenewed,
     renewed |-> [c \in Characters |-> NotRenewed], hope |-> {}]

NoCallback == [pc |-> "idle", char |-> 0, to |-> 0, was |-> FALSE, loaded |-> "ok"]

Init ==
    /\ connected = Connected /\ known = Discovered /\ asked = {}
    /\ enabled = [c \in Characters |-> c \in Connected]
    /\ status = [c \in Characters |-> IF c \in Connected THEN "pending" ELSE "none"]
    /\ token = [c \in Characters |-> [refresh |-> IF c \in Connected THEN 1 ELSE 0,
                                      fresh |-> c \in Connected]]
    /\ rows = [c \in Characters |-> [k \in Kinds |-> {}]]
    /\ place = [c \in Characters |-> "structure"]
    /\ issued = [c \in Characters |-> IF c \in Connected THEN 1 ELSE 0]
    /\ live = [c \in Characters |-> IF c \in Connected THEN {1} ELSE {}]
    /\ sync = [s \in Syncers |-> NoSync] /\ snap = NoSnap /\ callback = NoCallback
    /\ left = Bounds /\ count = 0
    /\ withdrawn = {} /\ switchedOff = {}

Happens(what) ==
    /\ left[what] > 0 /\ count < MaxHappenings
    /\ left' = [left EXCEPT ![what] = @ - 1]
    /\ count' = count + 1

\* The row of a token that was flushed stays locked until its session ends.
TokenLocked(c) ==
    \/ \E s \in Syncers : sync[s].char = c /\ sync[s].renewed
    \/ snap.renewed[c] # NotRenewed

\* A mutant: a refresh that answers no refresh token clears the one that is stored.
SavedAnswer(tok, renewal) ==
    [refresh |-> IF renewal.to = renewal.from THEN 0 ELSE renewal.to, fresh |-> TRUE]

\* UPDATE esi_character_tokens; the refresh token is written only if it is another one.
Saved(tok, renewal) ==
    [refresh |-> IF renewal.to = renewal.from THEN tok.refresh ELSE renewal.to, fresh |-> TRUE]

\* SSO answers a refresh with the token that it was sent, or with another.
Answer(c, old, new) ==
    \/ /\ new = old
       /\ UNCHANGED <<live, issued, counters>>
    \/ /\ Happens("rotate")
       /\ new = issued[c] + 1
       /\ issued' = [issued EXCEPT ![c] = new]
       /\ live' = [live EXCEPT ![c] = (IF OldTokensLive THEN @ ELSE @ \ {old}) \cup {new}]

\* SSO answers with an HTTP status of 400 to 499.
RejectedOrFailed(c, old) == TRUE
Rejected(c, old) == old \notin live[c]

\* A mutant: the status alone.
MarkStatus(c, was) ==
    /\ status' = [status EXCEPT ![c] = "reauth_required"]
    /\ UNCHANGED enabled

\* _mark_character_reauth_required, in a session that loaded sync_enabled as was.
Mark(c, was) ==
    /\ enabled' = [enabled EXCEPT ![c] = @ /\ ~was]
    /\ status' = [status EXCEPT ![c] = "reauth_required"]

-----------------------------------------------------------------------------
(* The game, SSO and time                                                  *)

MoveThings(c) ==
    /\ Happens("move")
    /\ \E p \in Places \ {place[c]} : place' = [place EXCEPT ![c] = p]
    /\ UNCHANGED <<connected, enabled, status, token, rows, known, asked, live, issued,
                   sync, snap, callback, history>>

\* The player withdraws the authorisation, or changes the password.
Revoke(c) ==
    /\ Happens("revoke") /\ live[c] # {}
    /\ live' = [live EXCEPT ![c] = {}]
    /\ withdrawn' = withdrawn \cup {c}
    /\ UNCHANGED <<connected, enabled, status, token, rows, known, asked, place, issued,
                   sync, snap, callback, switchedOff>>

\* The access token has less than two minutes left.
Expire(c) ==
    /\ Happens("expire") /\ token[c].fresh
    /\ token' = [token EXCEPT ![c].fresh = FALSE]
    /\ UNCHANGED <<connected, enabled, status, rows, known, asked, eve, sync, snap, callback, history>>

-----------------------------------------------------------------------------
(* Synchronising a character, in the job or on a visit                     *)

\* What the other syncer waits for: a DELETE that finds rows another session has deleted waits
\* for its end; if that commits the statement deletes nothing, the rows it put in came too late.
Holds(t, c, k) == sync[t].char = c /\ sync[t].gone[k] # {}

Deleted(r, k, gone) ==
    [r EXCEPT !.gone[k] = gone, !.pc = IF k = "assets" THEN "orders" ELSE "structures"]

Woken(t, committed) ==
    LET k == IF sync[t].got["orders"] = Nowhere THEN "assets" ELSE "orders"
    IN  Deleted(sync[t], k, IF committed THEN {} ELSE rows[sync[t].char][k])

\* The session of s ends, and s goes on as r.
Ended(s, r, committed) ==
    sync' = [t \in Syncers |->
                IF t = s THEN r
                ELSE IF sync[t].pc = "waits" /\ sync[t].char = sync[s].char
                     THEN Woken(t, committed)
                     ELSE sync[t]]

\* What a job does after a character; a visit is over.
Rest(s) ==
    IF s = "job" THEN [NoSync EXCEPT !.pc = "next", !.todo = sync[s].todo] ELSE NoSync

\* An exception leaves sync_character, and the job with the characters that remain.
Abandoned(s) == Ended(s, NoSync, FALSE)

\* sync_character loads the character and its token.
Opened(c, todo) ==
    [NoSync EXCEPT !.pc = IF token[c].fresh THEN "assets" ELSE "refresh",
                   !.todo = todo, !.char = c, !.was = enabled[c],
                   !.hand = [from |-> token[c].refresh, to |-> token[c].refresh]]

JobStart ==
    /\ sync["job"].pc = "idle"
    /\ sync' = [sync EXCEPT !["job"].pc = "next",
                            !["job"].todo = {c \in connected : enabled[c]}]
    /\ UNCHANGED <<connected, enabled, status, token, rows, known, asked, eve,
                   snap, callback, counters, history>>

JobNext ==
    LET todo == sync["job"].todo
    IN  /\ sync["job"].pc = "next"
        /\ sync' = [sync EXCEPT !["job"] =
                       IF todo = {} THEN NoSync ELSE Opened(Min(todo), todo \ {Min(todo)})]
        /\ UNCHANGED <<connected, enabled, status, token, rows, known, asked, eve,
                       snap, callback, counters, history>>

Visit(c) ==
    /\ Happens("visit")
    /\ sync["visit"].pc = "idle" /\ c \in connected
    /\ sync' = [sync EXCEPT !["visit"] = Opened(c, {})]
    /\ UNCHANGED <<connected, enabled, status, token, rows, known, asked, eve,
                   snap, callback, history>>

Refresh(s) ==
    LET c == sync[s].char
        old == sync[s].hand.from
    IN  /\ sync[s].pc = "refresh" /\ ~Rejected(c, old)
        /\ \E new \in {old, issued[c] + 1} :
              /\ Answer(c, old, new)
              /\ sync' = [sync EXCEPT ![s].pc = "flush", ![s].hand.to = new]
        /\ UNCHANGED <<connected, enabled, status, token, rows, known, asked, place,
                       snap, callback, history>>

RefreshRejected(s) ==
    /\ sync[s].pc = "refresh" /\ Rejected(sync[s].char, sync[s].hand.from)
    /\ Mark(sync[s].char, sync[s].was)
    /\ Abandoned(s)
    /\ UNCHANGED <<connected, token, rows, known, asked, eve, snap, callback, counters, history>>

Flush(s) ==
    /\ sync[s].pc = "flush" /\ ~TokenLocked(sync[s].char)
    /\ sync' = [sync EXCEPT ![s].pc = "assets", ![s].renewed = TRUE]
    /\ UNCHANGED <<connected, enabled, status, token, rows, known, asked, eve,
                   snap, callback, counters, history>>

\* The list is fetched, and the rows of the character are deleted.
Fetch(s, k) ==
    LET c == sync[s].char
        fetched == [sync[s] EXCEPT !.got[k] = place[c]]
    IN  /\ sync[s].pc = k
        /\ sync' = [sync EXCEPT ![s] =
                       IF \E t \in Syncers \ {s} : Holds(t, c, k)
                       THEN [fetched EXCEPT !.pc = "waits"]
                       ELSE Deleted(fetched, k, rows[c][k])]
        /\ UNCHANGED <<connected, enabled, status, token, rows, known, asked, eve,
                       snap, callback, counters, history>>

\* fetch_accessible_structures asks for the same lists again, through the client that keeps the
\* tag of every answer: a list that has not changed since is answered 304 and shows nothing.
Shown(s) ==
    {place[sync[s].char] : k \in {k \in Kinds : sync[s].got[k] # place[sync[s].char]}}

\* _persist_discovered_structures: the row of the structure, which is not committed yet.
Persisted(c) == IF c \in known THEN "update" ELSE "insert"

\* A request that fails is logged and shows nothing.  The rows to write are loaded here, the
\* names of structures are looked up afterwards.
Discover(s) ==
    LET c == sync[s].char
    IN  /\ sync[s].pc = "structures"
        /\ \E heard \in BOOLEAN :
              /\ IF heard THEN UNCHANGED counters ELSE Happens("fail")
              /\ sync' = [sync EXCEPT
                    ![s].pc = "state", ![s].loaded = status[c],
                    ![s].found = IF heard /\ c \in Access /\ "structure" \in Shown(s)
                                 THEN Persisted(c) ELSE "nothing"]
        /\ UNCHANGED <<connected, enabled, status, token, rows, known, asked, eve,
                       snap, callback, history>>

\* The UNIQUE constraints of the tables the session inserts into, and the rows that a clearing
\* has deleted since the session loaded them.
Clashes(s) ==
    LET c == sync[s].char
    IN  \/ \E k \in Kinds : sync[s].got[k] \in rows[c][k] \ sync[s].gone[k]
        \/ sync[s].found = "insert" /\ c \in known
        \/ sync[s].loaded = "none" /\ status[c] # "none"
        \/ "gone" \in {sync[s].found, sync[s].loaded}

Commit(s) ==
    LET c == sync[s].char
    IN  /\ sync[s].pc = "state" /\ ~Clashes(s)
        /\ rows' = [rows EXCEPT ![c] =
                       [k \in Kinds |-> (@[k] \ sync[s].gone[k]) \cup {sync[s].got[k]}]]
        /\ known' = IF sync[s].found = "insert" THEN known \cup {c} ELSE known
        /\ token' = IF sync[s].renewed THEN [token EXCEPT ![c] = Saved(@, sync[s].hand)] ELSE token
        /\ status' = IF sync[s].loaded = "ok" THEN status ELSE [status EXCEPT ![c] = "ok"]
        /\ Ended(s, Rest(s), TRUE)
        /\ UNCHANGED <<connected, enabled, asked, eve, snap, callback, counters, history>>

CommitClashes(s) ==
    /\ sync[s].pc = "state" /\ Clashes(s)
    /\ Abandoned(s)
    /\ UNCHANGED <<connected, enabled, status, token, rows, known, asked, eve,
                   snap, callback, counters, history>>

SyncStep(s) ==
    \/ Refresh(s) \/ RefreshRejected(s) \/ Flush(s)
    \/ \E k \in Kinds : Fetch(s, k)
    \/ Discover(s) \/ Commit(s) \/ CommitClashes(s)

\* A request to SSO or ESI fails, the process dies, or PostgreSQL breaks a deadlock.
SyncFail(s) ==
    /\ sync[s].pc # "idle" /\ Happens("fail")
    /\ Abandoned(s)
    /\ UNCHANGED <<connected, enabled, status, token, rows, known, asked, eve,
                   snap, callback, history>>

-----------------------------------------------------------------------------
(* The structure client                                                    *)

\* _candidate_characters; tracking and the time of verification, which order them, are left out.
Candidates ==
    LET able == {c \in connected \cap Scoped : enabled[c]}
    IN  IF able \cap known # {} THEN able \cap known ELSE able

SnapList ==
    /\ snap.pc \in {"idle", "served", "none"} /\ Happens("snapshot")
    /\ snap' = [NoSnap EXCEPT !.pc = "next", !.todo = Candidates, !.hope = Candidates \cap Access]
    /\ UNCHANGED <<connected, enabled, status, token, rows, known, asked, eve,
                   sync, callback, history>>

SnapOpen(c) ==
    /\ snap.pc = "next" /\ c \in snap.todo
    /\ snap' = [snap EXCEPT !.pc = IF token[c].fresh THEN "ask" ELSE "refresh",
                            !.todo = @ \ {c}, !.char = c,
                            !.hand = [from |-> token[c].refresh, to |-> token[c].refresh]]
    /\ UNCHANGED <<connected, enabled, status, token, rows, known, asked, eve,
                   sync, callback, counters, history>>

SnapRefresh ==
    /\ snap.pc = "refresh" /\ ~Rejected(snap.char, snap.hand.from)
    /\ \E new \in {snap.hand.from, issued[snap.char] + 1} :
          /\ Answer(snap.char, snap.hand.from, new)
          /\ snap' = [snap EXCEPT !.pc = "flush", !.hand.to = new]
    /\ UNCHANGED <<connected, enabled, status, token, rows, known, asked, place,
                   sync, callback, history>>

SnapFlush ==
    /\ snap.pc = "flush" /\ ~TokenLocked(snap.char)
    /\ snap' = [snap EXCEPT !.pc = "ask", !.renewed[snap.char] = snap.hand]
    /\ UNCHANGED <<connected, enabled, status, token, rows, known, asked, eve,
                   sync, callback, counters, history>>

\* The commit of the session: the tokens it has flushed so far.
SnapCommit ==
    token' = [c \in Characters |->
                 IF snap.renewed[c] = NotRenewed THEN token[c] ELSE Saved(token[c], snap.renewed[c])]

Committed == [snap EXCEPT !.renewed = NoSnap.renewed, !.char = 0, !.hand = NotRenewed]

\* A mutant: the search ends with the candidate that is rejected.
SnapGivesUp ==
    /\ snap.pc = "refresh" /\ Rejected(snap.char, snap.hand.from)
    /\ Mark(snap.char, TRUE)
    /\ SnapCommit
    /\ snap' = [Committed EXCEPT !.pc = "none"]
    /\ UNCHANGED <<connected, rows, known, asked, eve, sync, callback, counters, history>>

\* A candidate that is rejected is marked, and the next one asked.
SnapRejected ==
    /\ snap.pc = "refresh" /\ Rejected(snap.char, snap.hand.from)
    /\ Mark(snap.char, TRUE)
    /\ SnapCommit
    /\ snap' = [Committed EXCEPT !.pc = "next"]
    /\ UNCHANGED <<connected, rows, known, asked, eve, sync, callback, counters, history>>

\* fetch_structure_orders: 403 and 404 are no answer, and the next candidate is asked.
SnapAsk ==
    /\ snap.pc = "ask"
    /\ \/ /\ snap.char \in Access
          /\ SnapCommit
          /\ snap' = [Committed EXCEPT !.pc = "served", !.todo = {}]
       \/ /\ snap.char \notin Access
          /\ snap' = [snap EXCEPT !.pc = "next"]
          /\ UNCHANGED token
    /\ UNCHANGED <<connected, enabled, status, rows, known, asked, eve, sync, callback, counters, history>>

SnapNone ==
    /\ snap.pc = "next" /\ snap.todo = {}
    /\ SnapCommit
    /\ snap' = [Committed EXCEPT !.pc = "none"]
    /\ UNCHANGED <<connected, enabled, status, rows, known, asked, eve, sync, callback, counters, history>>

SnapStep ==
    \/ \E c \in Characters : SnapOpen(c)
    \/ SnapRefresh \/ SnapFlush \/ SnapRejected \/ SnapAsk \/ SnapNone

SnapFail ==
    /\ snap.pc \in {"next", "refresh", "flush", "ask"} /\ Happens("fail")
    /\ snap' = NoSnap
    /\ UNCHANGED <<connected, enabled, status, token, rows, known, asked, eve,
                   sync, callback, history>>

-----------------------------------------------------------------------------
(* A login, and the operator                                               *)

\* exchange_code: SSO gives the player that logs in a token.
Exchange(c) ==
    /\ Happens("connect") /\ callback.pc = "idle"
    /\ issued' = [issued EXCEPT ![c] = @ + 1]
    /\ live' = [live EXCEPT ![c] = @ \cup {issued[c] + 1}]
    /\ callback' = [NoCallback EXCEPT !.pc = "exchanged", !.char = c, !.to = issued[c] + 1]
    /\ UNCHANGED <<connected, enabled, status, token, rows, known, asked, place, sync, snap, history>>

CallbackLoad ==
    LET c == callback.char
    IN  /\ callback.pc = "exchanged"
        /\ callback' = [callback EXCEPT !.pc = "loaded", !.was = enabled[c], !.loaded = status[c]]
        /\ UNCHANGED <<connected, enabled, status, token, rows, known, asked, eve,
                       sync, snap, counters, history>>

CallbackClashes ==
    \/ callback.loaded = "gone"
    \/ callback.loaded = "none" /\ status[callback.char] # "none"

\* A character that is met for the first time gets its rows; of one that reconnects the columns
\* that differ from what was loaded are written.
CallbackCommit ==
    LET c == callback.char
    IN  /\ callback.pc = "loaded" /\ ~TokenLocked(c) /\ ~CallbackClashes
        /\ connected' = connected \cup {c}
        /\ enabled' = [enabled EXCEPT ![c] = @ \/ ~callback.was]
        /\ token' = [token EXCEPT ![c] = [refresh |-> callback.to, fresh |-> TRUE]]
        /\ status' = IF callback.loaded = "pending" THEN status
                     ELSE [status EXCEPT ![c] = "pending"]
        /\ asked' = asked \cup {c}
        /\ callback' = NoCallback
        /\ UNCHANGED <<rows, known, eve, sync, snap, counters, history>>

CallbackRefused ==
    /\ callback.pc = "loaded" /\ CallbackClashes
    /\ callback' = NoCallback
    /\ UNCHANGED <<connected, enabled, status, token, rows, known, asked, eve,
                   sync, snap, counters, history>>

CallbackFail ==
    /\ callback.pc # "idle" /\ Happens("fail")
    /\ callback' = NoCallback
    /\ UNCHANGED <<connected, enabled, status, token, rows, known, asked, eve, sync, snap, history>>

\* PATCH /characters/{id}.
Patch(c) ==
    /\ Happens("patch") /\ c \in connected
    /\ enabled' = [enabled EXCEPT ![c] = ~@]
    /\ switchedOff' = IF enabled[c] THEN switchedOff \cup {c} ELSE switchedOff
    /\ UNCHANGED <<connected, status, token, rows, known, asked, eve, sync, snap, callback, withdrawn>>

\* Clearing the data of character_sync leaves the characters and their tokens.  It waits for the
\* sessions that have deleted rows of its tables.
Clear ==
    /\ Happens("clear")
    /\ \A s \in Syncers, k \in Kinds : sync[s].gone[k] = {}
    /\ rows' = [c \in Characters |-> [k \in Kinds |-> {}]]
    /\ known' = {}
    /\ status' = [c \in Characters |-> "none"]
    /\ sync' = [s \in Syncers |->
                   IF sync[s].pc = "state"
                   THEN [sync[s] EXCEPT !.loaded = IF @ = "none" THEN @ ELSE "gone",
                                        !.found = IF @ = "update" THEN "gone" ELSE @]
                   ELSE sync[s]]
    /\ callback' = IF callback.pc = "loaded" /\ callback.loaded # "none"
                   THEN [callback EXCEPT !.loaded = "gone"] ELSE callback
    /\ UNCHANGED <<connected, enabled, token, asked, eve, snap, history>>

-----------------------------------------------------------------------------
(* Specification                                                           *)

JobStep == JobStart \/ JobNext \/ SyncStep("job")
CallbackStep == CallbackLoad \/ CallbackCommit \/ CallbackRefused

Next ==
    \/ \E c \in Characters :
          MoveThings(c) \/ Revoke(c) \/ Expire(c) \/ Exchange(c) \/ Patch(c) \/ Visit(c)
    \/ Clear
    \/ JobStep \/ SyncStep("visit") \/ SnapList \/ SnapStep \/ CallbackStep
    \/ \E s \in Syncers : SyncFail(s)
    \/ SnapFail \/ CallbackFail

\* The scheduler starts the job again and again, and threads run.
Fairness ==
    WF_vars(JobStep) /\ WF_vars(SyncStep("visit")) /\ WF_vars(SnapStep) /\ WF_vars(CallbackStep)

Spec == Init /\ [][Next]_vars /\ Fairness

-----------------------------------------------------------------------------
(* Properties                                                              *)

Sessions ==
    [pc : {"idle", "next", "refresh", "flush", "waits", "assets", "orders", "structures", "state"},
     todo : SUBSET Characters, char : Characters \cup {0}, was : BOOLEAN, hand : Renewal,
     renewed : BOOLEAN, gone : [Kinds -> SUBSET Places], got : [Kinds -> Places \cup {Nowhere}],
     found : {"nothing", "insert", "update", "gone"}, loaded : Statuses \cup {"gone"}]

\* Every variable has a value of its kind, and a refresh token that is stored was given out.
CharactersTypeOK ==
    /\ connected \subseteq Characters /\ known \subseteq connected /\ asked \subseteq connected
    /\ enabled \in [Characters -> BOOLEAN] /\ status \in [Characters -> Statuses]
    /\ rows \in [Characters -> [Kinds -> SUBSET Places]]
    /\ place \in [Characters -> Places]
    /\ \A c \in Characters :
          /\ token[c].refresh \in 0..issued[c] /\ token[c].fresh \in BOOLEAN
          /\ live[c] \subseteq 1..issued[c]
          /\ c \in connected => token[c].refresh # 0
    /\ sync \in [Syncers -> Sessions]
    /\ \A s \in Syncers : sync[s].pc \notin {"idle", "next"} => sync[s].char \in connected
    /\ snap.pc \in {"idle", "next", "refresh", "flush", "ask", "served", "none"}
    /\ snap.renewed \in [Characters -> Renewal] /\ snap.hand \in Renewal
    /\ snap.todo \subseteq connected /\ snap.hope \subseteq connected
    /\ callback.pc \in {"idle", "exchanged", "loaded"} /\ callback.loaded \in Statuses \cup {"gone"}
    /\ left \in [Happenings -> Nat] /\ count \in 0..MaxHappenings

\* A character whose player never withdrew the authorisation is only ever disabled by the
\* operator: no failure, and no order in which the job, a visit, the structure client and a login
\* meet, makes one of them send SSO a token that it rejects.
DisabledOnlyIfRevoked ==
    \A c \in connected : enabled[c] \/ c \in withdrawn \/ c \in switchedOff

\* The structure client comes back with nothing only if every candidate that may dock at the
\* structure was lost to a revocation: one that is rejected, or refused, stands in no other's way.
AnotherServes ==
    snap.pc = "none" => snap.hope \subseteq withdrawn

\* In the end every enabled character is synchronised, with its assets and orders where they are
\* in the game: whatever became of the characters before it in the job's list, and also after a
\* visit and the job have mixed what they fetched at different times.
EveryCharacterSyncs ==
    <>[](\A c \in connected :
            enabled[c] => status[c] = "ok" /\ rows[c] = [k \in Kinds |-> {place[c]}])

\* fetch_accessible_structures: "collect unique location_ids from character assets and orders
\* that look like structure IDs": a character whose assets and orders were all seen in a structure
\* where it may dock has that structure discovered.
StructuresFound ==
    \A s \in Syncers :
        (/\ sync[s].pc = "state" /\ sync[s].char \in Access
         /\ sync[s].got = [k \in Kinds |-> "structure"])
            => sync[s].found # "nothing"

-----------------------------------------------------------------------------
(* The inductive invariant, proved in CharacterSyncProofs                  *)

SnapPcs == {"idle", "next", "refresh", "flush", "ask", "served", "none"}
\* The states of the structure client in which it has a candidate in hand.
Asking == {"refresh", "flush", "ask"}

SnapSessions ==
    [pc : SnapPcs, todo : SUBSET Characters, char : Characters \cup {0}, hand : Renewal,
     renewed : [Characters -> Renewal], hope : SUBSET Characters]

Callbacks ==
    [pc : {"idle", "exchanged", "loaded"}, char : Characters \cup {0}, to : Nat, was : BOOLEAN,
     loaded : Statuses \cup {"gone"}]

\* The variables that CharactersTypeOK only looks into.
Shapes ==
    /\ token \in [Characters -> [refresh : Nat, fresh : BOOLEAN]]
    /\ issued \in [Characters -> Nat] /\ live \in [Characters -> SUBSET Nat]
    /\ snap \in SnapSessions /\ callback \in Callbacks

Given(c, renewal) == renewal.from \in 1..issued[c] /\ renewal.to \in 1..issued[c]

\* Whatever a session has in hand, has flushed, or has got for a login, SSO gave out for that
\* character.
HandsGiven ==
    /\ \A s \in Syncers :
          sync[s].pc \notin {"idle", "next"} => Given(sync[s].char, sync[s].hand)
    /\ snap.pc \in Asking => snap.char \in connected /\ Given(snap.char, snap.hand)
    /\ \A c \in Characters : snap.renewed[c] # NotRenewed => Given(c, snap.renewed[c])
    /\ callback.pc # "idle" =>
          callback.char \in Characters /\ callback.to \in 1..issued[callback.char]

\* Only a character that has a row is enabled: now, on a job's list, or in what a login has read.
EnabledHaveRows ==
    /\ \A s \in Syncers : sync[s].todo \subseteq connected
    /\ \A c \in Characters : enabled[c] => c \in connected
    /\ callback.pc = "loaded" /\ callback.was => callback.char \in connected

\* A session that has come so far has the lists that it fetched on the way.
ListsFetched(r) ==
    /\ r.pc \in {"waits", "orders", "structures", "state"} => r.got["assets"] \in Places
    /\ r.pc \in {"structures", "state"} => r.got["orders"] \in Places

SessionsInv ==
    /\ CharactersTypeOK /\ Shapes /\ HandsGiven /\ EnabledHaveRows
    /\ \A s \in Syncers : ListsFetched(sync[s])

\* Of a player that never withdrew the authorisation SSO accepts every token it ever gave out.
TokensLive == \A c \in Characters \ withdrawn : live[c] = 1..issued[c]

\* A candidate that may dock was lost to a revocation, or waits for its turn, or has it.
HopeLeft ==
    /\ snap.pc \in Asking \cup {"next", "none"} =>
          /\ snap.hope \subseteq Access
          /\ snap.hope \ withdrawn \subseteq
                snap.todo \cup IF snap.pc \in Asking THEN {snap.char} ELSE {}
    /\ snap.pc = "none" => snap.todo = {}

\* Where SSO keeps accepting its older tokens (OldTokensLive).
AuthorisedInv == SessionsInv /\ TokensLive /\ HopeLeft /\ DisabledOnlyIfRevoked
=============================================================================
