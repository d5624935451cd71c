------------------------- MODULE EveRefHistoryProofs -------------------------
(***************************************************************************)
(* What is on record as loaded is loaded, and what is loaded has its       *)
(* demand, for any days, types, versions, failures and clearings.  The     *)
(* record of a day is a commit of its own, so the argument follows one     *)
(* version from the list through the file and the staging table to it.     *)
(***************************************************************************)
EXTENDS EveRefHistory, WellFoundedInduction, TLAPS

-----------------------------------------------------------------------------
(* Types                                                                   *)

\* A run that has days left has a first one.
LEMMA DayOfTodo ==
    ASSUME EveRefTypeOK, run.todo # {}
    PROVE  Day \in run.todo /\ Day \in Days
<1>1. run.todo \subseteq Nat /\ run.todo \subseteq Days
  BY EveRefAssumption DEF EveRefTypeOK, Run
<1> DEFINE less == {p \in Nat \X Nat : p[1] < p[2]}
<1>2. IsWellFoundedOn(less, Nat)
  <2>1. OpToRel(<, Nat) = less
    BY DEF OpToRel
  <2> QED
    BY <2>1, NatLessThanWellFounded
<1> HIDE DEF less
<1>3. \E d \in run.todo : \A e \in run.todo : ~(<<e, d>> \in less)
  BY <1>1, <1>2, WFMin
<1>4. \E d \in run.todo : \A e \in run.todo : d <= e
  <2>1. \A e, d \in Nat : e < d => <<e, d>> \in less
    BY DEF less
  <2>2. \A e, d \in run.todo : e \in Nat /\ d \in Nat /\ (~(e < d) => d <= e)
    BY <1>1
  <2> QED
    BY <1>3, <2>1, <2>2
<1> QED
  BY <1>1, <1>4 DEF Day

\* What a session starts from is typed: no file, no rows, an idle run, one that ended.
LEMMA RecordTypes ==
    /\ 0 \in Versions /\ 1 \in Versions
    /\ NoFile \in File
    /\ [d \in Days |-> NoRow] \in Histories
    /\ NoRun \in Run
<1>1. 0 \in Versions /\ 1 \in Versions
  BY EveRefAssumption DEF Versions
<1>2. NoFile \in File
  BY <1>1 DEF NoFile, File
<1>3. [d \in Days |-> NoRow] \in Histories
  BY <1>1 DEF Histories, NoRow
<1>4. [d \in Days |-> 0] \in [Days -> Versions]
  BY <1>1
<1> QED
  BY <1>1, <1>2, <1>3, <1>4 DEF NoRun, Run

\* A run that ends is of the shape of one.
LEMMA EndedType ==
    ASSUME EveRefTypeOK, NEW verdict \in {"none", "success", "failed"}
    PROVE  /\ Ended(verdict) \in Run
           /\ Ended(verdict).pc = "idle" /\ Ended(verdict).todo = {} /\ Ended(verdict).gone = {}
           /\ Ended(verdict).verdict = verdict /\ Ended(verdict).worked = run.worked
           /\ Ended(verdict).alone = run.alone /\ Ended(verdict).listed = [d \in Days |-> 0]
  BY RecordTypes DEF Ended, EveRefTypeOK, Run, NoRun

\* Taking a file with it keeps the directory typed.
LEMMA WithoutFileType ==
    ASSUME EveRefTypeOK
    PROVE  WithoutFile \in [Days -> File]
  BY RecordTypes DEF WithoutFile, EveRefTypeOK

\* Failures are counted up to their bound.
LEMMA FailureCounted ==
    ASSUME EveRefTypeOK, failures < MaxFailures, failures' = failures + 1
    PROVE  failures' \in 0..MaxFailures
  BY EveRefAssumption DEF EveRefTypeOK

\* The steps of a run are typed ...
LEMMA RunTypes == EveRefTypeOK /\ DayInHand /\ RunStep => EveRefTypeOK'
<1> SUFFICES ASSUME EveRefTypeOK, DayInHand, RunStep
             PROVE  EveRefTypeOK'
  OBVIOUS
<1> USE RecordTypes DEF EveRefTypeOK, outside
<1>0. run.pc \in {"download", "copy", "delete", "insert", "record"} =>
          Day \in run.todo /\ Day \in Days
  BY DayOfTodo DEF DayInHand
<1>1. CASE Begin
  <2>1. DaysToLoad \in SUBSET Days
    BY DEF DaysToLoad
  <2>2. run' \in Run
    BY <1>1, <2>1 DEF Begin, Run, NoRun
  <2> QED
    BY <1>1, <2>2 DEF Begin
<1>2. CASE OpenFile
  <2>1. Day \in Days
    BY <1>2, DayOfTodo DEF OpenFile
  <2>2. [version |-> published[Day], rows |-> {}] \in File
    BY <2>1 DEF File
  <2>3. run' \in Run
    BY <1>2 DEF OpenFile, Run
  <2> QED
    BY <1>2, <2>2, <2>3 DEF OpenFile
<1>3. CASE SkipDay
  <2>1. run' \in Run
    BY <1>3 DEF SkipDay, Run
  <2> QED
    BY <1>3, <2>1 DEF SkipDay
<1>4. CASE Download
  <2>1. PICK t \in Types \ files[Day].rows :
            files' = [files EXCEPT ![Day].rows = @ \cup {t}]
    BY <1>4 DEF Download
  <2>2. [files[Day] EXCEPT !.rows = @ \cup {t}] \in File
    BY <1>0, <1>4 DEF Download, File
  <2>3. files' \in [Days -> File]
    BY <2>1, <2>2
  <2>4. run' \in Run
    BY <1>4 DEF Download, Run
  <2> QED
    BY <1>4, <2>3, <2>4 DEF Download
<1>5. CASE CopyFile
  <2>1. run' \in Run
    BY <1>0, <1>5 DEF CopyFile, Run
  <2> QED
    BY <1>5, <2>1 DEF CopyFile
<1>6. CASE DeleteRows
  <2>1. {t \in run.got.rows : history[Day][t] # 0} \in SUBSET Types
    BY DEF Run, File
  <2>2. run' \in Run
    BY <1>6, <2>1 DEF DeleteRows, Run
  <2> QED
    BY <1>6, <2>2 DEF DeleteRows
<1>7. CASE InsertRows
  <2>1. run.got.version \in Versions
    BY DEF Run, File
  <2>2. history' \in Histories
    BY <1>0, <1>7, <2>1 DEF InsertRows, Histories
  <2>3. run' \in Run
    BY <1>7 DEF InsertRows, Run
  <2> QED
    BY <1>7, <2>2, <2>3 DEF InsertRows
<1>8. CASE Record
  <2>1. SizeToRecord \in Versions
    BY <1>0, <1>8 DEF Record, SizeToRecord, Run
  <2>2. run' \in Run
    BY <1>8 DEF Record, Run
  <2> QED
    BY <1>8, <2>1, <2>2 DEF Record
<1>9. CASE LoadHistory
  <2>1. DemandTypes \in SUBSET Types
    BY DEF DemandTypes
  <2>2. run' \in Run
    BY <1>9, <2>1 DEF LoadHistory, Run
  <2> QED
    BY <1>9, <2>2 DEF LoadHistory
<1>10. CASE Derive
  <2>1. PICK t \in run.left : /\ demand' = [demand EXCEPT ![t] = [d \in Days |-> run.seen[d][t]]]
                              /\ run' = [run EXCEPT !.left = @ \ {t}]
    BY <1>10 DEF Derive
  <2>2. t \in Types /\ [d \in Days |-> run.seen[d][t]] \in [Days -> Versions]
    BY DEF Run, Histories
  <2>3. run' \in Run
    BY <2>1 DEF Run
  <2> QED
    BY <1>10, <2>1, <2>2, <2>3 DEF Derive
<1>11. CASE End
  BY <1>11, EndedType DEF End
<1> QED
  BY <1>1, <1>2, <1>3, <1>4, <1>5, <1>6, <1>7, <1>8, <1>9, <1>10, <1>11 DEF RunStep

\* ... and so is everything else that may happen.
LEMMA TypesStep == EveRefTypeOK /\ DayInHand /\ [Next]_vars => EveRefTypeOK'
<1> SUFFICES ASSUME EveRefTypeOK, DayInHand, [Next]_vars
             PROVE  EveRefTypeOK'
  OBVIOUS
<1> USE RecordTypes DEF EveRefTypeOK
<1>1. CASE Cancel
  BY <1>1, EndedType, WithoutFileType, FailureCounted DEF Cancel
<1>2. CASE Interrupt
  <2>1. history' \in Histories
    BY <1>2 DEF Interrupt, Histories
  <2> QED
    BY <1>2, <2>1, EndedType, WithoutFileType, FailureCounted DEF Interrupt
<1>3. CASE Fail
  BY <1>3, EndedType, WithoutFileType, FailureCounted DEF Fail
<1>4. CASE Clear
  <2>1. run' \in Run
    BY <1>4 DEF Clear, Run
  <2>2. clears' \in 0..MaxClears
    BY <1>4, EveRefAssumption DEF Clear
  <2> QED
    BY <1>4, <2>1, <2>2 DEF Clear
<1>5. ASSUME NEW d \in Days, Publish(d)
      PROVE  EveRefTypeOK'
  <2>1. published[d] + 1 \in Versions
    BY <1>5, EveRefAssumption DEF Publish, Versions
  <2> QED
    BY <1>5, <2>1 DEF Publish
<1>6. ASSUME NEW d \in Days, List(d)
      PROVE  EveRefTypeOK'
  BY <1>6 DEF List
<1>7. CASE UNCHANGED vars
  BY <1>7 DEF vars
<1> QED
  BY <1>1, <1>2, <1>3, <1>4, <1>5, <1>6, <1>7, RunTypes DEF Next

-----------------------------------------------------------------------------
(* Lists, records and the days to load                                     *)

\* The numbers the lists are compared by.
LEMMA Numbers ==
    ASSUME EveRefTypeOK, NEW d \in Days
    PROVE  /\ recorded[d] \in Nat /\ totals[d] \in Nat /\ published[d] \in Nat
           /\ run.listed[d] \in Nat
  BY EveRefAssumption DEF EveRefTypeOK, Run, Versions

\* A run that is over has nothing left to do and nothing listed.
LEMMA EndsIdle ==
    ASSUME IInv, Cancel \/ Interrupt \/ Fail
    PROVE  /\ run' = Ended("failed") /\ run'.pc = "idle" /\ run'.todo = {} /\ run'.gone = {}
           /\ run'.verdict = "failed" /\ run'.listed = [d \in Days |-> 0]
           /\ UNCHANGED <<published, totals, recorded, demand, torn>>
  BY EndedType DEF IInv, Cancel, Interrupt, Fail

\* The steps that neither read a list nor record anything.
LEMMA ListsAlone ==
    ASSUME IInv, OpenFile \/ SkipDay \/ Download \/ CopyFile \/ DeleteRows \/ InsertRows
                 \/ LoadHistory \/ Derive
    PROVE  /\ UNCHANGED <<published, totals, recorded, torn>>
           /\ run'.listed = run.listed /\ run'.todo \subseteq run.todo
           /\ run'.verdict = run.verdict /\ run'.worked = run.worked /\ run'.alone = run.alone
<1> USE DEF IInv, EveRefTypeOK, Run, outside
<1>1. OpenFile \/ SkipDay \/ CopyFile \/ DeleteRows \/ LoadHistory =>
          /\ UNCHANGED <<published, totals, recorded, torn>>
          /\ run'.listed = run.listed /\ run'.todo \subseteq run.todo
          /\ run'.verdict = run.verdict /\ run'.worked = run.worked /\ run'.alone = run.alone
  BY DEF OpenFile, SkipDay, CopyFile, DeleteRows, LoadHistory
<1>2. Download =>
          /\ UNCHANGED <<published, totals, recorded, torn>>
          /\ run'.listed = run.listed /\ run'.todo \subseteq run.todo
          /\ run'.verdict = run.verdict /\ run'.worked = run.worked /\ run'.alone = run.alone
  BY DEF Download
<1>3. InsertRows =>
          /\ UNCHANGED <<published, totals, recorded, torn>>
          /\ run'.listed = run.listed /\ run'.todo \subseteq run.todo
          /\ run'.verdict = run.verdict /\ run'.worked = run.worked /\ run'.alone = run.alone
  BY DEF InsertRows
<1>4. Derive =>
          /\ UNCHANGED <<published, totals, recorded, torn>>
          /\ run'.listed = run.listed /\ run'.todo \subseteq run.todo
          /\ run'.verdict = run.verdict /\ run'.worked = run.worked /\ run'.alone = run.alone
  BY DEF Derive
<1> QED
  BY <1>1, <1>2, <1>3, <1>4

\* What a listing does to the list: it only grows.
LEMMA ListGrows ==
    ASSUME IInv, NEW d \in Days, List(d)
    PROVE  /\ \A e \in Days : totals[e] <= totals'[e]
           /\ \A e \in Days : totals'[e] <= 1 \/ totals'[e] <= published[e]
           /\ UNCHANGED <<published, files, history, recorded, demand, run, torn>>
<1>1. totals' = [totals EXCEPT ![d] = IF published[d] = 0 THEN 1 ELSE published[d]]
      /\ UNCHANGED <<published, files, history, recorded, demand, run, torn>>
  BY DEF List
<1>2. totals[d] <= (IF published[d] = 0 THEN 1 ELSE published[d])
  BY Numbers DEF IInv, ListsGrow
<1> QED
  BY <1>1, <1>2, Numbers DEF IInv, EveRefTypeOK, ListsGrow

\* Lists stay ahead of the records, and what a run was given of the days it has yet to load.
LEMMA ListsStep == IInv /\ [Next]_vars => ListsGrow' /\ TodoBehind'
<1> SUFFICES ASSUME IInv, [Next]_vars
             PROVE  ListsGrow' /\ TodoBehind'
  OBVIOUS
<1>0. EveRefTypeOK /\ ListsGrow /\ TodoBehind /\ DayInHand
  BY DEF IInv
<1>1. CASE Begin
  <2>1. UNCHANGED <<published, totals, recorded>>
    BY <1>1 DEF Begin, outside
  <2>2. CASE run'.todo = {} /\ run'.listed = [d \in Days |-> 0]
    BY <1>0, <2>1, <2>2, Numbers DEF ListsGrow, TodoBehind
  <2>3. CASE run'.todo = DaysToLoad /\ run'.listed = totals
    BY <1>0, <2>1, <2>3, Numbers DEF ListsGrow, TodoBehind, DaysToLoad
  <2> QED
    BY <1>1, <2>2, <2>3 DEF Begin, NoRun
<1>2. CASE OpenFile \/ SkipDay \/ Download \/ CopyFile \/ DeleteRows \/ InsertRows
           \/ LoadHistory \/ Derive
  BY <1>0, <1>2, ListsAlone DEF ListsGrow, TodoBehind
<1>3. CASE Record
  <2>1. Day \in run.todo /\ Day \in Days
    BY <1>0, <1>3, DayOfTodo DEF Record, DayInHand
  <2>2. /\ UNCHANGED <<published, totals>>
        /\ recorded' = [recorded EXCEPT ![Day] = run.listed[Day]]
        /\ run'.listed = run.listed /\ run'.todo = run.todo \ {Day}
    BY <1>0, <1>3 DEF Record, SizeToRecord, outside, EveRefTypeOK, Run
  <2>3. run.todo \subseteq Days
    BY <1>0 DEF EveRefTypeOK, Run
  <2>4. ListsGrow'
    BY <1>0, <2>1, <2>2 DEF ListsGrow, EveRefTypeOK
  <2>5. TodoBehind'
    BY <1>0, <2>1, <2>2, <2>3 DEF TodoBehind, EveRefTypeOK
  <2> QED
    BY <2>4, <2>5
<1>4. CASE End
  <2>1. /\ run'.todo = {} /\ run'.listed = [d \in Days |-> 0]
        /\ UNCHANGED <<published, totals, recorded>>
    BY <1>0, <1>4, EndedType DEF End, outside
  <2> QED
    BY <1>0, <2>1, Numbers DEF ListsGrow, TodoBehind
<1>5. CASE Cancel \/ Interrupt \/ Fail
  BY <1>0, <1>5, EndsIdle, Numbers DEF ListsGrow, TodoBehind
<1>6. CASE Clear
  <2>1. /\ recorded' = [d \in Days |-> 0] /\ UNCHANGED <<published, totals>>
        /\ run'.listed = run.listed /\ run'.todo = run.todo
    BY <1>0, <1>6 DEF Clear, EveRefTypeOK, Run
  <2>2. run.todo \subseteq Days
    BY <1>0 DEF EveRefTypeOK, Run
  <2> QED
    BY <1>0, <2>1, <2>2, Numbers DEF ListsGrow, TodoBehind
<1>7. ASSUME NEW d \in Days, Publish(d)
      PROVE  ListsGrow' /\ TodoBehind'
  BY <1>0, <1>7, Numbers DEF Publish, ListsGrow, TodoBehind, EveRefTypeOK
<1>8. ASSUME NEW d \in Days, List(d)
      PROVE  ListsGrow' /\ TodoBehind'
  <2>1. totals' \in [Days -> Nat]
    BY <1>0, <1>8, Numbers DEF List, EveRefTypeOK
  <2> QED
    BY <1>0, <1>8, <2>1, ListGrows, Numbers DEF ListsGrow, TodoBehind
<1>9. CASE UNCHANGED vars
  BY <1>0, <1>9 DEF vars, ListsGrow, TodoBehind
<1> QED
  BY <1>1, <1>2, <1>3, <1>4, <1>5, <1>6, <1>7, <1>8, <1>9 DEF Next, RunStep

-----------------------------------------------------------------------------
(* From the list to the record of a day                                    *)

\* One version passes from the file to the staging table and into the history.
LEMMA HandStep == IInv /\ [Next]_vars => DayInHand'
<1> SUFFICES ASSUME IInv, [Next]_vars
             PROVE  DayInHand'
  OBVIOUS
<1>0. EveRefTypeOK /\ ListsGrow /\ DayInHand /\ run \in Run
  BY DEF IInv, EveRefTypeOK
<1>d. run'.todo = run.todo => Day' = Day
  BY DEF Day
<1>t. run.todo # {} => Day \in Days /\ Day \in run.todo
  BY <1>0, DayOfTodo
<1>1. CASE Begin
  <2>1. (run'.pc = "idle" /\ run'.todo = {}) \/ run'.pc = "days"
    BY <1>1 DEF Begin, NoRun
  <2>2. run'.gone = {}
    BY <1>1 DEF Begin, NoRun
  <2> QED
    BY <2>1, <2>2 DEF DayInHand
<1>2. CASE OpenFile
  <2>1. /\ run.pc = "days" /\ run.todo # {} /\ published[Day] # 0
        /\ run'.pc = "download" /\ run'.todo = run.todo /\ run'.gone = run.gone
        /\ run'.listed = run.listed
        /\ files' = [files EXCEPT ![Day] = [version |-> published[Day], rows |-> {}]]
    BY <1>0, <1>2 DEF OpenFile, Run
  <2>2. files'[Day].version = published[Day]
    BY <1>0, <1>t, <2>1 DEF EveRefTypeOK
  <2>3. published[Day] >= run.listed[Day]
    BY <1>0, <1>t, <2>1, Numbers DEF ListsGrow
  <2> QED
    BY <1>0, <1>d, <2>1, <2>2, <2>3 DEF DayInHand
<1>3. CASE SkipDay
  <2>1. run'.pc = "days" /\ run'.gone = run.gone /\ run.pc = "days"
    BY <1>0, <1>3 DEF SkipDay, Run
  <2> QED
    BY <1>0, <2>1 DEF DayInHand
<1>4. CASE Download
  <2>1. PICK u \in Types \ files[Day].rows : files' = [files EXCEPT ![Day].rows = @ \cup {u}]
    BY <1>4 DEF Download
  <2>2. /\ run.pc = "download" /\ run'.todo = run.todo /\ run'.gone = run.gone
        /\ run'.listed = run.listed
        /\ \/ run'.pc = "copy" /\ files'[Day].rows = Types
           \/ run'.pc = "download"
    BY <1>0, <1>4 DEF Download, Run
  <2>3. files'[Day].version = files[Day].version
    BY <1>0, <1>t, <2>1, <2>2 DEF EveRefTypeOK, File, DayInHand
  <2> QED
    BY <1>0, <1>d, <2>2, <2>3 DEF DayInHand
<1>5. CASE CopyFile
  <2>1. /\ run.pc = "copy" /\ run'.pc = "delete" /\ run'.todo = run.todo
        /\ run'.gone = run.gone /\ run'.listed = run.listed /\ run'.got = files[Day]
    BY <1>0, <1>5 DEF CopyFile, Run
  <2> QED
    BY <1>0, <1>d, <2>1 DEF DayInHand
<1>6. CASE DeleteRows
  <2>1. /\ run.pc = "delete" /\ run'.pc = "insert" /\ run'.todo = run.todo
        /\ run'.listed = run.listed /\ run'.got = run.got
    BY <1>0, <1>6 DEF DeleteRows, Run
  <2> QED
    BY <1>0, <1>d, <2>1 DEF DayInHand
<1>7. CASE InsertRows
  <2>1. /\ run.pc = "insert" /\ run'.pc = "record" /\ run'.todo = run.todo
        /\ run'.gone = {} /\ run'.listed = run.listed /\ run'.got = run.got
        /\ history' = [history EXCEPT ![Day] = [t \in Types |->
                          IF t \in run.got.rows THEN run.got.version ELSE history[Day][t]]]
    BY <1>0, <1>7 DEF InsertRows, Run
  <2>2. Day \in Days /\ run.got.rows = Types /\ run.got.version >= run.listed[Day]
    BY <1>0, <1>t, <2>1 DEF DayInHand
  <2>3. \A t \in Types : history'[Day][t] = run.got.version
    BY <1>0, <2>1, <2>2 DEF EveRefTypeOK, Histories
  <2> QED
    BY <1>0, <1>d, <2>1, <2>2, <2>3 DEF DayInHand
<1>8. CASE Record \/ LoadHistory
  <2>1. /\ run'.gone = run.gone /\ run.gone = {}
        /\ run'.pc = "days" \/ (run'.pc = "derive" /\ run'.todo = {})
    BY <1>0, <1>8 DEF Record, LoadHistory, Run, DayInHand
  <2> QED
    BY <2>1 DEF DayInHand
<1>9. CASE Derive
  <2>1. run'.pc = "derive" /\ run.pc = "derive" /\ run'.todo = run.todo /\ run'.gone = run.gone
    BY <1>0, <1>9 DEF Derive, Run
  <2> QED
    BY <1>0, <2>1 DEF DayInHand
<1>10. CASE End \/ Cancel \/ Interrupt \/ Fail
  <2>1. run'.pc = "idle" /\ run'.todo = {} /\ run'.gone = {}
    BY <1>0, <1>10, EndedType, EndsIdle DEF End
  <2> QED
    BY <2>1 DEF DayInHand
<1>11. CASE Clear
  <2>1. /\ run'.pc = run.pc /\ run'.todo = run.todo /\ run'.gone = run.gone
        /\ run'.listed = run.listed /\ run'.got = run.got
        /\ UNCHANGED files /\ torn' = (run.pc # "idle")
    BY <1>0, <1>11 DEF Clear, Run
  <2> QED
    BY <1>0, <1>d, <2>1 DEF DayInHand
<1>12. CASE \/ \E d \in Days : Publish(d) \/ List(d)
            \/ UNCHANGED vars
  <2>1. UNCHANGED <<run, files, history, torn>>
    BY <1>12 DEF Publish, List, vars
  <2> QED
    BY <1>0, <1>d, <2>1 DEF DayInHand
<1> QED
  BY <1>1, <1>2, <1>3, <1>4, <1>5, <1>6, <1>7, <1>8, <1>9, <1>10, <1>11, <1>12
  DEF Next, RunStep

\* A record is of rows that are there, and what takes rows away is not on record.
LEMMA RecordedStep == IInv /\ [Next]_vars => RecordedIsLoaded'
<1> SUFFICES ASSUME IInv, [Next]_vars
             PROVE  RecordedIsLoaded'
  OBVIOUS
<1>0. /\ EveRefTypeOK /\ ListsGrow /\ TodoBehind /\ DayInHand /\ RecordedIsLoaded
      /\ run \in Run
  BY DEF IInv, EveRefTypeOK
<1>t. run.todo # {} => Day \in Days /\ Day \in run.todo /\ recorded[Day] # totals[Day]
  BY <1>0, DayOfTodo, Numbers DEF TodoBehind, ListsGrow
<1>1. CASE /\ UNCHANGED <<recorded, totals, torn>>
           /\ \/ UNCHANGED history
              \/ run.todo # {} /\ \E row : history' = [history EXCEPT ![Day] = row]
  <2>1. ASSUME NEW d \in Days, recorded[d] # 0, recorded[d] = totals[d]
        PROVE  history'[d] = history[d]
    BY <1>0, <1>1, <1>t, <2>1 DEF EveRefTypeOK, Histories
  <2> QED
    BY <1>0, <1>1, <2>1 DEF RecordedIsLoaded
<1>2. CASE Record
  <2>1. /\ UNCHANGED <<totals, torn, history>> /\ run.pc = "record"
        /\ recorded' = [recorded EXCEPT ![Day] = run.listed[Day]]
    BY <1>2 DEF Record, SizeToRecord, outside
  <2>2. torn \/ \A t \in Types : history[Day][t] >= run.listed[Day]
    BY <1>0, <2>1 DEF DayInHand
  <2> QED
    BY <1>0, <1>t, <2>1, <2>2 DEF RecordedIsLoaded, EveRefTypeOK, DayInHand
<1>3. CASE InsertRows
  <2>1. /\ UNCHANGED <<recorded, totals, torn>> /\ run.todo # {}
        /\ \E row : history' = [history EXCEPT ![Day] = row]
    BY <1>0, <1>3 DEF InsertRows, outside, DayInHand
  <2> QED
    BY <1>1, <2>1
<1>4. CASE Interrupt
  <2>1. /\ UNCHANGED <<recorded, totals, torn>>
        /\ run.gone # {} => run.todo # {}
        /\ \/ UNCHANGED history
           \/ run.gone # {} /\ \E row : history' = [history EXCEPT ![Day] = row]
    BY <1>0, <1>4 DEF Interrupt, DayInHand
  <2> QED
    BY <1>1, <2>1
<1>5. CASE Clear
  BY <1>5 DEF Clear, RecordedIsLoaded
<1>6. ASSUME NEW d \in Days, List(d)
      PROVE  RecordedIsLoaded'
  <2>1. totals' \in [Days -> Nat]
    BY <1>0, <1>6, Numbers DEF List, EveRefTypeOK
  <2>2. \A e \in Days : recorded[e] = totals'[e] => recorded[e] = totals[e]
    BY <1>0, <1>6, <2>1, ListGrows, Numbers DEF ListsGrow
  <2> QED
    BY <1>0, <1>6, <2>2, ListGrows DEF RecordedIsLoaded
<1>7. CASE Begin \/ OpenFile \/ SkipDay \/ Download \/ CopyFile \/ DeleteRows \/ LoadHistory
           \/ Derive \/ End
  <2>1. UNCHANGED <<history, recorded, totals, torn>>
    BY <1>7 DEF Begin, OpenFile, SkipDay, Download, CopyFile, DeleteRows, LoadHistory,
                Derive, End, outside
  <2> QED
    BY <1>1, <2>1
<1>8. CASE Cancel \/ Fail \/ (\E d \in Days : Publish(d)) \/ UNCHANGED vars
  <2>1. UNCHANGED <<history, recorded, totals, torn>>
    BY <1>8 DEF Cancel, Fail, Publish, vars
  <2> QED
    BY <1>1, <2>1
<1> QED
  BY <1>2, <1>3, <1>4, <1>5, <1>6, <1>7, <1>8 DEF Next, RunStep

-----------------------------------------------------------------------------
(* From the history to the demand                                          *)

\* While a run derives demand, nothing but a clearing changes what it derives it from.
LEMMA DemandStep == IInv /\ [Next]_vars => DemandFollows'
<1> SUFFICES ASSUME IInv, [Next]_vars
             PROVE  DemandFollows'
  OBVIOUS
<1>0. EveRefTypeOK /\ DayInHand /\ DemandFollows /\ run \in Run
  BY DEF IInv, EveRefTypeOK
<1>1. CASE Begin
  <2>1. run'.verdict = "none" \/ run'.pc = "idle"
    BY <1>1 DEF Begin, NoRun
  <2>2. run'.pc # "derive"
    BY <1>1 DEF Begin, NoRun
  <2> QED
    BY <2>1, <2>2 DEF DemandFollows
<1>2. CASE OpenFile \/ SkipDay \/ Download \/ CopyFile \/ DeleteRows \/ InsertRows \/ Record
  <2>1. OpenFile \/ SkipDay \/ CopyFile \/ DeleteRows =>
            run'.pc # "derive" /\ run'.verdict = run.verdict /\ run.pc # "idle"
    BY <1>0 DEF OpenFile, SkipDay, CopyFile, DeleteRows, Run
  <2>2. InsertRows \/ Record =>
            run'.pc # "derive" /\ run'.verdict = run.verdict /\ run.pc # "idle"
    BY <1>0 DEF InsertRows, Record, Run
  <2>3. Download =>
            run'.pc # "derive" /\ run'.verdict = run.verdict /\ run.pc # "idle"
    BY <1>0 DEF Download, Run
  <2> QED
    BY <1>0, <1>2, <2>1, <2>2, <2>3 DEF DemandFollows
<1>3. CASE LoadHistory
  <2>1. /\ run.pc = "days" /\ run'.seen = history /\ run'.left = DemandTypes
        /\ run'.verdict = run.verdict /\ UNCHANGED <<history, demand>>
    BY <1>0, <1>3 DEF LoadHistory, Run
  <2> QED
    BY <1>0, <2>1 DEF DemandFollows, DemandTypes
<1>4. CASE Derive
  <2>1. PICK t \in run.left : /\ demand' = [demand EXCEPT ![t] = [d \in Days |-> run.seen[d][t]]]
                              /\ run' = [run EXCEPT !.left = @ \ {t}]
    BY <1>4 DEF Derive
  <2>2. /\ run.pc = "derive" /\ run'.seen = run.seen /\ run'.alone = run.alone
        /\ run'.verdict = run.verdict /\ run'.left = run.left \ {t}
        /\ UNCHANGED history /\ t \in Types
    BY <1>0, <1>4, <2>1 DEF Derive, Run
  <2>3. ASSUME run.alone, NEW u \in DemandTypes \ run'.left
        PROVE  demand'[u] = [d \in Days |-> history[d][u]]
    <3>1. run.seen = history
      BY <1>0, <2>2, <2>3 DEF DemandFollows
    <3>2. CASE u = t
      BY <1>0, <2>1, <2>2, <3>1, <3>2 DEF EveRefTypeOK
    <3>3. CASE u # t
      <4>1. u \in DemandTypes \ run.left
        BY <2>2, <2>3, <3>3
      <4>2. demand'[u] = demand[u]
        BY <1>0, <2>1, <3>3, <4>1 DEF EveRefTypeOK, DemandTypes
      <4> QED
        BY <1>0, <2>2, <2>3, <4>1, <4>2 DEF DemandFollows
    <3> QED
      BY <3>2, <3>3
  <2> QED
    BY <1>0, <2>2, <2>3 DEF DemandFollows, DemandTypes
<1>5. CASE End \/ Cancel \/ Interrupt \/ Fail
  <2>1. run'.pc = "idle"
    BY <1>0, <1>5, EndedType, EndsIdle DEF End
  <2> QED
    BY <2>1 DEF DemandFollows
<1>6. CASE Clear
  <2>1. run'.pc = run.pc /\ run'.verdict = run.verdict /\ ~run'.alone
    BY <1>0, <1>6 DEF Clear, Run
  <2> QED
    BY <1>0, <2>1 DEF DemandFollows
<1>7. CASE \/ \E d \in Days : Publish(d) \/ List(d)
           \/ UNCHANGED vars
  <2>1. UNCHANGED <<run, history, demand>>
    BY <1>7 DEF Publish, List, vars
  <2> QED
    BY <1>0, <2>1 DEF DemandFollows, DemandTypes
<1> QED
  BY <1>1, <1>2, <1>3, <1>4, <1>5, <1>6, <1>7 DEF Next, RunStep

\* The verdict stands as long as what it was about.
LEMMA DerivedStep == IInv /\ [Next]_vars => WorkIsDerived'
<1> SUFFICES ASSUME IInv, [Next]_vars
             PROVE  WorkIsDerived'
  OBVIOUS
<1>0. EveRefTypeOK /\ DayInHand /\ DemandFollows /\ WorkIsDerived /\ run \in Run
  BY DEF IInv, EveRefTypeOK
<1>1. CASE run'.pc # "idle"
  BY <1>1, DemandStep DEF DemandFollows, WorkIsDerived
<1>2. CASE Begin
  <2>1. run'.pc # "idle" \/ ~run'.worked
    BY <1>2 DEF Begin, NoRun
  <2> QED
    BY <1>1, <2>1 DEF WorkIsDerived
<1>3. CASE End
  <2>1. /\ run.pc = "derive" /\ run.left = {} /\ run'.alone = run.alone
        /\ UNCHANGED <<history, demand>>
    BY <1>0, <1>3, EndedType DEF End
  <2> QED
    BY <1>0, <2>1 DEF WorkIsDerived, Derived, DemandFollows, DemandTypes
<1>4. CASE Cancel \/ Interrupt \/ Fail
  BY <1>4, EndsIdle DEF WorkIsDerived
<1>5. CASE Clear
  <2>1. ~run'.alone
    BY <1>0, <1>5 DEF Clear, Run
  <2> QED
    BY <2>1 DEF WorkIsDerived
<1>6. CASE \/ \E d \in Days : Publish(d) \/ List(d)
           \/ UNCHANGED vars
  <2>1. UNCHANGED <<run, history, demand>>
    BY <1>6 DEF Publish, List, vars
  <2> QED
    BY <1>0, <2>1 DEF WorkIsDerived, Derived
<1>7. CASE OpenFile \/ SkipDay \/ CopyFile \/ DeleteRows \/ InsertRows \/ Record \/ LoadHistory
  <2>1. OpenFile \/ SkipDay \/ CopyFile \/ DeleteRows => run'.pc # "idle"
    BY <1>0 DEF OpenFile, SkipDay, CopyFile, DeleteRows, Run
  <2>2. InsertRows \/ Record \/ LoadHistory => run'.pc # "idle"
    BY <1>0 DEF InsertRows, Record, LoadHistory, Run
  <2> QED
    BY <1>1, <1>7, <2>1, <2>2
<1>8. CASE Download \/ Derive
  <2>1. run'.pc # "idle"
    BY <1>0, <1>8 DEF Download, Derive, Run
  <2> QED
    BY <1>1, <2>1
<1> QED
  BY <1>2, <1>3, <1>4, <1>5, <1>6, <1>7, <1>8 DEF Next, RunStep

-----------------------------------------------------------------------------
(* Theorems                                                                *)

\* An empty table satisfies the invariant, and every step keeps it.
LEMMA InitHolds == Init => IInv
<1> SUFFICES ASSUME Init
             PROVE  IInv
  OBVIOUS
<1>1. 0 \in 0..MaxFailures /\ 0 \in 0..MaxClears
  BY EveRefAssumption
<1>2. EveRefTypeOK
  BY <1>1, RecordTypes DEF Init, EveRefTypeOK
<1>3. ListsGrow /\ TodoBehind /\ DayInHand
  BY DEF Init, NoRun, ListsGrow, TodoBehind, DayInHand
<1>4. DemandFollows /\ RecordedIsLoaded /\ WorkIsDerived
  BY DEF Init, NoRun, DemandFollows, RecordedIsLoaded, WorkIsDerived
<1> QED
  BY <1>2, <1>3, <1>4 DEF IInv

\* Every step keeps every part.
LEMMA Inductive == IInv /\ [Next]_vars => IInv'
<1>1. IInv => EveRefTypeOK /\ DayInHand
  BY DEF IInv
<1> QED
  BY <1>1, TypesStep, ListsStep, HandStep, RecordedStep, DemandStep, DerivedStep DEF IInv

\* The import and its tables only ever hold values of their types: a run always knows
\* the day it is on, and every version on record is one that may be listed.
THEOREM HistoryTyped == Spec => []EveRefTypeOK
<1>1. IInv => EveRefTypeOK
  BY DEF IInv
<1> QED
  BY <1>1, InitHolds, Inductive, PTL DEF Spec

\* A day that is on record as listed has its rows, although the rows and the record are
\* two commits and a run may end between any two steps, one of which commits a DELETE.
THEOREM RecordsAreLoaded == Spec => []RecordedIsLoaded
<1>1. IInv => RecordedIsLoaded
  BY DEF IInv
<1> QED
  BY <1>1, InitHolds, Inductive, PTL DEF Spec

\* A run that had days to load and succeeded leaves demand derived from the history
\* there is, and it stays so until the next run or a clearing.
THEOREM SuccessIsDerived == Spec => []WorkIsDerived
<1>1. IInv => WorkIsDerived
  BY DEF IInv
<1> QED
  BY <1>1, InitHolds, Inductive, PTL DEF Spec

=============================================================================
