----------------------- MODULE ProcessDispatchProofs -----------------------
(***************************************************************************)
(* Proofs about ProcessDispatch, for every plan, configuration and bound.  *)
(*                                                                         *)
(* That a write is not repeated rests on three facts.  A call is made only *)
(* after its entry is in the journal of the published intent (CallsInv).   *)
(* The entries the worker has passed were for shorter answer sequences     *)
(* than the one it has now (PassedInv).  So an entry it starts afresh was  *)
(* never called (FreshInv), and one it starts again is a read.             *)
(*                                                                         *)
(* That a recovery leads to the receipt the dispatch has rests on the      *)
(* journal: what the worker answered so far is what its entries hold       *)
(* (PlaceInv), and a receipt is what the plan makes of them (ReceiptInv).  *)
(***************************************************************************)
EXTENDS ProcessDispatch, SequenceTheorems, TLAPS

Busy == {"run", "call", "called", "answer", "outcome"}

(* The worker owns the published head it works on.                         *)
WorkInv ==
    /\ pc = "idle" => cursor = 0
    /\ pc \in {"journal", "intent"} =>
          /\ snap = chain
          /\ intent \in Record /\ Key(intent) \in Intent
          /\ intent.gen = head.gen + 1
          /\ intent.status = "uncertain"
          /\ cursor = 0
    /\ pc = "journal" => mode # Plain
    /\ pc \in Busy =>
          /\ snap = chain
          /\ intent = head
          /\ head.status = "uncertain"
          /\ Key(intent) \in Intent
          /\ cursor <= Len(entries[Key(intent)])
    /\ pc \in {"call", "called", "answer"} /\ mode # Plain => cursor > 0
    /\ pc = "answer" => answer \in Answer
    /\ head.status = "uncertain" => Key(head) \in Intent

TWInv == TypeOK /\ WorkInv

(* Every call of the published dispatch has an entry in its journal.       *)
CallsInv ==
    \A n \in 1..Len(calls) :
        /\ calls[n].gen <= head.gen
        /\ head.status = "uncertain" /\ calls[n].gen = head.gen =>
              \E m \in 1..Len(entries[Key(head)]) :
                  entries[Key(head)][m].binding.request = calls[n].at

(* What the worker has passed lies before where it is.                     *)
Asked(E, i, m) == E[i][m].binding.request
PassedInv ==
    pc \in Busy =>
        /\ \A m \in 1..cursor : Len(Asked(entries, Key(intent), m)) <= Len(hist)
        /\ pc \in {"run", "outcome"} => \A m \in 1..cursor : Len(Asked(entries, Key(intent), m)) < Len(hist)
        /\ pc \in {"call", "called", "answer"} => Asked(entries, Key(intent), cursor) = hist

(* A call that may not be repeated was not made before.                    *)
FreshInv ==
    pc = "call" /\ Plan(hist) # "read" =>
        \A n \in 1..Len(calls) : calls[n] # [gen |-> intent.gen, at |-> hist]

Journaled == pc # "idle" => mode # Plain

SafeInv == TWInv /\ Journaled /\ CallsInv /\ PassedInv /\ FreshInv /\ NeverReissued
-----------------------------------------------------------------------------
(* The last element of a sequence is one of its elements.                  *)
LEMMA FinalType ==
    ASSUME NEW S, NEW s \in Seq(S), s # <<>>
    PROVE  Final(s) \in S /\ Len(s) \in Nat /\ Len(s) > 0
BY EmptySeq, LenProperties DEF Final

(* Appending makes the new element the last one.                           *)
LEMMA FinalAppend ==
    ASSUME NEW S, NEW s \in Seq(S), NEW e \in S
    PROVE  /\ Append(s, e) \in Seq(S) /\ Append(s, e) # <<>>
           /\ Final(Append(s, e)) = e
           /\ Len(Append(s, e)) = Len(s) + 1
           /\ \A n \in 1..Len(s) : Append(s, e)[n] = s[n]
BY AppendProperties, LenProperties DEF Final

(* What a continuation replays are answers.                                *)
LEMMA SettledType ==
    ASSUME NEW r \in Seq(Answer) \union {None}
    PROVE  Settled(r) \in Seq(Answer)
<1>1. CASE r = None
  BY <1>1 DEF Settled
<1>2. CASE r # None
  <2>1. Len(r) \in Nat /\ \A n \in 1..Len(r) - 1 : r[n] \in Answer
    BY <1>2, LenProperties
  <2>2. SubSeq(r, 1, Len(r) - 1) \in Seq(Answer)
    BY <2>1, SubSeqProperties
  <2>3. QED BY <1>2, <2>2 DEF Settled
<1>3. QED BY <1>1, <1>2

(* Starting an entry again, or answering it, keeps what it is for.         *)
LEMMA EntryType ==
    ASSUME NEW e \in Entry
    PROVE  /\ Again(e) \in Entry /\ Again(e).binding = e.binding
           /\ \A a \in Answer \union {None} :
                 Answered(e, a) \in Entry /\ Answered(e, a).binding = e.binding
BY DEF Entry, Again, Answered

(* Changing one entry keeps a journal's type, its length and everything    *)
(* about the entries that the change leaves alone.                         *)
LEMMA EntryChange ==
    ASSUME NEW E \in [Intent -> Seq(Entry)], NEW i \in Intent,
           NEW n \in 1..Len(E[i]), NEW e \in Entry, e.binding = E[i][n].binding
    PROVE  LET F == [E EXCEPT ![i] = [@ EXCEPT ![n] = e]] IN
           /\ F \in [Intent -> Seq(Entry)]
           /\ \A j \in Intent : Len(F[j]) = Len(E[j])
           /\ \A j \in Intent : \A m \in 1..Len(E[j]) : F[j][m].binding = E[j][m].binding
<1>1. E[i] \in Seq(Entry)
  OBVIOUS
<1>2. /\ [E[i] EXCEPT ![n] = e] \in Seq(Entry)
      /\ Len([E[i] EXCEPT ![n] = e]) = Len(E[i])
      /\ \A m \in 1..Len(E[i]) : [E[i] EXCEPT ![n] = e][m] = IF m = n THEN e ELSE E[i][m]
  BY <1>1, ExceptSeq
<1>3. QED BY <1>2
(* An intent and an outcome are records.                                   *)
LEMMA IntentType ==
    ASSUME NEW r \in Record, NEW c \in Cause, r.gen < MaxGenerations
    PROVE  /\ Dispatched(r, c) \in Record
           /\ Dispatched(r, c).gen = r.gen + 1
           /\ Dispatched(r, c).status = "uncertain"
           /\ Key(Dispatched(r, c)) \in Intent
<1>1. r.gen \in Nat /\ r.gen + 1 \in 1..MaxGenerations /\ r.receipt \in Seq(Answer) \union {None}
  BY BoundAssumption DEF Record
<1>2. Dispatched(r, c) \in Record
  BY <1>1, BoundAssumption DEF Dispatched, Record
<1>3. QED BY <1>1, <1>2 DEF Dispatched, Key, Intent

LEMMA OutcomeType ==
    ASSUME NEW r \in Record, NEW h \in Seq(Answer)
    PROVE  /\ Concluded(r, h) \in Record
           /\ Concluded(r, h).status # "uncertain"
<1>1. OutcomeOf(h) \in Outcome \union {"suspended"}
  BY DEF OutcomeOf, Outcome
<1>2. QED BY <1>1 DEF Concluded, Record, Outcome
-----------------------------------------------------------------------------
LEMMA InitTW == Init => TWInv
<1> SUFFICES ASSUME Init PROVE TWInv
  OBVIOUS
<1> USE BoundAssumption, NoneAssumption
<1>1. Initial \in Record /\ Initial.status = "ready"
  BY DEF Initial, Record, Outcome
<1>2. chain \in Seq(Record) /\ chain # <<>> /\ head = Initial
  BY <1>1 DEF Init, head, Final
<1>3. DiskOK
  <2>1. <<>> \in Seq(Entry)
    BY EmptySeq
  <2>2. QED BY <1>2, <2>1 DEF Init, DiskOK
<1>4. WorkerOK
  BY EmptySeq DEF Init, WorkerOK
<1>5. known \in Seq(Record) /\ calls \in Seq([gen : 1..MaxGenerations, at : Seq(Answer)])
  BY EmptySeq DEF Init
<1>6. WorkInv
  BY <1>1, <1>2 DEF Init, WorkInv, Busy
<1>7. QED BY <1>3, <1>4, <1>5, <1>6 DEF TWInv, TypeOK, Init

(* Releasing the lease leaves nothing to keep but the disk.                *)
LEMMA StopTW ==
    ASSUME TWInv, Stop, chain' = chain,
           header' \in [Intent -> Nat \union {None}], entries' = entries, recoveries' = recoveries,
           runs' \subseteq Intent \X Seq(Answer), UNCHANGED <<config, known, calls>>
    PROVE  TWInv'
<1>1. WorkerOK'
  BY EmptySeq DEF Stop, WorkerOK
<1>2. DiskOK'
  BY DEF TWInv, TypeOK, DiskOK
<1>3. WorkInv'
  BY DEF TWInv, WorkInv, Stop, Busy, head
<1>4. QED BY <1>1, <1>2, <1>3 DEF TWInv, TypeOK

LEMMA TickTW == TWInv /\ Tick => TWInv'
<1> SUFFICES ASSUME TWInv, Tick PROVE TWInv'
  OBVIOUS
<1> USE DEF TWInv, TypeOK
<1>1. snap' = chain
  BY DEF Tick
<1>2. known' \in Seq(Record)
  BY EmptySeq DEF Tick
<1>3. head \in Record /\ UNCHANGED head
  BY FinalType DEF DiskOK, Tick, disk, head
<1>4. PICK c \in CausesFrom(head) :
         intent' = Dispatched(head, c)
  BY <1>1 DEF Tick, head
<1>5. c \in Cause /\ head.gen < MaxGenerations /\ head.gen \in Nat
  BY <1>1, <1>3 DEF Tick, CausesFrom, Cause, head, Record
<1>6. /\ intent'.gen = head.gen + 1 /\ intent'.status = "uncertain"
      /\ intent' \in Record /\ Key(intent') \in Intent
  BY <1>3, <1>4, <1>5, IntentType
<1>8. hist' \in Seq(Answer)
  BY <1>1, <1>3, SettledType DEF Tick, Record, head
<1>9. pc' \in {"journal", "intent"} /\ mode' \in Nat \union {Plain}
  BY ModeAssumption DEF Tick
<1>10. WorkerOK'
  BY <1>1, <1>6, <1>8, <1>9 DEF Tick, WorkerOK, DiskOK
<1>11. DiskOK'
  BY DEF Tick, disk, DiskOK
<1>12. cursor' = 0
  BY DEF Tick, WorkInv
<1>13. WorkInv'
  BY <1>1, <1>3, <1>6, <1>9, <1>11, <1>12 DEF WorkInv, Busy, Tick, disk
<1>14. QED BY <1>2, <1>10, <1>11, <1>13 DEF Tick

LEMMA CreateJournalTW == TWInv /\ CreateJournal => TWInv'
<1> SUFFICES ASSUME TWInv, CreateJournal PROVE TWInv'
  OBVIOUS
<1> USE DEF TWInv, TypeOK
<1>1. Key(intent) \in Intent /\ mode \in Nat
  BY DEF CreateJournal, WorkInv, WorkerOK
<1>2. header' \in [Intent -> Nat \union {None}]
  BY <1>1 DEF CreateJournal, DiskOK
<1>3. UNCHANGED <<chain, entries, recoveries, runs, config, known, calls, head>>
  BY DEF CreateJournal, head
<1>4. DiskOK'
  BY <1>2, <1>3 DEF DiskOK
<1>5. CASE Stop
  BY <1>2, <1>3, <1>5, StopTW DEF DiskOK
<1>6. CASE pc' = "intent" /\ UNCHANGED <<snap, intent, mode, recovering, cursor, hist, answer>>
  <2>1. WorkerOK'
    BY <1>6 DEF WorkerOK
  <2>2. WorkInv'
    BY <1>3, <1>6 DEF WorkInv, Busy, CreateJournal, Key
  <2>3. QED BY <1>3, <1>4, <2>1, <2>2
<1>7. QED BY <1>5, <1>6 DEF CreateJournal

LEMMA SaveIntentTW == TWInv /\ SaveIntent => TWInv' /\ head' = intent
<1> SUFFICES ASSUME TWInv, SaveIntent PROVE TWInv' /\ head' = intent
  OBVIOUS
<1> USE DEF TWInv, TypeOK
<1>1. /\ snap = chain /\ intent \in Record /\ Key(intent) \in Intent
      /\ intent.status = "uncertain" /\ cursor = 0
  BY DEF SaveIntent, WorkInv
<1>2. chain' \in Seq(Record) /\ chain' # <<>> /\ head' = intent /\ snap' = chain'
  <2>1. chain' = Append(chain, intent) /\ snap' = chain' /\ chain \in Seq(Record)
    BY <1>1 DEF SaveIntent, DiskOK
  <2>2. Append(chain, intent) \in Seq(Record) /\ Append(chain, intent) # <<>>
        /\ Final(Append(chain, intent)) = intent
    BY <1>1, <2>1, FinalAppend
  <2>3. QED BY <2>1, <2>2 DEF head
<1>3. DiskOK'
  BY <1>2 DEF DiskOK, SaveIntent
<1>4. WorkerOK'
  BY <1>2 DEF WorkerOK, SaveIntent
<1>5. Len(entries[Key(intent)]) \in Nat
  <2>1. entries[Key(intent)] \in Seq(Entry)
    BY <1>1 DEF DiskOK
  <2>2. QED BY <2>1, LenProperties
<1>6. WorkInv'
  BY <1>1, <1>2, <1>5 DEF WorkInv, Busy, SaveIntent, Key
<1>7. QED BY <1>2, <1>3, <1>4, <1>6 DEF SaveIntent

(* The entry under the cursor.                                             *)
LEMMA RecordedType ==
    ASSUME TWInv, AtRecorded
    PROVE  /\ Key(intent) \in Intent
           /\ cursor + 1 \in 1..Len(entries[Key(intent)])
           /\ Recorded \in Entry
<1>1. Key(intent) \in Intent /\ cursor \in Nat
  BY DEF AtRecorded, TWInv, TypeOK, WorkInv, WorkerOK, Busy
<1>2. entries[Key(intent)] \in Seq(Entry) /\ Len(entries[Key(intent)]) \in Nat
  BY <1>1, LenProperties DEF TWInv, TypeOK, DiskOK
<1>3. QED BY <1>1, <1>2 DEF AtRecorded, Recorded

LEMMA ReplayTW == TWInv /\ ReplayEffect => TWInv'
<1> SUFFICES ASSUME TWInv, ReplayEffect PROVE TWInv'
  OBVIOUS
<1> USE DEF TWInv, TypeOK
<1>1. /\ Key(intent) \in Intent /\ Recorded \in Entry
      /\ cursor + 1 \in 1..Len(entries[Key(intent)])
  BY RecordedType DEF ReplayEffect
<1>2. Recorded.result \in Answer
  BY <1>1 DEF ReplayEffect, Started, Entry
<1>3. hist' \in Seq(Answer)
  BY <1>2, AppendProperties DEF ReplayEffect, WorkerOK
<1>4. WorkerOK'
  BY <1>3 DEF ReplayEffect, WorkerOK
<1>5. DiskOK'
  BY DEF ReplayEffect, disk, DiskOK
<1>6. UNCHANGED head
  BY DEF ReplayEffect, disk, head
<1>7. WorkInv'
  BY <1>1, <1>6 DEF ReplayEffect, AtRecorded, WorkInv, Busy, disk, Key
<1>8. QED BY <1>4, <1>5, <1>7 DEF ReplayEffect

LEMMA RestartTW == TWInv /\ RestartEffect => TWInv'
<1> SUFFICES ASSUME TWInv, RestartEffect PROVE TWInv'
  OBVIOUS
<1> DEFINE e == Again(Recorded)
<1>1. /\ Key(intent) \in Intent /\ Recorded \in Entry
      /\ cursor + 1 \in 1..Len(entries[Key(intent)])
  BY RecordedType DEF RestartEffect
<1>2. e \in Entry /\ e.binding = Recorded.binding
  BY <1>1, EntryType
<1>3. /\ entries' \in [Intent -> Seq(Entry)]
      /\ \A j \in Intent : Len(entries'[j]) = Len(entries[j])
  BY <1>1, <1>2, EntryChange DEF RestartEffect, Put, Recorded, TWInv, TypeOK, DiskOK
<1>4. DiskOK' /\ UNCHANGED head
  BY <1>3 DEF RestartEffect, TWInv, TypeOK, DiskOK, head
<1>5. WorkerOK'
  BY DEF RestartEffect, TWInv, TypeOK, WorkerOK
<1>6. /\ pc = "run" /\ pc' = "call" /\ cursor' > 0 /\ cursor' <= Len(entries'[Key(intent)])
      /\ UNCHANGED <<chain, snap, intent, mode>>
  BY <1>1, <1>3 DEF RestartEffect, AtRecorded, TWInv, TypeOK, WorkerOK
<1>7. WorkInv'
  BY <1>4, <1>6 DEF TWInv, WorkInv, Busy, Key
<1>8. QED BY <1>4, <1>5, <1>7 DEF RestartEffect, TWInv, TypeOK

(* A started entry is the next of its journal.                             *)
LEMMA StartEntries ==
    ASSUME TWInv, StartEffect, mode # Plain
    PROVE  /\ Key(intent) \in Intent
           /\ entries[Key(intent)] \in Seq(Entry)
           /\ cursor = Len(entries[Key(intent)]) /\ cursor' = cursor + 1
           /\ entries' \in [Intent -> Seq(Entry)]
           /\ Len(entries'[Key(intent)]) = cursor + 1
           /\ entries'[Key(intent)][cursor + 1].binding = Binding(hist)
           /\ \A j \in Intent : Len(entries'[j]) >= Len(entries[j])
           /\ \A j \in Intent : \A m \in 1..Len(entries[j]) : entries'[j][m] = entries[j][m]
<1> DEFINE e == Fresh(hist)
           s == entries[Key(intent)]
<1>1. Key(intent) \in Intent /\ s \in Seq(Entry)
  BY DEF StartEffect, WorkInv, Busy, TWInv, TypeOK, DiskOK
<1>2. cursor = Len(s) /\ cursor' = cursor + 1 /\ cursor \in Nat
  BY <1>1, LenProperties DEF StartEffect, WorkInv, Busy, TWInv, TypeOK, WorkerOK
<1>3. e \in Entry /\ e.binding = Binding(hist)
  BY DEF Fresh, StartEffect, Running, Binding, Entry, TWInv, TypeOK, WorkerOK
<1> DEFINE t == Append(s, e)
<1>4. /\ t \in Seq(Entry)
      /\ Len(t) = Len(s) + 1 /\ t[Len(s) + 1] = e
      /\ \A m \in 1..Len(s) : t[m] = s[m]
  BY <1>1, <1>3, AppendProperties
<1>5. entries' = [entries EXCEPT ![Key(intent)] = t]
  BY DEF StartEffect
<1> HIDE DEF t
<1>6. /\ entries' \in [Intent -> Seq(Entry)] /\ entries'[Key(intent)] = t
      /\ \A j \in Intent : j # Key(intent) => entries'[j] = entries[j]
  BY <1>1, <1>4, <1>5 DEF TWInv, TypeOK, DiskOK
<1>7. \A j \in Intent : Len(entries[j]) \in Nat
  BY LenProperties DEF TWInv, TypeOK, DiskOK
<1>8. Len(t) = cursor + 1 /\ Len(t) >= Len(s) /\ t[cursor + 1].binding = Binding(hist)
  BY <1>2, <1>3, <1>4
<1>9. \A j \in Intent : Len(entries'[j]) >= Len(entries[j])
  BY <1>6, <1>7, <1>8
<1>10. \A j \in Intent : \A m \in 1..Len(entries[j]) : entries'[j][m] = entries[j][m]
  BY <1>4, <1>6
<1>11. QED BY <1>1, <1>2, <1>6, <1>8, <1>9, <1>10

LEMMA StartTW == TWInv /\ StartEffect => TWInv'
<1> SUFFICES ASSUME TWInv, StartEffect PROVE TWInv'
  OBVIOUS
<1>1. UNCHANGED head
  BY DEF StartEffect, head
<1>2. CASE mode = Plain
  <2>1. DiskOK'
    BY <1>2 DEF StartEffect, TWInv, TypeOK, DiskOK
  <2>2. WorkerOK'
    BY <1>2 DEF StartEffect, TWInv, TypeOK, WorkerOK
  <2>3. WorkInv'
    BY <1>1, <1>2 DEF StartEffect, TWInv, WorkInv, Busy, Key
  <2>4. QED BY <2>1, <2>2, <2>3 DEF StartEffect, TWInv, TypeOK
<1>3. CASE mode # Plain
  <2>1. DiskOK'
    BY <1>3, StartEntries DEF StartEffect, TWInv, TypeOK, DiskOK
  <2>2. WorkerOK'
    BY <1>3, StartEntries DEF StartEffect, TWInv, TypeOK, WorkerOK
  <2>3. cursor \in Nat /\ cursor' > 0 /\ cursor' <= Len(entries'[Key(intent)])
    BY <1>3, StartEntries DEF TWInv, TypeOK, WorkerOK
  <2>4. WorkInv'
    BY <1>1, <1>3, <2>3 DEF StartEffect, TWInv, WorkInv, Busy, Key
  <2>5. QED BY <2>1, <2>2, <2>4 DEF StartEffect, TWInv, TypeOK
<1>4. QED BY <1>2, <1>3

(* A refusal, an unsettled deadline or a crash keeps the disk as it is.    *)
LEMMA HaltTW == TWInv /\ Stop /\ UNCHANGED <<disk, config, known, calls>> => TWInv'
BY StopTW DEF TWInv, TypeOK, DiskOK, disk

LEMMA CallTW == TWInv /\ (Invoke \/ ExpireUncalled \/ Settle) => TWInv'
<1> SUFFICES ASSUME TWInv, Invoke \/ ExpireUncalled \/ Settle PROVE TWInv'
  OBVIOUS
<1>1. /\ UNCHANGED <<disk, head, config, known, snap, intent, mode, recovering, cursor, hist>>
      /\ pc \in {"call", "called"} /\ pc' \in {"called", "answer"}
  BY DEF Invoke, ExpireUncalled, Settle, disk, head
<1>2. answer' \in Answer \union {None} /\ (pc' = "answer" => answer' \in Answer)
  BY DEF Invoke, ExpireUncalled, Settle, Answer, TWInv, TypeOK, WorkerOK
<1>3. DiskOK'
  BY <1>1 DEF disk, DiskOK, TWInv, TypeOK
<1>4. WorkerOK'
  BY <1>1, <1>2 DEF WorkerOK, TWInv, TypeOK
<1>5. WorkInv'
  BY <1>1, <1>2 DEF WorkInv, TWInv, Busy, disk, Key
<1>6. calls' \in Seq([gen : 1..MaxGenerations, at : Seq(Answer)])
  <2>1. CASE Invoke
    <3>1. intent.gen \in 1..MaxGenerations /\ hist \in Seq(Answer)
      BY <1>1 DEF TWInv, TypeOK, WorkInv, WorkerOK, Busy, Key, Intent
    <3>2. [gen |-> intent.gen, at |-> hist] \in [gen : 1..MaxGenerations, at : Seq(Answer)]
      BY <3>1
    <3>3. QED BY <2>1, <3>2, AppendProperties DEF Invoke, TWInv, TypeOK
  <2>2. CASE UNCHANGED calls
    BY <2>2 DEF TWInv, TypeOK
  <2>3. QED BY <2>1, <2>2 DEF ExpireUncalled, Settle
<1>7. QED BY <1>1, <1>3, <1>4, <1>5, <1>6 DEF TWInv, TypeOK

(* The entry of the call being made.                                       *)
LEMMA CallingType ==
    ASSUME TWInv, pc = "answer", mode # Plain
    PROVE  /\ Key(intent) \in Intent
           /\ cursor \in 1..Len(entries[Key(intent)])
           /\ Calling \in Entry
<1>1. Key(intent) \in Intent /\ cursor \in Nat /\ cursor > 0 /\ cursor <= Len(entries[Key(intent)])
  BY DEF TWInv, TypeOK, WorkInv, WorkerOK, Busy
<1>2. entries[Key(intent)] \in Seq(Entry)
  BY <1>1 DEF TWInv, TypeOK, DiskOK
<1>3. Len(entries[Key(intent)]) \in Nat
  BY <1>2, LenProperties
<1>4. QED BY <1>1, <1>2, <1>3 DEF Calling

(* Recording an answer leaves the journal's shape and bindings alone.      *)
LEMMA RecordEntries ==
    ASSUME TWInv, RecordAnswer
    PROVE  /\ entries' \in [Intent -> Seq(Entry)]
           /\ \A j \in Intent : Len(entries'[j]) = Len(entries[j])
           /\ \A j \in Intent : \A m \in 1..Len(entries[j]) :
                 entries'[j][m].binding = entries[j][m].binding
<1>1. CASE mode = Plain
  BY <1>1 DEF RecordAnswer, TWInv, TypeOK, DiskOK
<1>2. CASE mode # Plain
  <2> DEFINE e == Answered(Calling, answer)
  <2>1. /\ Key(intent) \in Intent /\ Calling \in Entry
        /\ cursor \in 1..Len(entries[Key(intent)])
    BY <1>2, CallingType DEF RecordAnswer
  <2>2. e \in Entry /\ e.binding = Calling.binding
    BY <2>1, EntryType DEF RecordAnswer, TWInv, TypeOK, WorkerOK
  <2>3. QED BY <1>2, <2>1, <2>2, EntryChange
            DEF RecordAnswer, Put, Calling, TWInv, TypeOK, DiskOK
<1>3. QED BY <1>1, <1>2

LEMMA RecordTW == TWInv /\ RecordAnswer => TWInv'
<1> SUFFICES ASSUME TWInv, RecordAnswer PROVE TWInv'
  OBVIOUS
<1>1. answer \in Answer /\ hist' \in Seq(Answer)
  BY AppendProperties DEF RecordAnswer, TWInv, TypeOK, WorkInv, WorkerOK
<1>2. UNCHANGED head
  BY DEF RecordAnswer, head
<1>3. DiskOK'
  BY RecordEntries DEF RecordAnswer, TWInv, TypeOK, DiskOK
<1>4. WorkerOK'
  BY <1>1 DEF RecordAnswer, TWInv, TypeOK, WorkerOK
<1>5. pc = "answer" /\ Key(intent) \in Intent /\ UNCHANGED Key(intent)
  BY DEF RecordAnswer, TWInv, WorkInv, Busy, Key
<1>6. cursor' <= Len(entries'[Key(intent)])
  BY <1>5, RecordEntries DEF RecordAnswer, TWInv, WorkInv, Busy
<1>7. WorkInv'
  BY <1>2, <1>5, <1>6 DEF RecordAnswer, TWInv, WorkInv, Busy, Key
<1>8. QED BY <1>3, <1>4, <1>7 DEF RecordAnswer, TWInv, TypeOK

LEMMA PublishTW == TWInv /\ PublishReceipt => TWInv'
<1> SUFFICES ASSUME TWInv, PublishReceipt PROVE TWInv'
  OBVIOUS
<1>1. Key(intent) \in Intent /\ hist \in Seq(Answer) /\ runs \subseteq Intent \X Seq(Answer)
  BY DEF PublishReceipt, TWInv, TypeOK, DiskOK, WorkerOK, WorkInv, Busy
<1>2. /\ runs' \subseteq Intent \X Seq(Answer)
      /\ UNCHANGED <<chain, header, entries, recoveries, config, known, calls>>
  BY <1>1 DEF PublishReceipt
<1>3. CASE Stop
  BY <1>2, <1>3, StopTW DEF TWInv, TypeOK, DiskOK
<1>4. CASE pc' = "outcome" /\ UNCHANGED <<snap, intent, mode, recovering, cursor, hist, answer>>
  <2>1. DiskOK'
    BY <1>2 DEF TWInv, TypeOK, DiskOK
  <2>2. WorkerOK'
    BY <1>4 DEF TWInv, TypeOK, WorkerOK
  <2>3. WorkInv'
    BY <1>2, <1>4 DEF PublishReceipt, TWInv, WorkInv, Busy, Key, head
  <2>4. QED BY <1>2, <2>1, <2>2, <2>3 DEF TWInv, TypeOK
<1>5. QED BY <1>3, <1>4 DEF PublishReceipt

LEMMA SaveOutcomeTW == TWInv /\ SaveOutcome => TWInv' /\ head' = Concluded(head, hist)
<1> SUFFICES ASSUME TWInv, SaveOutcome PROVE TWInv' /\ head' = Concluded(head, hist)
  OBVIOUS
<1> DEFINE o == Concluded(head, hist)
<1>1. /\ snap = chain /\ intent = head /\ chain \in Seq(Record) /\ chain # <<>>
      /\ hist \in Seq(Answer)
  BY DEF SaveOutcome, TWInv, TypeOK, DiskOK, WorkerOK, WorkInv, Busy
<1>2. o \in Record /\ o.status # "uncertain"
  BY <1>1, FinalType, OutcomeType DEF head
<1>3. chain' = Append(chain, o)
  BY <1>1 DEF SaveOutcome
<1>4. Append(chain, o) \in Seq(Record) /\ Append(chain, o) # <<>> /\ Final(Append(chain, o)) = o
  BY <1>1, <1>2, FinalAppend
<1>5. head' = o /\ chain' \in Seq(Record) /\ chain' # <<>>
  BY <1>3, <1>4 DEF head
<1>6. WorkerOK'
  BY EmptySeq DEF SaveOutcome, Stop, WorkerOK
<1>7. DiskOK'
  BY <1>5 DEF SaveOutcome, TWInv, TypeOK, DiskOK
<1>8. WorkInv'
  BY <1>2, <1>5 DEF SaveOutcome, Stop, WorkInv, Busy
<1>9. QED BY <1>5, <1>6, <1>7, <1>8 DEF SaveOutcome, TWInv, TypeOK

LEMMA RecoverTW == TWInv /\ Recover => TWInv'
<1> SUFFICES ASSUME TWInv, Recover PROVE TWInv'
  OBVIOUS
<1>1. head \in Record /\ UNCHANGED head /\ Key(head) \in Intent
  BY FinalType DEF Recover, head, TWInv, TypeOK, DiskOK, WorkInv
<1>2. mode' \in Nat
  BY <1>1 DEF Recover, Recoverable, Openable, TWInv, TypeOK, DiskOK
<1>3. hist' \in Seq(Answer)
  BY <1>1, SettledType DEF Recover, Record
<1>4. recoveries' \in [Intent -> Nat]
  BY <1>1 DEF Recover, TWInv, TypeOK, DiskOK
<1>5. DiskOK'
  BY <1>4 DEF Recover, TWInv, TypeOK, DiskOK
<1>6. WorkerOK'
  BY <1>1, <1>2, <1>3 DEF Recover, TWInv, TypeOK, DiskOK, WorkerOK
<1>7. Len(entries[Key(head)]) \in Nat
  <2>1. entries[Key(head)] \in Seq(Entry)
    BY <1>1 DEF TWInv, TypeOK, DiskOK
  <2>2. QED BY <2>1, LenProperties
<1>8. cursor' = 0
  BY DEF Recover, TWInv, WorkInv
<1>9. WorkInv'
  BY <1>1, <1>7, <1>8 DEF Recover, TWInv, WorkInv, Busy, Key
<1>10. QED BY <1>5, <1>6, <1>9 DEF Recover, TWInv, TypeOK

(* What no worker is part of.                                              *)
LEMMA HostTW == TWInv /\ (Inspect \/ Reconfigure \/ UNCHANGED vars) => TWInv'
<1> SUFFICES ASSUME TWInv, Inspect \/ Reconfigure \/ UNCHANGED vars PROVE TWInv'
  OBVIOUS
<1>1. UNCHANGED <<disk, worker, calls, head>>
  BY DEF Inspect, Reconfigure, vars, disk, head
<1>2. config' \in Config /\ known' \in Seq(Record)
  BY PeersAssumption DEF Inspect, Reconfigure, vars, TWInv, TypeOK, DiskOK
<1>3. DiskOK'
  BY <1>1 DEF disk, TWInv, TypeOK, DiskOK
<1>4. WorkerOK'
  BY <1>1 DEF worker, TWInv, TypeOK, WorkerOK
<1>5. WorkInv'
  BY <1>1 DEF disk, worker, TWInv, WorkInv, Busy, Key
<1>6. QED BY <1>1, <1>2, <1>3, <1>4, <1>5 DEF TWInv, TypeOK

LEMMA NextTW == TWInv /\ [Next]_vars => TWInv'
<1> SUFFICES ASSUME TWInv, [Next]_vars PROVE TWInv'
  OBVIOUS
<1>1. CASE RefuseEffect \/ UnsettledDeadline \/ Crash
  BY <1>1, HaltTW DEF RefuseEffect, UnsettledDeadline, Crash
<1>2. CASE Inspect \/ Reconfigure \/ UNCHANGED vars
  BY <1>2, HostTW
<1>3. CASE Tick
  BY <1>3, TickTW
<1>4. CASE CreateJournal \/ SaveIntent
  BY <1>4, CreateJournalTW, SaveIntentTW
<1>5. CASE ReplayEffect \/ RestartEffect \/ StartEffect
  BY <1>5, ReplayTW, RestartTW, StartTW
<1>6. CASE Invoke \/ ExpireUncalled \/ Settle
  BY <1>6, CallTW
<1>7. CASE RecordAnswer \/ PublishReceipt \/ SaveOutcome \/ Recover
  BY <1>7, RecordTW, PublishTW, SaveOutcomeTW, RecoverTW
<1>8. QED BY <1>1, <1>2, <1>3, <1>4, <1>5, <1>6, <1>7 DEF Next, Step

(* Every state of a process, of its journals and of its worker is of the   *)
(* declared shape, for every program, configuration and bound.             *)
THEOREM TypeCorrect == Spec => []TypeOK
<1>1. TWInv => TypeOK
  BY DEF TWInv
<1>2. QED BY InitTW, NextTW, <1>1, PTL DEF Spec
-----------------------------------------------------------------------------
(* Journals only grow, and what an entry is for never changes.             *)
EntriesKept ==
    \A j \in Intent :
        /\ Len(entries[j]) <= Len(entries'[j])
        /\ \A m \in 1..Len(entries[j]) : entries'[j][m].binding = entries[j][m].binding

LEMMA EntriesSame ==
    ASSUME TWInv, UNCHANGED entries
    PROVE  EntriesKept
<1>1. \A j \in Intent : Len(entries[j]) \in Nat
  BY LenProperties DEF TWInv, TypeOK, DiskOK
<1>2. QED BY <1>1 DEF EntriesKept

LEMMA CallsKept ==
    ASSUME TWInv, CallsInv, EntriesKept, UNCHANGED <<calls, head>>
    PROVE  CallsInv'
<1> SUFFICES ASSUME NEW n \in 1..Len(calls),
                    head.status = "uncertain" /\ calls[n].gen = head.gen
             PROVE  \E m \in 1..Len(entries'[Key(head)]) :
                       entries'[Key(head)][m].binding.request = calls[n].at
  BY DEF CallsInv, Key
<1>1. Key(head) \in Intent
  BY DEF TWInv, WorkInv
<1>2. PICK m \in 1..Len(entries[Key(head)]) : entries[Key(head)][m].binding.request = calls[n].at
  BY DEF CallsInv
<1>3. Len(entries[Key(head)]) <= Len(entries'[Key(head)])
      /\ entries'[Key(head)][m].binding = entries[Key(head)][m].binding
  BY <1>1, <1>2 DEF EntriesKept
<1>4. Len(entries[Key(head)]) \in Nat /\ (entries[Key(head)] \in Seq(Entry))
  BY <1>1, LenProperties DEF TWInv, TypeOK, DiskOK
<1>5. m \in 1..Len(entries'[Key(head)])
  BY <1>2, <1>3, <1>4
<1>6. QED BY <1>2, <1>3, <1>5

(* A step that neither calls nor moves the worker to a call.               *)
LEMMA QuietSafe ==
    ASSUME SafeInv, TWInv', UNCHANGED <<disk, calls>>,
           pc' \notin Busy, pc' # "idle" => mode' # Plain
    PROVE  SafeInv'
<1>1. UNCHANGED <<entries, head>>
  BY DEF disk, head
<1>2. CallsInv'
  BY <1>1, EntriesSame, CallsKept DEF SafeInv
<1>3. PassedInv' /\ FreshInv'
  BY DEF PassedInv, FreshInv, Busy
<1>4. NeverReissued'
  BY DEF SafeInv, NeverReissued
<1>5. QED BY <1>2, <1>3, <1>4 DEF SafeInv, Journaled

LEMMA StopSafe ==
    ASSUME SafeInv, TWInv', Stop, UNCHANGED <<chain, entries, calls>>
    PROVE  SafeInv'
<1>1. UNCHANGED <<entries, head>>
  BY DEF head
<1>2. CallsInv'
  BY <1>1, EntriesSame, CallsKept DEF SafeInv
<1>3. PassedInv' /\ FreshInv' /\ Journaled'
  BY DEF PassedInv, FreshInv, Busy, Stop, Journaled
<1>4. NeverReissued'
  BY DEF SafeInv, NeverReissued
<1>5. QED BY <1>2, <1>3, <1>4 DEF SafeInv

LEMMA TickSafe ==
    ASSUME SafeInv, Tick, Plain \notin Mode(config)
    PROVE  SafeInv'
<1>1. TWInv' /\ UNCHANGED <<disk, calls>>
  BY TickTW DEF SafeInv, Tick
<1>2. pc' \notin Busy /\ mode' # Plain
  BY DEF Tick, Busy, SafeInv, TWInv, TypeOK
<1>3. QED BY <1>1, <1>2, QuietSafe

LEMMA CreateJournalSafe ==
    ASSUME SafeInv, CreateJournal
    PROVE  SafeInv'
<1>1. TWInv' /\ UNCHANGED <<chain, entries, calls>>
  BY CreateJournalTW DEF SafeInv, CreateJournal
<1>2. CASE Stop
  BY <1>1, <1>2, StopSafe
<1>3. CASE pc' = "intent" /\ UNCHANGED mode
  <2>1. UNCHANGED <<entries, head>>
    BY <1>1 DEF head
  <2>2. CallsInv'
    BY <1>1, <2>1, EntriesSame, CallsKept DEF SafeInv
  <2>3. PassedInv' /\ FreshInv' /\ Journaled'
    BY <1>3 DEF PassedInv, FreshInv, Busy, Journaled, SafeInv, CreateJournal
  <2>4. NeverReissued'
    BY <1>1 DEF SafeInv, NeverReissued
  <2>5. QED BY <1>1, <2>2, <2>3, <2>4 DEF SafeInv
<1>4. QED BY <1>2, <1>3 DEF CreateJournal

LEMMA SaveIntentSafe ==
    ASSUME SafeInv, SaveIntent
    PROVE  SafeInv'
<1>1. TWInv' /\ head' = intent /\ UNCHANGED calls
  BY SaveIntentTW DEF SafeInv, SaveIntent
<1>2. intent.gen = head.gen + 1 /\ cursor = 0 /\ UNCHANGED cursor /\ head \in Record
  BY FinalType DEF SaveIntent, SafeInv, TWInv, TypeOK, DiskOK, WorkInv, head
<1>3. \A n \in 1..Len(calls) : calls[n].gen \in Nat /\ calls[n].gen <= head.gen
  <2>1. calls \in Seq([gen : 1..MaxGenerations, at : Seq(Answer)])
    BY DEF SafeInv, TWInv, TypeOK
  <2>2. \A n \in 1..Len(calls) : calls[n] \in [gen : 1..MaxGenerations, at : Seq(Answer)]
    BY <2>1, ElementOfSeq
  <2>3. QED BY <2>2, BoundAssumption DEF SafeInv, CallsInv
<1>4. CallsInv'
  BY <1>1, <1>2, <1>3, BoundAssumption DEF CallsInv, Record
<1>5. PassedInv' /\ FreshInv' /\ Journaled'
  <2>1. pc = "intent" /\ pc' = "run" /\ cursor' = 0 /\ UNCHANGED mode
    BY <1>2 DEF SaveIntent
  <2>2. \A m \in 1..cursor' : FALSE
    BY <2>1
  <2>3. QED BY <2>1, <2>2 DEF PassedInv, FreshInv, Journaled, SafeInv
<1>6. NeverReissued'
  BY <1>1 DEF SafeInv, NeverReissued
<1>7. QED BY <1>1, <1>4, <1>5, <1>6 DEF SafeInv

(* The worker on the published dispatch, at an effect.                     *)
LEMMA AtWork ==
    ASSUME TWInv, pc \in Busy
    PROVE  /\ intent = head /\ head.status = "uncertain" /\ Key(intent) \in Intent
           /\ cursor \in Nat /\ hist \in Seq(Answer) /\ Len(hist) \in Nat
           /\ entries[Key(intent)] \in Seq(Entry) /\ Len(entries[Key(intent)]) \in Nat
           /\ cursor <= Len(entries[Key(intent)])
           /\ \A m \in 1..Len(entries[Key(intent)]) : Len(Asked(entries, Key(intent), m)) \in Nat
<1>1. intent = head /\ head.status = "uncertain" /\ Key(intent) \in Intent
      /\ cursor <= Len(entries[Key(intent)])
  BY DEF TWInv, WorkInv
<1>2. cursor \in Nat /\ hist \in Seq(Answer) /\ entries[Key(intent)] \in Seq(Entry)
  BY <1>1 DEF TWInv, TypeOK, DiskOK, WorkerOK
<1>3. \A m \in 1..Len(entries[Key(intent)]) : Asked(entries, Key(intent), m) \in Seq(Answer)
  <2> SUFFICES ASSUME NEW m \in 1..Len(entries[Key(intent)])
               PROVE  entries[Key(intent)][m].binding.request \in Seq(Answer)
    BY DEF Asked
  <2>1. entries[Key(intent)][m] \in Entry
    BY <1>2
  <2>2. QED BY <2>1 DEF Entry
<1>4. QED BY <1>1, <1>2, <1>3, LenProperties

LEMMA ReplaySafe ==
    ASSUME SafeInv, ReplayEffect
    PROVE  SafeInv'
<1>1. TWInv' /\ UNCHANGED <<entries, head, calls, intent, mode, pc>> /\ pc = "run"
  BY ReplayTW DEF SafeInv, ReplayEffect, AtRecorded, disk, head
<1>2. CallsInv'
  BY <1>1, EntriesSame, CallsKept DEF SafeInv
<1>3. /\ cursor \in Nat /\ cursor' = cursor + 1
      /\ hist' = Append(hist, Recorded.result) /\ hist \in Seq(Answer)
      /\ Recorded = entries[Key(intent)][cursor + 1] /\ Recorded.binding = Binding(hist)
      /\ Recorded.result \in Answer
  <2>1. Recorded \in Entry
    BY RecordedType DEF ReplayEffect, SafeInv
  <2>2. QED BY <1>1, <2>1, AtWork DEF SafeInv, Busy, ReplayEffect, Recorded, Started, Entry
<1>4. Len(hist') = Len(hist) + 1 /\ Len(hist) \in Nat
  BY <1>3, AppendProperties, LenProperties
<1>5. Asked(entries, Key(intent), cursor + 1) = hist
  BY <1>3 DEF Asked, Binding
<1>6. \A m \in 1..cursor : Len(Asked(entries, Key(intent), m)) < Len(hist) /\ Len(Asked(entries, Key(intent), m)) \in Nat
  BY <1>1, AtWork DEF SafeInv, PassedInv, Busy
<1>7. \A m \in 1..cursor' : Len(Asked(entries, Key(intent), m)) < Len(hist')
  BY <1>3, <1>4, <1>5, <1>6
<1>8. \A m : Asked(entries', Key(intent'), m) = Asked(entries, Key(intent), m)
  BY <1>1 DEF Asked, Key
<1>9. PassedInv'
  <2>1. \A m \in 1..cursor' : Len(Asked(entries, Key(intent), m)) \in Nat
    BY <1>3, <1>4, <1>5, <1>6
  <2>2. \A m \in 1..cursor' : Len(Asked(entries', Key(intent'), m)) < Len(hist')
                           /\ Len(Asked(entries', Key(intent'), m)) <= Len(hist')
    BY <1>4, <1>7, <1>8, <2>1
  <2>3. QED BY <1>1, <2>2 DEF PassedInv
<1>10. FreshInv' /\ Journaled' /\ NeverReissued'
  BY <1>1 DEF FreshInv, Journaled, NeverReissued, SafeInv
<1>11. QED BY <1>1, <1>2, <1>9, <1>10 DEF SafeInv

(* Where the worker stands at a call: its entry is the last it has passed. *)
LEMMA CallReached ==
    ASSUME SafeInv, TWInv', EntriesKept, pc = "run", pc' = "call", cursor' = cursor + 1,
           UNCHANGED <<intent, hist>>, Asked(entries', Key(intent), cursor + 1) = hist
    PROVE  PassedInv'
<1>1. /\ Key(intent) \in Intent /\ cursor \in Nat /\ Len(hist) \in Nat
      /\ cursor <= Len(entries[Key(intent)]) /\ Len(entries[Key(intent)]) \in Nat
  BY AtWork DEF SafeInv, Busy
<1>2. \A m \in 1..cursor : Len(Asked(entries, Key(intent), m)) < Len(hist) /\ Len(Asked(entries, Key(intent), m)) \in Nat
  BY AtWork DEF SafeInv, PassedInv, Busy
<1>3. \A m \in 1..cursor : Asked(entries', Key(intent), m) = Asked(entries, Key(intent), m)
  BY <1>1 DEF Asked, Key, EntriesKept
<1>4. \A m \in 1..cursor' : Len(Asked(entries', Key(intent), m)) <= Len(hist)
  <2> SUFFICES ASSUME NEW m \in 1..cursor' PROVE Len(Asked(entries', Key(intent), m)) <= Len(hist)
    OBVIOUS
  <2>1. CASE m = cursor + 1
    BY <1>1, <2>1
  <2>2. CASE m # cursor + 1
    BY <1>1, <1>2, <1>3, <2>2
  <2>3. QED BY <2>1, <2>2
<1>5. Key(intent') = Key(intent)
  BY DEF Key
<1>6. QED BY <1>4, <1>5 DEF PassedInv

LEMMA RestartSafe ==
    ASSUME SafeInv, RestartEffect
    PROVE  SafeInv'
<1> DEFINE e == Again(Recorded)
<1>1. /\ TWInv' /\ UNCHANGED <<head, calls, intent, mode, hist>> /\ pc = "run" /\ pc' = "call"
      /\ cursor' = cursor + 1 /\ Plan(hist) = "read"
  BY RestartTW DEF SafeInv, RestartEffect, AtRecorded, head
<1>2. /\ Key(intent) \in Intent /\ Recorded \in Entry /\ entries \in [Intent -> Seq(Entry)]
      /\ cursor + 1 \in 1..Len(entries[Key(intent)])
  BY RecordedType DEF RestartEffect, SafeInv, TWInv, TypeOK, DiskOK
<1>3. e \in Entry /\ e.binding = Recorded.binding
  BY <1>2, EntryType
<1>4. /\ \A j \in Intent : Len(entries'[j]) = Len(entries[j])
      /\ \A j \in Intent : \A m \in 1..Len(entries[j]) : entries'[j][m].binding = entries[j][m].binding
  BY <1>2, <1>3, EntryChange DEF RestartEffect, Put, Recorded
<1>5. EntriesKept
  <2>1. \A j \in Intent : Len(entries[j]) \in Nat
    BY <1>2, LenProperties
  <2>2. QED BY <1>4, <2>1 DEF EntriesKept
<1>6. Asked(entries', Key(intent), cursor + 1) = hist
  <2>1. entries'[Key(intent)][cursor + 1].binding = Binding(hist)
    BY <1>2, <1>4 DEF RestartEffect, Recorded
  <2>2. QED BY <2>1 DEF Asked, Binding
<1>7. PassedInv'
  BY <1>1, <1>5, <1>6, CallReached
<1>8. CallsInv'
  BY <1>1, <1>5, CallsKept DEF SafeInv
<1>9. FreshInv' /\ Journaled' /\ NeverReissued'
  BY <1>1 DEF FreshInv, Journaled, NeverReissued, SafeInv
<1>10. QED BY <1>1, <1>7, <1>8, <1>9 DEF SafeInv

(* A write that is started was never started in this dispatch.             *)
LEMMA StartFresh ==
    ASSUME SafeInv, StartEffect, mode # Plain, NEW n \in 1..Len(calls)
    PROVE  calls[n] # [gen |-> intent.gen, at |-> hist]
<1> SUFFICES ASSUME calls[n] = [gen |-> intent.gen, at |-> hist] PROVE FALSE
  OBVIOUS
<1>1. pc = "run" /\ intent = head /\ head.status = "uncertain"
  BY AtWork DEF StartEffect, SafeInv, Busy
<1>2. PICK m \in 1..Len(entries[Key(head)]) : entries[Key(head)][m].binding.request = hist
  BY <1>1 DEF SafeInv, CallsInv
<1>3. cursor = Len(entries[Key(head)])
  BY <1>1, StartEntries DEF SafeInv
<1>4. Len(Asked(entries, Key(intent), m)) < Len(hist)
  BY <1>1, <1>2, <1>3 DEF SafeInv, PassedInv, Busy
<1>5. Len(hist) \in Nat
  BY <1>1, AtWork DEF SafeInv, Busy
<1>6. QED BY <1>1, <1>2, <1>4, <1>5 DEF Asked

LEMMA StartSafe ==
    ASSUME SafeInv, StartEffect
    PROVE  SafeInv'
<1>1. /\ TWInv' /\ UNCHANGED <<head, calls, intent, mode, hist>> /\ pc = "run" /\ pc' = "call"
      /\ mode # Plain
  BY StartTW DEF SafeInv, StartEffect, Journaled, head
<1>2. EntriesKept /\ Asked(entries', Key(intent), cursor + 1) = hist /\ cursor' = cursor + 1
  BY <1>1, StartEntries DEF EntriesKept, Asked, Binding, SafeInv
<1>3. PassedInv'
  BY <1>1, <1>2, CallReached
<1>4. CallsInv'
  BY <1>1, <1>2, CallsKept DEF SafeInv
<1>5. FreshInv'
  BY <1>1, StartFresh DEF FreshInv
<1>6. Journaled' /\ NeverReissued'
  BY <1>1 DEF Journaled, NeverReissued, SafeInv
<1>7. QED BY <1>1, <1>3, <1>4, <1>5, <1>6 DEF SafeInv

(* A step that leaves the worker with the journal as it is.                *)
LEMMA InvokeSafe ==
    ASSUME SafeInv, Invoke
    PROVE  SafeInv'
<1> DEFINE c == [gen |-> intent.gen, at |-> hist]
           S == [gen : 1..MaxGenerations, at : Seq(Answer)]
<1>1. /\ TWInv' /\ UNCHANGED <<disk, entries, head, intent, mode, cursor, hist>>
      /\ pc = "call" /\ pc' = "called" /\ mode # Plain
  BY CallTW DEF SafeInv, Invoke, disk, head, Journaled
<1>2. /\ intent = head /\ head.status = "uncertain" /\ Key(intent) \in Intent
      /\ cursor \in 1..Len(entries[Key(intent)])
      /\ Asked(entries, Key(intent), cursor) = hist
  BY <1>1, AtWork DEF SafeInv, PassedInv, Busy, TWInv, WorkInv
<1>3. calls \in Seq(S) /\ Len(calls) \in Nat
  BY LenProperties DEF SafeInv, TWInv, TypeOK
<1>4. c \in S
  BY <1>2, AtWork, <1>1 DEF SafeInv, Busy, Key, Intent
<1>5. /\ Len(calls') = Len(calls) + 1 /\ calls'[Len(calls) + 1] = c
      /\ \A n \in 1..Len(calls) : calls'[n] = calls[n]
  BY <1>3, <1>4, AppendProperties DEF Invoke
<1>6. c.gen = head.gen /\ c.at = hist /\ head.gen \in Nat
  BY <1>2, <1>4
<1>7. CallsInv'
  <2> SUFFICES ASSUME NEW n \in 1..Len(calls')
               PROVE  /\ calls'[n].gen <= head.gen
                      /\ calls'[n].gen = head.gen =>
                            \E m \in 1..Len(entries[Key(head)]) :
                                entries[Key(head)][m].binding.request = calls'[n].at
    BY <1>1 DEF CallsInv, Key
  <2>1. CASE n = Len(calls) + 1
    BY <1>2, <1>5, <1>6, <2>1 DEF Asked
  <2>2. CASE n \in 1..Len(calls)
    BY <1>2, <1>5, <2>2 DEF SafeInv, CallsInv
  <2>3. QED BY <1>3, <1>5, <2>1, <2>2
<1>8. PassedInv'
  BY <1>1 DEF SafeInv, PassedInv, Busy, Key
<1>9. FreshInv' /\ Journaled'
  BY <1>1 DEF FreshInv, Journaled
<1>10. NeverReissued'
  <2> SUFFICES ASSUME NEW k \in 1..Len(calls'), NEW n \in 1..Len(calls'),
                      k # n, calls'[k] = calls'[n]
               PROVE  Plan(calls'[k].at) = "read"
    BY DEF NeverReissued
  <2>1. CASE k \in 1..Len(calls) /\ n \in 1..Len(calls)
    BY <1>5, <2>1 DEF SafeInv, NeverReissued
  <2>2. ASSUME Plan(hist) # "read", NEW j \in 1..Len(calls), calls[j] = c PROVE FALSE
    BY <1>1, <2>2 DEF SafeInv, FreshInv
  <2>3. CASE k = Len(calls) + 1
    <3>1. n \in 1..Len(calls) /\ calls'[k] = c
      BY <1>3, <1>5, <2>3
    <3>2. calls[n] = c
      BY <1>5, <3>1
    <3>3. QED BY <1>6, <2>2, <3>1, <3>2
  <2>4. CASE n = Len(calls) + 1
    <3>1. k \in 1..Len(calls) /\ calls'[n] = c
      BY <1>3, <1>5, <2>4
    <3>2. calls[k] = c
      BY <1>5, <3>1
    <3>3. QED BY <1>6, <2>2, <3>1, <3>2
  <2>5. QED BY <1>3, <1>5, <2>1, <2>3, <2>4
<1>11. QED BY <1>1, <1>7, <1>8, <1>9, <1>10 DEF SafeInv

LEMMA AnswerSafe ==
    ASSUME SafeInv, ExpireUncalled \/ Settle
    PROVE  SafeInv'
<1>1. /\ TWInv' /\ UNCHANGED <<entries, head, calls, intent, mode, cursor, hist>>
      /\ pc \in {"call", "called"} /\ pc' = "answer"
  BY CallTW DEF SafeInv, ExpireUncalled, Settle, disk, head
<1>2. CallsInv'
  BY <1>1, EntriesSame, CallsKept DEF SafeInv
<1>3. PassedInv'
  BY <1>1 DEF SafeInv, PassedInv, Busy, Key
<1>4. FreshInv' /\ Journaled' /\ NeverReissued'
  BY <1>1 DEF FreshInv, Journaled, NeverReissued, SafeInv
<1>5. QED BY <1>1, <1>2, <1>3, <1>4 DEF SafeInv

LEMMA RecordSafe ==
    ASSUME SafeInv, RecordAnswer
    PROVE  SafeInv'
<1>1. /\ TWInv' /\ UNCHANGED <<head, calls, intent, mode, cursor>>
      /\ pc = "answer" /\ pc' = "run" /\ hist' = Append(hist, answer)
  BY RecordTW DEF SafeInv, RecordAnswer, head
<1>2. EntriesKept
  <2>1. \A j \in Intent : Len(entries[j]) \in Nat
    BY LenProperties DEF SafeInv, TWInv, TypeOK, DiskOK
  <2>2. QED BY <2>1, RecordEntries DEF EntriesKept, SafeInv
<1>3. CallsInv'
  BY <1>1, <1>2, CallsKept DEF SafeInv
<1>4. answer \in Answer /\ hist \in Seq(Answer)
  BY <1>1 DEF SafeInv, TWInv, TypeOK, WorkerOK, WorkInv
<1>5. Len(hist') = Len(hist) + 1 /\ Len(hist) \in Nat
  BY <1>1, <1>4, AppendProperties, LenProperties
<1>6. /\ Key(intent) \in Intent /\ cursor \in Nat
      /\ \A m \in 1..cursor : Len(Asked(entries, Key(intent), m)) <= Len(hist)
      /\ \A m \in 1..cursor : Len(Asked(entries, Key(intent), m)) \in Nat
      /\ \A m \in 1..cursor :
            Asked(entries', Key(intent), m) = Asked(entries, Key(intent), m)
  <2>1. /\ Key(intent) \in Intent /\ cursor \in Nat
        /\ cursor <= Len(entries[Key(intent)]) /\ Len(entries[Key(intent)]) \in Nat
        /\ \A m \in 1..Len(entries[Key(intent)]) : Len(Asked(entries, Key(intent), m)) \in Nat
    BY <1>1, AtWork DEF SafeInv, Busy
  <2>2. \A m \in 1..cursor : m \in 1..Len(entries[Key(intent)])
    BY <2>1
  <2>3. \A m \in 1..cursor : Len(Asked(entries, Key(intent), m)) <= Len(hist)
    BY <1>1 DEF SafeInv, PassedInv, Busy
  <2>4. \A m \in 1..cursor :
            Asked(entries', Key(intent), m) = Asked(entries, Key(intent), m)
    BY <1>2, <2>1, <2>2 DEF EntriesKept, Asked
  <2>5. QED BY <2>1, <2>2, <2>3, <2>4
<1>7. \A m \in 1..cursor : /\ Len(Asked(entries', Key(intent), m)) < Len(hist')
                           /\ Len(Asked(entries', Key(intent), m)) <= Len(hist')
  BY <1>5, <1>6
<1>8. PassedInv'
  BY <1>1, <1>7 DEF PassedInv, Key
<1>9. FreshInv' /\ Journaled' /\ NeverReissued'
  BY <1>1 DEF FreshInv, Journaled, NeverReissued, SafeInv
<1>10. QED BY <1>1, <1>3, <1>8, <1>9 DEF SafeInv

LEMMA PublishSafe ==
    ASSUME SafeInv, PublishReceipt
    PROVE  SafeInv'
<1>1. TWInv' /\ UNCHANGED <<chain, entries, head, calls>> /\ pc = "run"
  BY PublishTW DEF SafeInv, PublishReceipt, head
<1>2. CASE Stop
  BY <1>1, <1>2, StopSafe
<1>3. CASE pc' = "outcome" /\ UNCHANGED <<snap, intent, mode, recovering, cursor, hist, answer>>
  <2>1. CallsInv'
    BY <1>1, EntriesSame, CallsKept DEF SafeInv
  <2>2. PassedInv'
    BY <1>1, <1>3 DEF SafeInv, PassedInv, Busy, Key
  <2>3. FreshInv' /\ Journaled' /\ NeverReissued'
    BY <1>1, <1>3 DEF FreshInv, Journaled, NeverReissued, SafeInv
  <2>4. QED BY <1>1, <2>1, <2>2, <2>3 DEF SafeInv
<1>4. QED BY <1>2, <1>3 DEF PublishReceipt

LEMMA SaveOutcomeSafe ==
    ASSUME SafeInv, SaveOutcome
    PROVE  SafeInv'
<1>1. TWInv' /\ head' = Concluded(head, hist) /\ Stop /\ UNCHANGED <<entries, calls>>
  BY SaveOutcomeTW DEF SafeInv, SaveOutcome
<1>2. head'.gen = head.gen /\ head'.status # "uncertain"
  <2>1. head \in Record /\ hist \in Seq(Answer)
    BY FinalType DEF SafeInv, TWInv, TypeOK, DiskOK, WorkerOK, head
  <2>2. QED BY <1>1, <2>1, OutcomeType DEF Concluded
<1>3. CallsInv'
  BY <1>1, <1>2 DEF SafeInv, CallsInv
<1>4. PassedInv' /\ FreshInv' /\ Journaled' /\ NeverReissued'
  BY <1>1 DEF PassedInv, FreshInv, Busy, Stop, Journaled, SafeInv, NeverReissued
<1>5. QED BY <1>1, <1>3, <1>4 DEF SafeInv

LEMMA RecoverSafe ==
    ASSUME SafeInv, Recover
    PROVE  SafeInv'
<1>1. /\ TWInv' /\ UNCHANGED <<entries, head, calls>> /\ pc' = "run"
      /\ cursor = 0 /\ UNCHANGED cursor
  BY RecoverTW DEF SafeInv, Recover, head, TWInv, WorkInv
<1>2. mode' # Plain
  <2>1. Key(head) \in Intent /\ header \in [Intent -> Nat \union {None}]
    BY DEF SafeInv, TWInv, TypeOK, DiskOK, WorkInv, Recover
  <2>2. QED BY <2>1, ModeAssumption DEF Recover, Recoverable, Openable
<1>3. CallsInv'
  BY <1>1, EntriesSame, CallsKept DEF SafeInv
<1>4. PassedInv'
  <2>1. \A m \in 1..cursor' : FALSE
    BY <1>1
  <2>2. QED BY <1>1, <2>1 DEF PassedInv
<1>5. FreshInv' /\ Journaled' /\ NeverReissued'
  BY <1>1, <1>2 DEF FreshInv, Journaled, NeverReissued, SafeInv
<1>6. QED BY <1>1, <1>3, <1>4, <1>5 DEF SafeInv

LEMMA HostSafe ==
    ASSUME SafeInv, Inspect \/ Reconfigure \/ UNCHANGED vars
    PROVE  SafeInv'
<1>1. TWInv' /\ UNCHANGED <<disk, worker, entries, calls, head>>
  BY HostTW DEF SafeInv, Inspect, Reconfigure, vars, disk, head
<1>2. CallsInv'
  BY <1>1, EntriesSame, CallsKept DEF SafeInv
<1>3. PassedInv' /\ FreshInv' /\ Journaled' /\ NeverReissued'
  BY <1>1 DEF worker, PassedInv, FreshInv, Busy, Journaled, NeverReissued, SafeInv, Key
<1>4. QED BY <1>1, <1>2, <1>3 DEF SafeInv

LEMMA NextSafe ==
    ASSUME SafeInv, [Next]_vars, Plain \notin Mode(config)
    PROVE  SafeInv'
<1>1. CASE RefuseEffect \/ UnsettledDeadline \/ Crash
  <2>1. Stop /\ UNCHANGED <<disk, config, known, calls>>
    BY <1>1 DEF RefuseEffect, UnsettledDeadline, Crash
  <2>2. TWInv'
    BY <2>1, HaltTW DEF SafeInv
  <2>3. QED BY <2>1, <2>2, StopSafe DEF disk
<1>2. CASE Inspect \/ Reconfigure \/ UNCHANGED vars
  BY <1>2, HostSafe
<1>3. CASE Tick
  BY <1>3, TickSafe
<1>4. CASE CreateJournal \/ SaveIntent
  BY <1>4, CreateJournalSafe, SaveIntentSafe
<1>5. CASE ReplayEffect \/ RestartEffect \/ StartEffect
  BY <1>5, ReplaySafe, RestartSafe, StartSafe
<1>6. CASE Invoke \/ ExpireUncalled \/ Settle
  BY <1>6, InvokeSafe, AnswerSafe
<1>7. CASE RecordAnswer \/ PublishReceipt \/ SaveOutcome \/ Recover
  BY <1>7, RecordSafe, PublishSafe, SaveOutcomeSafe, RecoverSafe
<1>8. QED BY <1>1, <1>2, <1>3, <1>4, <1>5, <1>6, <1>7 DEF Next, Step
-----------------------------------------------------------------------------
LEMMA PrefixSame ==
    ASSUME NEW S, NEW s \in Seq(S)
    PROVE  Prefix(s, s)
<1>1. Len(s) \in Nat /\ s = SubSeq(s, 1, Len(s))
  BY LenProperties, SubSeqFull
<1>2. QED BY <1>1 DEF Prefix

LEMMA PrefixAppend ==
    ASSUME NEW S, NEW s \in Seq(S), NEW e \in S
    PROVE  Prefix(s, Append(s, e))
<1> DEFINE t == Append(s, e)
<1>1. /\ t \in Seq(S) /\ Len(t) = Len(s) + 1 /\ Len(s) \in Nat
      /\ \A n \in 1..Len(s) : t[n] = s[n]
  BY AppendProperties, LenProperties
<1> HIDE DEF t
<1>2. /\ \A n \in 1..Len(s) : t[n] \in S
      /\ 1 \in Int /\ Len(s) \in Int
  BY <1>1, ElementOfSeq
<1>3. /\ SubSeq(t, 1, Len(s)) \in Seq(S)
      /\ Len(SubSeq(t, 1, Len(s))) = Len(s)
      /\ \A n \in 1..Len(s) : SubSeq(t, 1, Len(s))[n] = t[n]
  BY <1>1, <1>2, SubSeqProperties
<1>4. s = SubSeq(t, 1, Len(s))
  BY <1>1, <1>3, SeqEqual
<1>5. QED BY <1>1, <1>4 DEF Prefix, t

(* Published history is only ever extended, from whatever snapshot of it   *)
(* the scheduler took before the lease.                                    *)
THEOREM HistoryOnlyGrows == Spec => HistoryGrows
<1>1. TWInv /\ [Next]_vars => [Prefix(chain, chain')]_vars
  <2> SUFFICES ASSUME TWInv, [Next]_vars PROVE Prefix(chain, chain') \/ UNCHANGED vars
    OBVIOUS
  <2>1. chain \in Seq(Record) /\ chain # <<>> /\ hist \in Seq(Answer)
    BY DEF TWInv, TypeOK, DiskOK, WorkerOK
  <2>2. CASE SaveIntent
    <3>1. chain' = Append(chain, intent) /\ intent \in Record
      BY <2>2 DEF SaveIntent, TWInv, WorkInv
    <3>2. QED BY <2>1, <3>1, PrefixAppend
  <2>3. CASE SaveOutcome
    <3>1. chain' = Append(chain, Concluded(head, hist)) /\ head \in Record
      BY <2>1, <2>3, FinalType DEF SaveOutcome, TWInv, WorkInv, Busy, head
    <3>2. Concluded(head, hist) \in Record
      BY <2>1, <3>1, OutcomeType
    <3>3. QED BY <2>1, <3>1, <3>2, PrefixAppend
  <2>4. CASE UNCHANGED chain
    BY <2>1, <2>4, PrefixSame
  <2>5. QED BY <2>2, <2>3, <2>4
          DEF Next, Step, vars, disk, Inspect, Tick, CreateJournal, ReplayEffect, RestartEffect,
              StartEffect, RefuseEffect, Invoke, ExpireUncalled, Settle, UnsettledDeadline,
              RecordAnswer, PublishReceipt, Recover, Crash, Reconfigure
<1>2. QED BY InitTW, NextTW, <1>1, PTL DEF Spec, HistoryGrows
-----------------------------------------------------------------------------
(* A run never goes on after a suspension, so what a process replays has   *)
(* none: in no published receipt, and in nothing a worker was answered.    *)
Clean(h) == \A n \in 1..Len(h) - 1 : h[n] \notin Suspension

(* The worker's answers begin with the ones the published head settled.    *)
SpanInv ==
    /\ head.receipt # None => Clean(head.receipt)
    /\ pc \in {"journal", "intent"} => ValidIntent(head, intent) /\ hist = Settled(intent.receipt)
    /\ pc \in Busy => Prefix(Settled(head.receipt), hist) /\ Clean(hist)
    /\ pc \in {"call", "called", "answer"} => ~ Suspended(hist)

SpanIInv == TWInv /\ HistoryAccepted /\ SpanInv

(* The first k elements of a sequence.                                     *)
LEMMA Cut ==
    ASSUME NEW S, NEW s, NEW k \in Nat, \A n \in 1..k : s[n] \in S
    PROVE  /\ SubSeq(s, 1, k) \in Seq(S)
           /\ Len(SubSeq(s, 1, k)) = k
           /\ \A n \in 1..k : SubSeq(s, 1, k)[n] = s[n]
<1> DEFINE u == SubSeq(s, 1, k)
<1>1. /\ u \in Seq(S)
      /\ Len(u) = IF 1 <= k THEN k - 1 + 1 ELSE 0
      /\ \A n \in 1..k - 1 + 1 : u[n] = s[1 + n - 1]
  BY SubSeqProperties
<1> HIDE DEF u
<1>2. Len(u) = k /\ \A n \in 1..k : u[n] = s[n]
  BY <1>1
<1>3. QED BY <1>1, <1>2 DEF u

(* A prefix, element by element.                                           *)
LEMMA PrefixElements ==
    ASSUME NEW S, NEW s \in Seq(S), NEW t \in Seq(S)
    PROVE  Prefix(s, t) <=> Len(s) <= Len(t) /\ \A n \in 1..Len(s) : s[n] = t[n]
<1>1. /\ Len(s) \in Nat /\ Len(t) \in Nat
      /\ \A n \in 1..Len(t) : t[n] \in S
  BY LenProperties, ElementOfSeq
<1>2. ASSUME Len(s) <= Len(t)
      PROVE  s = SubSeq(t, 1, Len(s)) <=> \A n \in 1..Len(s) : s[n] = t[n]
  <2> DEFINE u == SubSeq(t, 1, Len(s))
  <2>1. \A n \in 1..Len(s) : t[n] \in S
    BY <1>1, <1>2
  <2>2. u \in Seq(S) /\ Len(u) = Len(s) /\ \A n \in 1..Len(s) : u[n] = t[n]
    BY <1>1, <2>1, Cut
  <2> HIDE DEF u
  <2>4. (\A n \in 1..Len(s) : s[n] = t[n]) => s = u
    BY <2>2, SeqEqual
  <2>5. s = u => \A n \in 1..Len(s) : s[n] = t[n]
    BY <2>2
  <2>6. QED BY <2>4, <2>5 DEF u
<1>3. QED BY <1>2 DEF Prefix

(* What a continuation replays of a receipt, element by element.           *)
LEMMA SettledElements ==
    ASSUME NEW r \in Seq(Answer)
    PROVE  /\ Settled(r) \in Seq(Answer) /\ Len(r) \in Nat
           /\ Len(Settled(r)) = IF Suspended(r) THEN Len(r) - 1 ELSE Len(r)
           /\ \A n \in 1..Len(Settled(r)) : Settled(r)[n] = r[n]
<1>1. r # None /\ Len(r) \in Nat /\ \A n \in 1..Len(r) : r[n] \in Answer
  BY NoneAssumption, LenProperties, ElementOfSeq
<1>2. CASE ~ Suspended(r)
  BY <1>1, <1>2 DEF Settled
<1>3. CASE Suspended(r)
  <2>1. Len(r) > 0
    BY <1>3, EmptySeq DEF Suspended
  <2>2. PICK k \in Nat : k = Len(r) - 1
    BY <1>1, <2>1
  <2> DEFINE u == SubSeq(r, 1, k)
  <2>3. Settled(r) = u
    BY <1>1, <1>3, <2>2 DEF Settled
  <2>4. \A n \in 1..k : r[n] \in Answer
    BY <1>1, <2>2
  <2>5. u \in Seq(Answer) /\ Len(u) = k /\ \A n \in 1..k : u[n] = r[n]
    BY <2>4, Cut
  <2> HIDE DEF u
  <2>6. QED BY <1>1, <1>3, <2>2, <2>3, <2>5
<1>4. QED BY <1>2, <1>3

(* One more answer keeps a prefix, and a run that has not suspended clean. *)
LEMMA PrefixOfAppend ==
    ASSUME NEW S, NEW p \in Seq(S), NEW s \in Seq(S), NEW e \in S, Prefix(p, s)
    PROVE  Prefix(p, Append(s, e))
<1> DEFINE t == Append(s, e)
<1>1. /\ t \in Seq(S) /\ Len(t) = Len(s) + 1 /\ Len(s) \in Nat /\ Len(p) \in Nat
      /\ \A n \in 1..Len(s) : t[n] = s[n]
  BY AppendProperties, LenProperties
<1> HIDE DEF t
<1>2. Len(p) <= Len(s) /\ \A n \in 1..Len(p) : p[n] = s[n]
  BY PrefixElements
<1>3. Len(p) <= Len(t) /\ \A n \in 1..Len(p) : p[n] = t[n]
  BY <1>1, <1>2
<1>4. Prefix(p, t)
  BY <1>1, <1>3, PrefixElements
<1>5. QED BY <1>4 DEF t

LEMMA CleanAppend ==
    ASSUME NEW h \in Seq(Answer), NEW a \in Answer, Clean(h), ~ Suspended(h)
    PROVE  Clean(Append(h, a))
<1> DEFINE t == Append(h, a)
<1>1. /\ Len(t) = Len(h) + 1 /\ Len(h) \in Nat
      /\ \A n \in 1..Len(h) : t[n] = h[n]
  BY AppendProperties, LenProperties
<1>2. \A n \in 1..Len(h) : h[n] \notin Suspension
  <2>1. Len(h) > 0 => h[Len(h)] \notin Suspension
    BY <1>1, EmptySeq DEF Suspended, Final
  <2>2. QED BY <1>1, <2>1 DEF Clean
<1> HIDE DEF t
<1>3. \A n \in 1..Len(t) - 1 : t[n] \notin Suspension
  BY <1>1, <1>2
<1>4. QED BY <1>3 DEF Clean, t

(* What a clean receipt settled has no suspension at all.                  *)
LEMMA SettledClean ==
    ASSUME NEW r \in Seq(Answer) \union {None}, r # None => Clean(r)
    PROVE  /\ Settled(r) \in Seq(Answer) /\ Len(Settled(r)) \in Nat
           /\ \A n \in 1..Len(Settled(r)) : Settled(r)[n] \notin Suspension
<1>1. CASE r = None
  <2>1. Settled(r) = <<>> /\ <<>> \in Seq(Answer) /\ Len(<<>>) = 0
    BY <1>1, EmptySeq DEF Settled
  <2>2. QED BY <2>1
<1>2. CASE r # None
  <2>1. /\ Settled(r) \in Seq(Answer) /\ Len(r) \in Nat
        /\ Len(Settled(r)) = IF Suspended(r) THEN Len(r) - 1 ELSE Len(r)
        /\ \A n \in 1..Len(Settled(r)) : Settled(r)[n] = r[n]
    BY <1>2, SettledElements
  <2>2. \A n \in 1..Len(r) - 1 : r[n] \notin Suspension
    BY <1>2 DEF Clean
  <2>3. ~ Suspended(r) /\ Len(r) > 0 => r[Len(r)] \notin Suspension
    BY <1>2, EmptySeq DEF Suspended, Final
  <2>4. Len(Settled(r)) \in Nat
    BY <2>1, LenProperties
  <2>5. QED BY <2>1, <2>2, <2>3, <2>4
<1>3. QED BY <1>1, <1>2

(* A chain grows by what its reader accepts after its last record.         *)
LEMMA AcceptsAppend ==
    ASSUME NEW c \in Seq(Record), c # <<>>, Accepts(c), NEW x \in Record,
           IF x.status = "uncertain" THEN ValidIntent(Final(c), x) ELSE ValidOutcome(Final(c), x)
    PROVE  Accepts(Append(c, x))
<1> DEFINE d == Append(c, x)
<1>1. /\ Len(c) \in Nat /\ Len(c) > 0 /\ Len(d) = Len(c) + 1
      /\ d[Len(c) + 1] = x /\ \A n \in 1..Len(c) : d[n] = c[n]
  BY AppendProperties, LenProperties, EmptySeq
<1> HIDE DEF d
<1>2. d[1] = Initial
  BY <1>1 DEF Accepts
<1>3. ASSUME NEW n \in 2..Len(d)
      PROVE  IF d[n].status = "uncertain" THEN ValidIntent(d[n - 1], d[n])
             ELSE ValidOutcome(d[n - 1], d[n])
  <2>1. CASE n = Len(d)
    <3>1. d[n] = x /\ d[n - 1] = Final(c)
      BY <1>1, <2>1 DEF Final
    <3>2. QED BY <3>1
  <2>2. CASE n # Len(d)
    <3>1. n \in 2..Len(c) /\ d[n] = c[n] /\ d[n - 1] = c[n - 1]
      BY <1>1, <2>2
    <3>2. QED BY <3>1 DEF Accepts
  <2>3. QED BY <2>1, <2>2
<1>4. Accepts(d)
  BY <1>2, <1>3 DEF Accepts
<1>5. QED BY <1>4 DEF d
-----------------------------------------------------------------------------
(* What a dispatch starts from is a clean prefix of itself.                *)
LEMMA SpanStart ==
    ASSUME SpanIInv
    PROVE  /\ head \in Record
           /\ Settled(head.receipt) \in Seq(Answer)
           /\ Prefix(Settled(head.receipt), Settled(head.receipt))
           /\ Clean(Settled(head.receipt))
<1>1. head \in Record
  BY FinalType DEF SpanIInv, TWInv, TypeOK, DiskOK, head
<1>2. /\ head.receipt \in Seq(Answer) \union {None}
      /\ head.receipt # None => Clean(head.receipt)
  BY <1>1 DEF Record, SpanIInv, SpanInv
<1>3. /\ Settled(head.receipt) \in Seq(Answer) /\ Len(Settled(head.receipt)) \in Nat
      /\ \A n \in 1..Len(Settled(head.receipt)) : Settled(head.receipt)[n] \notin Suspension
  BY <1>2, SettledClean
<1>4. Clean(Settled(head.receipt))
  BY <1>3 DEF Clean
<1>5. QED BY <1>1, <1>3, <1>4, PrefixSame

LEMMA InitSpan == Init => SpanIInv
<1> SUFFICES ASSUME Init PROVE SpanIInv
  OBVIOUS
<1>1. chain = <<Initial>> /\ head = Initial /\ pc = "idle"
  BY DEF Init, head, Final
<1>2. HistoryAccepted
  <2>1. chain[1] = Initial /\ \A n \in 2..Len(chain) : FALSE
    BY <1>1
  <2>2. QED BY <2>1 DEF HistoryAccepted, Accepts
<1>3. SpanInv
  BY <1>1 DEF SpanInv, Busy, Initial
<1>4. QED BY <1>2, <1>3, InitTW DEF SpanIInv

(* A step that publishes nothing keeps what is published.                  *)
LEMMA SpanQuiet ==
    ASSUME SpanIInv, TWInv', UNCHANGED chain,
           pc' \in {"journal", "intent"} => ValidIntent(head, intent') /\ hist' = Settled(intent'.receipt),
           pc' \in Busy => Prefix(Settled(head.receipt), hist') /\ Clean(hist'),
           pc' \in {"call", "called", "answer"} => ~ Suspended(hist')
    PROVE  SpanIInv'
<1>1. UNCHANGED head
  BY DEF head
<1>2. HistoryAccepted'
  BY DEF SpanIInv, HistoryAccepted
<1>3. SpanInv'
  BY <1>1 DEF SpanIInv, SpanInv
<1>4. QED BY <1>2, <1>3 DEF SpanIInv

LEMMA SpanTick == SpanIInv /\ Tick => SpanIInv'
<1> SUFFICES ASSUME SpanIInv, Tick PROVE SpanIInv'
  OBVIOUS
<1>1. TWInv' /\ UNCHANGED chain /\ pc' \in {"journal", "intent"}
  BY TickTW DEF SpanIInv, Tick, disk
<1>2. snap' = chain
  BY DEF Tick
<1>3. PICK c \in CausesFrom(head) : intent' = Dispatched(head, c)
  BY <1>2 DEF Tick, head
<1>4. head.status \in {"ready", "suspended"} /\ hist' = Settled(head.receipt)
  BY <1>2 DEF Tick, head
<1>5. ValidIntent(head, intent') /\ hist' = Settled(intent'.receipt)
  BY <1>3, <1>4 DEF ValidIntent, Dispatched
<1>6. pc' \notin Busy /\ pc' \notin {"call", "called", "answer"}
  BY <1>1 DEF Busy
<1>7. QED BY <1>1, <1>5, <1>6, SpanQuiet

LEMMA SpanSaveIntent == SpanIInv /\ SaveIntent => SpanIInv'
<1> SUFFICES ASSUME SpanIInv, SaveIntent PROVE SpanIInv'
  OBVIOUS
<1>1. TWInv' /\ head' = intent /\ pc' = "run"
  BY SaveIntentTW DEF SpanIInv, SaveIntent
<1>2. /\ chain \in Seq(Record) /\ chain # <<>> /\ chain' = Append(chain, intent)
      /\ intent \in Record /\ intent.status = "uncertain"
  BY DEF SaveIntent, SpanIInv, TWInv, TypeOK, DiskOK, WorkInv
<1>3. ValidIntent(head, intent) /\ hist = Settled(intent.receipt)
  BY DEF SaveIntent, SpanIInv, SpanInv
<1>4. HistoryAccepted'
  BY <1>2, <1>3, AcceptsAppend DEF SpanIInv, HistoryAccepted, head
<1>5. head'.receipt = head.receipt /\ hist' = Settled(head.receipt)
  BY <1>1, <1>3 DEF SaveIntent, ValidIntent
<1>6. SpanInv'
  BY <1>1, <1>5, SpanStart DEF SpanIInv, SpanInv, Busy
<1>7. QED BY <1>1, <1>4, <1>6 DEF SpanIInv

(* A run that goes on with one more answer.                                *)
LEMMA SpanAnswer ==
    ASSUME SpanIInv, TWInv', UNCHANGED <<chain>>, pc \in Busy, ~ Suspended(hist), pc' = "run",
           NEW a \in Answer, hist' = Append(hist, a)
    PROVE  SpanIInv'
<1>1. hist \in Seq(Answer) /\ Prefix(Settled(head.receipt), hist) /\ Clean(hist)
  BY DEF SpanIInv, SpanInv, TWInv, TypeOK, WorkerOK
<1>2. Prefix(Settled(head.receipt), hist')
  BY <1>1, SpanStart, PrefixOfAppend
<1>3. Clean(hist')
  BY <1>1, CleanAppend
<1>4. QED BY <1>2, <1>3, SpanQuiet

LEMMA SpanReplay == SpanIInv /\ ReplayEffect => SpanIInv'
<1> SUFFICES ASSUME SpanIInv, ReplayEffect PROVE SpanIInv'
  OBVIOUS
<1>1. /\ TWInv' /\ UNCHANGED chain /\ pc = "run" /\ pc' = "run" /\ ~ Suspended(hist)
      /\ hist' = Append(hist, Recorded.result)
  BY ReplayTW DEF SpanIInv, ReplayEffect, AtRecorded, Running, disk
<1>2. Recorded.result \in Answer
  BY RecordedType DEF SpanIInv, ReplayEffect, Started, Entry
<1>3. QED BY <1>1, <1>2, SpanAnswer DEF Busy

LEMMA SpanRecord == SpanIInv /\ RecordAnswer => SpanIInv'
<1> SUFFICES ASSUME SpanIInv, RecordAnswer PROVE SpanIInv'
  OBVIOUS
<1>1. /\ TWInv' /\ UNCHANGED chain /\ pc = "answer" /\ pc' = "run"
      /\ hist' = Append(hist, answer)
  BY RecordTW DEF SpanIInv, RecordAnswer
<1>2. answer \in Answer /\ ~ Suspended(hist)
  BY <1>1 DEF SpanIInv, SpanInv, TWInv, WorkInv
<1>3. QED BY <1>1, <1>2, SpanAnswer DEF Busy

LEMMA SpanCall ==
    SpanIInv /\ (StartEffect \/ RestartEffect \/ Invoke \/ ExpireUncalled \/ Settle) => SpanIInv'
<1> SUFFICES ASSUME SpanIInv, StartEffect \/ RestartEffect \/ Invoke \/ ExpireUncalled \/ Settle
             PROVE  SpanIInv'
  OBVIOUS
<1>1. TWInv'
  BY StartTW, RestartTW, CallTW DEF SpanIInv
<1>2. UNCHANGED <<chain, hist>> /\ pc \in Busy /\ pc' \in {"call", "called", "answer"}
  BY DEF StartEffect, RestartEffect, AtRecorded, Invoke, ExpireUncalled, Settle, disk, Busy
<1>3. ~ Suspended(hist)
  BY DEF StartEffect, RestartEffect, AtRecorded, Invoke, ExpireUncalled, Settle, Running,
         SpanIInv, SpanInv
<1>4. Prefix(Settled(head.receipt), hist) /\ Clean(hist)
  BY <1>2 DEF SpanIInv, SpanInv
<1>5. pc' \notin {"journal", "intent"}
  BY <1>2
<1>6. QED BY <1>1, <1>2, <1>3, <1>4, <1>5, SpanQuiet

LEMMA SpanSaveOutcome == SpanIInv /\ SaveOutcome => SpanIInv'
<1> SUFFICES ASSUME SpanIInv, SaveOutcome PROVE SpanIInv'
  OBVIOUS
<1> DEFINE o == Concluded(head, hist)
<1>1. TWInv' /\ head' = o /\ pc' = "idle"
  BY SaveOutcomeTW DEF SpanIInv, SaveOutcome, Stop
<1>2. /\ chain \in Seq(Record) /\ chain # <<>> /\ chain' = Append(chain, o)
      /\ head.status = "uncertain" /\ hist \in Seq(Answer)
  BY DEF SaveOutcome, SpanIInv, TWInv, TypeOK, DiskOK, WorkerOK, WorkInv, Busy
<1>3. Prefix(Settled(head.receipt), hist) /\ Clean(hist)
  BY DEF SaveOutcome, SpanIInv, SpanInv, Busy
<1>4. o \in Record /\ o.status # "uncertain"
  BY <1>2, SpanStart, OutcomeType
<1>5. ValidOutcome(head, o)
  <2>1. o.status # "ready"
    BY DEF Concluded, OutcomeOf, Outcome
  <2>2. o.receipt # None
    BY <1>2, NoneAssumption DEF Concluded
  <2>3. QED BY <1>2, <1>3, <2>1, <2>2 DEF ValidOutcome, Concluded
<1>6. HistoryAccepted'
  BY <1>2, <1>4, <1>5, AcceptsAppend DEF SpanIInv, HistoryAccepted, head
<1>7. SpanInv'
  BY <1>1, <1>3 DEF SpanInv, Busy, Concluded
<1>8. QED BY <1>1, <1>6, <1>7 DEF SpanIInv

LEMMA SpanRecover == SpanIInv /\ Recover => SpanIInv'
<1> SUFFICES ASSUME SpanIInv, Recover PROVE SpanIInv'
  OBVIOUS
<1>1. TWInv' /\ UNCHANGED chain /\ pc' = "run" /\ hist' = Settled(head.receipt)
  BY RecoverTW DEF SpanIInv, Recover
<1>2. QED BY <1>1, SpanStart, SpanQuiet

(* A step that releases the lease or leaves the worker as it is, but for   *)
(* where it is.                                                            *)
LEMMA SpanRest ==
    ASSUME SpanIInv,
           Inspect \/ Reconfigure \/ CreateJournal \/ PublishReceipt \/ RefuseEffect
             \/ UnsettledDeadline \/ Crash \/ UNCHANGED vars
    PROVE  SpanIInv'
<1>1. TWInv'
  BY NextTW DEF SpanIInv, Next, Step
<1>2. UNCHANGED <<chain, head>>
  BY DEF Inspect, Reconfigure, CreateJournal, PublishReceipt, RefuseEffect,
         UnsettledDeadline, Crash, vars, disk, head
<1>3. \/ pc' = "idle"
      \/ UNCHANGED <<pc, intent, hist>>
      \/ pc = "journal" /\ pc' = "intent" /\ UNCHANGED <<intent, hist>>
      \/ pc = "run" /\ pc' = "outcome" /\ UNCHANGED <<intent, hist>>
  BY DEF Inspect, Reconfigure, CreateJournal, PublishReceipt, RefuseEffect,
         UnsettledDeadline, Crash, vars, worker, Stop
<1>4. QED BY <1>1, <1>2, <1>3, SpanQuiet DEF SpanIInv, SpanInv, Busy

LEMMA NextSpan == SpanIInv /\ [Next]_vars => SpanIInv'
BY SpanTick, SpanSaveIntent, SpanReplay, SpanRecord, SpanCall, SpanSaveOutcome, SpanRecover, SpanRest
   DEF Next, Step

(* Every chain of records the supervisor writes, through any crashes,      *)
(* recoveries, reconfigurations and stale inspections, is one that its     *)
(* reader accepts.                                                         *)
THEOREM AcceptedByItsReader == Spec => []HistoryAccepted
<1>1. SpanIInv => HistoryAccepted
  BY DEF SpanIInv
<1>2. QED BY InitSpan, NextSpan, <1>1, PTL DEF Spec
-----------------------------------------------------------------------------
(* Sequences of answers without a suspension.                              *)
LEMMA Unsuspended ==
    ASSUME NEW h \in Seq(Answer), \A n \in 1..Len(h) : h[n] \notin Suspension
    PROVE  h \in Seq(Answer \ Suspension)
<1>1. PICK k \in Nat : k = Len(h)
  BY LenProperties
<1>2. h \in [1..k -> Answer]
  BY <1>1, LenProperties
<1>3. h \in [1..k -> Answer \ Suspension]
  BY <1>1, <1>2
<1>4. QED BY <1>3, SeqDef

AbstractStep == [Abstract!Next]_(Abstract!processVars)

(* An intent that becomes the head is a dispatch.                          *)
LEMMA DispatchRefines == SpanIInv /\ SaveIntent => Abstract!Dispatch
<1> SUFFICES ASSUME SpanIInv, SaveIntent PROVE Abstract!Dispatch
  OBVIOUS
<1>1. head' = intent /\ UNCHANGED calls
  BY SaveIntentTW DEF SpanIInv, SaveIntent
<1>2. ValidIntent(head, intent) /\ intent.status = "uncertain" /\ Key(intent) \in Intent
  BY DEF SaveIntent, SpanIInv, SpanInv, TWInv, WorkInv
<1>3. head.gen \in Nat /\ intent.gen = head.gen + 1 /\ intent.gen <= MaxGenerations
  BY <1>2, SpanStart, BoundAssumption DEF ValidIntent, Key, Intent, Record
<1>4. head.gen < MaxGenerations
  BY <1>3, BoundAssumption
<1>5. QED BY <1>1, <1>2, <1>3, <1>4 DEF Abstract!Dispatch, ValidIntent

(* A call is for an answer that nothing published gives yet.               *)
LEMMA CallRefines == SpanIInv /\ Invoke => Abstract!Call
<1> SUFFICES ASSUME SpanIInv, Invoke PROVE Abstract!Call
  OBVIOUS
<1> DEFINE c == [gen |-> intent.gen, at |-> hist]
           S == [gen : 1..MaxGenerations, at : Seq(Answer)]
<1>1. UNCHANGED <<chain, head>> /\ calls' = Append(calls, c) /\ pc = "call"
  BY DEF Invoke, disk, head
<1>2. /\ intent = head /\ head.status = "uncertain" /\ Key(intent) \in Intent
      /\ hist \in Seq(Answer) /\ calls \in Seq(S)
  BY <1>1 DEF SpanIInv, TWInv, TypeOK, WorkerOK, WorkInv, Busy
<1>3. c \in S /\ c.gen = head.gen /\ c.at = hist
  BY <1>2 DEF Key, Intent
<1>4. Len(calls') = Len(calls) + 1 /\ calls'[Len(calls')] = c /\ Prefix(calls, calls')
  <2> HIDE DEF c, S
  <2>1. Len(Append(calls, c)) = Len(calls) + 1 /\ Append(calls, c)[Len(calls) + 1] = c
    BY <1>2, <1>3, AppendProperties
  <2>2. QED BY <1>1, <1>2, <1>3, <2>1, PrefixAppend
<1>5. Prefix(Settled(head.receipt), hist) /\ Clean(hist) /\ ~ Suspended(hist)
  BY <1>1 DEF SpanIInv, SpanInv, Busy
<1>6. hist \in Seq(Answer \ Suspension)
  <2>1. Settled(hist) = hist
    BY <1>2, <1>5, NoneAssumption DEF Settled
  <2>2. \A n \in 1..Len(hist) : hist[n] \notin Suspension
    BY <1>2, <1>5, <2>1, SettledClean
  <2>3. QED BY <1>2, <2>2, Unsuspended
<1>7. Abstract!Replayable(hist)
  BY <1>5, <1>6 DEF Abstract!Replayable, Abstract!Extends, Prefix
<1>8. QED BY <1>1, <1>2, <1>3, <1>4, <1>7 DEF Abstract!Call, Abstract!Extends, Prefix

(* What an outcome leaves to replay extends what its dispatch started from.*)
LEMMA SettledExtends ==
    ASSUME NEW p \in Seq(Answer), NEW h \in Seq(Answer), Prefix(p, h),
           \A n \in 1..Len(p) : p[n] \notin Suspension
    PROVE  Prefix(p, Settled(h))
<1> DEFINE t == Settled(h)
<1>1. /\ t \in Seq(Answer) /\ Len(h) \in Nat /\ Len(p) \in Nat
      /\ Len(t) = IF Suspended(h) THEN Len(h) - 1 ELSE Len(h)
      /\ \A n \in 1..Len(t) : t[n] = h[n]
  BY SettledElements, LenProperties
<1>2. Len(p) <= Len(h) /\ \A n \in 1..Len(p) : p[n] = h[n]
  BY PrefixElements
<1> HIDE DEF t
<1>3. Suspended(h) => Len(p) # Len(h)
  <2> SUFFICES ASSUME Suspended(h), Len(p) = Len(h) PROVE FALSE
    OBVIOUS
  <2>1. Len(h) > 0 /\ h[Len(h)] \in Suspension
    BY EmptySeq DEF Suspended, Final
  <2>2. QED BY <1>1, <1>2, <2>1
<1>4. Len(p) <= Len(t) /\ \A n \in 1..Len(p) : p[n] = t[n]
  BY <1>1, <1>2, <1>3
<1>5. Prefix(p, t)
  BY <1>1, <1>4, PrefixElements
<1>6. QED BY <1>5 DEF t

LEMMA ConcludeRefines == SpanIInv /\ SaveOutcome => Abstract!Conclude
<1> SUFFICES ASSUME SpanIInv, SaveOutcome PROVE Abstract!Conclude
  OBVIOUS
<1>1. /\ head' = Concluded(head, hist) /\ UNCHANGED calls
      /\ head.status = "uncertain" /\ hist \in Seq(Answer)
      /\ Prefix(Settled(head.receipt), hist) /\ Clean(hist)
  BY SaveOutcomeTW DEF SpanIInv, SpanInv, SaveOutcome, TWInv, TypeOK, WorkerOK, WorkInv, Busy
<1>2. /\ head'.status \in {"suspended"} \union Outcome /\ head'.receipt = hist /\ head'.gen = head.gen
  BY <1>1 DEF Concluded, OutcomeOf, Outcome
<1>3. /\ Settled(hist) \in Seq(Answer)
      /\ \A n \in 1..Len(Settled(hist)) : Settled(hist)[n] \notin Suspension
  BY <1>1, SettledClean
<1>4. Settled(hist) \in Seq(Answer \ Suspension)
  BY <1>3, Unsuspended
<1>5. Prefix(Settled(head.receipt), Settled(hist))
  <2>1. head.receipt \in Seq(Answer) \union {None} /\ (head.receipt # None => Clean(head.receipt))
    BY SpanStart DEF Record, SpanIInv, SpanInv
  <2>2. /\ Settled(head.receipt) \in Seq(Answer)
        /\ \A n \in 1..Len(Settled(head.receipt)) : Settled(head.receipt)[n] \notin Suspension
    BY <2>1, SettledClean
  <2>3. QED BY <1>1, <2>2, SettledExtends
<1>6. QED
  BY <1>1, <1>2, <1>4, <1>5
  DEF Abstract!Conclude, Abstract!Replayable, Abstract!Extends, Prefix, Outcome

LEMMA StepRefines == SpanIInv /\ [Next]_vars => AbstractStep
<1> SUFFICES ASSUME SpanIInv, [Next]_vars PROVE AbstractStep
  OBVIOUS
<1>1. CASE SaveIntent
  BY <1>1, DispatchRefines DEF AbstractStep, Abstract!Next
<1>2. CASE Invoke
  BY <1>2, CallRefines DEF AbstractStep, Abstract!Next
<1>3. CASE SaveOutcome
  BY <1>3, ConcludeRefines DEF AbstractStep, Abstract!Next
<1>4. CASE UNCHANGED <<chain, calls>>
  BY <1>4 DEF AbstractStep, Abstract!processVars, head
<1>5. QED BY <1>1, <1>2, <1>3, <1>4
        DEF Next, Step, vars, disk, Inspect, Tick, CreateJournal, ReplayEffect, RestartEffect,
            StartEffect, RefuseEffect, ExpireUncalled, Settle, UnsettledDeadline,
            RecordAnswer, PublishReceipt, Recover, Crash, Reconfigure

(* For every program and every interleaving of dispatches, crashes and     *)
(* recoveries, a process calls the outside only under its published        *)
(* dispatch, never for an answer it has published, and ends a dispatch by  *)
(* extending the answers it started from.                                  *)
THEOREM Refinement == Spec => ImplementsDurable
<1>1. Init => Abstract!Init
  <2> SUFFICES ASSUME Init PROVE Abstract!Init
    OBVIOUS
  <2>1. head = Initial /\ calls = <<>>
    BY DEF Init, head, Final
  <2>2. QED BY <2>1 DEF Abstract!Init, Initial, Settled
<1>2. SpanIInv /\ [Next]_vars => [Abstract!Next]_(Abstract!processVars)
  BY StepRefines DEF AbstractStep
<1>3. QED BY InitSpan, NextSpan, <1>1, <1>2, PTL DEF Spec, ImplementsDurable, Abstract!Spec
-----------------------------------------------------------------------------
(* The worker has passed settled entries only, but for the call it makes;  *)
(* what a recovery has not passed was not started again in it.             *)
LadderInv ==
    /\ recovering => pc \in Busy
    /\ pc \in Busy /\ mode # Plain =>
        \A m \in 1..Len(entries[Key(intent)]) :
            /\ m <= cursor /\ (pc \in {"run", "outcome"} \/ m < cursor)
                  => ~ Started(entries[Key(intent)][m])
            /\ m > cursor /\ recovering
                  => entries[Key(intent)][m].attempt < recoveries[Key(intent)]

OpenIInv == TWInv /\ Reopenable /\ LadderInv

(* Only one entry of one journal changes.                                  *)
LEMMA EntryPut ==
    ASSUME NEW E \in [Intent -> Seq(Entry)], NEW i \in Intent,
           NEW n \in 1..Len(E[i]), NEW e \in Entry
    PROVE  LET F == [E EXCEPT ![i] = [@ EXCEPT ![n] = e]] IN
           /\ \A j \in Intent : j # i => F[j] = E[j]
           /\ Len(F[i]) = Len(E[i])
           /\ \A m \in 1..Len(E[i]) : F[i][m] = IF m = n THEN e ELSE E[i][m]
<1>1. E[i] \in Seq(Entry)
  OBVIOUS
<1>2. /\ Len([E[i] EXCEPT ![n] = e]) = Len(E[i])
      /\ \A m \in 1..Len(E[i]) : [E[i] EXCEPT ![n] = e][m] = IF m = n THEN e ELSE E[i][m]
  BY <1>1, ExceptSeq
<1>3. QED BY <1>2

(* Only one journal grows, by one entry.                                   *)
LEMMA EntryAppend ==
    ASSUME NEW E \in [Intent -> Seq(Entry)], NEW i \in Intent, NEW e \in Entry
    PROVE  LET F == [E EXCEPT ![i] = Append(@, e)] IN
           /\ \A j \in Intent : j # i => F[j] = E[j]
           /\ Len(F[i]) = Len(E[i]) + 1
           /\ F[i][Len(E[i]) + 1] = e
           /\ \A m \in 1..Len(E[i]) : F[i][m] = E[i][m]
<1>1. PICK s \in Seq(Entry) : s = E[i]
  OBVIOUS
<1> DEFINE t == Append(s, e)
<1>2. Len(t) = Len(s) + 1 /\ t[Len(s) + 1] = e /\ \A m \in 1..Len(s) : t[m] = s[m]
  BY AppendProperties
<1> HIDE DEF t
<1>3. [E EXCEPT ![i] = Append(@, e)] = [E EXCEPT ![i] = t]
  BY <1>1 DEF t
<1>4. QED BY <1>1, <1>2, <1>3

(* The journal the worker is on, and what it says of it.                   *)
LEMMA OnJournal ==
    ASSUME TWInv, pc \in Busy
    PROVE  /\ Key(intent) \in Intent /\ cursor \in Nat
           /\ entries \in [Intent -> Seq(Entry)]
           /\ entries[Key(intent)] \in Seq(Entry)
           /\ Len(entries[Key(intent)]) \in Nat
           /\ \A m \in 1..Len(entries[Key(intent)]) : entries[Key(intent)][m] \in Entry
           /\ recoveries[Key(intent)] \in Nat
<1>1. /\ Key(intent) \in Intent /\ cursor \in Nat
      /\ entries \in [Intent -> Seq(Entry)] /\ recoveries \in [Intent -> Nat]
  BY DEF TWInv, TypeOK, DiskOK, WorkerOK, WorkInv
<1>2. entries[Key(intent)] \in Seq(Entry)
  BY <1>1
<1>3. QED BY <1>1, <1>2, LenProperties, ElementOfSeq

LEMMA InitOpen == Init => OpenIInv
BY InitTW DEF OpenIInv, Init, Reopenable, LadderInv, Busy

(* A step that leaves the journals alone.                                  *)
LEMMA OpenQuiet ==
    ASSUME OpenIInv, TWInv', UNCHANGED <<header, entries, recoveries>>, LadderInv'
    PROVE  OpenIInv'
BY DEF OpenIInv, Reopenable, Openable, Started

LEMMA OpenStop ==
    ASSUME OpenIInv, TWInv', Stop, UNCHANGED <<header, entries, recoveries>>
    PROVE  OpenIInv'
<1>1. LadderInv'
  BY DEF LadderInv, Stop, Busy
<1>2. QED BY <1>1, OpenQuiet

(* The worker moves on without its journal.                                *)
LEMMA OpenMove ==
    ASSUME OpenIInv,
           Inspect \/ Reconfigure \/ Tick \/ Invoke \/ ExpireUncalled \/ Settle \/ UNCHANGED vars
    PROVE  OpenIInv'
<1>1. TWInv'
  BY NextTW DEF OpenIInv, Next, Step
<1>2. UNCHANGED <<header, entries, recoveries, recovering, cursor>>
  BY DEF Inspect, Reconfigure, Tick, Invoke, ExpireUncalled, Settle, vars, disk, worker
<1>3. LadderInv'
  <2>1. CASE Tick
    <3>1. pc = "idle" /\ pc' \in {"journal", "intent"}
      BY <2>1 DEF Tick
    <3>2. QED BY <1>2, <3>1 DEF OpenIInv, LadderInv, Busy
  <2>2. CASE ~ Tick
    <3>1. /\ UNCHANGED <<intent, mode>>
          /\ \/ UNCHANGED pc
             \/ pc \in {"call", "called"} /\ pc' \in {"called", "answer"}
      BY <2>2 DEF Inspect, Reconfigure, Invoke, ExpireUncalled, Settle, vars, worker
    <3>2. Key(intent') = Key(intent)
      BY <3>1 DEF Key
    <3>3. CASE UNCHANGED pc
      BY <1>2, <3>1, <3>2, <3>3 DEF OpenIInv, LadderInv, Started
    <3>4. CASE pc \in {"call", "called"} /\ pc' \in {"called", "answer"}
      <4>1. pc \in Busy /\ pc' \in Busy /\ pc \notin {"run", "outcome"} /\ pc' \notin {"run", "outcome"}
        BY <3>4 DEF Busy
      <4>2. QED BY <1>2, <3>1, <3>2, <4>1 DEF OpenIInv, LadderInv, Started
    <3>5. QED BY <3>1, <3>3, <3>4
  <2>3. QED BY <2>1, <2>2
<1>4. QED BY <1>1, <1>2, <1>3, OpenQuiet

LEMMA OpenCreateJournal == OpenIInv /\ CreateJournal => OpenIInv'
<1> SUFFICES ASSUME OpenIInv, CreateJournal PROVE OpenIInv'
  OBVIOUS
<1>1. TWInv' /\ UNCHANGED <<entries, recoveries>>
  BY CreateJournalTW DEF OpenIInv, CreateJournal
<1>2. CASE Stop /\ UNCHANGED header
  BY <1>1, <1>2, OpenStop
<1>3. CASE ~ (Stop /\ UNCHANGED header)
  <2>1. /\ entries[Key(intent)] = <<>> /\ recoveries[Key(intent)] = 0
        /\ header' = [header EXCEPT ![Key(intent)] = mode]
        /\ pc' = "intent" /\ UNCHANGED recovering
    BY <1>3 DEF CreateJournal
  <2>2. /\ mode \in Nat /\ Key(intent) \in Intent
        /\ header \in [Intent -> Nat \union {None}]
    BY DEF CreateJournal, OpenIInv, TWInv, TypeOK, DiskOK, WorkerOK, WorkInv
  <2>3. ASSUME NEW i \in Intent, header'[i] # None PROVE Openable(i)'
    <3>1. CASE i = Key(intent)
      <4>1. header'[i] = mode /\ mode # None /\ recoveries'[i] = 0
        BY <1>1, <2>1, <2>2, <3>1, NoneAssumption
      <4>2. Len(entries'[i]) = 0
        BY <1>1, <2>1, <3>1, EmptySeq
      <4>3. QED BY <2>2, <4>1, <4>2, BoundAssumption DEF Openable
    <3>2. CASE i # Key(intent)
      <4>1. header'[i] = header[i]
        BY <2>1, <2>2, <3>2
      <4>2. QED BY <1>1, <2>3, <4>1 DEF OpenIInv, Reopenable, Openable, Started
    <3>3. QED BY <3>1, <3>2
  <2>4. Reopenable'
    BY <2>3 DEF Reopenable
  <2>5. LadderInv'
    BY <2>1 DEF OpenIInv, LadderInv, Busy, CreateJournal
  <2>6. QED BY <1>1, <2>4, <2>5 DEF OpenIInv
<1>4. QED BY <1>2, <1>3

LEMMA OpenSaveIntent == OpenIInv /\ SaveIntent => OpenIInv'
<1> SUFFICES ASSUME OpenIInv, SaveIntent PROVE OpenIInv'
  OBVIOUS
<1>1. TWInv' /\ UNCHANGED <<header, entries, recoveries, recovering, cursor>>
      /\ pc = "intent" /\ pc' = "run"
  BY SaveIntentTW DEF OpenIInv, SaveIntent
<1>2. cursor = 0 /\ ~ recovering
  BY <1>1 DEF OpenIInv, TWInv, WorkInv, LadderInv, Busy
<1>3. LadderInv'
  BY <1>1, <1>2 DEF LadderInv, Busy
<1>4. QED BY <1>1, <1>3, OpenQuiet

LEMMA OpenReplay == OpenIInv /\ ReplayEffect => OpenIInv'
<1> SUFFICES ASSUME OpenIInv, ReplayEffect PROVE OpenIInv'
  OBVIOUS
<1>1. /\ TWInv' /\ UNCHANGED <<header, entries, recoveries, recovering, intent, mode, pc>>
      /\ pc = "run" /\ cursor' = cursor + 1 /\ ~ Started(entries[Key(intent)][cursor + 1])
  BY ReplayTW DEF OpenIInv, ReplayEffect, AtRecorded, Recorded, disk
<1>2. cursor \in Nat /\ Key(intent) \in Intent /\ mode # Plain
  BY <1>1, OnJournal DEF OpenIInv, Busy, ReplayEffect, AtRecorded
<1>3. LadderInv'
  <2> SUFFICES ASSUME NEW m \in 1..Len(entries[Key(intent)])
               PROVE  /\ m <= cursor + 1 => ~ Started(entries[Key(intent)][m])
                      /\ m > cursor + 1 /\ recovering
                            => entries[Key(intent)][m].attempt < recoveries[Key(intent)]
    BY <1>1 DEF LadderInv, Key, Started, Busy
  <2>1. CASE m = cursor + 1
    BY <1>1, <1>2, <2>1
  <2>2. CASE m # cursor + 1
    <3>1. (m <= cursor + 1 => m <= cursor) /\ (m > cursor + 1 => m > cursor)
      BY <1>2, <2>2
    <3>2. QED BY <1>1, <1>2, <3>1 DEF OpenIInv, LadderInv, Busy
  <2>3. QED BY <2>1, <2>2
<1>4. QED BY <1>1, <1>3, OpenQuiet

(* One entry changes in a way that keeps its journal open.                 *)
LEMMA OpenPut ==
    ASSUME OpenIInv, TWInv', pc \in Busy, UNCHANGED <<header, recoveries>>,
           NEW n \in 1..Len(entries[Key(intent)]), NEW e \in Entry,
           e.binding = entries[Key(intent)][n].binding,
           entries' = Put(e, n),
           Started(e) => Started(entries[Key(intent)][n]),
           e.attempt <= recoveries[Key(intent)],
           e.attempt > 0 => e.binding.effect = "read"
    PROVE  Reopenable'
<1> DEFINE i0 == Key(intent)
<1>1. /\ i0 \in Intent /\ entries \in [Intent -> Seq(Entry)]
      /\ Len(entries[i0]) \in Nat
  BY OnJournal DEF OpenIInv
<1>2. /\ \A j \in Intent : j # i0 => entries'[j] = entries[j]
      /\ Len(entries'[i0]) = Len(entries[i0])
      /\ \A m \in 1..Len(entries[i0]) : entries'[i0][m] = IF m = n THEN e ELSE entries[i0][m]
  BY <1>1, EntryPut DEF Put
<1> SUFFICES ASSUME NEW i \in Intent, header'[i] # None PROVE Openable(i)'
  BY DEF Reopenable
<1>3. Openable(i)
  BY DEF OpenIInv, Reopenable
<1>4. CASE i # i0
  <2>1. entries'[i] = entries[i]
    BY <1>2, <1>4
  <2>2. QED BY <1>3, <2>1 DEF Openable, Started
<1>5. CASE i = i0
  <2>1. \A m \in 1..Len(entries[i]) - 1 : m \in 1..Len(entries[i]) /\ ~ Started(entries[i][m])
    BY <1>1, <1>3, <1>5 DEF Openable
  <2>2. \A m \in 1..Len(entries'[i]) - 1 : entries'[i][m].result # None
    BY <1>2, <1>5, <2>1 DEF Started
  <2>3. ASSUME NEW m \in 1..Len(entries'[i])
        PROVE  /\ entries'[i][m].attempt <= recoveries'[i]
               /\ entries'[i][m].attempt > 0 => entries'[i][m].binding.effect = "read"
    <3>1. m \in 1..Len(entries[i])
      BY <1>2, <1>5
    <3>2. CASE m = n
      BY <1>2, <1>5, <3>1, <3>2
    <3>3. CASE m # n
      BY <1>2, <1>3, <1>5, <3>1, <3>3 DEF Openable
    <3>4. QED BY <3>2, <3>3
  <2>4. Len(entries'[i]) <= MaxEntries /\ recoveries'[i] <= header'[i] /\ header'[i] # None
    BY <1>2, <1>3, <1>5 DEF Openable
  <2>5. QED BY <2>2, <2>3, <2>4 DEF Openable, Started
<1>6. QED BY <1>4, <1>5

LEMMA OpenRestart == OpenIInv /\ RestartEffect => OpenIInv'
<1> SUFFICES ASSUME OpenIInv, RestartEffect PROVE OpenIInv'
  OBVIOUS
<1> DEFINE i == Key(intent)
           e == Again(Recorded)
<1>1. /\ TWInv' /\ UNCHANGED <<header, recoveries, recovering, intent, mode>>
      /\ pc = "run" /\ pc' = "call" /\ cursor' = cursor + 1 /\ recovering /\ mode # Plain
      /\ entries' = Put(e, cursor + 1)
  BY RestartTW DEF OpenIInv, RestartEffect, AtRecorded
<1>2. /\ i \in Intent /\ cursor \in Nat /\ cursor + 1 \in 1..Len(entries[i])
      /\ Recorded \in Entry /\ Recorded = entries[i][cursor + 1]
      /\ entries \in [Intent -> Seq(Entry)] /\ Len(entries[i]) \in Nat /\ recoveries[i] \in Nat
  BY <1>1, RecordedType, OnJournal DEF OpenIInv, RestartEffect, Recorded, Busy
<1>3. e \in Entry /\ e.binding = Recorded.binding
  BY <1>2, EntryType
<1>4. e.attempt = Recorded.attempt + 1 /\ e.result = Recorded.result /\ Recorded.attempt \in Nat
  BY <1>2 DEF Again, Entry
<1>5. Recorded.attempt < recoveries[i]
  BY <1>1, <1>2 DEF OpenIInv, LadderInv, Busy
<1>6. e.binding.effect = "read"
  BY <1>3 DEF RestartEffect, Binding
<1>7. Reopenable'
  <2>1. e.attempt <= recoveries[i] /\ (Started(e) => Started(Recorded))
    BY <1>2, <1>4, <1>5 DEF Started
  <2> HIDE DEF e
  <2>2. QED BY <1>1, <1>2, <1>3, <1>6, <2>1, OpenPut DEF Busy
<1>8. /\ Len(entries'[i]) = Len(entries[i])
      /\ \A m \in 1..Len(entries[i]) : m # cursor + 1 => entries'[i][m] = entries[i][m]
  <2> HIDE DEF e
  <2>1. QED BY <1>1, <1>2, <1>3, EntryPut DEF Put
<1>9. LadderInv'
  <2> SUFFICES ASSUME NEW m \in 1..Len(entries'[i])
               PROVE  /\ m < cursor + 1 => ~ Started(entries'[i][m])
                      /\ m > cursor + 1 => entries'[i][m].attempt < recoveries[i]
    BY <1>1, <1>2 DEF LadderInv, Key, Started, Busy
  <2>1. m \in 1..Len(entries[i]) /\ (m < cursor + 1 => m <= cursor) /\ (m > cursor + 1 => m > cursor)
    BY <1>2, <1>8
  <2>2. QED BY <1>1, <1>8, <2>1 DEF OpenIInv, LadderInv, Busy, Started
<1>10. QED BY <1>1, <1>7, <1>9 DEF OpenIInv

LEMMA OpenStart == OpenIInv /\ StartEffect => OpenIInv'
<1> SUFFICES ASSUME OpenIInv, StartEffect PROVE OpenIInv'
  OBVIOUS
<1> DEFINE i == Key(intent)
           e == Fresh(hist)
<1>1. /\ TWInv' /\ UNCHANGED <<header, recoveries, recovering, intent, mode>>
      /\ pc = "run" /\ pc' = "call"
  BY StartTW DEF OpenIInv, StartEffect
<1>2. CASE mode = Plain
  <2>1. UNCHANGED entries /\ LadderInv'
    BY <1>1, <1>2 DEF OpenIInv, LadderInv, Busy, StartEffect
  <2>2. QED BY <1>1, <2>1, OpenQuiet
<1>3. CASE mode # Plain
  <2>1. /\ i \in Intent /\ cursor \in Nat /\ entries \in [Intent -> Seq(Entry)]
        /\ cursor = Len(entries[i]) /\ cursor' = cursor + 1 /\ cursor < MaxEntries
        /\ recoveries[i] \in Nat
    BY <1>1, <1>3, OnJournal, StartEntries DEF OpenIInv, Busy, StartEffect
  <2>2. e \in Entry /\ e.attempt = 0
    BY DEF Fresh, StartEffect, Running, Binding, Entry, OpenIInv, TWInv, TypeOK, WorkerOK
  <2>3. entries' = [entries EXCEPT ![i] = Append(@, e)]
    BY <1>3 DEF StartEffect
  <2> HIDE DEF e
  <2>4. /\ \A j \in Intent : j # i => entries'[j] = entries[j]
        /\ Len(entries'[i]) = cursor + 1 /\ entries'[i][cursor + 1] = e
        /\ \A m \in 1..cursor : entries'[i][m] = entries[i][m]
    BY <2>1, <2>2, <2>3, EntryAppend
  <2>5. \A m \in 1..cursor : ~ Started(entries[i][m])
    BY <1>1, <1>3, <2>1 DEF OpenIInv, LadderInv, Busy
  <2>6. ASSUME NEW k \in Intent, header'[k] # None PROVE Openable(k)'
    <3>1. Openable(k)
      BY <1>1, <2>6 DEF OpenIInv, Reopenable
    <3>2. CASE k # i
      <4>1. entries'[k] = entries[k]
        BY <2>4, <3>2
      <4>2. QED BY <1>1, <3>1, <4>1 DEF Openable, Started
    <3>3. CASE k = i
      <4>1. Len(entries'[k]) <= MaxEntries
        BY <2>1, <2>4, <3>3, BoundAssumption
      <4>2. \A m \in 1..Len(entries'[k]) - 1 : entries'[k][m].result # None
        BY <2>1, <2>4, <2>5, <3>3 DEF Started
      <4>3. ASSUME NEW m \in 1..Len(entries'[k])
            PROVE  /\ entries'[k][m].attempt <= recoveries'[k]
                   /\ entries'[k][m].attempt > 0 => entries'[k][m].binding.effect = "read"
        <5>1. CASE m = cursor + 1
          BY <1>1, <2>1, <2>2, <2>4, <3>3, <5>1
        <5>2. CASE m # cursor + 1
          <6>1. m \in 1..cursor
            BY <2>1, <2>4, <3>3, <5>2
          <6>2. QED BY <1>1, <2>1, <2>4, <3>1, <3>3, <6>1 DEF Openable
        <5>3. QED BY <5>1, <5>2
      <4>4. QED BY <1>1, <3>1, <4>1, <4>2, <4>3 DEF Openable, Started
    <3>4. QED BY <3>2, <3>3
  <2>7. LadderInv'
    <3> SUFFICES ASSUME NEW m \in 1..Len(entries'[i])
                 PROVE  /\ m < cursor + 1 => ~ Started(entries'[i][m])
                        /\ ~ m > cursor + 1
      BY <1>1, <2>1 DEF LadderInv, Key, Started, Busy
    <3>1. ~ m > cursor + 1 /\ (m < cursor + 1 => m \in 1..cursor)
      BY <2>1, <2>4
    <3>2. QED BY <2>4, <2>5, <3>1
  <2>8. QED BY <1>1, <2>6, <2>7 DEF OpenIInv, Reopenable
<1>4. QED BY <1>2, <1>3

LEMMA OpenRecord == OpenIInv /\ RecordAnswer => OpenIInv'
<1> SUFFICES ASSUME OpenIInv, RecordAnswer PROVE OpenIInv'
  OBVIOUS
<1> DEFINE i == Key(intent)
           e == Answered(Calling, answer)
<1>1. /\ TWInv' /\ UNCHANGED <<header, recoveries, recovering, intent, mode, cursor>>
      /\ pc = "answer" /\ pc' = "run"
  BY RecordTW DEF OpenIInv, RecordAnswer
<1>2. CASE mode = Plain
  <2>1. UNCHANGED entries /\ LadderInv'
    BY <1>1, <1>2 DEF OpenIInv, LadderInv, Busy, RecordAnswer
  <2>2. QED BY <1>1, <2>1, OpenQuiet
<1>3. CASE mode # Plain
  <2>1. /\ i \in Intent /\ cursor \in 1..Len(entries[i])
        /\ Calling \in Entry /\ Calling = entries[i][cursor]
        /\ entries \in [Intent -> Seq(Entry)] /\ Len(entries[i]) \in Nat
        /\ entries' = Put(e, cursor)
    BY <1>1, <1>3, CallingType, OnJournal DEF OpenIInv, Calling, Busy, RecordAnswer
  <2>2. answer \in Answer /\ answer # None
    BY <1>1, NoneAssumption DEF OpenIInv, TWInv, WorkInv
  <2>3. e \in Entry /\ e.binding = Calling.binding /\ e.attempt = Calling.attempt /\ ~ Started(e)
    BY <2>1, <2>2, EntryType DEF Answered, Started, Entry
  <2>4. /\ Calling.attempt <= recoveries[i]
        /\ Calling.attempt > 0 => Calling.binding.effect = "read"
        \/ header[i] = None
    BY <2>1 DEF OpenIInv, Reopenable, Openable
  <2> HIDE DEF e
  <2>5. Reopenable'
    <3>1. CASE header[i] # None
      BY <1>1, <2>1, <2>3, <2>4, <3>1, OpenPut DEF Busy
    <3>2. CASE header[i] = None
      <4>1. \A j \in Intent : j # i => entries'[j] = entries[j]
        BY <2>1, <2>3, EntryPut DEF Put
      <4>2. \A j \in Intent : header'[j] # None => j # i
        BY <1>1, <3>2
      <4>3. QED BY <1>1, <4>1, <4>2 DEF OpenIInv, Reopenable, Openable, Started
    <3>3. QED BY <3>1, <3>2
  <2>6. /\ Len(entries'[i]) = Len(entries[i])
        /\ \A m \in 1..Len(entries[i]) : entries'[i][m] = IF m = cursor THEN e ELSE entries[i][m]
    BY <2>1, <2>3, EntryPut DEF Put
  <2>7. LadderInv'
    <3> SUFFICES ASSUME NEW m \in 1..Len(entries'[i])
                 PROVE  /\ m <= cursor => ~ Started(entries'[i][m])
                        /\ m > cursor /\ recovering => entries'[i][m].attempt < recoveries[i]
      BY <1>1 DEF OpenIInv, LadderInv, Key, Started, Busy
    <3>1. m \in 1..Len(entries[i]) /\ (m <= cursor => m = cursor \/ m < cursor)
      BY <2>1, <2>6
    <3>2. m < cursor => ~ Started(entries[i][m])
      BY <1>1, <1>3, <2>1, <3>1 DEF OpenIInv, LadderInv, Busy
    <3>3. m > cursor /\ recovering => entries[i][m].attempt < recoveries[i]
      BY <1>1, <1>3, <3>1 DEF OpenIInv, LadderInv, Busy
    <3>4. QED BY <2>1, <2>3, <2>6, <3>1, <3>2, <3>3
  <2>8. QED BY <1>1, <2>5, <2>7 DEF OpenIInv
<1>4. QED BY <1>2, <1>3

LEMMA OpenPublish ==
    OpenIInv /\ (PublishReceipt \/ SaveOutcome \/ RefuseEffect \/ UnsettledDeadline \/ Crash) => OpenIInv'
<1> SUFFICES ASSUME OpenIInv,
                    PublishReceipt \/ SaveOutcome \/ RefuseEffect \/ UnsettledDeadline \/ Crash
             PROVE  OpenIInv'
  OBVIOUS
<1>1. TWInv' /\ UNCHANGED <<header, entries, recoveries>>
  BY NextTW DEF OpenIInv, Next, Step, PublishReceipt, SaveOutcome, RefuseEffect,
                UnsettledDeadline, Crash, disk
<1>2. CASE Stop
  BY <1>1, <1>2, OpenStop
<1>3. CASE pc = "run" /\ pc' = "outcome" /\ UNCHANGED <<intent, mode, recovering, cursor>>
  <2>1. LadderInv'
    BY <1>1, <1>3 DEF OpenIInv, LadderInv, Busy, Key, Started
  <2>2. QED BY <1>1, <2>1, OpenQuiet
<1>4. QED BY <1>2, <1>3 DEF PublishReceipt, SaveOutcome, RefuseEffect, UnsettledDeadline, Crash

LEMMA OpenRecover == OpenIInv /\ Recover => OpenIInv'
<1> SUFFICES ASSUME OpenIInv, Recover PROVE OpenIInv'
  OBVIOUS
<1> DEFINE i == Key(head)
<1>1. /\ TWInv' /\ UNCHANGED <<header, entries>> /\ Key(intent') = i
      /\ pc' = "run" /\ cursor' = 0 /\ recovering'
  BY RecoverTW DEF OpenIInv, Recover, TWInv, WorkInv
<1>2. i \in Intent /\ header \in [Intent -> Nat \union {None}] /\ recoveries \in [Intent -> Nat]
  BY DEF Recover, OpenIInv, TWInv, TypeOK, DiskOK, WorkInv
<1>3. Openable(i) /\ recoveries[i] < header[i]
  BY DEF Recover, Recoverable
<1>4. PICK n \in Nat : n = recoveries[i]
  BY <1>2
<1>5. recoveries' = [recoveries EXCEPT ![i] = n + 1]
  BY <1>4 DEF Recover
<1>6. \A m \in 1..Len(entries[i]) : entries[i][m].attempt \in Nat
  <2>1. entries[i] \in Seq(Entry)
    BY <1>2 DEF OpenIInv, TWInv, TypeOK, DiskOK
  <2>2. \A m \in 1..Len(entries[i]) : entries[i][m] \in Entry
    BY <2>1, ElementOfSeq
  <2>3. QED BY <2>2 DEF Entry
<1>7. ASSUME NEW k \in Intent, header'[k] # None PROVE Openable(k)'
  <2>1. CASE k = i
    <3>1. header[i] \in Nat
      BY <1>2, <1>3 DEF Openable
    <3>2. recoveries'[k] <= header'[k] /\ recoveries'[k] = n + 1
      BY <1>1, <1>2, <1>3, <1>4, <1>5, <2>1, <3>1
    <3>3. \A m \in 1..Len(entries[i]) : entries[i][m].attempt <= n + 1
      <4>1. \A m \in 1..Len(entries[i]) : entries[i][m].attempt <= n
        BY <1>3, <1>4 DEF Openable
      <4>2. QED BY <1>6, <4>1
    <3>4. QED BY <1>1, <1>3, <1>7, <2>1, <3>2, <3>3 DEF Openable, Started
  <2>2. CASE k # i
    <3>1. recoveries'[k] = recoveries[k]
      BY <1>2, <1>5, <2>2
    <3>2. QED BY <1>1, <1>7, <3>1 DEF OpenIInv, Reopenable, Openable, Started
  <2>3. QED BY <2>1, <2>2
<1>8. LadderInv'
  <2> SUFFICES ASSUME NEW m \in 1..Len(entries[i])
               PROVE  ~ m <= 0 /\ entries[i][m].attempt < recoveries'[i]
    BY <1>1 DEF LadderInv, Busy, Started
  <2>1. entries[i][m].attempt <= n /\ recoveries'[i] = n + 1
    BY <1>2, <1>3, <1>4, <1>5 DEF Openable
  <2>2. QED BY <1>6, <2>1
<1>9. QED BY <1>1, <1>7, <1>8 DEF OpenIInv, Reopenable

LEMMA NextOpen == OpenIInv /\ [Next]_vars => OpenIInv'
BY OpenMove, OpenCreateJournal, OpenSaveIntent, OpenReplay, OpenRestart, OpenStart, OpenRecord,
   OpenPublish, OpenRecover
   DEF Next, Step

(* Every journal can be opened again, whatever step died in whatever       *)
(* dispatch or recovery: it is within its bounds, only its last entry is   *)
(* unsettled, and its attempts are admitted ones.                          *)
THEOREM JournalsReopen == Spec => []Reopenable
<1>1. OpenIInv => Reopenable
  BY DEF OpenIInv
<1>2. QED BY InitOpen, NextOpen, <1>1, PTL DEF Spec
-----------------------------------------------------------------------------
(* The hosts that share a store all journal, or none does.                 *)
Agreed ==
    \A c \in Config :
        /\ Plain \in Mode(c) => Mode(c) = {Plain}
        /\ \A d \in Peers(c) : Plain \in Mode(d) <=> Plain \in Mode(c)

(* An entry is what a sequence of answers says was asked and answered.     *)
Follows(e, h) ==
    /\ Len(e.binding.request) < Len(h)
    /\ e.result = h[Len(e.binding.request) + 1]
    /\ Prefix(e.binding.request, h)

(* From the answers b, the first n entries of journal s lead as far as h.  *)
Reaches(b, s, n, h) ==
    IF n = 0 THEN h = b ELSE Len(h) = Len(s[n].binding.request) + 1

ModeInv ==
    /\ pc # "idle" => (mode = Plain <=> Plain \in Mode(config))
    /\ Plain \in Mode(config) => \A i \in Intent : header[i] = None
    /\ pc \in Busy \union {"intent"} /\ mode # Plain => header[Key(intent)] # None

(* Where the worker is in its journal.                                     *)
PlaceInv ==
    pc \in Busy /\ mode # Plain =>
        /\ \A m \in 1..cursor :
              pc \in {"run", "outcome"} \/ m < cursor => Follows(entries[Key(intent)][m], hist)
        /\ pc \in {"run", "outcome"} =>
              Reaches(Settled(head.receipt), entries[Key(intent)], cursor, hist)
        /\ pc \in {"call", "called", "answer"} =>
              entries[Key(intent)][cursor].binding.request = hist

(* A receipt is of a dispatch the head has seen; it is of a run that is    *)
(* over, whose journal is settled; the head's receipt goes as far as its   *)
(* journal; and what is at a call has none.                                *)
ReceiptInv ==
    /\ \A r \in runs : r[1][1] <= head.gen
    /\ \A r \in runs : header[r[1]] # None =>
          /\ AllSettled(r[1])
          /\ ~ Running(r[2])
          /\ head.status = "uncertain" /\ r[1] = Key(head) =>
                Reaches(Settled(head.receipt), entries[r[1]], Len(entries[r[1]]), r[2])
    /\ pc \in {"call", "called", "answer"} \/ (pc = "run" /\ mode = Plain) =>
          \A r \in runs : r[1] # Key(intent)

ReceiptIInv == SpanIInv /\ ReceiptMatchesJournal /\ ModeInv /\ PlaceInv /\ ReceiptInv

(* An entry that follows from some answers follows from more of them, and  *)
(* one for the answers so far from these with its own.                     *)
LEMMA FollowsAppend ==
    ASSUME NEW e \in Entry, NEW h \in Seq(Answer), NEW a \in Answer,
           Follows(e, h) \/ (e.binding.request = h /\ e.result = a)
    PROVE  Follows(e, Append(h, a))
<1>1. PICK q \in Seq(Answer) : q = e.binding.request
  BY DEF Entry
<1>2. Len(q) \in Nat /\ Len(h) \in Nat
  BY LenProperties
<1> DEFINE t == Append(h, a)
<1>3. t \in Seq(Answer) /\ Len(t) = Len(h) + 1 /\ t[Len(h) + 1] = a
      /\ \A n \in 1..Len(h) : t[n] = h[n]
  BY AppendProperties
<1>4. Prefix(q, h) \/ q = h
  BY <1>1 DEF Follows
<1>5. Prefix(q, t)
  BY <1>4, PrefixSame, PrefixOfAppend
<1> HIDE DEF t
<1>6. Len(q) < Len(t) /\ e.result = t[Len(q) + 1]
  <2>1. CASE q = h /\ e.result = a
    BY <1>2, <1>3, <2>1
  <2>2. CASE Follows(e, h)
    <3>1. Len(q) < Len(h) /\ e.result = h[Len(q) + 1] /\ Len(q) + 1 \in 1..Len(h)
      BY <1>1, <1>2, <2>2 DEF Follows
    <3>2. QED BY <1>2, <1>3, <3>1
  <2>3. QED BY <1>1, <2>1, <2>2
<1>7. QED BY <1>1, <1>5, <1>6 DEF Follows, t

(* A journal leads from the same answers to the same answers.              *)
LEMMA SameReach ==
    ASSUME NEW b, NEW s \in Seq(Entry), NEW n \in Nat, n <= Len(s),
           NEW h \in Seq(Answer), NEW k \in Seq(Answer),
           Reaches(b, s, n, h), Reaches(b, s, n, k),
           n > 0 => Follows(s[n], h) /\ Follows(s[n], k)
    PROVE  h = k
<1>1. CASE n = 0
  BY <1>1 DEF Reaches
<1>2. CASE n > 0
  <2>1. s[n] \in Entry
    <3>1. Len(s) \in Nat /\ n \in 1..Len(s)
      BY <1>2, LenProperties
    <3>2. QED BY <3>1, ElementOfSeq
  <2>2. PICK q \in Seq(Answer) : q = s[n].binding.request
    BY <2>1 DEF Entry
  <2>3. /\ Len(q) \in Nat /\ Len(h) = Len(q) + 1 /\ Len(k) = Len(q) + 1
        /\ h[Len(q) + 1] = k[Len(q) + 1] /\ Prefix(q, h) /\ Prefix(q, k)
    BY <1>2, <2>2, LenProperties DEF Reaches, Follows
  <2>4. \A j \in 1..Len(q) : q[j] = h[j] /\ q[j] = k[j]
    BY <2>3, PrefixElements
  <2>5. \A j \in 1..Len(h) : h[j] = k[j]
    BY <2>3, <2>4
  <2>6. QED BY <2>3, <2>5, SeqEqual
<1>3. QED BY <1>1, <1>2
-----------------------------------------------------------------------------
(* How a store is journaled does not change.                               *)
LEMMA NextMode ==
    ASSUME TWInv, ModeInv, [Next]_vars, Agreed
    PROVE  ModeInv'
<1> USE DEF ModeInv
<1>0. config \in Config /\ header \in [Intent -> Nat \union {None}]
  BY DEF TWInv, TypeOK, DiskOK
<1>1. CASE Tick
  <2>1. UNCHANGED <<header, config>> /\ pc' \in {"journal", "intent"} /\ mode' \in Mode(config)
        /\ (pc' = "intent" => mode' = Plain)
    BY <1>1 DEF Tick, disk
  <2>2. mode' = Plain <=> Plain \in Mode(config)
    BY <1>0, <2>1 DEF Agreed
  <2>3. QED BY <2>1, <2>2 DEF Busy
<1>2. CASE CreateJournal
  <2>1. UNCHANGED config /\ mode # Plain /\ Plain \notin Mode(config) /\ Key(intent) \in Intent
        /\ mode \in Nat
    BY <1>2 DEF CreateJournal, TWInv, WorkInv, TypeOK, WorkerOK
  <2>2. CASE Stop /\ UNCHANGED header
    BY <2>1, <2>2 DEF Stop, Busy
  <2>3. CASE header' = [header EXCEPT ![Key(intent)] = mode] /\ UNCHANGED <<mode, intent>>
    <3>1. header'[Key(intent)] = mode /\ mode # None /\ Key(intent') = Key(intent)
      BY <1>0, <2>1, <2>3, NoneAssumption DEF Key
    <3>2. QED BY <1>2, <2>1, <2>3, <3>1 DEF CreateJournal
  <2>4. QED BY <1>2, <2>2, <2>3 DEF CreateJournal
<1>3. CASE Reconfigure
  <2>1. UNCHANGED <<header, pc>> /\ pc = "idle" /\ config' \in Peers(config)
    BY <1>3 DEF Reconfigure, disk, worker
  <2>2. Plain \in Mode(config') <=> Plain \in Mode(config)
    BY <1>0, <2>1 DEF Agreed
  <2>3. QED BY <2>1, <2>2 DEF Busy
<1>4. CASE Recover
  <2>1. /\ UNCHANGED <<header, config>> /\ pc' = "run" /\ mode' = header[Key(head)]
        /\ header[Key(head)] # None /\ intent' = head /\ Key(head) \in Intent
    BY <1>4 DEF Recover, Recoverable, Openable, TWInv, WorkInv
  <2>2. mode' # Plain /\ Plain \notin Mode(config) /\ Key(intent') = Key(head)
    BY <1>0, <2>1, ModeAssumption DEF Key
  <2>3. QED BY <2>1, <2>2
<1>5. CASE ~ (Tick \/ CreateJournal \/ Reconfigure \/ Recover)
  <2>1. UNCHANGED <<header, config>>
    BY <1>5 DEF Next, Step, vars, disk, Inspect, SaveIntent, ReplayEffect, RestartEffect,
                StartEffect, RefuseEffect, Invoke, ExpireUncalled, Settle, UnsettledDeadline,
                RecordAnswer, PublishReceipt, SaveOutcome, Crash
  <2>2. \/ pc' = "idle"
        \/ UNCHANGED <<pc, mode, intent>>
        \/ pc \in Busy \union {"intent"} /\ UNCHANGED <<mode, intent>>
    BY <1>5 DEF Next, Step, vars, worker, Stop, Inspect, SaveIntent, ReplayEffect, RestartEffect,
                StartEffect, RefuseEffect, Invoke, ExpireUncalled, Settle, UnsettledDeadline,
                RecordAnswer, PublishReceipt, SaveOutcome, Crash, AtRecorded, Busy
  <2>3. UNCHANGED intent => Key(intent') = Key(intent)
    BY DEF Key
  <2>4. QED BY <2>1, <2>2, <2>3 DEF Busy
<1>6. QED BY <1>1, <1>2, <1>3, <1>4, <1>5
-----------------------------------------------------------------------------
LEMMA RunsType ==
    ASSUME TWInv, NEW r \in runs
    PROVE  /\ r[1] \in Intent /\ r[2] \in Seq(Answer) /\ r = <<r[1], r[2]>>
           /\ r[1][1] \in Nat
<1>1. r \in Intent \X Seq(Answer)
  BY DEF TWInv, TypeOK, DiskOK
<1>2. QED BY <1>1, BoundAssumption DEF Intent

(* A new intent is of no receipt there is.                                 *)
LEMMA NewIntent ==
    ASSUME ReceiptIInv, pc \in {"journal", "intent"}, NEW r \in runs
    PROVE  r[1] # Key(intent) /\ r[1][1] <= intent.gen
<1>1. intent.gen = head.gen + 1 /\ head.gen \in Nat
  BY SpanStart, BoundAssumption DEF ReceiptIInv, SpanIInv, TWInv, WorkInv, Record
<1>2. r[1][1] <= head.gen /\ r[1][1] \in Nat
  BY RunsType DEF ReceiptIInv, ReceiptInv, SpanIInv
<1>3. QED BY <1>1, <1>2 DEF Key

(* A step after which what there was of receipts is as it was.             *)
LEMMA ReceiptsKept ==
    ASSUME ReceiptIInv, SpanIInv', ModeInv', PlaceInv', UNCHANGED runs,
           \A r \in runs : r[1][1] <= head'.gen,
           \A r \in runs : header'[r[1]] = header[r[1]] /\ entries'[r[1]] = entries[r[1]],
           UNCHANGED head \/ head'.status # "uncertain" \/ \A r \in runs : r[1] # Key(head'),
           pc' \in {"call", "called", "answer"} \/ (pc' = "run" /\ mode' = Plain) =>
               \A r \in runs : r[1] # Key(intent')
    PROVE  ReceiptIInv'
<1>1. ReceiptMatchesJournal'
  <2>1. \A r \in runs : \A s \in runs : r[1] = s[1] => r = s
    BY DEF ReceiptIInv, ReceiptMatchesJournal
  <2>2. ASSUME NEW r \in runs, header'[r[1]] # None, NEW n \in 1..Len(entries'[r[1]])
        PROVE  Follows(entries'[r[1]][n], r[2])
    <3>1. header[r[1]] # None /\ n \in 1..Len(entries[r[1]]) /\ entries'[r[1]][n] = entries[r[1]][n]
      BY <2>2
    <3>2. Follows(entries[r[1]][n], r[2])
      BY <3>1 DEF ReceiptIInv, ReceiptMatchesJournal, Follows
    <3>3. QED BY <3>1, <3>2
  <2>3. QED BY <2>1, <2>2 DEF ReceiptMatchesJournal, Follows
<1>2. ReceiptInv'
  <2>1. ASSUME NEW r \in runs, header'[r[1]] # None
        PROVE  /\ \A n \in 1..Len(entries'[r[1]]) : ~ Started(entries'[r[1]][n])
               /\ ~ Running(r[2])
               /\ head'.status = "uncertain" /\ r[1] = Key(head') =>
                     Reaches(Settled(head'.receipt), entries'[r[1]], Len(entries'[r[1]]), r[2])
    <3>1. /\ \A n \in 1..Len(entries[r[1]]) : ~ Started(entries[r[1]][n])
          /\ ~ Running(r[2])
          /\ head.status = "uncertain" /\ r[1] = Key(head) =>
                Reaches(Settled(head.receipt), entries[r[1]], Len(entries[r[1]]), r[2])
      BY <2>1 DEF ReceiptIInv, ReceiptInv, AllSettled
    <3>2. UNCHANGED head \/ ~ (head'.status = "uncertain" /\ r[1] = Key(head'))
      OBVIOUS
    <3>3. UNCHANGED head => UNCHANGED <<head.status, head.receipt>> /\ Key(head') = Key(head)
      BY DEF Key
    <3>4. QED BY <3>1, <3>2, <3>3
  <2>2. QED BY <2>1 DEF ReceiptInv, AllSettled
<1>3. QED BY <1>1, <1>2 DEF ReceiptIInv

(* A step that leaves disk and worker alone, or has no worker after it.    *)
LEMMA ReceiptRest ==
    ASSUME ReceiptIInv, SpanIInv', ModeInv', UNCHANGED <<chain, header, entries, runs>>,
           pc' \notin Busy \/ UNCHANGED worker
    PROVE  ReceiptIInv'
<1>1. UNCHANGED head
  BY DEF head
<1>2. PlaceInv'
  <2>1. CASE pc' \notin Busy
    BY <2>1 DEF PlaceInv
  <2>2. CASE UNCHANGED worker
    BY <1>1, <2>2 DEF worker, ReceiptIInv, PlaceInv, Key
  <2>3. QED BY <2>1, <2>2
<1>3. pc' \in {"call", "called", "answer"} \/ (pc' = "run" /\ mode' = Plain) =>
          \A r \in runs : r[1] # Key(intent')
  BY DEF worker, ReceiptIInv, ReceiptInv, Busy, Key
<1>4. \A r \in runs : r[1][1] <= head'.gen
  BY <1>1 DEF ReceiptIInv, ReceiptInv
<1>5. QED BY <1>1, <1>2, <1>3, <1>4, ReceiptsKept

LEMMA ReceiptCreateJournal ==
    ASSUME ReceiptIInv, SpanIInv', ModeInv', CreateJournal
    PROVE  ReceiptIInv'
<1>1. pc' \notin Busy /\ UNCHANGED <<chain, entries, runs, head>>
  BY DEF CreateJournal, Stop, Busy, head
<1>2. header' = [header EXCEPT ![Key(intent)] = mode] \/ UNCHANGED header
  BY DEF CreateJournal
<1>3. \A r \in runs : header'[r[1]] = header[r[1]]
  <2> SUFFICES ASSUME NEW r \in runs PROVE header'[r[1]] = header[r[1]]
    OBVIOUS
  <2>1. r[1] # Key(intent) /\ r[1] \in Intent /\ header \in [Intent -> Nat \union {None}]
    BY NewIntent, RunsType DEF CreateJournal, ReceiptIInv, SpanIInv, TWInv, TypeOK, DiskOK
  <2>2. QED BY <1>2, <2>1
<1>4. PlaceInv'
  BY <1>1 DEF PlaceInv
<1>5. \A r \in runs : r[1][1] <= head'.gen
  BY <1>1 DEF ReceiptIInv, ReceiptInv
<1>6. pc' \notin {"call", "called", "answer"} /\ pc' # "run"
  BY <1>1 DEF Busy
<1>7. QED BY <1>1, <1>3, <1>4, <1>5, <1>6, ReceiptsKept

LEMMA ReceiptSaveIntent ==
    ASSUME ReceiptIInv, SpanIInv', ModeInv', SaveIntent
    PROVE  ReceiptIInv'
<1>1. /\ head' = intent /\ pc = "intent" /\ pc' = "run"
      /\ UNCHANGED <<header, entries, runs, intent, hist, cursor>>
  BY SaveIntentTW DEF SaveIntent, ReceiptIInv, SpanIInv
<1>2. cursor = 0 /\ hist = Settled(intent.receipt)
  BY <1>1 DEF ReceiptIInv, SpanIInv, SpanInv, TWInv, WorkInv
<1>3. Key(head') = Key(intent) /\ Key(intent') = Key(intent) /\ head'.receipt = intent.receipt
      /\ head'.gen = intent.gen
  BY <1>1 DEF Key
<1>4. \A r \in runs : r[1] # Key(intent) /\ r[1][1] <= intent.gen
  BY <1>1, NewIntent
<1>5. PlaceInv'
  <2>1. \A m \in 1..cursor' : FALSE
    BY <1>1, <1>2
  <2>2. Reaches(Settled(head'.receipt), entries'[Key(intent')], cursor', hist')
    BY <1>1, <1>2, <1>3 DEF Reaches
  <2>3. QED BY <1>1, <2>1, <2>2 DEF PlaceInv
<1>6. QED BY <1>1, <1>3, <1>4, <1>5, ReceiptsKept

LEMMA ReceiptRecover ==
    ASSUME ReceiptIInv, SpanIInv', ModeInv', Recover
    PROVE  ReceiptIInv'
<1>1. /\ UNCHANGED <<chain, head, header, entries, runs>> /\ pc' = "run" /\ cursor' = 0
      /\ hist' = Settled(head.receipt)
  BY DEF Recover, head, ReceiptIInv, SpanIInv, TWInv, WorkInv
<1>2. mode' # Plain
  <2>1. header[Key(head)] # None /\ Key(head) \in Intent /\ header \in [Intent -> Nat \union {None}]
    BY DEF Recover, Recoverable, Openable, ReceiptIInv, SpanIInv, TWInv, TypeOK, DiskOK, WorkInv
  <2>2. QED BY <2>1, ModeAssumption DEF Recover
<1>3. PlaceInv'
  <2>1. \A m \in 1..cursor' : FALSE
    BY <1>1
  <2>2. Reaches(Settled(head'.receipt), entries'[Key(intent')], cursor', hist')
    BY <1>1 DEF Reaches
  <2>3. QED BY <1>1, <2>1, <2>2 DEF PlaceInv
<1>4. \A r \in runs : r[1][1] <= head'.gen
  BY <1>1 DEF ReceiptIInv, ReceiptInv
<1>5. QED BY <1>1, <1>2, <1>3, <1>4, ReceiptsKept

LEMMA ReceiptReplay ==
    ASSUME ReceiptIInv, SpanIInv', ModeInv', ReplayEffect
    PROVE  ReceiptIInv'
<1> DEFINE i == Key(intent)
           e == Recorded
<1>1. /\ UNCHANGED <<chain, head, header, entries, runs, intent, mode, pc>>
      /\ pc = "run" /\ mode # Plain /\ cursor' = cursor + 1 /\ hist' = Append(hist, e.result)
      /\ e.binding = Binding(hist) /\ e = entries[i][cursor + 1]
  BY DEF ReplayEffect, AtRecorded, Recorded, disk, head
<1>2. /\ i \in Intent /\ cursor \in Nat /\ e \in Entry /\ e.result \in Answer /\ hist \in Seq(Answer)
      /\ entries[i] \in Seq(Entry) /\ Len(entries[i]) \in Nat /\ cursor + 1 <= Len(entries[i])
      /\ \A m \in 1..Len(entries[i]) : entries[i][m] \in Entry
  <2>1. e \in Entry /\ e.result \in Answer /\ cursor + 1 \in 1..Len(entries[i])
    BY RecordedType DEF ReplayEffect, ReceiptIInv, SpanIInv, Started, Entry
  <2>2. QED BY <1>1, <2>1, OnJournal DEF ReceiptIInv, SpanIInv, Busy, TWInv, TypeOK, WorkerOK
<1>3. e.binding.request = hist
  BY <1>1 DEF Binding
<1>4. Follows(e, hist')
  BY <1>1, <1>2, <1>3, FollowsAppend
<1>5. \A m \in 1..cursor : Follows(entries[i][m], hist')
  <2> SUFFICES ASSUME NEW m \in 1..cursor PROVE Follows(entries[i][m], hist')
    OBVIOUS
  <2>1. m \in 1..Len(entries[i]) /\ entries[i][m] \in Entry
    BY <1>2
  <2>2. Follows(entries[i][m], hist)
    BY <1>1 DEF ReceiptIInv, PlaceInv, Busy
  <2>3. QED BY <1>1, <1>2, <2>1, <2>2, FollowsAppend
<1>6. Len(hist') = Len(e.binding.request) + 1
  BY <1>1, <1>2, <1>3, AppendProperties
<1>7. PlaceInv'
  <2>1. Key(intent') = i /\ pc' = "run"
    BY <1>1 DEF Key
  <2>2. \A m \in 1..cursor' : Follows(entries'[i][m], hist')
    <3> SUFFICES ASSUME NEW m \in 1..cursor' PROVE Follows(entries[i][m], hist')
      BY <1>1
    <3>1. m = cursor + 1 \/ m \in 1..cursor
      BY <1>1, <1>2
    <3>2. QED BY <1>1, <1>4, <1>5, <3>1
  <2>3. Reaches(Settled(head'.receipt), entries'[i], cursor', hist')
    BY <1>1, <1>2, <1>6 DEF Reaches
  <2>4. QED BY <2>1, <2>2, <2>3 DEF PlaceInv
<1>8. \A r \in runs : r[1][1] <= head'.gen
  BY <1>1 DEF ReceiptIInv, ReceiptInv
<1>9. QED BY <1>1, <1>7, <1>8, ReceiptsKept

(* The journal of a dispatch that has a receipt is settled, and the worker *)
(* that has passed all of it is at that receipt.                           *)
LEMMA AtReceipt ==
    ASSUME ReceiptIInv, pc = "run", mode # Plain,
           NEW r \in runs, r[1] = Key(intent)
    PROVE  /\ AllSettled(Key(intent)) /\ ~ Running(r[2])
           /\ cursor = Len(entries[Key(intent)]) => r[2] = hist
<1> DEFINE i == Key(intent)
           b == Settled(head.receipt)
<1>1. /\ intent = head /\ head.status = "uncertain" /\ header[i] # None
      /\ hist \in Seq(Answer) /\ r[2] \in Seq(Answer)
  BY RunsType DEF ReceiptIInv, SpanIInv, TWInv, TypeOK, WorkerOK, WorkInv, ModeInv, Busy
<1>2. /\ AllSettled(i) /\ ~ Running(r[2])
      /\ Reaches(b, entries[i], Len(entries[i]), r[2])
  BY <1>1 DEF ReceiptIInv, ReceiptInv
<1>3. ASSUME cursor = Len(entries[i]) PROVE r[2] = hist
  <2>1. entries[i] \in Seq(Entry) /\ Len(entries[i]) \in Nat
    BY OnJournal DEF ReceiptIInv, SpanIInv, Busy
  <2>2. /\ \A m \in 1..cursor : Follows(entries[i][m], hist)
        /\ Reaches(b, entries[i], cursor, hist)
    BY DEF ReceiptIInv, PlaceInv, Busy
  <2>3. \A m \in 1..Len(entries[i]) : Follows(entries[i][m], r[2])
    BY <1>1 DEF ReceiptIInv, ReceiptMatchesJournal, Follows
  <2>4. PICK n \in Nat : n = Len(entries[i])
    BY <2>1
  <2>5. n > 0 => Follows(entries[i][n], r[2]) /\ Follows(entries[i][n], hist)
    BY <1>3, <2>2, <2>3, <2>4
  <2>6. Reaches(b, entries[i], n, r[2]) /\ Reaches(b, entries[i], n, hist) /\ n <= Len(entries[i])
    BY <1>2, <1>3, <2>2, <2>4
  <2> HIDE DEF b, i
  <2>7. QED BY <1>1, <2>1, <2>5, <2>6, SameReach
<1>4. QED BY <1>2, <1>3

(* The journal of the dispatch changes, at or after the cursor.            *)
LEMMA ReceiptCall ==
    ASSUME ReceiptIInv, SpanIInv', ModeInv', pc = "run", pc' = "call", mode # Plain,
           UNCHANGED <<chain, header, runs, intent, hist>>, cursor' = cursor + 1,
           \A j \in Intent : j # Key(intent) => entries'[j] = entries[j],
           \A m \in 1..cursor : entries'[Key(intent)][m] = entries[Key(intent)][m],
           entries'[Key(intent)][cursor + 1].binding.request = hist,
           \A r \in runs : r[1] # Key(intent)
    PROVE  ReceiptIInv'
<1>1. UNCHANGED head /\ Key(intent') = Key(intent) /\ cursor \in Nat
  BY DEF head, Key, ReceiptIInv, SpanIInv, TWInv, TypeOK, WorkerOK
<1>2. \A m \in 1..cursor : Follows(entries[Key(intent)][m], hist)
  BY DEF ReceiptIInv, PlaceInv, Busy
<1>3. PlaceInv'
  <2>1. \A m \in 1..cursor' : m < cursor' => m \in 1..cursor
    BY <1>1
  <2>2. \A m \in 1..cursor' : m < cursor' => Follows(entries'[Key(intent)][m], hist')
    BY <1>2, <2>1
  <2>3. QED BY <1>1, <2>2 DEF PlaceInv
<1>4. \A r \in runs : entries'[r[1]] = entries[r[1]] /\ r[1][1] <= head'.gen
  BY <1>1, RunsType DEF ReceiptIInv, ReceiptInv, SpanIInv
<1>5. QED BY <1>1, <1>3, <1>4, ReceiptsKept

LEMMA ReceiptRestart ==
    ASSUME ReceiptIInv, SpanIInv', ModeInv', RestartEffect
    PROVE  ReceiptIInv'
<1> DEFINE i == Key(intent)
           e == Again(Recorded)
<1>1. /\ pc = "run" /\ pc' = "call" /\ mode # Plain /\ cursor' = cursor + 1
      /\ UNCHANGED <<chain, header, runs, intent, hist>> /\ entries' = Put(e, cursor + 1)
      /\ Started(Recorded) /\ Recorded.binding = Binding(hist)
  BY DEF RestartEffect, AtRecorded
<1>2. /\ i \in Intent /\ cursor \in Nat /\ cursor + 1 \in 1..Len(entries[i])
      /\ Recorded \in Entry /\ Recorded = entries[i][cursor + 1]
      /\ entries \in [Intent -> Seq(Entry)] /\ Len(entries[i]) \in Nat
  BY <1>1, RecordedType, OnJournal DEF ReceiptIInv, SpanIInv, RestartEffect, Recorded, Busy
<1>3. \A r \in runs : r[1] # i
  <2> SUFFICES ASSUME NEW r \in runs, r[1] = i PROVE FALSE
    OBVIOUS
  <2>1. AllSettled(i)
    BY <1>1, AtReceipt
  <2>2. QED BY <1>1, <1>2, <2>1 DEF AllSettled
<1>4. e \in Entry /\ e.binding.request = hist
  BY <1>1, <1>2, EntryType DEF Binding
<1> HIDE DEF e
<1>5. /\ \A j \in Intent : j # i => entries'[j] = entries[j]
      /\ \A m \in 1..Len(entries[i]) : entries'[i][m] = IF m = cursor + 1 THEN e ELSE entries[i][m]
  BY <1>1, <1>2, <1>4, EntryPut DEF Put
<1>6. /\ \A m \in 1..cursor : entries'[i][m] = entries[i][m]
      /\ entries'[i][cursor + 1].binding.request = hist
  <2>1. \A m \in 1..cursor : m \in 1..Len(entries[i]) /\ m # cursor + 1
    BY <1>2
  <2>2. QED BY <1>2, <1>4, <1>5, <2>1
<1>7. QED BY <1>1, <1>3, <1>5, <1>6, ReceiptCall

LEMMA ReceiptStart ==
    ASSUME ReceiptIInv, SpanIInv', ModeInv', StartEffect
    PROVE  ReceiptIInv'
<1> DEFINE i == Key(intent)
           e == Fresh(hist)
<1>1. /\ pc = "run" /\ pc' = "call" /\ Running(hist)
      /\ UNCHANGED <<chain, head, header, runs, intent, mode, hist>>
  BY DEF StartEffect, head
<1>2. CASE mode = Plain
  <2>1. UNCHANGED <<entries, cursor>>
    BY <1>2 DEF StartEffect
  <2>2. PlaceInv' /\ Key(intent') = i
    BY <1>1, <1>2 DEF PlaceInv, Key
  <2>3. \A r \in runs : r[1] # i /\ r[1][1] <= head'.gen
    BY <1>1, <1>2 DEF ReceiptIInv, ReceiptInv
  <2>4. QED BY <1>1, <2>1, <2>2, <2>3, ReceiptsKept
<1>3. CASE mode # Plain
  <2>1. /\ i \in Intent /\ cursor \in Nat /\ entries \in [Intent -> Seq(Entry)]
        /\ cursor = Len(entries[i]) /\ cursor' = cursor + 1
    BY <1>1, <1>3, OnJournal, StartEntries DEF ReceiptIInv, SpanIInv, Busy
  <2>2. \A r \in runs : r[1] # i
    <3> SUFFICES ASSUME NEW r \in runs, r[1] = i PROVE FALSE
      OBVIOUS
    <3>1. QED BY <1>1, <1>3, <2>1, AtReceipt
  <2>3. e \in Entry /\ e.binding.request = hist
    BY DEF Fresh, StartEffect, Running, Binding, Entry, ReceiptIInv, SpanIInv, TWInv, TypeOK, WorkerOK
  <2>4. entries' = [entries EXCEPT ![i] = Append(@, e)]
    BY <1>3 DEF StartEffect
  <2> HIDE DEF e
  <2>5. /\ \A j \in Intent : j # i => entries'[j] = entries[j]
        /\ entries'[i][cursor + 1] = e
        /\ \A m \in 1..cursor : entries'[i][m] = entries[i][m]
    BY <2>1, <2>3, <2>4, EntryAppend
  <2>6. QED BY <1>1, <1>3, <2>1, <2>2, <2>3, <2>5, ReceiptCall
<1>4. QED BY <1>2, <1>3

LEMMA ReceiptMove ==
    ASSUME ReceiptIInv, SpanIInv', ModeInv', Invoke \/ ExpireUncalled \/ Settle
    PROVE  ReceiptIInv'
<1>1. /\ UNCHANGED <<chain, head, header, entries, runs, intent, mode, cursor, hist>>
      /\ pc \in {"call", "called"} /\ pc' \in {"called", "answer"}
  BY DEF Invoke, ExpireUncalled, Settle, disk, head
<1>2. Key(intent') = Key(intent)
  BY <1>1 DEF Key
<1>3. PlaceInv'
  BY <1>1, <1>2 DEF ReceiptIInv, PlaceInv, Busy
<1>4. \A r \in runs : r[1] # Key(intent) /\ r[1][1] <= head'.gen
  BY <1>1 DEF ReceiptIInv, ReceiptInv
<1>5. QED BY <1>1, <1>2, <1>3, <1>4, ReceiptsKept

LEMMA ReceiptRecord ==
    ASSUME ReceiptIInv, SpanIInv', ModeInv', RecordAnswer
    PROVE  ReceiptIInv'
<1> DEFINE i == Key(intent)
           e == Answered(Calling, answer)
<1>1. /\ pc = "answer" /\ pc' = "run" /\ hist' = Append(hist, answer)
      /\ UNCHANGED <<chain, head, header, runs, intent, mode, cursor>> /\ Key(intent') = i
  BY DEF RecordAnswer, head, Key
<1>2. \A r \in runs : r[1] # i /\ r[1][1] <= head'.gen
  BY <1>1 DEF ReceiptIInv, ReceiptInv
<1>3. CASE mode = Plain
  <2>1. UNCHANGED entries /\ PlaceInv'
    BY <1>1, <1>3 DEF RecordAnswer, PlaceInv
  <2>2. QED BY <1>1, <1>2, <2>1, ReceiptsKept
<1>4. CASE mode # Plain
  <2>1. /\ i \in Intent /\ cursor \in 1..Len(entries[i])
        /\ Calling \in Entry /\ Calling = entries[i][cursor]
        /\ entries \in [Intent -> Seq(Entry)] /\ Len(entries[i]) \in Nat
        /\ entries' = Put(e, cursor)
        /\ \A m \in 1..Len(entries[i]) : entries[i][m] \in Entry
    BY <1>1, <1>4, CallingType, OnJournal
       DEF ReceiptIInv, SpanIInv, Calling, Busy, RecordAnswer
  <2>2. answer \in Answer /\ hist \in Seq(Answer)
    BY <1>1 DEF ReceiptIInv, SpanIInv, TWInv, TypeOK, WorkerOK, WorkInv
  <2>3. Calling.binding.request = hist
    BY <1>1, <1>4, <2>1 DEF ReceiptIInv, PlaceInv, Busy
  <2>4. e \in Entry /\ e.binding.request = hist /\ e.result = answer
    BY <2>1, <2>2, <2>3, EntryType DEF Answered, Entry
  <2> HIDE DEF e
  <2>5. /\ \A j \in Intent : j # i => entries'[j] = entries[j]
        /\ \A m \in 1..Len(entries[i]) : entries'[i][m] = IF m = cursor THEN e ELSE entries[i][m]
    BY <2>1, <2>4, EntryPut DEF Put
  <2>6. \A m \in 1..cursor : Follows(entries'[i][m], hist')
    <3> SUFFICES ASSUME NEW m \in 1..cursor PROVE Follows(entries'[i][m], hist')
      OBVIOUS
    <3>1. m \in 1..Len(entries[i])
      BY <2>1
    <3>2. CASE m = cursor
      <4>1. Follows(e, Append(hist, answer))
        BY <2>2, <2>4, FollowsAppend
      <4>2. QED BY <1>1, <2>5, <3>1, <3>2, <4>1
    <3>3. CASE m # cursor
      <4>1. m < cursor
        BY <2>1, <3>3
      <4>2. Follows(entries[i][m], hist) /\ entries[i][m] \in Entry
        BY <1>1, <1>4, <2>1, <3>1, <4>1 DEF ReceiptIInv, PlaceInv, Busy
      <4>3. Follows(entries[i][m], Append(hist, answer))
        BY <2>2, <4>2, FollowsAppend
      <4>4. QED BY <1>1, <2>5, <3>1, <3>3, <4>3
    <3>4. QED BY <3>2, <3>3
  <2>7. Reaches(Settled(head'.receipt), entries'[i], cursor', hist')
    <3>1. Len(hist') = Len(hist) + 1
      BY <1>1, <2>2, AppendProperties
    <3>2. entries'[i][cursor].binding.request = hist /\ cursor # 0
      BY <2>1, <2>4, <2>5
    <3>3. QED BY <1>1, <3>1, <3>2 DEF Reaches
  <2>8. PlaceInv'
    BY <1>1, <2>6, <2>7 DEF PlaceInv
  <2>9. \A r \in runs : entries'[r[1]] = entries[r[1]]
    BY <1>2, <2>5, RunsType DEF ReceiptIInv, SpanIInv
  <2>10. QED BY <1>1, <1>2, <1>4, <2>8, <2>9, ReceiptsKept
<1>5. QED BY <1>3, <1>4

LEMMA ReceiptSaveOutcome ==
    ASSUME ReceiptIInv, SpanIInv', ModeInv', SaveOutcome
    PROVE  ReceiptIInv'
<1>1. /\ head' = Concluded(head, hist) /\ pc' = "idle"
      /\ UNCHANGED <<header, entries, runs>>
  BY SaveOutcomeTW DEF SaveOutcome, Stop, ReceiptIInv, SpanIInv
<1>2. head'.gen = head.gen /\ head'.status # "uncertain"
  BY <1>1 DEF Concluded, OutcomeOf, Outcome
<1>3. PlaceInv'
  BY <1>1 DEF PlaceInv, Busy
<1>4. \A r \in runs : r[1][1] <= head'.gen
  BY <1>2 DEF ReceiptIInv, ReceiptInv
<1>5. QED BY <1>1, <1>2, <1>3, <1>4, ReceiptsKept

LEMMA ReceiptPublish ==
    ASSUME ReceiptIInv, SpanIInv', ModeInv', PublishReceipt
    PROVE  ReceiptIInv'
<1> DEFINE i == Key(intent)
           p == <<i, hist>>
<1>1. pc = "run" /\ ~ Running(hist) /\ UNCHANGED <<chain, head, header, entries>>
  BY DEF PublishReceipt, head
<1>2. CASE Stop /\ UNCHANGED runs
  BY <1>1, <1>2, ReceiptRest DEF Stop, Busy
<1>3. CASE ~ (Stop /\ UNCHANGED runs)
  <2>1. /\ runs' = runs \union {p} /\ pc' = "outcome"
        /\ UNCHANGED <<intent, mode, cursor, hist>> /\ Key(intent') = i
        /\ mode = Plain \/ (cursor = Len(entries[i]) /\ AllSettled(i))
    BY <1>3 DEF PublishReceipt, Key
  <2>2. /\ intent = head /\ i \in Intent /\ header \in [Intent -> Nat \union {None}]
        /\ p[1] = i /\ p[2] = hist /\ i[1] = head.gen /\ head.gen \in Nat
    <3>1. intent = head
      BY <1>1 DEF ReceiptIInv, SpanIInv, TWInv, WorkInv, Busy
    <3>3. i \in Intent
      BY <1>1, <3>1, SpanStart, BoundAssumption
         DEF ReceiptIInv, SpanIInv, TWInv, TypeOK, WorkInv, Busy, Key, Record
    <3>2. header \in [Intent -> Nat \union {None}] /\ head.gen \in Nat
      BY <1>1, SpanStart, BoundAssumption
         DEF ReceiptIInv, SpanIInv, TWInv, TypeOK, DiskOK, Record
    <3> QED BY <3>1, <3>2, <3>3 DEF Key
  <2>3. ASSUME NEW r \in runs, r[1] = i PROVE r = p
    <3>1. mode # Plain
      BY <1>1, <2>3 DEF ReceiptIInv, ReceiptInv
    <3>2. r[2] = hist /\ r = <<r[1], r[2]>>
      BY <1>1, <2>1, <2>3, <3>1, AtReceipt, RunsType DEF ReceiptIInv, SpanIInv
    <3>3. QED BY <2>3, <3>2
  <2>4. ASSUME header[i] # None
        PROVE  /\ mode # Plain /\ AllSettled(i)
               /\ \A n \in 1..Len(entries[i]) : Follows(entries[i][n], hist)
               /\ Reaches(Settled(head.receipt), entries[i], Len(entries[i]), hist)
    <3>1. mode # Plain
      BY <1>1, <2>2, <2>4 DEF ReceiptIInv, ModeInv
    <3>2. QED BY <1>1, <2>1, <3>1 DEF ReceiptIInv, PlaceInv, Busy
  <2> HIDE DEF p
  <2>5. ReceiptMatchesJournal'
    <3>1. ASSUME NEW r \in runs', NEW s \in runs', r[1] = s[1] PROVE r = s
      <4>1. (r \in runs \/ r = p) /\ (s \in runs \/ s = p)
        BY <2>1
      <4>2. r \in runs /\ s \in runs => r = s
        BY <3>1 DEF ReceiptIInv, ReceiptMatchesJournal
      <4>3. QED BY <2>2, <2>3, <3>1, <4>1, <4>2
    <3>2. ASSUME NEW r \in runs', header[r[1]] # None, NEW n \in 1..Len(entries[r[1]])
          PROVE  Follows(entries[r[1]][n], r[2])
      <4>1. CASE r = p
        BY <2>2, <2>4, <3>2, <4>1
      <4>2. CASE r \in runs
        BY <3>2, <4>2 DEF ReceiptIInv, ReceiptMatchesJournal, Follows
      <4>3. QED BY <2>1, <4>1, <4>2
    <3>3. QED BY <1>1, <3>1, <3>2 DEF ReceiptMatchesJournal, Follows
  <2>6. ReceiptInv'
    <3>1. ASSUME NEW r \in runs'
          PROVE  /\ r[1][1] <= head.gen
                 /\ header[r[1]] # None =>
                       /\ \A n \in 1..Len(entries[r[1]]) : ~ Started(entries[r[1]][n])
                       /\ ~ Running(r[2])
                       /\ head.status = "uncertain" /\ r[1] = Key(head) =>
                             Reaches(Settled(head.receipt), entries[r[1]], Len(entries[r[1]]), r[2])
      <4>1. CASE r = p
        BY <1>1, <2>2, <2>4, <4>1 DEF AllSettled
      <4>2. CASE r \in runs
        BY <4>2 DEF ReceiptIInv, ReceiptInv, AllSettled
      <4>3. QED BY <2>1, <4>1, <4>2
    <3>2. Key(head') = Key(head)
      BY <1>1 DEF Key
    <3>3. QED BY <1>1, <2>1, <3>1, <3>2 DEF ReceiptInv, AllSettled
  <2>7. PlaceInv'
    BY <1>1, <2>1 DEF ReceiptIInv, PlaceInv, Busy
  <2>8. QED BY <2>5, <2>6, <2>7 DEF ReceiptIInv
<1>4. QED BY <1>2, <1>3

LEMMA NextReceipt ==
    ASSUME ReceiptIInv, [Next]_vars, Agreed
    PROVE  ReceiptIInv'
<1>1. SpanIInv' /\ ModeInv'
  BY NextSpan, NextMode DEF ReceiptIInv, SpanIInv
<1>2. CASE RefuseEffect \/ UnsettledDeadline \/ Crash
  <2>1. UNCHANGED <<chain, header, entries, runs>> /\ pc' \notin Busy
    BY <1>2 DEF RefuseEffect, UnsettledDeadline, Crash, Stop, Busy, disk
  <2>2. QED BY <1>1, <2>1, ReceiptRest
<1>3. CASE Inspect \/ Tick \/ Reconfigure \/ UNCHANGED vars
  <2>1. UNCHANGED <<chain, header, entries, runs>> /\ (pc' \notin Busy \/ UNCHANGED worker)
    BY <1>3 DEF Inspect, Tick, Reconfigure, vars, disk, Busy
  <2>2. QED BY <1>1, <2>1, ReceiptRest
<1>4. CASE CreateJournal \/ SaveIntent \/ Recover
  BY <1>1, <1>4, ReceiptCreateJournal, ReceiptSaveIntent, ReceiptRecover
<1>5. CASE ReplayEffect \/ RestartEffect \/ StartEffect
  BY <1>1, <1>5, ReceiptReplay, ReceiptRestart, ReceiptStart
<1>6. CASE Invoke \/ ExpireUncalled \/ Settle \/ RecordAnswer
  BY <1>1, <1>6, ReceiptMove, ReceiptRecord
<1>7. CASE PublishReceipt \/ SaveOutcome
  BY <1>1, <1>7, ReceiptPublish, ReceiptSaveOutcome
<1>8. QED BY <1>2, <1>3, <1>4, <1>5, <1>6, <1>7 DEF Next, Step

(* Where the hosts of a store agree on journaling, a dispatch has one      *)
(* receipt, however often it is interrupted, recovered and published       *)
(* again, and that receipt answers each effect as the journal does.        *)
THEOREM OneReceipt ==
    ASSUME Agreed
    PROVE  Spec => []ReceiptMatchesJournal
<1>1. Init => ReceiptIInv
  BY InitSpan DEF ReceiptIInv, Init, ReceiptMatchesJournal, ModeInv, PlaceInv, ReceiptInv, Busy
<1>2. ReceiptIInv /\ [Next]_vars => ReceiptIInv'
  BY NextReceipt
<1>3. ReceiptIInv => ReceiptMatchesJournal
  BY DEF ReceiptIInv
<1>4. QED BY <1>1, <1>2, <1>3, PTL DEF Spec
-----------------------------------------------------------------------------
(* Without a journal a dispatch is never recovered, so its calls are for   *)
(* ever longer sequences of answers.                                       *)
LongerInv ==
    \A n \in 1..Len(calls) :
        /\ calls[n].gen <= head.gen
        /\ pc \in Busy /\ calls[n].gen = head.gen =>
              /\ Len(calls[n].at) <= Len(hist)
              /\ pc \in {"run", "call", "outcome"} => Len(calls[n].at) < Len(hist)

PlainIInv == LongerInv /\ NeverReissued

LEMMA CallType ==
    ASSUME TWInv, NEW n \in 1..Len(calls)
    PROVE  calls[n].gen \in Nat /\ Len(calls[n].at) \in Nat
<1>1. calls[n] \in [gen : 1..MaxGenerations, at : Seq(Answer)]
  BY ElementOfSeq DEF TWInv, TypeOK
<1>2. calls[n].gen \in Nat /\ calls[n].at \in Seq(Answer)
  BY <1>1, BoundAssumption
<1>3. QED BY <1>2, LenProperties

LEMMA PlainInvoke ==
    ASSUME TWInv, PlainIInv, Invoke
    PROVE  PlainIInv'
<1> DEFINE c == [gen |-> intent.gen, at |-> hist]
           S == [gen : 1..MaxGenerations, at : Seq(Answer)]
<1>1. /\ UNCHANGED <<head, hist>> /\ pc = "call" /\ pc' = "called"
      /\ intent = head /\ Key(intent) \in Intent /\ hist \in Seq(Answer) /\ Len(hist) \in Nat
  BY AtWork DEF Invoke, disk, head, TWInv, WorkInv, Busy
<1>2. calls \in Seq(S) /\ Len(calls) \in Nat /\ c \in S
  BY <1>1, LenProperties DEF TWInv, TypeOK, Key, Intent
<1>3. c.gen = head.gen /\ c.at = hist
  BY <1>1
<1> HIDE DEF c
<1>4. /\ Len(calls') = Len(calls) + 1 /\ calls'[Len(calls) + 1] = c
      /\ \A n \in 1..Len(calls) : calls'[n] = calls[n]
  BY <1>2, AppendProperties DEF Invoke, c
<1>5. \A n \in 1..Len(calls) : calls[n].gen <= head.gen /\ calls[n] # c
  <2> SUFFICES ASSUME NEW n \in 1..Len(calls) PROVE calls[n].gen <= head.gen /\ calls[n] # c
    OBVIOUS
  <2>1. calls[n].gen = head.gen => Len(calls[n].at) < Len(hist)
    BY <1>1 DEF PlainIInv, LongerInv, Busy
  <2>2. Len(calls[n].at) \in Nat
    BY CallType
  <2>3. QED BY <1>1, <1>3, <2>1, <2>2 DEF PlainIInv, LongerInv
<1>6. \A n \in 1..Len(calls') : n = Len(calls) + 1 \/ n \in 1..Len(calls)
  BY <1>2, <1>4
<1>7. LongerInv'
  <2> SUFFICES ASSUME NEW n \in 1..Len(calls')
               PROVE  /\ calls'[n].gen <= head.gen
                      /\ calls'[n].gen = head.gen => Len(calls'[n].at) <= Len(hist)
    BY <1>1 DEF LongerInv
  <2>1. CASE n = Len(calls) + 1
    <3>1. head.gen \in Nat
      BY <1>2, <1>3, BoundAssumption DEF c
    <3>2. QED BY <1>1, <1>3, <1>4, <2>1, <3>1
  <2>2. CASE n \in 1..Len(calls)
    BY <1>1, <1>4, <2>2 DEF PlainIInv, LongerInv, Busy
  <2>3. QED BY <1>6, <2>1, <2>2
<1>8. NeverReissued'
  <2> SUFFICES ASSUME NEW k \in 1..Len(calls'), NEW n \in 1..Len(calls'), k # n, calls'[k] = calls'[n]
               PROVE  Plan(calls'[k].at) = "read"
    BY DEF NeverReissued
  <2>1. k \in 1..Len(calls) /\ n \in 1..Len(calls)
    BY <1>4, <1>5, <1>6
  <2>2. QED BY <1>4, <2>1 DEF PlainIInv, NeverReissued
<1>9. QED BY <1>7, <1>8 DEF PlainIInv

LEMMA NextPlain ==
    ASSUME TWInv, ModeInv, PlainIInv, [Next]_vars, Plain \in Mode(config)
    PROVE  PlainIInv'
<1>0. /\ pc # "idle" => mode = Plain
      /\ \A i \in Intent : header[i] = None
  BY DEF ModeInv
<1>1. CASE Invoke
  BY <1>1, PlainInvoke
<1>2. CASE ~ Invoke
  <2>1. UNCHANGED calls
    BY <1>2 DEF Next, Step, vars, disk, Inspect, Tick, CreateJournal, SaveIntent, ReplayEffect,
        RestartEffect, StartEffect, RefuseEffect, ExpireUncalled, Settle, UnsettledDeadline,
        RecordAnswer, PublishReceipt, SaveOutcome, Recover, Crash, Reconfigure
  <2>2. NeverReissued'
    BY <2>1 DEF PlainIInv, NeverReissued
  <2>3. ~ Recover
    BY <1>0 DEF Recover, Recoverable, Openable, TWInv, WorkInv
  <2>4. \A n \in 1..Len(calls) : calls[n].gen <= head.gen /\ calls[n].gen \in Nat
                                 /\ Len(calls[n].at) \in Nat
    BY CallType DEF PlainIInv, LongerInv
  <2>5. CASE SaveIntent
    <3>1. head' = intent /\ intent.gen = head.gen + 1 /\ head.gen \in Nat
      <4>1. head \in Record
        BY FinalType DEF TWInv, TypeOK, DiskOK, head
      <4>2. QED BY <2>5, <4>1, SaveIntentTW, BoundAssumption DEF SaveIntent, TWInv, WorkInv, Record
    <3>2. \A n \in 1..Len(calls) : calls[n].gen <= head'.gen /\ calls[n].gen # head'.gen
      BY <2>4, <3>1
    <3>3. QED BY <2>1, <2>2, <3>2 DEF PlainIInv, LongerInv
  <2>6. CASE SaveOutcome
    <3>1. head'.gen = head.gen /\ pc' \notin Busy
      BY <2>6, SaveOutcomeTW DEF SaveOutcome, Stop, Busy, Concluded
    <3>2. QED BY <2>1, <2>2, <2>4, <3>1 DEF PlainIInv, LongerInv
  <2>7. CASE RecordAnswer
    <3>1. UNCHANGED head /\ pc = "answer" /\ pc' = "run" /\ hist' = Append(hist, answer)
      BY <2>7 DEF RecordAnswer, head
    <3>2. Len(hist') = Len(hist) + 1 /\ Len(hist) \in Nat
      BY <3>1, AppendProperties, LenProperties DEF TWInv, TypeOK, WorkerOK, WorkInv
    <3>3. ASSUME NEW n \in 1..Len(calls), calls[n].gen = head.gen PROVE Len(calls[n].at) < Len(hist')
      BY <2>4, <3>1, <3>2, <3>3 DEF PlainIInv, LongerInv, Busy
    <3>4. ASSUME NEW n \in 1..Len(calls), calls[n].gen = head.gen PROVE Len(calls[n].at) <= Len(hist')
      BY <2>4, <3>2, <3>3, <3>4
    <3>5. QED BY <2>1, <2>2, <2>4, <3>1, <3>3, <3>4 DEF PlainIInv, LongerInv
  <2>8. CASE ~ (SaveIntent \/ SaveOutcome \/ RecordAnswer)
    <3>1. UNCHANGED head
      BY <1>2, <2>3, <2>8 DEF Next, Step, vars, disk, head, Inspect, Tick, CreateJournal,
          ReplayEffect, RestartEffect, StartEffect, RefuseEffect, ExpireUncalled, Settle,
          UnsettledDeadline, PublishReceipt, Crash, Reconfigure
    <3>2. ~ ReplayEffect /\ ~ RestartEffect
      BY <1>0 DEF ReplayEffect, RestartEffect, AtRecorded
    <3>3. \/ pc' \notin Busy
          \/ UNCHANGED <<pc, hist>>
          \/ pc = "run" /\ pc' \in {"call", "outcome"} /\ UNCHANGED hist
          \/ pc \in {"call", "called"} /\ pc' = "answer" /\ UNCHANGED hist
      BY <1>2, <2>3, <2>8, <3>2 DEF Next, Step, vars, worker, Stop, Busy, Inspect, Tick,
          CreateJournal, StartEffect, RefuseEffect, ExpireUncalled, Settle,
          UnsettledDeadline, PublishReceipt, Crash, Reconfigure
    <3>4. QED BY <2>1, <2>2, <2>4, <3>1, <3>3 DEF PlainIInv, LongerInv, Busy
  <2>9. QED BY <2>5, <2>6, <2>7, <2>8
<1>3. QED BY <1>1, <1>2

OnceIInv ==
    /\ TWInv /\ ModeInv
    /\ IF Plain \in Mode(config) THEN PlainIInv ELSE SafeInv

(* Where the hosts of a store agree on journaling, no effect other than a  *)
(* read is called twice for one place of one dispatch: for every program,  *)
(* every configuration change, any number of crashes, deadlines and        *)
(* recoveries.                                                             *)
THEOREM AtMostOnce ==
    ASSUME Agreed
    PROVE  Spec => []NeverReissued
<1>1. Init => OnceIInv
  <2> SUFFICES ASSUME Init PROVE OnceIInv
    OBVIOUS
  <2>1. (\A n \in 1..Len(calls) : FALSE) /\ pc = "idle"
    BY DEF Init
  <2>2. ModeInv
    BY <2>1 DEF Init, ModeInv, Busy
  <2>3. QED BY <2>1, <2>2, InitTW
            DEF OnceIInv, PlainIInv, LongerInv, SafeInv, CallsInv, PassedInv, FreshInv, Busy,
                Journaled, NeverReissued
<1>2. OnceIInv /\ [Next]_vars => OnceIInv'
  <2> SUFFICES ASSUME OnceIInv, [Next]_vars PROVE OnceIInv'
    OBVIOUS
  <2>1. TWInv' /\ ModeInv'
    BY NextTW, NextMode DEF OnceIInv
  <2>2. Plain \in Mode(config') <=> Plain \in Mode(config)
    <3>1. config \in Config
      BY DEF OnceIInv, TWInv, TypeOK
    <3>2. UNCHANGED config \/ config' \in Peers(config)
      BY DEF Next, Step, vars, Inspect, Tick, CreateJournal, SaveIntent, ReplayEffect,
          RestartEffect, StartEffect, RefuseEffect, Invoke, ExpireUncalled, Settle,
          UnsettledDeadline, RecordAnswer, PublishReceipt, SaveOutcome, Recover, Crash, Reconfigure
    <3>3. QED BY <3>1, <3>2 DEF Agreed
  <2>3. CASE Plain \in Mode(config)
    BY <2>1, <2>2, <2>3, NextPlain DEF OnceIInv
  <2>4. CASE Plain \notin Mode(config)
    BY <2>1, <2>2, <2>4, NextSafe DEF OnceIInv
  <2>5. QED BY <2>3, <2>4
<1>3. OnceIInv => NeverReissued
  BY DEF OnceIInv, SafeInv, PlainIInv
<1>4. QED BY <1>1, <1>2, <1>3, PTL DEF Spec
=============================================================================
