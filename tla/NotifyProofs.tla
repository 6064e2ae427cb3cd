---------------------------- MODULE NotifyProofs ----------------------------
(***************************************************************************)
(* The outbox neither loses nor, while nothing fails, reorders what it     *)
(* holds.  Neither fact is inductive alone: between its selection and its  *)
(* mark a row is in the hands of a notifier, several rows may be in the    *)
(* hands of several notifiers, and each works from a batch that may be     *)
(* long stale.  Heard says what a notifier about to mark a row knows;      *)
(* Story that every batch, however stale, is closed towards the past: what *)
(* is older than one of its rows is in it too, or was received.            *)
(* Accounted gives each delivery of a row its cause: a notifier that still *)
(* has to mark it, a notifier that will not post it again, or a fault.     *)
(* Passes follows an order along the table of moves: the row of a gateway  *)
(* precedes the rows of all that lies behind it.                           *)
(***************************************************************************)
EXTENDS Notify, TLAPS, FiniteSetTheorems, WellFoundedInduction

\* What is marked, or about to be marked, was received.
Heard ==
    /\ NotifiedMeansReceived
    /\ \A n \in Notifiers : notifyPc[n] = "mark" => received[Current(n)] > 0

\* Until the first loss nothing is backed off, and rows are heard of oldest first.
Story ==
    losses = 0 =>
        /\ waiting = {}
        /\ \A n \in Notifiers : notifyPc[n] # "backoff"
        /\ \A i, j \in Reportable : i < j /\ received[j] > 0 => received[i] > 0
        /\ \A n \in Notifiers : \A j \in notifyBatch[n], i \in Reportable :
               i < j => i \in notifyBatch[n] \/ received[i] > 0

Inv == TypeOK /\ Heard /\ Story

-----------------------------------------------------------------------------
\* A set of rows that is not empty has an oldest one.
LEMMA OldestExists ==
    ASSUME NEW S, S \subseteq Nat, S # {}
    PROVE  Min(S) \in S /\ \A j \in S : Min(S) <= j
  <1>1. PICK i \in S : \A j \in S : ~(<<j, i>> \in OpToRel(<, Nat))
    BY NatLessThanWellFounded, WFMin
  <1>2. ASSUME NEW j \in S PROVE i <= j
    <2>1. i \in Nat /\ j \in Nat /\ <<j, i>> \in Nat \X Nat
      BY <1>1, <1>2
    <2>2. <<j, i>>[1] = j /\ <<j, i>>[2] = i
      OBVIOUS
    <2>3. ~(j < i)
      BY <1>1, <1>2, <2>1, <2>2 DEF OpToRel
    <2> QED
      BY <2>1, <2>3
  <1> QED
    BY <1>2 DEF Min

\* The row in hand is the oldest of the batch, and a row of the history.
LEMMA CurrentIsOldest ==
    ASSUME TypeOK, NEW n \in Notifiers, notifyPc[n] # "idle"
    PROVE  /\ Current(n) \in notifyBatch[n] /\ Current(n) \in Reportable
           /\ \A j \in notifyBatch[n] : Current(n) <= j
  <1>1. notifyBatch[n] \subseteq Reportable /\ notifyBatch[n] # {} /\ Reportable \subseteq Nat
    BY DEF TypeOK, Reportable
  <1> QED
    BY <1>1, OldestExists DEF Current

\* What sweep selects is what is due, as far as the batch goes, from the oldest on.
LEMMA OldestDueIsClosed ==
    ASSUME TypeOK, NEW j \in OldestDue, NEW i \in Due, i < j
    PROVE  i \in OldestDue
  <1> DEFINE Before(k) == {q \in Due : q < k}
  <1>1. Due \subseteq 1 .. Len(history) /\ IsFiniteSet(1 .. Len(history)) /\ Len(history) \in Nat
    BY FS_Interval DEF TypeOK, Due, Reportable
  <1>2. IsFiniteSet(Before(j)) /\ IsFiniteSet(Before(i))
    BY <1>1, FS_Subset
  <1>3. Before(i) \subseteq Before(j)
    <2>1. Due \subseteq Nat /\ i \in Nat /\ j \in Nat
      BY <1>1 DEF OldestDue
    <2>2. \A q \in Nat : q < i => q < j
      BY <2>1
    <2> QED
      BY <2>1, <2>2
  <1>4. /\ Cardinality(Before(i)) <= Cardinality(Before(j))
        /\ Cardinality(Before(i)) \in Nat /\ Cardinality(Before(j)) \in Nat
    BY <1>2, <1>3, FS_Subset, FS_CardinalityType
  <1>5. Cardinality(Before(j)) < Batch
    BY DEF OldestDue
  <1> QED
    BY <1>4, <1>5, NotifyAssumptions DEF OldestDue

-----------------------------------------------------------------------------
\* At the start there is nothing to report.
LEMMA InvInit == Init => Inv
  <1> SUFFICES ASSUME Init PROVE Inv
    OBVIOUS
  <1>1. Reportable = {} /\ DOMAIN history = {}
    BY DEF Init, Reportable
  <1>2. TypeOK
    BY <1>1, FaultBudgets DEF Init, FaultsInit, FaultsTypeOK, TypeOK, States
  <1>3. Heard /\ Story
    BY <1>1 DEF Init, Heard, Story, NotifiedMeansReceived
  <1> QED
    BY <1>2, <1>3 DEF Inv

\* Faults stay in their budgets, and a loss shows.
LEMMA FaultsCounted ==
    ASSUME FaultsTypeOK, Lose \/ Crash \/ UNCHANGED faultVars
    PROVE  FaultsTypeOK' /\ (losses' = 0 => losses = 0) /\ (Lose => losses' # 0)
  BY FaultBudgets DEF FaultsTypeOK, Lose, Crash, faultVars

-----------------------------------------------------------------------------
\* A new row is the newest, and nobody received it yet.
LEMMA RowAppended ==
    ASSUME TypeOK, NEW o \in Orders, NEW to \in States,
           history' = Append(history, [order |-> o, to |-> to]),
           received' = Append(received, 0)
    PROVE  /\ history' \in Seq(Moves) /\ received' \in Seq(Nat) /\ Len(received') = Len(history')
           /\ Reportable \subseteq Reportable'
           /\ \A i \in Reportable : received'[i] = received[i]
           /\ \A i \in Reportable' \ Reportable :
                  received'[i] = 0 /\ \A j \in Reportable : j < i
  <1>1. [order |-> o, to |-> to] \in Moves
    BY DEF Moves
  <1>2. history' \in Seq(Moves) /\ received' \in Seq(Nat) /\ Len(received') = Len(history')
    BY <1>1 DEF TypeOK
  <1>3. /\ Len(history) \in Nat /\ DOMAIN history = 1 .. Len(history)
        /\ DOMAIN history' = 1 .. Len(history) + 1
        /\ \A i \in 1 .. Len(history) : history'[i] = history[i] /\ received'[i] = received[i]
        /\ received'[Len(history) + 1] = 0
    BY <1>1 DEF TypeOK
  <1>4. Reportable \subseteq Reportable' /\ Reportable' \ Reportable \subseteq {Len(history) + 1}
    BY <1>3 DEF Reportable
  <1> QED
    BY <1>2, <1>3, <1>4 DEF Reportable

\* A reception counts for its row alone.
LEMMA RowReceived ==
    ASSUME TypeOK, NEW i \in Reportable, Receives(i)
    PROVE  /\ received' \in Seq(Nat) /\ Len(received') = Len(received)
           /\ received'[i] > 0
           /\ \A j \in Reportable \ {i} : received'[j] = received[j]
  BY DEF TypeOK, Receives, Reportable

\* What a batch is after its row in hand is done with.
LEMMA EventDoneKeepsTypes ==
    ASSUME TypeOK, NEW n \in Notifiers, notifyPc[n] # "idle", EventDone(n)
    PROVE  /\ notifyPc' \in [Notifiers -> {"idle", "post", "mark", "backoff"}]
           /\ notifyBatch' \in [Notifiers -> SUBSET Reportable]
           /\ \A m \in Notifiers : notifyPc'[m] # "idle" => notifyBatch'[m] # {}
           /\ notifyBatch'[n] = notifyBatch[n] \ {Current(n)}
           /\ notifyPc'[n] \in {"idle", "post"}
           /\ \A m \in Notifiers \ {n} :
                  notifyPc'[m] = notifyPc[m] /\ notifyBatch'[m] = notifyBatch[m]
  <1>1. Current(n) \in notifyBatch[n]
    BY CurrentIsOldest
  <1> QED
    BY <1>1 DEF TypeOK, EventDone, NotifyAt

-----------------------------------------------------------------------------
\* Types: every action, one by one.
LEMMA TypeKept ==
    ASSUME TypeOK, [Next]_vars
    PROVE  TypeOK'
  <1> USE DEF moveVars, outboxVars, notifyVars
  <1>1. ASSUME NEW o \in Orders, Move(o)
        PROVE  TypeOK'
    BY <1>1, FaultsCounted DEF Move, TypeOK, Reportable, FaultsTypeOK, faultVars
  <1>2. ASSUME NEW o \in Orders, NEW to \in States, recordTransition(o, to)
        PROVE  TypeOK'
    <2>1. moving' \in [Orders -> SUBSET States] /\ FaultsTypeOK'
      BY <1>2, FaultsCounted DEF recordTransition, TypeOK
    <2>2. /\ history' \in Seq(Moves) /\ received' \in Seq(Nat) /\ Len(received') = Len(history')
          /\ Reportable \subseteq Reportable'
      <3>1. CASE UNCHANGED <<history, received>>
        BY <3>1 DEF TypeOK, Reportable
      <3>2. CASE /\ history' = Append(history, [order |-> o, to |-> to])
               /\ received' = Append(received, 0)
        BY <3>2, RowAppended DEF TypeOK
      <3> QED
        BY <1>2, <3>1, <3>2 DEF recordTransition
    <2> QED
      BY <1>2, <2>1, <2>2 DEF recordTransition, TypeOK
  <1>3. ASSUME NEW n \in Notifiers, NotifyQuery(n)
        PROVE  TypeOK'
    <2>1. OldestDue \subseteq Reportable
      BY DEF OldestDue, Due
    <2> QED
      BY <1>3, <2>1 DEF NotifyQuery, NotifyAt, TypeOK, Reportable, FaultsTypeOK, faultVars
  <1>4. ASSUME NEW n \in Notifiers, NotifyPosts(n)
        PROVE  TypeOK'
    <2>1. Current(n) \in Reportable /\ Receives(Current(n))
      BY <1>4, CurrentIsOldest DEF NotifyPosts
    <2>2. received' \in Seq(Nat) /\ Len(received') = Len(received)
      BY <2>1, RowReceived
    <2> QED
      BY <1>4, <2>2 DEF NotifyPosts, NotifyAt, TypeOK, Reportable, FaultsTypeOK, faultVars
  <1>5. ASSUME NEW n \in Notifiers, NotifyPostFails(n)
        PROVE  TypeOK'
    <2>1. Current(n) \in Reportable
      BY <1>5, CurrentIsOldest DEF NotifyPostFails
    <2>2. received' \in Seq(Nat) /\ Len(received') = Len(received)
      BY <1>5, <2>1, RowReceived DEF NotifyPostFails, TypeOK
    <2>3. FaultsTypeOK'
      BY <1>5, FaultsCounted DEF NotifyPostFails, TypeOK
    <2> QED
      BY <1>5, <2>2, <2>3 DEF NotifyPostFails, NotifyAt, TypeOK, Reportable
  <1>6. ASSUME NEW n \in Notifiers, NotifyMarks(n) \/ NotifyBacksOff(n)
        PROVE  TypeOK'
    <2>1. notifyPc[n] # "idle" /\ EventDone(n)
      BY <1>6 DEF NotifyMarks, NotifyBacksOff
    <2>2. Current(n) \in Reportable
      BY <2>1, CurrentIsOldest
    <2>3. FaultsTypeOK'
      BY <1>6, FaultsCounted DEF NotifyMarks, NotifyBacksOff, TypeOK
    <2>4. notified' \subseteq Reportable /\ waiting' \subseteq Reportable
      BY <1>6, <2>2 DEF NotifyMarks, NotifyBacksOff, TypeOK
    <2>5. UNCHANGED <<status, moving, history, received>> /\ Reportable' = Reportable
      BY <1>6 DEF NotifyMarks, NotifyBacksOff, Reportable
    <2> QED
      BY <2>1, <2>3, <2>4, <2>5, EventDoneKeepsTypes DEF TypeOK
  <1>7. ASSUME NEW n \in Notifiers, NotifierCrash(n)
        PROVE  TypeOK'
    BY <1>7, FaultsCounted DEF NotifierCrash, NotifyAt, TypeOK, Reportable
  <1>8. ASSUME BackOffEnds \/ UNCHANGED vars
        PROVE  TypeOK'
    BY <1>8 DEF BackOffEnds, vars, TypeOK, Reportable, FaultsTypeOK, faultVars
  <1> QED
    BY <1>1, <1>2, <1>3, <1>4, <1>5, <1>6, <1>7, <1>8 DEF Next

-----------------------------------------------------------------------------
\* What was received stays received; only a notifier that posts reaches its mark.
LEMMA HeardKept ==
    ASSUME TypeOK, Heard, [Next]_vars
    PROVE  Heard'
  <1> USE DEF moveVars, outboxVars, notifyVars, Heard, NotifiedMeansReceived
  <1> DEFINE Steady == UNCHANGED <<received, notifyPc, notifyBatch>> /\ notified' = notified
  <1>1. ASSUME Steady
        PROVE  Heard'
    BY <1>1 DEF Current
  <1>2. ASSUME NEW o \in Orders, Move(o)
        PROVE  Heard'
    BY <1>1, <1>2 DEF Move
  <1>3. ASSUME NEW o \in Orders, NEW to \in States, recordTransition(o, to)
        PROVE  Heard'
    <2>1. CASE received' = received
      BY <1>1, <1>3, <2>1 DEF recordTransition
    <2>2. CASE /\ history' = Append(history, [order |-> o, to |-> to])
               /\ received' = Append(received, 0)
      <3>1. \A i \in Reportable : received'[i] = received[i]
        BY <2>2, RowAppended DEF TypeOK
      <3>2. notified \subseteq Reportable
        BY DEF TypeOK
      <3>3. \A n \in Notifiers : notifyPc[n] = "mark" => Current(n) \in Reportable
        BY CurrentIsOldest
      <3> QED
        BY <1>3, <3>1, <3>2, <3>3 DEF recordTransition, Current
    <2> QED
      BY <1>3, <2>1, <2>2 DEF recordTransition
  <1>4. ASSUME NEW n \in Notifiers, NotifyQuery(n) \/ NotifierCrash(n)
        PROVE  Heard'
    BY <1>4 DEF NotifyQuery, NotifierCrash, NotifyAt, TypeOK, Current
  <1>5. ASSUME NEW n \in Notifiers, NotifyPosts(n) \/ NotifyPostFails(n)
        PROVE  Heard'
    <2>1. Current(n) \in Reportable /\ notified \subseteq Reportable
      BY <1>5, CurrentIsOldest DEF NotifyPosts, NotifyPostFails, TypeOK
    <2>2. \A m \in Notifiers : notifyPc[m] = "mark" => Current(m) \in Reportable
      BY CurrentIsOldest
    <2>3. /\ \A i \in Reportable : received[i] > 0 => received'[i] > 0
          /\ NotifyPosts(n) => received'[Current(n)] > 0
      BY <1>5, <2>1, RowReceived DEF NotifyPosts, NotifyPostFails
    <2>4. UNCHANGED <<notified, notifyBatch>>
      BY <1>5 DEF NotifyPosts, NotifyPostFails
    <2>5. \A m \in Notifiers : notifyPc'[m] = "mark" =>
              notifyPc[m] = "mark" \/ (m = n /\ NotifyPosts(n))
      BY <1>5 DEF NotifyPosts, NotifyPostFails, NotifyAt, TypeOK
    <2> QED
      BY <2>1, <2>2, <2>3, <2>4, <2>5 DEF Current
  <1>6. ASSUME NEW n \in Notifiers, NotifyMarks(n) \/ NotifyBacksOff(n)
        PROVE  Heard'
    <2>1. notifyPc[n] # "idle" /\ EventDone(n) /\ received' = received
      BY <1>6 DEF NotifyMarks, NotifyBacksOff
    <2>2. notified' \subseteq notified \union {Current(n)}
          /\ (notified' = notified \/ notifyPc[n] = "mark")
      BY <1>6 DEF NotifyMarks, NotifyBacksOff
    <2>3. \A m \in Notifiers : notifyPc'[m] = "mark" =>
              notifyPc[m] = "mark" /\ notifyBatch'[m] = notifyBatch[m]
      BY <2>1, EventDoneKeepsTypes
    <2> QED
      BY <2>1, <2>2, <2>3 DEF Current
  <1>7. ASSUME BackOffEnds \/ UNCHANGED vars
        PROVE  Heard'
    BY <1>1, <1>7 DEF BackOffEnds, vars
  <1> QED
    BY <1>2, <1>3, <1>4, <1>5, <1>6, <1>7 DEF Next

-----------------------------------------------------------------------------
\* What the story needs of a step that receives nothing and selects nothing new: no new row is
\* older than an old one, and what leaves a batch was received.
LEMMA StoryUntouched ==
    ASSUME TypeOK, TypeOK', losses = 0, Story, waiting' = {},
           \A n \in Notifiers : notifyPc'[n] # "backoff",
           Reportable \subseteq Reportable',
           \A i \in Reportable : received'[i] = received[i],
           \A i \in Reportable' \ Reportable :
               received'[i] = 0 /\ \A j \in Reportable : j < i,
           \A n \in Notifiers : /\ notifyBatch'[n] \subseteq notifyBatch[n]
                                /\ \A i \in notifyBatch[n] \ notifyBatch'[n] : received[i] > 0
                                       \/ notifyBatch'[n] = {}
    PROVE  Story'
  <1>1. Reportable' \subseteq Nat
    BY DEF TypeOK, Reportable
  <1>2. ASSUME NEW i \in Reportable', NEW j \in Reportable', i < j, received'[j] > 0
        PROVE  received'[i] > 0
    <2>1. j \in Reportable
      BY <1>2
    <2>2. i \in Reportable
      BY <1>1, <1>2, <2>1
    <2> QED
      BY <1>2, <2>1, <2>2 DEF Story
  <1>3. ASSUME NEW n \in Notifiers, NEW j \in notifyBatch'[n], NEW i \in Reportable', i < j
        PROVE  i \in notifyBatch'[n] \/ received'[i] > 0
    <2>1. j \in notifyBatch[n] /\ j \in Reportable
      BY <1>3 DEF TypeOK
    <2>2. i \in Reportable
      BY <1>1, <1>3, <2>1
    <2>3. i \in notifyBatch[n] \/ received[i] > 0
      BY <1>3, <2>1, <2>2 DEF Story
    <2> QED
      BY <1>3, <2>2, <2>3
  <1> QED
    BY <1>2, <1>3 DEF Story

\* Rows are heard of in order: a batch is selected from the oldest due row on, its rows are
\* posted from the oldest on, and without a loss no row is left behind.
LEMMA StoryKept ==
    ASSUME TypeOK, TypeOK', Heard, Story, [Next]_vars
    PROVE  Story'
  <1> SUFFICES ASSUME losses' = 0 PROVE Story'
    BY DEF Story
  <1>1. losses = 0 /\ ~Lose
    <2>1. FaultsTypeOK
      BY DEF TypeOK
    <2>2. losses' = losses \/ Lose
      BY DEF Next, vars, faultVars, Move, recordTransition, Crash, NotifyQuery, NotifyPosts,
             NotifyPostFails, NotifyMarks, NotifyBacksOff, NotifierCrash, BackOffEnds
    <2> QED
      BY <2>1, <2>2, FaultsCounted DEF faultVars
  <1>2. waiting = {} /\ \A n \in Notifiers : notifyPc[n] # "backoff"
    BY <1>1 DEF Story
  <1> USE DEF moveVars, outboxVars, notifyVars
  <1>3. ASSUME NEW o \in Orders, Move(o)
        PROVE  Story'
    <2>1. UNCHANGED <<history, outboxVars, notifyVars>>
      BY <1>3 DEF Move
    <2>2. Reportable' = Reportable
      BY <2>1 DEF Reportable
    <2> QED
      BY <1>1, <1>2, <2>1, <2>2, StoryUntouched
  <1>4. ASSUME NEW o \in Orders, NEW to \in States, recordTransition(o, to)
        PROVE  Story'
    <2>1. /\ history' = Append(history, [order |-> o, to |-> to])
          /\ received' = Append(received, 0)
      BY <1>1, <1>4 DEF recordTransition, TypeOK
    <2>2. UNCHANGED <<notified, waiting, notifyVars>>
      BY <1>4 DEF recordTransition
    <2> QED
      BY <1>1, <1>2, <2>1, <2>2, RowAppended, StoryUntouched
  <1>5. ASSUME NEW n \in Notifiers, NotifyQuery(n)
        PROVE  Story'
    <2>1. /\ notifyBatch' = [notifyBatch EXCEPT ![n] = OldestDue]
          /\ notifyPc' = [notifyPc EXCEPT ![n] = "post"]
          /\ UNCHANGED <<moveVars, outboxVars>> /\ Reportable' = Reportable
      BY <1>5 DEF NotifyQuery, NotifyAt, Reportable
    <2>2. ASSUME NEW j \in OldestDue, NEW i \in Reportable, i < j
          PROVE  i \in OldestDue \/ received[i] > 0
      <3>1. i \in Due \/ i \in notified
        BY <1>2 DEF Due
      <3>2. CASE i \in Due
        BY <2>2, <3>2, OldestDueIsClosed
      <3>3. CASE i \in notified
        BY <3>3 DEF Heard, NotifiedMeansReceived
      <3> QED
        BY <3>1, <3>2, <3>3
    <2>3. \A m \in Notifiers : notifyPc'[m] # "backoff"
      BY <1>2, <2>1 DEF TypeOK
    <2>4. \A m \in Notifiers : notifyBatch'[m] = IF m = n THEN OldestDue ELSE notifyBatch[m]
      BY <2>1 DEF TypeOK
    <2> QED
      BY <1>1, <2>1, <2>2, <2>3, <2>4 DEF Story
  <1>6. ASSUME NEW n \in Notifiers, NotifyPosts(n)
        PROVE  Story'
    <2> DEFINE c == Current(n)
    <2>1. /\ UNCHANGED <<waiting, notifyBatch>> /\ Reportable' = Reportable
          /\ \A m \in Notifiers : notifyPc'[m] # "backoff"
      BY <1>2, <1>6 DEF NotifyPosts, NotifyAt, TypeOK, Reportable
    <2>2. /\ c \in notifyBatch[n] /\ c \in Reportable
          /\ \A j \in notifyBatch[n] : c <= j
      BY <1>6, CurrentIsOldest DEF NotifyPosts
    <2>3. received'[c] > 0 /\ \A j \in Reportable \ {c} : received'[j] = received[j]
      BY <1>6, <2>2, RowReceived DEF NotifyPosts
    <2>4. ASSUME NEW i \in Reportable, i < c
          PROVE  received[i] > 0
      <3>1. i \notin notifyBatch[n]
        BY <2>2, <2>4 DEF Reportable, TypeOK
      <3> QED
        BY <1>1, <2>2, <2>4, <3>1 DEF Story
    <2>5. \A i \in Reportable : received[i] > 0 => received'[i] > 0
      BY <2>3
    <2>6. ASSUME NEW i \in Reportable, NEW j \in Reportable, i < j, received'[j] > 0
          PROVE  received'[i] > 0
      BY <1>1, <2>3, <2>4, <2>5, <2>6 DEF Story
    <2>7. ASSUME NEW m \in Notifiers, NEW j \in notifyBatch[m], NEW i \in Reportable, i < j
          PROVE  i \in notifyBatch[m] \/ received'[i] > 0
      BY <1>1, <2>5, <2>7 DEF Story
    <2> QED
      BY <1>2, <2>1, <2>6, <2>7 DEF Story
  <1>7. ASSUME NEW n \in Notifiers, NotifyPostFails(n) \/ NotifyBacksOff(n)
        PROVE  Story'
    BY <1>1, <1>2, <1>7 DEF NotifyPostFails, NotifyBacksOff
  <1>8. ASSUME NEW n \in Notifiers, NotifyMarks(n)
        PROVE  Story'
    <2>1. /\ UNCHANGED <<history, received>> /\ Reportable' = Reportable /\ waiting' = {}
          /\ notifyPc[n] = "mark" /\ EventDone(n)
      BY <1>2, <1>8 DEF NotifyMarks, Reportable
    <2>2. received[Current(n)] > 0
      BY <2>1 DEF Heard
    <2>3. \A m \in Notifiers : notifyPc'[m] # "backoff"
      BY <1>2, <2>1, EventDoneKeepsTypes
    <2>4. \A m \in Notifiers : /\ notifyBatch'[m] \subseteq notifyBatch[m]
                               /\ \A i \in notifyBatch[m] \ notifyBatch'[m] : received[i] > 0
      BY <2>1, <2>2, EventDoneKeepsTypes
    <2> QED
      BY <1>1, <2>1, <2>3, <2>4, StoryUntouched
  <1>9. ASSUME NEW n \in Notifiers, NotifierCrash(n)
        PROVE  Story'
    <2>1. /\ UNCHANGED <<history, outboxVars>> /\ Reportable' = Reportable
          /\ \A m \in Notifiers : notifyPc'[m] # "backoff"
          /\ \A m \in Notifiers : notifyBatch'[m] = notifyBatch[m] \/ notifyBatch'[m] = {}
      BY <1>2, <1>9 DEF NotifierCrash, NotifyAt, TypeOK, Reportable
    <2> QED
      BY <1>1, <1>2, <2>1, StoryUntouched
  <1>10. ASSUME BackOffEnds \/ UNCHANGED vars
         PROVE  Story'
    <2>1. UNCHANGED vars
      BY <1>2, <1>10 DEF BackOffEnds
    <2> QED
      BY <2>1 DEF Story, vars, faultVars, Reportable
  <1> QED
    BY <1>3, <1>4, <1>5, <1>6, <1>7, <1>8, <1>9, <1>10 DEF Next

-----------------------------------------------------------------------------
(* Repeats.  Before its mark, every delivery of a row is accounted for by a *)
(* notifier that is about to mark it or by a fault.  After its mark nobody  *)
(* selects it again, so it is delivered once more at most for each notifier *)
(* that still has it to post; and no notifier is one of both kinds.         *)

Posted(i) == {n \in Notifiers : notifyPc[n] = "mark" /\ Current(n) = i}
ToPost(i) ==
    {n \in Notifiers : /\ i \in notifyBatch[n]
                       /\ notifyPc[n] \in {"mark", "backoff"} => Current(n) # i}

\* The faults so far.
Faulted == losses + crashes

RowAccounted(i) ==
    IF i \in notified
    THEN received[i] + Cardinality(ToPost(i)) <= Cardinality(Notifiers) + Faulted
    ELSE received[i] <= Cardinality(Posted(i)) + Faulted

Accounted == \A i \in DOMAIN received : RowAccounted(i)

\* Sets of notifiers are counted, and those that posted a row have not got it to post.
LEMMA NotifiersCounted ==
    ASSUME NEW S, S \subseteq Notifiers, NEW T, T \subseteq Notifiers
    PROVE  /\ Cardinality(S) \in Nat /\ Cardinality(T) \in Nat /\ Cardinality(Notifiers) \in Nat
           /\ S \subseteq T => Cardinality(S) <= Cardinality(T)
           /\ S \intersect T = {} => Cardinality(S) + Cardinality(T) <= Cardinality(Notifiers)
           /\ \A n : Cardinality(S \ {n}) = IF n \in S THEN Cardinality(S) - 1 ELSE Cardinality(S)
           /\ \A n : n \notin S => Cardinality(S \union {n}) = Cardinality(S) + 1
  <1>1. IsFiniteSet(S) /\ IsFiniteSet(T) /\ IsFiniteSet(Notifiers)
    BY NotifyAssumptions, FS_Subset
  <1>2. Cardinality(S) \in Nat /\ Cardinality(T) \in Nat /\ Cardinality(Notifiers) \in Nat
    BY <1>1, FS_CardinalityType
  <1>3. S \subseteq T => Cardinality(S) <= Cardinality(T)
    BY <1>1, FS_Subset
  <1>4. ASSUME S \intersect T = {} PROVE Cardinality(S) + Cardinality(T) <= Cardinality(Notifiers)
    <2>1. Cardinality(S \union T) = Cardinality(S) + Cardinality(T) - Cardinality(S \intersect T)
      BY <1>1, FS_Union
    <2>2. Cardinality(S \intersect T) = 0
      BY <1>4, FS_EmptySet
    <2>3. Cardinality(S \union T) <= Cardinality(Notifiers)
      <3>1. S \union T \in SUBSET Notifiers
        OBVIOUS
      <3> QED
        BY <1>1, <3>1, FS_Subset
    <2> QED
      BY <1>2, <2>1, <2>2, <2>3
  <1>5. \A n : Cardinality(S \ {n}) = IF n \in S THEN Cardinality(S) - 1 ELSE Cardinality(S)
    BY <1>1, FS_RemoveElement
  <1>6. \A n : n \notin S => Cardinality(S \union {n}) = Cardinality(S) + 1
    BY <1>1, FS_AddElement
  <1> QED
    BY <1>2, <1>3, <1>4, <1>5, <1>6

\* A fault is counted once.
LEMMA FaultsAdd ==
    ASSUME FaultsTypeOK, Lose \/ Crash \/ UNCHANGED faultVars
    PROVE  /\ Faulted \in Nat /\ Faulted' \in Nat
           /\ Lose \/ Crash => Faulted' = Faulted + 1
           /\ UNCHANGED faultVars => Faulted' = Faulted
  BY FaultBudgets DEF FaultsTypeOK, Lose, Crash, faultVars, Faulted

\* A row stays accounted for when its further receptions are covered by fewer who have it to post
\* or by more who posted it, or by faults.
LEMMA RowBalance ==
    ASSUME TypeOK, NEW i \in DOMAIN received, RowAccounted(i), NEW k \in {0, 1},
           received'[i] = received[i] + k, i \in notified' <=> i \in notified,
           Lose \/ Crash \/ UNCHANGED faultVars,
           i \in notified => k + Cardinality(ToPost(i)') + Faulted
                                 <= Cardinality(ToPost(i)) + Faulted',
           i \notin notified => k + Cardinality(Posted(i)) + Faulted
                                    <= Cardinality(Posted(i)') + Faulted'
    PROVE  RowAccounted(i)'
  <1>1. received[i] \in Nat
    <2>1. received \in Seq(Nat)
      BY DEF TypeOK
    <2> QED
      BY <2>1
  <1>2. Faulted \in Nat /\ Faulted' \in Nat
    BY FaultsAdd DEF TypeOK
  <1>3. /\ ToPost(i) \subseteq Notifiers /\ ToPost(i)' \subseteq Notifiers
        /\ Posted(i) \subseteq Notifiers /\ Posted(i)' \subseteq Notifiers
    BY DEF ToPost, Posted
  <1>4. /\ Cardinality(ToPost(i)') \in Nat /\ Cardinality(ToPost(i)) \in Nat
        /\ Cardinality(Posted(i)') \in Nat /\ Cardinality(Posted(i)) \in Nat
        /\ Cardinality(Notifiers) \in Nat
    BY <1>3, NotifiersCounted
  <1>5. CASE i \in notified
    <2>1. received[i] + Cardinality(ToPost(i)) <= Cardinality(Notifiers) + Faulted
      BY <1>5 DEF RowAccounted
    <2>2. received'[i] + Cardinality(ToPost(i)') <= Cardinality(Notifiers) + Faulted'
      BY <1>1, <1>2, <1>4, <1>5, <2>1
    <2> QED
      BY <1>5, <2>2 DEF RowAccounted
  <1>6. CASE i \notin notified
    <2>1. received[i] <= Cardinality(Posted(i)) + Faulted
      BY <1>6 DEF RowAccounted
    <2>2. received'[i] <= Cardinality(Posted(i)') + Faulted'
      BY <1>1, <1>2, <1>4, <1>6, <2>1
    <2> QED
      BY <1>6, <2>2 DEF RowAccounted
  <1> QED
    BY <1>5, <1>6

\* A row nobody receives or marks in this step stays accounted for, if it stays with those who
\* posted it, or if one of them goes with a fault.
LEMMA RowLeftAlone ==
    ASSUME TypeOK, NEW i \in DOMAIN received, RowAccounted(i),
           received'[i] = received[i], i \in notified' <=> i \in notified,
           Lose \/ Crash \/ UNCHANGED faultVars,
           i \in notified => ToPost(i)' \subseteq ToPost(i),
           \/ i \in notified
           \/ Posted(i) \subseteq Posted(i)'
           \/ (Lose \/ Crash) /\ \E n : Posted(i) \ {n} \subseteq Posted(i)'
    PROVE  RowAccounted(i)'
  <1>1. /\ Faulted \in Nat /\ Faulted' \in Nat
        /\ Faulted' >= Faulted
        /\ Lose \/ Crash => Faulted' = Faulted + 1
    BY FaultsAdd DEF TypeOK
  <1>2. /\ ToPost(i) \subseteq Notifiers /\ ToPost(i)' \subseteq Notifiers
        /\ Posted(i) \subseteq Notifiers /\ Posted(i)' \subseteq Notifiers
    BY DEF ToPost, Posted
  <1>3. /\ Cardinality(ToPost(i)') \in Nat /\ Cardinality(ToPost(i)) \in Nat
        /\ Cardinality(Posted(i)') \in Nat /\ Cardinality(Posted(i)) \in Nat
    BY <1>2, NotifiersCounted
  <1>4. i \in notified => Cardinality(ToPost(i)') <= Cardinality(ToPost(i))
    BY <1>2, NotifiersCounted
  <1>5. ASSUME i \notin notified
        PROVE  Cardinality(Posted(i)) + Faulted
                   <= Cardinality(Posted(i)') + Faulted'
    <2>1. CASE Posted(i) \subseteq Posted(i)'
      <3>1. Cardinality(Posted(i)) <= Cardinality(Posted(i)')
        BY <1>2, <2>1, NotifiersCounted
      <3> QED
        BY <1>1, <1>3, <3>1
    <2>2. ASSUME NEW n, Posted(i) \ {n} \subseteq Posted(i)', Lose \/ Crash
          PROVE  Cardinality(Posted(i)) + Faulted
                     <= Cardinality(Posted(i)') + Faulted'
      <3>1. Posted(i) \ {n} \subseteq Notifiers
        BY <1>2
      <3>2. /\ Cardinality(Posted(i) \ {n}) <= Cardinality(Posted(i)')
            /\ Cardinality(Posted(i) \ {n}) \in Nat
        BY <1>2, <2>2, <3>1, NotifiersCounted
      <3>3. Cardinality(Posted(i) \ {n}) >= Cardinality(Posted(i)) - 1
        BY <1>2, <1>3, NotifiersCounted
      <3> QED
        BY <1>1, <1>3, <2>2, <3>2, <3>3
    <2> QED
      BY <1>5, <2>1, <2>2
  <1>6. received'[i] = received[i] + 0
    <2>1. received \in Seq(Nat)
      BY DEF TypeOK
    <2> QED
      BY <2>1
  <1>7. i \in notified => 0 + Cardinality(ToPost(i)') + Faulted
                              <= Cardinality(ToPost(i)) + Faulted'
    BY <1>1, <1>3, <1>4
  <1>8. i \notin notified => 0 + Cardinality(Posted(i)) + Faulted
                                 <= Cardinality(Posted(i)') + Faulted'
    BY <1>1, <1>3, <1>5
  <1> QED
    BY <1>6, <1>7, <1>8, RowBalance

\* Whose hands a row is in when a notifier is done with another, or with this one.
LEMMA HandsAfterEvent ==
    ASSUME TypeOK, NEW n \in Notifiers, notifyPc[n] # "idle", EventDone(n), NEW i
    PROVE  /\ ToPost(i)' \subseteq ToPost(i)
           /\ Posted(i) \ {n} \subseteq Posted(i)'
           /\ notifyPc[n] # "mark" \/ i # Current(n) => Posted(i) \subseteq Posted(i)'
  <1>1. /\ notifyBatch'[n] = notifyBatch[n] \ {Current(n)} /\ notifyPc'[n] \in {"idle", "post"}
        /\ \A m \in Notifiers \ {n} :
               /\ notifyPc'[m] = notifyPc[m] /\ notifyBatch'[m] = notifyBatch[m]
               /\ Current(m)' = Current(m)
    BY EventDoneKeepsTypes DEF Current
  <1>2. ToPost(i)' \subseteq ToPost(i)
    BY <1>1 DEF ToPost
  <1>3. Posted(i) \ {n} \subseteq Posted(i)'
    BY <1>1 DEF Posted
  <1>4. notifyPc[n] # "mark" \/ i # Current(n) => n \notin Posted(i)
    BY DEF Posted
  <1> QED
    BY <1>2, <1>3, <1>4

\* Whose hands a row is in when a notifier goes from one pc to another with its batch as it is.
LEMMA HandsAfterPost ==
    ASSUME TypeOK, NEW n \in Notifiers, notifyPc[n] = "post", NEW pc \in {"mark", "backoff"},
           NotifyAt(n, pc), UNCHANGED notifyBatch, NEW i
    PROVE  /\ ToPost(i)' \subseteq ToPost(i)
           /\ Posted(i) \subseteq Posted(i)'
           /\ i = Current(n) =>
                  /\ n \in ToPost(i) /\ n \notin ToPost(i)' /\ n \notin Posted(i)
                  /\ pc = "mark" => n \in Posted(i)'
  <1>1. /\ notifyPc'[n] = pc
        /\ \A m \in Notifiers \ {n} : notifyPc'[m] = notifyPc[m]
        /\ \A m \in Notifiers : notifyBatch'[m] = notifyBatch[m] /\ Current(m)' = Current(m)
    BY DEF TypeOK, NotifyAt, Current
  <1>2. Current(n) \in notifyBatch[n]
    BY CurrentIsOldest
  <1>3. ToPost(i)' \subseteq ToPost(i)
    BY <1>1 DEF ToPost
  <1>4. Posted(i) \subseteq Posted(i)'
    BY <1>1 DEF Posted
  <1>5. ASSUME i = Current(n)
        PROVE  /\ n \in ToPost(i) /\ n \notin ToPost(i)' /\ n \notin Posted(i)
               /\ pc = "mark" => n \in Posted(i)'
    BY <1>1, <1>2, <1>5 DEF ToPost, Posted
  <1> QED
    BY <1>3, <1>4, <1>5

\* Every action leaves every row accounted for.
LEMMA AccountedKept ==
    ASSUME TypeOK, Accounted, [Next]_vars
    PROVE  Accounted'
  <1> USE DEF moveVars, outboxVars, notifyVars
  <1>1. ASSUME UNCHANGED <<received, notified, notifyPc, notifyBatch, faultVars>>
        PROVE  Accounted'
    BY <1>1 DEF Accounted, RowAccounted, ToPost, Posted, Current, faultVars, Faulted
  <1>2. ASSUME NEW o \in Orders, Move(o)
        PROVE  Accounted'
    BY <1>1, <1>2 DEF Move
  <1>3. ASSUME NEW o \in Orders, NEW to \in States, recordTransition(o, to)
        PROVE  Accounted'
    <2>1. /\ notified' = notified /\ UNCHANGED <<notifyPc, notifyBatch>>
          /\ Lose \/ Crash \/ UNCHANGED faultVars
      BY <1>3 DEF recordTransition
    <2>2. \A i : ToPost(i)' = ToPost(i) /\ Posted(i)' = Posted(i)
      BY <2>1 DEF ToPost, Posted, Current
    <2>3. ASSUME NEW i \in DOMAIN received, received'[i] = received[i]
          PROVE  RowAccounted(i)'
      <3>1. RowAccounted(i)
        BY DEF Accounted
      <3> QED
        BY <2>1, <2>2, <2>3, <3>1, RowLeftAlone
    <2>4. CASE received' = received
      BY <2>3, <2>4 DEF Accounted
    <2>5. CASE received' = Append(received, 0)
      <3>1. /\ received \in Seq(Nat) /\ notified \subseteq DOMAIN received
            /\ notified \subseteq 1 .. Len(received)
        BY DEF TypeOK, Reportable
      <3>2. /\ \A i \in DOMAIN received : received'[i] = received[i]
            /\ received'[Len(received) + 1] = 0
            /\ \A i \in DOMAIN received' : i \in DOMAIN received \/ i = Len(received) + 1
            /\ Len(received) + 1 \notin notified
        BY <2>5, <3>1
      <3> PICK new : new = Len(received) + 1
        OBVIOUS
      <3>3. RowAccounted(new)'
        <4>1. Posted(new)' \subseteq Notifiers
          BY DEF Posted
        <4>2. Cardinality(Posted(new)') \in Nat
          BY <4>1, NotifiersCounted
        <4>3. Faulted' \in Nat
          BY <2>1, FaultsAdd DEF TypeOK
        <4>4. 0 <= Cardinality(Posted(new)') + Faulted'
          BY <4>2, <4>3
        <4> QED
          BY <2>1, <3>2, <4>2, <4>3, <4>4 DEF RowAccounted
      <3> QED
        BY <2>3, <3>2, <3>3 DEF Accounted
    <2> QED
      BY <1>3, <2>4, <2>5 DEF recordTransition
  <1>4. ASSUME NEW n \in Notifiers, NotifyQuery(n)
        PROVE  Accounted'
    <2>1. /\ UNCHANGED <<received, notified, faultVars>>
          /\ notifyPc[n] = "idle" /\ notifyPc'[n] = "post" /\ notifyBatch'[n] = OldestDue
          /\ \A m \in Notifiers \ {n} :
                 /\ notifyPc'[m] = notifyPc[m] /\ notifyBatch'[m] = notifyBatch[m]
                 /\ Current(m)' = Current(m)
      BY <1>4 DEF NotifyQuery, NotifyAt, TypeOK, Current
    <2>2. OldestDue \intersect notified = {}
      BY DEF OldestDue, Due
    <2>3. ASSUME NEW i \in DOMAIN received
          PROVE  RowAccounted(i)'
      <3>1. i \in notified => ToPost(i)' \subseteq ToPost(i)
        BY <2>1, <2>2 DEF ToPost
      <3>2. Posted(i) \subseteq Posted(i)'
        BY <2>1 DEF Posted
      <3>3. RowAccounted(i)
        BY DEF Accounted
      <3> QED
        BY <2>1, <3>1, <3>2, <3>3, RowLeftAlone
    <2> QED
      BY <2>1, <2>3 DEF Accounted
  <1>5. ASSUME NEW n \in Notifiers, NotifyPosts(n) \/ NotifyPostFails(n)
        PROVE  Accounted'
    <2> PICK c : c = Current(n)
      OBVIOUS
    <2>1. /\ notifyPc[n] = "post" /\ UNCHANGED <<notified, notifyBatch>>
          /\ Lose \/ UNCHANGED faultVars
          /\ \/ NotifyAt(n, "mark") /\ Receives(c)
             \/ NotifyAt(n, "backoff") /\ Lose /\ (Receives(c) \/ UNCHANGED received)
      BY <1>5 DEF NotifyPosts, NotifyPostFails
    <2>2. received \in Seq(Nat) /\ c \in DOMAIN received
      BY <2>1, CurrentIsOldest DEF TypeOK, Reportable
    <2>3. /\ DOMAIN received' = DOMAIN received
          /\ \A i \in DOMAIN received \ {c} : received'[i] = received[i]
          /\ received'[c] \in {received[c] + 0, received[c] + 1}
      BY <2>1, <2>2 DEF Receives
    <2>4. \A i : ToPost(i)' \subseteq ToPost(i) /\ Posted(i) \subseteq Posted(i)'
      BY <2>1, HandsAfterPost
    <2>5. ASSUME NEW i \in DOMAIN received \ {c}
          PROVE  RowAccounted(i)'
      <3>1. RowAccounted(i)
        BY DEF Accounted
      <3> QED
        BY <2>1, <2>3, <2>4, <3>1, RowLeftAlone
    <2>6. /\ Faulted \in Nat /\ Faulted' \in Nat
          /\ Lose => Faulted' = Faulted + 1
          /\ UNCHANGED faultVars => Faulted' = Faulted
      BY <2>1, FaultsAdd DEF TypeOK
    <2>7. /\ ToPost(c) \subseteq Notifiers /\ ToPost(c)' \subseteq Notifiers
          /\ Posted(c) \subseteq Notifiers /\ Posted(c)' \subseteq Notifiers
      BY DEF ToPost, Posted
    <2>8. /\ Cardinality(ToPost(c)) \in Nat /\ Cardinality(ToPost(c)') \in Nat
          /\ Cardinality(Posted(c)) \in Nat /\ Cardinality(Posted(c)') \in Nat
      BY <2>7, NotifiersCounted
    <2>9. Cardinality(ToPost(c)') + 1 <= Cardinality(ToPost(c))
      <3>1. n \in ToPost(c) /\ ToPost(c)' \subseteq ToPost(c) \ {n}
        BY <2>1, HandsAfterPost
      <3>2. Cardinality(ToPost(c) \ {n}) = Cardinality(ToPost(c)) - 1
        BY <2>7, <3>1, NotifiersCounted
      <3>3. ToPost(c) \ {n} \subseteq Notifiers
        BY <2>7
      <3>4. Cardinality(ToPost(c)') <= Cardinality(ToPost(c) \ {n})
        BY <2>7, <3>1, <3>3, NotifiersCounted
      <3> QED
        BY <2>8, <3>2, <3>4
    <2>10. /\ Cardinality(Posted(c)) <= Cardinality(Posted(c)')
           /\ NotifyAt(n, "mark") => Cardinality(Posted(c)) + 1 <= Cardinality(Posted(c)')
      <3>1. Cardinality(Posted(c)) <= Cardinality(Posted(c)')
        BY <2>4, <2>7, NotifiersCounted
      <3>2. ASSUME NotifyAt(n, "mark")
            PROVE  Cardinality(Posted(c)) + 1 <= Cardinality(Posted(c)')
        <4>1. n \notin Posted(c) /\ Posted(c) \union {n} \subseteq Posted(c)'
          BY <2>1, <2>4, <3>2, HandsAfterPost
        <4>2. Cardinality(Posted(c) \union {n}) = Cardinality(Posted(c)) + 1
          BY <2>7, <4>1, NotifiersCounted
        <4>3. Posted(c) \union {n} \subseteq Notifiers
          BY <2>7
        <4>4. Cardinality(Posted(c) \union {n}) <= Cardinality(Posted(c)')
          BY <2>7, <4>1, <4>3, NotifiersCounted
        <4> QED
          BY <2>8, <4>2, <4>4
      <3> QED
        BY <3>1, <3>2
    <2>11. PICK k \in {0, 1} : received'[c] = received[c] + k
      BY <2>3
    <2>12. k + Cardinality(ToPost(c)') + Faulted
               <= Cardinality(ToPost(c)) + Faulted'
      BY <2>1, <2>6, <2>8, <2>9, <2>11
    <2>13. k + Cardinality(Posted(c)) + Faulted
               <= Cardinality(Posted(c)') + Faulted'
      BY <2>1, <2>6, <2>8, <2>10, <2>11
    <2>14. RowAccounted(c)'
      <3>1. RowAccounted(c)
        BY <2>2 DEF Accounted
      <3> QED
        BY <2>1, <2>2, <2>11, <2>12, <2>13, <3>1, RowBalance
    <2> QED
      BY <2>3, <2>5, <2>14 DEF Accounted
  <1>6. ASSUME NEW n \in Notifiers, NotifyMarks(n) \/ NotifyBacksOff(n)
        PROVE  Accounted'
    <2> PICK c : c = Current(n)
      OBVIOUS
    <2>1. /\ notifyPc[n] # "idle" /\ EventDone(n) /\ received' = received
          /\ Lose \/ UNCHANGED faultVars
          /\ \/ notified' = notified /\ (Lose \/ notifyPc[n] = "backoff")
             \/ notified' = notified \union {c} /\ UNCHANGED faultVars /\ notifyPc[n] = "mark"
      BY <1>6 DEF NotifyMarks, NotifyBacksOff
    <2>2. \A i : /\ ToPost(i)' \subseteq ToPost(i)
                 /\ Posted(i) \ {n} \subseteq Posted(i)'
                 /\ notifyPc[n] # "mark" \/ i # c => Posted(i) \subseteq Posted(i)'
      BY <2>1, HandsAfterEvent
    <2>3. ASSUME NEW i \in DOMAIN received, i \in notified' <=> i \in notified
          PROVE  RowAccounted(i)'
      <3>1. RowAccounted(i)
        BY DEF Accounted
      <3>2. \/ i \in notified
            \/ Posted(i) \subseteq Posted(i)'
            \/ Lose /\ Posted(i) \ {n} \subseteq Posted(i)'
        BY <2>1, <2>2, <2>3
      <3> QED
        BY <2>1, <2>2, <2>3, <3>1, <3>2, RowLeftAlone
    <2>4. ASSUME c \in DOMAIN received, c \in notified', c \notin notified
          PROVE  RowAccounted(c)'
      <3>1. received[c] <= Cardinality(Posted(c)) + Faulted
        BY <2>4 DEF Accounted, RowAccounted
      <3>2. Faulted' = Faulted /\ received' = received
        BY <2>1, <2>4 DEF faultVars, Faulted
      <3>3. Faulted \in Nat
        BY FaultBudgets DEF TypeOK, FaultsTypeOK, Faulted
      <3>4. received[c] \in Nat
        <4>1. received \in Seq(Nat)
          BY DEF TypeOK
        <4> QED
          BY <2>4, <4>1
      <3>5. /\ ToPost(c) \subseteq Notifiers /\ ToPost(c)' \subseteq Notifiers
            /\ Posted(c) \subseteq Notifiers /\ Posted(c) \intersect ToPost(c) = {}
        BY DEF ToPost, Posted
      <3>6. /\ Cardinality(ToPost(c)) \in Nat /\ Cardinality(ToPost(c)') \in Nat
            /\ Cardinality(Posted(c)) \in Nat /\ Cardinality(Notifiers) \in Nat
            /\ Cardinality(ToPost(c)') <= Cardinality(ToPost(c))
            /\ Cardinality(Posted(c)) + Cardinality(ToPost(c)) <= Cardinality(Notifiers)
        BY <2>2, <3>5, NotifiersCounted
      <3>7. received'[c] + Cardinality(ToPost(c)') <= Cardinality(Notifiers) + Faulted'
        BY <3>1, <3>2, <3>3, <3>4, <3>6
      <3> QED
        BY <2>4, <3>7 DEF RowAccounted
    <2>5. \A i \in DOMAIN received : (i \in notified' <=> i \in notified)
                                     \/ (i = c /\ i \in notified' /\ i \notin notified)
      BY <2>1
    <2> QED
      BY <2>1, <2>3, <2>4, <2>5 DEF Accounted
  <1>7. ASSUME NEW n \in Notifiers, NotifierCrash(n)
        PROVE  Accounted'
    <2>1. /\ UNCHANGED <<received, notified>> /\ Crash
          /\ notifyPc'[n] = "idle" /\ notifyBatch'[n] = {}
          /\ \A m \in Notifiers \ {n} :
                 /\ notifyPc'[m] = notifyPc[m] /\ notifyBatch'[m] = notifyBatch[m]
                 /\ Current(m)' = Current(m)
      BY <1>7 DEF NotifierCrash, NotifyAt, TypeOK, Current
    <2>2. ASSUME NEW i \in DOMAIN received
          PROVE  RowAccounted(i)'
      <3>1. ToPost(i)' \subseteq ToPost(i)
        BY <2>1 DEF ToPost
      <3>2. Posted(i) \ {n} \subseteq Posted(i)'
        BY <2>1 DEF Posted
      <3>3. RowAccounted(i)
        BY DEF Accounted
      <3> QED
        BY <2>1, <3>1, <3>2, <3>3, RowLeftAlone
    <2> QED
      BY <2>1, <2>2 DEF Accounted
  <1>8. ASSUME BackOffEnds \/ UNCHANGED vars
        PROVE  Accounted'
    BY <1>1, <1>8 DEF BackOffEnds, vars
  <1> QED
    BY <1>2, <1>3, <1>4, <1>5, <1>6, <1>7, <1>8 DEF Next

-----------------------------------------------------------------------------
\* The invariant, for any number of orders and notifiers, any batch size and any budget of faults.
LEMMA Invariant == Spec => []Inv
  <1>1. Init => Inv
    BY InvInit
  <1>2. Inv /\ [Next]_vars => Inv'
    BY TypeKept, HeardKept, StoryKept DEF Inv
  <1> QED
    BY <1>1, <1>2, PTL DEF Spec

\* Every variable of the outbox and its workers stays in its range (StatusEvent, Worker).
THEOREM OutboxTypeCorrect == Spec => []TypeOK
  <1>1. Inv => TypeOK
    BY DEF Inv
  <1> QED
    BY <1>1, Invariant, PTL

\* No row is marked as reported that the merchant's backend does not have, whatever is lost and
\* whoever dies (deliverEvent).
THEOREM NothingLost == Spec => []NotifiedMeansReceived
  <1>1. Inv => NotifiedMeansReceived
    BY DEF Inv, Heard
  <1> QED
    BY <1>1, Invariant, PTL

\* Until the first loss, a merchant hears of an order's moves in the order of its history, with
\* any number of notifiers at work and whatever crashes (sweep).
THEOREM StoryInOrder == Spec => []StoryInOrderUnlessLost
  <1>1. Inv => StoryInOrderUnlessLost
    BY DEF Inv, Story, StoryInOrderUnlessLost
  <1> QED
    BY <1>1, Invariant, PTL

\* A merchant gets a row once for each notifier at most, and once more for each fault, whatever
\* batches go stale (sweep, deliverEvent).
THEOREM RepeatsAreBounded == Spec => []RepeatsBounded
  <1>1. Init => Accounted
    BY DEF Init, Accounted
  <1>2. TypeOK /\ Accounted /\ [Next]_vars => Accounted'
    BY AccountedKept
  <1>3. ASSUME TypeOK, Accounted, NEW i \in DOMAIN received
        PROVE  received[i] <= Cardinality(Notifiers) + losses + crashes
    <2>1. received[i] \in Nat /\ losses \in Nat /\ crashes \in Nat
      <3>1. received \in Seq(Nat)
        BY <1>3 DEF TypeOK
      <3> QED
        BY <1>3, <3>1, FaultBudgets DEF TypeOK, FaultsTypeOK
    <2>2. /\ ToPost(i) \subseteq Notifiers /\ Posted(i) \subseteq Notifiers
      BY DEF ToPost, Posted
    <2>3. /\ Cardinality(ToPost(i)) \in Nat /\ Cardinality(Posted(i)) \in Nat
          /\ Cardinality(Notifiers) \in Nat /\ Cardinality(Posted(i)) <= Cardinality(Notifiers)
      BY <2>2, NotifiersCounted
    <2> QED
      BY <1>3, <2>1, <2>3 DEF Accounted, RowAccounted, Faulted
  <1>4. TypeOK /\ Accounted => RepeatsBounded
    BY <1>3 DEF RepeatsBounded
  <1> QED
    BY <1>1, <1>2, <1>4, OutboxTypeCorrect, PTL DEF Spec

-----------------------------------------------------------------------------
(* What a merchant hears first.  While nothing is lost, whoever moves an    *)
(* order on from a state it has in hand has recorded the move there, so the *)
(* row of a gateway precedes the rows of all that lies behind it.           *)

\* The states of S are only reached from g or from each other, and an order is in hand in g.
LiesBehind(g, S) ==
    /\ g \in InHand /\ g # "awaiting_deposit"
    /\ "awaiting_deposit" \notin S
    /\ \A from \in States, to \in S : CanTransition(from, to) => from \in S \union {g}

Row(o, s) == [order |-> o, to |-> s]
Recorded(o, s) == \E i \in DOMAIN history : history[i] = Row(o, s)

\* An order that is, or was, behind the gateway g has a row that says it came through.
Passes(g, S) ==
    losses = 0 =>
        \A o \in Orders :
            /\ status[o] = g => g \in moving[o] \/ Recorded(o, g)
            /\ status[o] \in S \/ moving[o] \intersect S # {} => Recorded(o, g)
            /\ \A j \in DOMAIN history : history[j].order = o /\ history[j].to \in S =>
                    \E i \in DOMAIN history : i < j /\ history[i] = Row(o, g)

\* A moved order comes through the gateway, or was behind it.
LEMMA MovePasses ==
    ASSUME NEW g, NEW S, LiesBehind(g, S), TypeOK, Passes(g, S), NEW o \in Orders, Move(o)
    PROVE  Passes(g, S)'
  <1> SUFFICES ASSUME losses = 0 PROVE Passes(g, S)'
    BY DEF Passes, Move, faultVars
  <1>1. PICK to \in States :
            /\ CanTransition(status[o], to) \/ to = "awaiting_deposit"
            /\ status' = [status EXCEPT ![o] = to]
            /\ moving' = [moving EXCEPT ![o] = @ \union {to}]
    BY DEF Move
  <1>2. status[o] \in InHand => status[o] \notin moving[o]
    BY DEF Move
  <1>3. UNCHANGED <<history, faultVars>>
    BY DEF Move
  <1>4. \A q \in Orders : \A s : Recorded(q, s)' <=> Recorded(q, s)
    BY <1>3 DEF Recorded
  <1>5. status \in [Orders -> States] /\ moving \in [Orders -> SUBSET States]
    BY DEF TypeOK
  <1>6. to \in S => Recorded(o, g)
    <2>1. to \in S => status[o] \in S \union {g}
      BY <1>1, <1>5 DEF LiesBehind
    <2>2. status[o] = g => Recorded(o, g)
      BY <1>2 DEF Passes, LiesBehind
    <2> QED
      BY <2>1, <2>2 DEF Passes
  <1>7. ASSUME NEW q \in Orders
        PROVE  /\ status'[q] = g => g \in moving'[q] \/ Recorded(q, g)
               /\ status'[q] \in S \/ moving'[q] \intersect S # {} => Recorded(q, g)
    BY <1>1, <1>5, <1>6 DEF Passes
  <1> QED
    BY <1>3, <1>4, <1>7 DEF Passes

\* A row that is written comes after the gateway's, and is it if the order is there.
LEMMA RecordPasses ==
    ASSUME NEW g, NEW S, LiesBehind(g, S), TypeOK, Passes(g, S), NEW o \in Orders, NEW to \in States,
           recordTransition(o, to)
    PROVE  Passes(g, S)'
  <1> SUFFICES ASSUME losses' = 0 PROVE Passes(g, S)'
    BY DEF Passes
  <1>1. FaultsTypeOK /\ (Lose \/ Crash \/ UNCHANGED faultVars)
    BY DEF TypeOK, recordTransition
  <1>2. losses = 0 /\ ~Lose
    BY <1>1, FaultsCounted
  <1>3. /\ to \in moving[o] /\ UNCHANGED status
        /\ moving' = [moving EXCEPT ![o] = @ \ {to}]
        /\ history' = Append(history, Row(o, to))
    BY <1>2 DEF recordTransition, Row
  <1>4. /\ moving \in [Orders -> SUBSET States] /\ history \in Seq(Moves) /\ Row(o, to) \in Moves
        /\ Row(o, to).order = o /\ Row(o, to).to = to
    BY DEF TypeOK, Row, Moves
  <1>5. /\ Len(history) \in Nat /\ DOMAIN history = 1 .. Len(history)
        /\ DOMAIN history' = 1 .. Len(history) + 1
        /\ \A i \in DOMAIN history : history'[i] = history[i]
        /\ history'[Len(history) + 1] = Row(o, to)
    <2> HIDE DEF Row
    <2> QED
      BY <1>3, <1>4
  <1>6. DOMAIN history \subseteq DOMAIN history' /\ DOMAIN history \subseteq Nat
    BY <1>5
  <1>7. ASSUME NEW q \in Orders, NEW s, Recorded(q, s) PROVE Recorded(q, s)'
    BY <1>5, <1>6, <1>7 DEF Recorded
  <1>8. Recorded(o, to)'
    <2>1. Len(history) + 1 \in DOMAIN history'
      BY <1>5
    <2> QED
      BY <1>5, <2>1 DEF Recorded
  <1>9. ASSUME NEW q \in Orders
        PROVE  /\ status'[q] = g => g \in moving'[q] \/ Recorded(q, g)'
               /\ status'[q] \in S \/ moving'[q] \intersect S # {} => Recorded(q, g)'
    BY <1>2, <1>3, <1>4, <1>7, <1>8 DEF Passes
  <1>10. ASSUME NEW q \in Orders, NEW j \in DOMAIN history', history'[j].order = q, history'[j].to \in S
         PROVE  \E i \in DOMAIN history' : i < j /\ history'[i] = Row(q, g)
    <2>1. CASE j \in DOMAIN history
      <3>1. PICK i \in DOMAIN history : i < j /\ history[i] = Row(q, g)
        BY <1>2, <1>5, <1>10, <2>1 DEF Passes
      <3> QED
        BY <1>5, <1>6, <3>1
    <2>2. CASE j \notin DOMAIN history
      <3>1. j = Len(history) + 1
        BY <1>5, <2>2
      <3>2. q = o /\ to \in S
        BY <1>4, <1>5, <1>10, <3>1
      <3>3. PICK i \in DOMAIN history : history[i] = Row(q, g)
        BY <1>2, <1>3, <3>2 DEF Passes, Recorded
      <3>4. i < j
        BY <1>5, <3>1
      <3> QED
        BY <1>5, <1>6, <3>3, <3>4
    <2> QED
      BY <2>1, <2>2
  <1> QED
    BY <1>9, <1>10 DEF Passes

\* Nobody else moves an order or writes history.
LEMMA PassesKept ==
    ASSUME NEW g, NEW S, LiesBehind(g, S), TypeOK, Passes(g, S), [Next]_vars
    PROVE  Passes(g, S)'
  <1>1. ASSUME UNCHANGED moveVars, Lose \/ Crash \/ UNCHANGED faultVars PROVE Passes(g, S)'
    <2>1. FaultsTypeOK
      BY DEF TypeOK
    <2>2. losses' = 0 => losses = 0
      BY <1>1, <2>1, FaultsCounted
    <2> QED
      BY <1>1, <2>2 DEF Passes, Recorded, moveVars
  <1>2. ASSUME NEW n, \/ NotifyQuery(n) \/ NotifyPosts(n) \/ NotifyPostFails(n) \/ NotifyMarks(n)
                      \/ NotifyBacksOff(n) \/ NotifierCrash(n)
        PROVE  Passes(g, S)'
    BY <1>1, <1>2 DEF NotifyQuery, NotifyPosts, NotifyPostFails, NotifyMarks, NotifyBacksOff, NotifierCrash
  <1>3. ASSUME BackOffEnds \/ UNCHANGED vars PROVE Passes(g, S)'
    BY <1>1, <1>3 DEF BackOffEnds, vars
  <1> QED
    BY <1>2, <1>3, MovePasses, RecordPasses DEF Next

\* No row is owed while no order has moved.
LEMMA PassesInit == ASSUME NEW g, NEW S, LiesBehind(g, S) PROVE Init => Passes(g, S)
  BY DEF Init, Passes, LiesBehind

Credited == FiatLeg \union SweepLeg \union RefundLeg

\* In the table of moves the sweep lies behind the disbursement, and all that is done with a
\* deposit behind its detection.
LEMMA Gateways == LiesBehind("disbursed", SweepLeg) /\ LiesBehind("deposit_detected", Credited)
  BY DEF LiesBehind, InHand, States, CanTransition, transitions, Credited, FiatLeg, SweepLeg, RefundLeg

\* Has the merchant's backend received that order o was moved to s?
Hears(o, s) == \E i \in Reportable : history[i] = Row(o, s) /\ received[i] > 0

HeardInTurn ==
    losses = 0 =>
        \A j \in Reportable : received[j] > 0 =>
            /\ history[j].to \in SweepLeg => Hears(history[j].order, "disbursed")
            /\ history[j].to \in Credited => Hears(history[j].order, "deposit_detected")

\* Until the first loss a merchant's backend that is told that an order settled in treasury has been
\* told before that it was disbursed, and whatever it is told of a payment, that the deposit was
\* detected: with any number of loops moving orders and of notifiers reporting it, and with any
\* crashes (recordTransition, sweep).
THEOREM ToldInTurn == Spec => []HeardInTurn
  <1>1. Init => Passes("disbursed", SweepLeg) /\ Passes("deposit_detected", Credited)
    BY PassesInit, Gateways
  <1>2. TypeOK /\ Passes("disbursed", SweepLeg) /\ Passes("deposit_detected", Credited) /\ [Next]_vars
            => Passes("disbursed", SweepLeg)' /\ Passes("deposit_detected", Credited)'
    BY PassesKept, Gateways
  <1>3. ASSUME TypeOK, StoryInOrderUnlessLost, losses = 0, NEW g \in notifiable, NEW S, Passes(g, S),
               NEW j \in Reportable, received[j] > 0, history[j].to \in S
        PROVE  Hears(history[j].order, g)
    <2>1. j \in DOMAIN history /\ history[j].order \in Orders
      <3>1. history \in Seq(Moves) /\ j \in DOMAIN history
        BY <1>3 DEF TypeOK, Reportable
      <3>2. history[j] \in Moves
        BY <3>1
      <3> QED
        BY <3>1, <3>2 DEF Moves
    <2>2. PICK i \in DOMAIN history : i < j /\ history[i] = Row(history[j].order, g)
      BY <1>3, <2>1 DEF Passes
    <2>3. i \in Reportable /\ history[i].order = history[j].order
      BY <2>2 DEF Reportable, Row
    <2>4. received[i] > 0
      BY <1>3, <2>2, <2>3 DEF StoryInOrderUnlessLost
    <2> QED
      BY <2>2, <2>3, <2>4 DEF Hears
  <1>4. /\ TypeOK /\ StoryInOrderUnlessLost
        /\ Passes("disbursed", SweepLeg) /\ Passes("deposit_detected", Credited)
        => HeardInTurn
    BY <1>3 DEF HeardInTurn, notifiable
  <1> QED
    BY <1>1, <1>2, <1>4, OutboxTypeCorrect, StoryInOrder, PTL DEF Spec

=============================================================================
