------------------------ MODULE RecordEditing_proofs ------------------------
(***************************************************************************)
(* Proofs about RecordEditing for any number of requests and of timeout    *)
(* checkers, any workflow, and a clock that steps back as often as it      *)
(* likes.                                                                  *)
(***************************************************************************)
EXTENDS RecordEditing, FiniteSetTheorems, TLAPS

\* What the type of the state needs to know of the constants.
LEMMA ConstantTypes ==
    /\ Step \in Nat \ {0} /\ LockTTL \in Nat /\ After \in Nat
    /\ Initial \in States
    /\ \A p \in Requests : UserOf[p] \in Users
    /\ \A s \in DOMAIN TimeoutTo : s \in States /\ TimeoutTo[s] \in States
BY EditAssumption

\* The next statement of a request is one of its statements.
LEMMA StatementType ==
    ASSUME TypeOK, NEW p \in Requests, NEW statement \in Statements,
           Proceeds(p, statement)
    PROVE  request' \in [Requests -> Statements]
BY DEF TypeOK, Proceeds

\* Deleting an expired lock leaves a lock, or nobody's.
LEMMA PurgeType ==
    ASSUME TypeOK, Purges PROVE lock' \in Users \cup {Free} /\ until' \in Nat
BY DEF TypeOK, Purges, LockExpired, locks

\* A written row has a version later than the one before, whatever the clock says.
LEMMA VersionAdvances ==
    ASSUME TypeOK, Writes
    PROVE  /\ version' \in Nat /\ version < version'
           /\ content' \in Nat /\ content' = content + 1
BY DEF TypeOK, Writes, NextVersion

\* A step that enters a state writes the row, counts the move, and leaves along
\* what its caller read.
LEMMA EnterType ==
    ASSUME TypeOK, NEW s \in States, Enters(s)
    PROVE  /\ wstate' \in States /\ entered' \in Nat
           /\ moved' \in Nat /\ moved' = moved + 1
           /\ version' \in Nat /\ content' \in Nat
BY VersionAdvances DEF Enters, TypeOK

\* The initial row satisfies the invariant.
LEMMA InvInit == Init => EditInv
<1> SUFFICES ASSUME Init PROVE EditInv
  OBVIOUS
<1> USE DEF Init
<1>1. TypeOK
  <2>1. clock \in Nat /\ back \in Nat /\ version \in Nat /\ content \in Nat
        /\ entered \in Nat /\ moved \in Nat /\ hooked \in Nat /\ until \in Nat
    BY ConstantTypes
  <2>2. request \in [Requests -> Statements] /\ checker \in [Checkers -> {"none", "apply", "hooks"}]
    BY DEF Statements
  <2>3. expiry \in [Requests -> Nat] /\ token \in [Requests -> Nat]
        /\ seen \in [Requests -> Nat]
    BY DEF NoToken
  <2> QED BY <2>1, <2>2, <2>3, ConstantTypes DEF TypeOK
<1>2. TokenInv /\ MoveInv
  BY DEF TokenInv, MoveInv, NoToken
<1>3. HooksOncePerMove
  <2>1. Pending = {}
    BY DEF Pending
  <2> QED BY <2>1, FS_EmptySet DEF HooksOncePerMove
<1> QED BY <1>1, <1>2, <1>3 DEF EditInv

-----------------------------------------------------------------------------
\* The steps that only lock, unlock or look keep the types.
LEMMA LockType ==
    ASSUME TypeOK, NEW p \in Requests, LockStep(p) PROVE TypeOK'
<1>0. request' \in [Requests -> Statements]
  BY StatementType
     DEF LockStep, StartAcquire, Purge, AcquireLook, InsertLock, ExtendLock,
         ReleaseLook, DeleteLock, CheckLock, Begins, Ends, Statements, TypeOK, requests
<1> USE <1>0, ConstantTypes DEF TypeOK, locks, record, requests, checkers
<1>1. CASE StartAcquire(p)
  BY <1>1 DEF StartAcquire
<1>2. CASE Purge(p)
  <2>1. lock' \in Users \cup {Free} /\ until' \in Nat
    BY <1>2, PurgeType DEF Purge
  <2> QED BY <1>2, <2>1 DEF Purge
<1>3. CASE AcquireLook(p)
  BY <1>3 DEF AcquireLook
<1>4. CASE InsertLock(p)
  BY <1>4 DEF InsertLock, Inserts
<1>5. CASE ExtendLock(p)
  BY <1>5 DEF ExtendLock
<1>6. CASE ReleaseLook(p)
  BY <1>6 DEF ReleaseLook
<1>7. CASE DeleteLock(p)
  BY <1>7 DEF DeleteLock
<1>8. CASE CheckLock(p)
  BY <1>8 DEF CheckLock
<1> QED BY <1>1, <1>2, <1>3, <1>4, <1>5, <1>6, <1>7, <1>8 DEF LockStep

\* A PATCH keeps them where it begins and where it writes.
LEMMA EditType ==
    ASSUME TypeOK, NEW p \in Requests, StartEdit(p) \/ Update(p) PROVE TypeOK'
<1>1. request' \in [Requests -> Statements]
  <2>1. Proceeds(p, "edit look") \/ Proceeds(p, "none")
    BY DEF StartEdit, Update, Begins, Ends, Proceeds
  <2>2. {"edit look", "none"} \subseteq Statements
    BY DEF Statements
  <2> QED BY <2>1, <2>2, StatementType
<1>2. token' \in [Requests -> Nat] /\ seen' \in [Requests -> Nat]
  <2>1. token \in [Requests -> Nat] /\ seen \in [Requests -> Nat]
    BY DEF TypeOK
  <2>2. CASE UNCHANGED <<token, seen>>
    BY <2>1, <2>2
  <2>3. CASE token' = [token EXCEPT ![p] = NoToken] /\ seen' = [seen EXCEPT ![p] = 0]
    BY <2>1, <2>3 DEF NoToken
  <2> QED BY <2>2, <2>3 DEF StartEdit, Update
<1>3. lock' \in Users \cup {Free} /\ until' \in Nat
  BY PurgeType DEF StartEdit, Update, locks, TypeOK
<1>4. version' \in Nat /\ content' \in Nat
  BY VersionAdvances DEF StartEdit, Update, record, TypeOK
<1>5. UNCHANGED <<clock, back, wstate, entered, moved, expiry, from, to,
                  checker, aged, hooked>>
  BY DEF StartEdit, Update, record, checkers
<1> QED BY <1>1, <1>2, <1>3, <1>4, <1>5 DEF TypeOK

\* So do the steps that read and write the row.
LEMMA WriteType ==
    ASSUME TypeOK, MoveInv, NEW p \in Requests, WriteStep(p) PROVE TypeOK'
<1>0. request' \in [Requests -> Statements]
  BY StatementType
     DEF WriteStep, Read, StartEdit, Update, StartTransition, Validate,
         Transition, Begins, Ends, Statements, TypeOK, requests
<1> USE <1>0, ConstantTypes DEF TypeOK, locks, record, requests, checkers
<1>1. CASE Read(p)
  BY <1>1 DEF Read
<1>2. CASE StartEdit(p)
  BY <1>2, EditType
<1>3. CASE Update(p)
  BY <1>3, EditType
<1>4. CASE StartTransition(p)
  <2>1. lock' \in Users \cup {Free} /\ until' \in Nat
    BY <1>4, PurgeType DEF StartTransition
  <2> QED BY <1>4, <2>1 DEF StartTransition
<1>5. CASE Validate(p)
  BY <1>5 DEF Validate
<1>6. CASE Transition(p)
  <2>1. to[p] \in States
    OBVIOUS
  <2>2. CASE Enters(to[p]) /\ hooked' = hooked + 1
    BY <1>6, <2>1, <2>2, EnterType DEF Transition
  <2>3. CASE UNCHANGED <<record, hooked>>
    BY <1>6, <2>3 DEF Transition
  <2> QED BY <1>6, <2>2, <2>3 DEF Transition
<1> QED BY <1>1, <1>2, <1>3, <1>4, <1>5, <1>6 DEF WriteStep

\* And those of the timeout checkers.
LEMMA CheckerType ==
    ASSUME TypeOK, MoveInv, NEW c \in Checkers, CheckerStep(c) PROVE TypeOK'
<1> USE ConstantTypes DEF TypeOK, locks, record, requests, checkers
<1>1. CASE SelectAged(c)
  BY <1>1 DEF SelectAged
<1>2. CASE ApplyTimeout(c)
  <2>1. TimeoutTo[aged[c]] \in States
    BY <1>2 DEF ApplyTimeout, MoveInv
  <2>2. CASE Enters(TimeoutTo[aged[c]])
    BY <1>2, <2>1, <2>2, EnterType DEF ApplyTimeout, AfterUpdate
  <2>3. CASE UNCHANGED record
    BY <1>2, <2>3 DEF ApplyTimeout, AfterUpdate
  <2> QED BY <1>2, <2>2, <2>3 DEF ApplyTimeout
<1>3. CASE FireHooks(c)
  BY <1>3 DEF FireHooks
<1>4. CASE Abandon(c)
  BY <1>4 DEF Abandon
<1> QED BY <1>1, <1>2, <1>3, <1>4 DEF CheckerStep

\* Every step keeps the types.
LEMMA TypeStep ==
    ASSUME TypeOK, MoveInv, [Next]_vars PROVE TypeOK'
<1>1. CASE UNCHANGED vars
  BY <1>1 DEF TypeOK, vars, locks, record, requests, checkers
<1>2. CASE Cleanup
  BY <1>2, PurgeType DEF Cleanup, TypeOK, locks, record, requests, checkers
<1>3. CASE Tick
  BY <1>3, ConstantTypes DEF Tick, TypeOK, locks, record, requests, checkers
<1>4. CASE StepBack
  BY <1>4, ConstantTypes DEF StepBack, TypeOK, locks, record, requests, checkers
<1> QED BY <1>1, <1>2, <1>3, <1>4, LockType, WriteType, CheckerType DEF Next
-----------------------------------------------------------------------------
\* What a step does to the row and to the tokens: it writes or it leaves the
\* content and its version alone, and a token is read from the row as it is.
LEMMA TokenStep ==
    ASSUME TypeOK, TokenInv, MoveInv, [Next]_vars PROVE TokenInv'
<1>1. \/ version' \in Nat /\ version < version'
      \/ UNCHANGED <<version, content>>
  BY VersionAdvances, ZenonT(60)
     DEF Next, LockStep, WriteStep, CheckerStep, vars, record, Enters, Cleanup, Tick,
         StepBack, StartAcquire, Purge, AcquireLook, InsertLock, ExtendLock,
         ReleaseLook, DeleteLock, CheckLock, Read, StartEdit, Update,
         StartTransition, Validate, Transition, SelectAged, ApplyTimeout,
         FireHooks, Abandon
<1>2. CASE UNCHANGED <<token, seen>>
  BY <1>1, <1>2 DEF TokenInv, TypeOK
<1>3. ASSUME NEW p \in Requests, Read(p) PROVE TokenInv'
  BY <1>3 DEF Read, TokenInv, TypeOK, record
<1>4. ASSUME NEW p \in Requests, StartEdit(p) PROVE TokenInv'
  BY <1>4 DEF StartEdit, TokenInv, TypeOK, record, NoToken
<1>5. UNCHANGED <<token, seen>> \/ \E p \in Requests : Read(p) \/ StartEdit(p)
  BY DEF Next, LockStep, WriteStep, CheckerStep, vars, requests, Cleanup, Tick,
         StepBack, StartAcquire, Purge, AcquireLook, InsertLock, ExtendLock,
         ReleaseLook, DeleteLock, CheckLock, Update,
         StartTransition, Validate, Transition, SelectAged, ApplyTimeout,
         FireHooks, Abandon
<1> QED BY <1>2, <1>3, <1>4, <1>5

\* A request reaches its transition through Validate, a checker its timeout
\* through SelectAged.
LEMMA MoveStep ==
    ASSUME TypeOK, MoveInv, [Next]_vars PROVE MoveInv'
<1> USE DEF Begins, Proceeds, Ends, requests, checkers
<1>1. ASSUME NEW p \in Requests, request'[p] = "transition"
      PROVE  <<from'[p], to'[p]>> \in Moves
  <2>1. ASSUME NEW q \in Requests, Validate(q) PROVE <<from'[p], to'[p]>> \in Moves
    BY <1>1, <2>1 DEF Validate, TypeOK, MoveInv
  <2>2. ASSUME UNCHANGED <<from, to>>, request[p] = "transition"
        PROVE  <<from'[p], to'[p]>> \in Moves
    BY <2>2 DEF MoveInv
  <2>3. \/ \E q \in Requests : Validate(q)
        \/ UNCHANGED <<from, to>>
    BY DEF Next, LockStep, WriteStep, CheckerStep, vars, Cleanup, Tick,
           StepBack, StartAcquire, Purge, AcquireLook, InsertLock, ExtendLock,
           ReleaseLook, DeleteLock, CheckLock, Read, StartEdit, Update,
           StartTransition, Transition, SelectAged, ApplyTimeout, FireHooks, Abandon
  <2>4. (\E q \in Requests : Validate(q)) \/ request[p] = "transition"
    BY <1>1, ZenonT(60) DEF TypeOK, Next, LockStep, WriteStep, CheckerStep, vars, Cleanup, Tick,
           StepBack, StartAcquire, Purge, AcquireLook, InsertLock, ExtendLock,
           ReleaseLook, DeleteLock, CheckLock, Read, StartEdit, Update,
           StartTransition, Transition, SelectAged, ApplyTimeout, FireHooks, Abandon
  <2> QED BY <2>1, <2>2, <2>3, <2>4
<1>2. ASSUME NEW c \in Checkers, checker'[c] = "apply"
      PROVE  aged'[c] \in DOMAIN TimeoutTo
  <2>1. ASSUME NEW d \in Checkers, CheckerStep(d) PROVE aged'[c] \in DOMAIN TimeoutTo
    BY <1>2, <2>1
       DEF CheckerStep, SelectAged, ApplyTimeout, AfterUpdate, FireHooks, Abandon,
           TypeOK, MoveInv
  <2>2. ASSUME UNCHANGED checkers PROVE aged'[c] \in DOMAIN TimeoutTo
    BY <1>2, <2>2 DEF MoveInv
  <2>3. UNCHANGED checkers \/ \E d \in Checkers : CheckerStep(d)
    BY DEF Next, LockStep, WriteStep, vars, Cleanup, Tick,
           StepBack, StartAcquire, Purge, AcquireLook, InsertLock, ExtendLock,
           ReleaseLook, DeleteLock, CheckLock, Read, StartEdit, Update,
           StartTransition, Validate, Transition
  <2> QED BY <2>1, <2>2, <2>3
<1> QED BY <1>1, <1>2 DEF MoveInv
\* The hooks still to fire grow by one only with a move, and shrink by one when
\* they fire.
LEMMA HooksStep ==
    ASSUME TypeOK, HooksOncePerMove, [Next]_vars PROVE HooksOncePerMove'
<1>1. IsFiniteSet(Pending) /\ IsFiniteSet(Pending')
  BY FS_Subset, EditAssumption DEF Pending
<1>2. Cardinality(Pending) \in Nat /\ Cardinality(Pending') \in Nat
  BY <1>1, FS_CardinalityType
<1>3. hooked + Cardinality(Pending) <= moved /\ hooked \in Nat /\ moved \in Nat
  BY DEF HooksOncePerMove, TypeOK
<1>4. ASSUME NEW c \in Checkers, CheckerStep(c) PROVE HooksOncePerMove'
  <2>1. CASE SelectAged(c)
    <3>1. Pending' = Pending /\ UNCHANGED <<moved, hooked>>
      BY <2>1 DEF SelectAged, Pending, TypeOK, record
    <3> QED BY <3>1, <1>3 DEF HooksOncePerMove
  <2>2. CASE ApplyTimeout(c) /\ wstate = aged[c]
    <3>1. Pending' = Pending \cup {c} /\ moved' = moved + 1 /\ hooked' = hooked
      BY <2>2 DEF ApplyTimeout, AfterUpdate, Enters, Pending, TypeOK
    <3>2. Cardinality(Pending') <= Cardinality(Pending) + 1
      BY <3>1, <1>1, <1>2, FS_AddElement
    <3> QED BY <3>1, <3>2, <1>2, <1>3 DEF HooksOncePerMove
  <2>3. CASE ApplyTimeout(c) /\ wstate # aged[c]
    <3>1. Pending' = Pending /\ UNCHANGED <<moved, hooked>>
      BY <2>3 DEF ApplyTimeout, AfterUpdate, Pending, TypeOK, record
    <3> QED BY <3>1, <1>3 DEF HooksOncePerMove
  <2>4. CASE FireHooks(c)
    <3>1. /\ Pending' = Pending \ {c} /\ c \in Pending
          /\ hooked' = hooked + 1 /\ moved' = moved
      BY <2>4 DEF FireHooks, Pending, TypeOK, record
    <3>2. Cardinality(Pending') = Cardinality(Pending) - 1
      BY <3>1, <1>1, FS_RemoveElement
    <3> QED BY <3>1, <3>2, <1>2, <1>3 DEF HooksOncePerMove
  <2>5. CASE Abandon(c)
    <3>1. Pending' = Pending \ {c} /\ UNCHANGED <<moved, hooked>>
      BY <2>5 DEF Abandon, Pending, TypeOK, record
    <3>2. Cardinality(Pending') <= Cardinality(Pending)
      BY <3>1, <1>1, <1>2, FS_RemoveElement
    <3> QED BY <3>1, <3>2, <1>2, <1>3 DEF HooksOncePerMove
  <2> QED BY <1>4, <2>1, <2>2, <2>3, <2>4, <2>5 DEF CheckerStep
<1>5. ASSUME ~ \E c \in Checkers : CheckerStep(c) PROVE HooksOncePerMove'
  <2>1. checker' = checker
    BY <1>5
       DEF Next, LockStep, WriteStep, vars, checkers, Cleanup, Tick, StepBack,
           StartAcquire, Purge, AcquireLook, InsertLock, ExtendLock, ReleaseLook,
           DeleteLock, CheckLock, Read, StartEdit, Update, StartTransition,
           Validate, Transition
  <2>2. \/ UNCHANGED <<moved, hooked>>
        \/ moved' = moved + 1 /\ hooked' = hooked + 1
    BY <1>5, ZenonT(60)
       DEF Next, LockStep, WriteStep, vars, record, Enters, Cleanup, Tick, StepBack,
           StartAcquire, Purge, AcquireLook, InsertLock, ExtendLock, ReleaseLook,
           DeleteLock, CheckLock, Read, StartEdit, Update, StartTransition,
           Validate, Transition
  <2>3. Pending' = Pending
    BY <2>1 DEF Pending
  <2> QED BY <2>2, <2>3, <1>2, <1>3 DEF HooksOncePerMove
<1> QED BY <1>4, <1>5

-----------------------------------------------------------------------------
\* The inductive invariant: types, what a token and a validated transition are
\* worth, and no more hooks fired or pending than moves made.
THEOREM InvCorrect == Spec => []EditInv
<1>1. Init => EditInv
  BY InvInit
<1>2. EditInv /\ [Next]_vars => EditInv'
  BY TypeStep, TokenStep, MoveStep, HooksStep DEF EditInv
<1> QED BY <1>1, <1>2, PTL DEF Spec

\* A PATCH never overwrites content its client has not seen (prepareUpdateTimestamp
\* gives every write a later version, so a token names one content).
THEOREM LostUpdatesExcluded == Spec => NoLostUpdate
<1>1. ASSUME EditInv, [Next]_vars, NEW p \in Requests,
             request[p] = "update", request'[p] = "none", token[p] # NoToken
      PROVE  content' = content \/ seen[p] = content
  <2>1. TypeOK /\ TokenInv
    BY <1>1 DEF EditInv
  <2>2. CASE Update(p)
    BY <2>1, <2>2, <1>1 DEF Update, TokenInv
  <2>3. CASE ~ Update(p)
    BY <2>1, <2>3, <1>1
       DEF TypeOK, Begins, Proceeds, Ends, Next, LockStep, WriteStep, CheckerStep,
           vars, requests, record, Cleanup, Tick, StepBack, StartAcquire, Purge,
           AcquireLook, InsertLock, ExtendLock, ReleaseLook, DeleteLock, CheckLock,
           Read, StartEdit, Update, StartTransition, Validate, Transition,
           SelectAged, ApplyTimeout, FireHooks, Abandon
  <2> QED BY <2>2, <2>3
<1>2. EditInv /\ [Next]_vars =>
        [\A p \in Requests :
           request[p] = "update" /\ request'[p] = "none" /\ token[p] # NoToken
             => content' = content \/ seen[p] = content]_vars
  BY <1>1
<1> QED BY <1>2, InvCorrect, PTL DEF Spec, NoLostUpdate

\* However many checkers picked a row, the hooks of its timeout fire once at most.
THEOREM HooksFireOnce == Spec => []HooksOncePerMove
<1>1. EditInv => HooksOncePerMove
  BY DEF EditInv
<1> QED BY InvCorrect, <1>1, PTL

\* Whatever requests and checkers race, the workflow moves only as declared:
\* handleTransition reads the state again in its transaction, and the UPDATE of
\* applyWorkflowTimeout asks for the state it was selected in.
THEOREM MovesAsDeclared == Spec => DeclaredMoves
<1>1. ASSUME EditInv, [Next]_vars, moved' # moved
      PROVE  \/ <<wstate, wstate'>> \in Moves
             \/ wstate \in DOMAIN TimeoutTo /\ wstate' = TimeoutTo[wstate]
  <2>1. TypeOK /\ MoveInv
    BY <1>1 DEF EditInv
  <2>2. ASSUME NEW p \in Requests, Transition(p) PROVE <<wstate, wstate'>> \in Moves
    BY <2>1, <2>2, <1>1 DEF Transition, StillValid, Enters, MoveInv, record
  <2>3. ASSUME NEW c \in Checkers, ApplyTimeout(c)
        PROVE  wstate \in DOMAIN TimeoutTo /\ wstate' = TimeoutTo[wstate]
    BY <2>1, <2>3, <1>1 DEF ApplyTimeout, Enters, MoveInv, record
  <2>4. \/ \E p \in Requests : Transition(p)
        \/ \E c \in Checkers : ApplyTimeout(c)
    BY <1>1
       DEF Next, LockStep, WriteStep, CheckerStep, vars, record, Cleanup, Tick,
           StepBack, StartAcquire, Purge, AcquireLook, InsertLock, ExtendLock,
           ReleaseLook, DeleteLock, CheckLock, Read, StartEdit, Update,
           StartTransition, Validate, SelectAged, FireHooks, Abandon
  <2> QED BY <2>2, <2>3, <2>4
<1>2. EditInv /\ [Next]_vars =>
        [moved' # moved =>
           \/ <<wstate, wstate'>> \in Moves
           \/ wstate \in DOMAIN TimeoutTo /\ wstate' = TimeoutTo[wstate]]_vars
  BY <1>1
<1> QED BY <1>2, InvCorrect, PTL DEF Spec, DeclaredMoves

\* An INSERT finds no lock, an extension and a look leave the owner, a release
\* or a cleanup frees: nobody's step hands an unexpired lock to another user.
THEOREM LocksNotStolen == Spec => LockNeverStolen
<1>1. ASSUME [Next]_vars, lock # Free, ~LockExpired
      PROVE  lock' \in {lock, Free}
  <2>1. ASSUME NEW p \in Requests, LockStep(p) PROVE lock' \in {lock, Free}
    <3>1. CASE StartAcquire(p) \/ AcquireLook(p) \/ ExtendLock(p) \/ ReleaseLook(p) \/ CheckLock(p)
      BY <3>1 DEF StartAcquire, AcquireLook, ExtendLock, ReleaseLook, CheckLock, locks
    <3>2. CASE Purge(p)
      BY <3>2 DEF Purge, Purges, locks
    <3>3. CASE InsertLock(p)
      BY <1>1, <3>3 DEF InsertLock, Inserts, locks
    <3>4. CASE DeleteLock(p)
      BY <3>4 DEF DeleteLock
    <3> QED BY <2>1, <3>1, <3>2, <3>3, <3>4 DEF LockStep
  <2>2. ASSUME NEW p \in Requests, WriteStep(p) PROVE lock' \in {lock, Free}
    <3>1. CASE Read(p) \/ Update(p) \/ Validate(p) \/ Transition(p)
      BY <3>1 DEF Read, Update, Validate, Transition, locks
    <3>2. CASE StartEdit(p) \/ StartTransition(p)
      BY <3>2 DEF StartEdit, StartTransition, Purges, locks
    <3> QED BY <2>2, <3>1, <3>2 DEF WriteStep
  <2>3. ASSUME NEW c \in Checkers, CheckerStep(c) PROVE lock' \in {lock, Free}
    BY <2>3 DEF CheckerStep, SelectAged, ApplyTimeout, FireHooks, Abandon, locks
  <2>4. CASE Cleanup \/ Tick \/ StepBack \/ UNCHANGED vars
    BY <2>4 DEF Cleanup, Purges, Tick, StepBack, vars, locks
  <2> QED BY <1>1, <2>1, <2>2, <2>3, <2>4 DEF Next
<1>2. [Next]_vars => [lock # Free /\ ~LockExpired => lock' \in {lock, Free}]_vars
  BY <1>1
<1> QED BY <1>2, PTL DEF Spec, LockNeverStolen
=============================================================================
