---------------------------- MODULE RecordEditing ----------------------------
(***************************************************************************)
(* Everything that edits one row of an application's table at once: record *)
(* locks (src/locks.go), PATCH with an optional _expected_updated_at       *)
(* (src/crud_update.go), workflow transitions and the workflow timeout     *)
(* checkers of one or more processes (src/workflows.go).                   *)
(*                                                                         *)
(* A statement outside a transaction is a step of its own, so whatever a   *)
(* handler read may be stale at its next statement. A transaction begins   *)
(* immediate (src/db_backend.go) and is one step.                          *)
(***************************************************************************)
EXTENDS Naturals, FiniteSets

CONSTANTS
    Requests,    \* requests in flight
    Users,
    UserOf,      \* whose request it is
    Admins,
    Free,        \* the owner of a lock nobody holds
    Checkers,    \* workflow timeout checkers, one per process or generation
    States,      \* of the workflow, its initial state among them
    Initial,
    Moves,       \* the declared transitions, pairs of states
    TimeoutTo,   \* the declared timeouts: a function of some of the states
    Step,        \* how far the clock moves at a time; versions are finer
    LockTTL,     \* lockTTL
    After,       \* how long a row stays in a state with a timeout
    Horizon,     \* bound: the clock stops here
    MaxBack,     \* bound: how often the clock is stepped back
    MaxWrites    \* bound: how often the row is written

ASSUME EditAssumption ==
    /\ UserOf \in [Requests -> Users] /\ Admins \subseteq Users /\ Free \notin Users
    /\ IsFiniteSet(Checkers)
    /\ Initial \in States /\ Moves \subseteq States \X States
    /\ TimeoutTo \in [DOMAIN TimeoutTo -> States] /\ DOMAIN TimeoutTo \subseteq States
    /\ Step \in Nat \ {0} /\ LockTTL \in Nat \ {0} /\ After \in Nat \ {0}
    /\ Horizon \in Nat /\ MaxBack \in Nat /\ MaxWrites \in Nat

VARIABLES
    clock, back,   \* wall clock, and the steps back it has made
    lock,          \* the row of _benmore_locks: its user_id ...
    until,         \*   and its expires_at
    version,       \* the record's updated_at,
    content,       \*   its other columns, as the number of writes so far,
    wstate,        \*   and its workflow state
    request,       \* what each request is about to do ...
    expiry,        \*   the expires_at a lock request has computed,
    token,         \*   the updated_at its client has read,
    from, to,      \*   and the transition it has validated
    checker,       \* what each timeout checker is about to do,
    aged,          \*   and the state it selected the row in
    seen,          \* history, read by properties only: the content behind a token,
    entered,       \*   when the workflow state was entered,
    moved, hooked  \*   state changes made, and on_transition hooks fired

locks    == <<lock, until>>
record   == <<version, content, wstate, entered, moved>>
requests == <<request, expiry, token, from, to, seen>>
checkers == <<checker, aged>>
vars == <<clock, back, locks, record, requests, checkers, hooked>>

-----------------------------------------------------------------------------
\* The next statement of a request, and of a checker.
Statements == {"none", "purge", "look", "insert", "extend", "delete",
               "edit look", "update", "move look", "validate", "transition"}

TypeOK ==
    /\ clock \in Nat /\ back \in Nat
    /\ lock \in Users \cup {Free} /\ until \in Nat
    /\ version \in Nat /\ content \in Nat /\ wstate \in States
    /\ request \in [Requests -> Statements]
    /\ expiry \in [Requests -> Nat] /\ token \in [Requests -> Nat]
    /\ from \in [Requests -> States] /\ to \in [Requests -> States]
    /\ checker \in [Checkers -> {"none", "apply", "hooks"}]
    /\ aged \in [Checkers -> States]
    /\ seen \in [Requests -> Nat]
    /\ entered \in Nat /\ moved \in Nat /\ hooked \in Nat

\* No token has been read: the PATCH carries no _expected_updated_at.
NoToken == 0

Init ==
    /\ clock = Step /\ back = 0
    /\ lock = Free /\ until = 0
    /\ version = Step /\ content = 0 /\ wstate = Initial
    /\ request = [p \in Requests |-> "none"]
    /\ expiry = [p \in Requests |-> 0]
    /\ token = [p \in Requests |-> NoToken]
    /\ from = [p \in Requests |-> Initial] /\ to = [p \in Requests |-> Initial]
    /\ checker = [c \in Checkers |-> "none"]
    /\ aged = [c \in Checkers |-> Initial]
    /\ seen = [p \in Requests |-> 0]
    /\ entered = Step /\ moved = 0 /\ hooked = 0

Begins(p, statement) == request[p] = "none" /\ request' = [request EXCEPT ![p] = statement]
Proceeds(p, statement) == request' = [request EXCEPT ![p] = statement]
Ends(p) == Proceeds(p, "none")

-----------------------------------------------------------------------------
(* Record locks. *)

LockExpired == lock # Free /\ until < clock

\* DELETE ... WHERE datetime(expires_at) < datetime('now').
Purges ==
    IF LockExpired THEN lock' = Free /\ until' = 0 ELSE UNCHANGED locks

LockedByOther(p) == lock \notin {Free, UserOf[p]}

\* handleLockAcquire: the new expiry is computed before the first statement.
StartAcquire(p) ==
    /\ Begins(p, "purge")
    /\ expiry' = [expiry EXCEPT ![p] = clock + LockTTL]
    /\ UNCHANGED <<clock, back, locks, record, token, from, to, seen, checkers, hooked>>

Purge(p) ==
    /\ request[p] = "purge" /\ Proceeds(p, "look")
    /\ Purges
    /\ UNCHANGED <<clock, back, record, expiry, token, from, to, seen, checkers, hooked>>

AcquireLook(p) ==
    /\ request[p] = "look"
    /\ \/ lock = Free /\ Proceeds(p, "insert")
       \/ lock = UserOf[p] /\ Proceeds(p, "extend")
       \/ LockedByOther(p) /\ Ends(p)
    /\ UNCHANGED <<clock, back, locks, record, expiry, token, from, to, seen,
                   checkers, hooked>>

\* The INSERT fails on UNIQUE(table_name, row_id) if there is a row by now.
\* Variant: it replaces the row (LockNeverStolen).
Replaces(p) == lock' = UserOf[p] /\ until' = expiry[p]

Inserts(p) ==
    IF lock = Free THEN lock' = UserOf[p] /\ until' = expiry[p]
    ELSE UNCHANGED locks

InsertLock(p) ==
    /\ request[p] = "insert"
    /\ Inserts(p)
    /\ Ends(p)
    /\ UNCHANGED <<clock, back, record, expiry, token, from, to, seen, checkers, hooked>>

\* The UPDATE names the record, not the user.
ExtendLock(p) ==
    /\ request[p] = "extend"
    /\ until' = IF lock = Free THEN until ELSE expiry[p]
    /\ Ends(p)
    /\ UNCHANGED <<clock, back, lock, record, expiry, token, from, to, seen,
                   checkers, hooked>>

\* handleLockRelease: only the owner or an admin goes on to the DELETE.
ReleaseLook(p) ==
    /\ lock # Free /\ (LockedByOther(p) => UserOf[p] \in Admins)
    /\ Begins(p, "delete")
    /\ UNCHANGED <<clock, back, locks, record, expiry, token, from, to, seen,
                   checkers, hooked>>

\* The DELETE names the record, not the user.
DeleteLock(p) ==
    /\ request[p] = "delete"
    /\ lock' = Free /\ until' = 0
    /\ Ends(p)
    /\ UNCHANGED <<clock, back, record, expiry, token, from, to, seen, checkers, hooked>>

\* cleanupExpiredLocks, and the first statement of handleLockStatus.
Cleanup ==
    /\ LockExpired /\ Purges
    /\ UNCHANGED <<clock, back, record, requests, checkers, hooked>>

\* CheckLock: the expired lock is deleted when an edit or a transition begins
\* (StartEdit, StartTransition), then the owner of the lock is read.
CheckLock(p) ==
    /\ \/ request[p] = "edit look"
          /\ IF LockedByOther(p) THEN Ends(p) ELSE Proceeds(p, "update")
       \/ request[p] = "move look"
          /\ IF LockedByOther(p) THEN Ends(p) ELSE Proceeds(p, "validate")
    /\ UNCHANGED <<clock, back, locks, record, expiry, token, from, to, seen,
                   checkers, hooked>>

-----------------------------------------------------------------------------
(* Versions. *)

\* prepareUpdateTimestamp: the version advances even on a clock that does not.
\* Variant: it is the clock (NoLostUpdate).
VersionIsNow == clock

NextVersion == IF clock > version THEN clock ELSE version + 1

Writes ==
    /\ content < MaxWrites /\ content' = content + 1
    /\ version' = NextVersion

\* A client reads the row it is going to change.
Read(p) ==
    /\ request[p] = "none"
    /\ token' = [token EXCEPT ![p] = version]
    /\ seen' = [seen EXCEPT ![p] = content]
    /\ UNCHANGED <<clock, back, locks, record, request, expiry, from, to,
                   checkers, hooked>>

StartEdit(p) ==
    /\ Begins(p, "edit look")
    /\ Purges
    /\ \/ UNCHANGED <<token, seen>>
       \/ token' = [token EXCEPT ![p] = NoToken] /\ seen' = [seen EXCEPT ![p] = 0]
    /\ UNCHANGED <<clock, back, record, expiry, from, to, checkers, hooked>>

\* The transaction of handleUpdate: compare the token, advance the version; or
\* refuse (a conflict, a failed validation) and roll back.
Update(p) ==
    /\ request[p] = "update"
    /\ \/ token[p] \in {NoToken, version} /\ Writes
       \/ UNCHANGED <<content, version>>
    /\ Ends(p)
    /\ UNCHANGED <<clock, back, locks, wstate, entered, moved, expiry, token,
                   from, to, seen, checkers, hooked>>

-----------------------------------------------------------------------------
(* Workflow transitions and timeouts. *)

Enters(s) ==
    /\ Writes
    /\ wstate' = s /\ entered' = clock /\ moved' = moved + 1

StartTransition(p) ==
    /\ Begins(p, "move look")
    /\ Purges
    /\ UNCHANGED <<clock, back, record, expiry, token, from, to, seen, checkers, hooked>>

\* handleTransition reads the row and finds the transition in the declaration.
Validate(p) ==
    /\ request[p] = "validate"
    /\ from' = [from EXCEPT ![p] = wstate]
    /\ \/ \E s \in States :
            /\ <<wstate, s>> \in Moves
            /\ to' = [to EXCEPT ![p] = s]
            /\ Proceeds(p, "transition")
       \/ UNCHANGED to /\ Ends(p)
    /\ UNCHANGED <<clock, back, locks, record, expiry, token, seen, checkers, hooked>>

\* The state is read again in the transaction. Variant: it is not (DeclaredMoves).
StillUnread(p) == TRUE

StillValid(p) == wstate = from[p]

\* The on_transition hooks run in the same transaction, and when one fails, or
\* the transition's condition does not hold, it is rolled back.
Transition(p) ==
    /\ request[p] = "transition"
    /\ \/ StillValid(p) /\ Enters(to[p]) /\ hooked' = hooked + 1
       \/ UNCHANGED <<record, hooked>>
    /\ Ends(p)
    /\ UNCHANGED <<clock, back, locks, expiry, token, from, to, seen, checkers>>

\* checkWorkflowTimeouts selects the rows that are in the state and old enough.
SelectAged(c) ==
    /\ checker[c] = "none"
    /\ wstate \in DOMAIN TimeoutTo /\ version + After < clock
    /\ checker' = [checker EXCEPT ![c] = "apply"]
    /\ aged' = [aged EXCEPT ![c] = wstate]
    /\ UNCHANGED <<clock, back, locks, record, requests, hooked>>

\* applyWorkflowTimeout: the UPDATE asks for the state only, and only a checker
\* whose UPDATE matched goes on to the hooks. Variant: it always does
\* (HooksOncePerMove).
AfterApply(matched) == "hooks"

AfterUpdate(matched) == IF matched THEN "hooks" ELSE "none"

ApplyTimeout(c) ==
    /\ checker[c] = "apply"
    /\ \/ wstate = aged[c] /\ Enters(TimeoutTo[aged[c]])
       \/ wstate # aged[c] /\ UNCHANGED record
    /\ checker' = [checker EXCEPT ![c] = AfterUpdate(wstate = aged[c])]
    /\ UNCHANGED <<clock, back, locks, requests, aged, hooked>>

FireHooks(c) ==
    /\ checker[c] = "hooks"
    /\ hooked' = hooked + 1
    /\ checker' = [checker EXCEPT ![c] = "none"]
    /\ UNCHANGED <<clock, back, locks, record, requests, aged>>

\* A checker's process dies, or its statement fails: the row waits for the next
\* sweep, and the hooks of a timeout that was applied are never fired.
Abandon(c) ==
    /\ checker[c] # "none"
    /\ checker' = [checker EXCEPT ![c] = "none"]
    /\ UNCHANGED <<clock, back, locks, record, requests, aged, hooked>>

-----------------------------------------------------------------------------
Tick ==
    /\ clock + Step <= Horizon * Step
    /\ clock' = clock + Step
    /\ UNCHANGED <<back, locks, record, requests, checkers, hooked>>

\* The wall clock is corrected, or the next write comes from a server whose
\* clock is behind.
StepBack ==
    /\ back < MaxBack /\ back' = back + 1
    /\ clock > Step /\ clock' = clock - Step
    /\ UNCHANGED <<locks, record, requests, checkers, hooked>>

LockStep(p) ==
    \/ StartAcquire(p) \/ Purge(p) \/ AcquireLook(p)
    \/ InsertLock(p) \/ ExtendLock(p)
    \/ ReleaseLook(p) \/ DeleteLock(p) \/ CheckLock(p)

WriteStep(p) ==
    \/ Read(p) \/ StartEdit(p) \/ Update(p)
    \/ StartTransition(p) \/ Validate(p) \/ Transition(p)

CheckerStep(c) ==
    SelectAged(c) \/ ApplyTimeout(c) \/ FireHooks(c) \/ Abandon(c)

Next ==
    \/ \E p \in Requests : LockStep(p) \/ WriteStep(p)
    \/ \E c \in Checkers : CheckerStep(c)
    \/ Cleanup \/ Tick \/ StepBack

Spec == Init /\ [][Next]_vars

-----------------------------------------------------------------------------
(***************************************************************************)
(* Properties.                                                             *)
(***************************************************************************)

\* A PATCH that carries the updated_at its client read overwrites exactly the
\* content that client saw, whatever was written meanwhile by other requests,
\* transitions and timeouts, in the same clock tick or under a clock that is
\* behind.
NoLostUpdate ==
    [][\A p \in Requests :
         request[p] = "update" /\ request'[p] = "none" /\ token[p] # NoToken
           => content' = content \/ seen[p] = content]_vars

\* However requests and checkers race, a row leaves a state only along a
\* transition or a timeout that is declared for that state.
DeclaredMoves ==
    [][moved' # moved =>
         \/ <<wstate, wstate'>> \in Moves
         \/ wstate \in DOMAIN TimeoutTo /\ wstate' = TimeoutTo[wstate]]_vars

\* The checkers that have still to fire the hooks of the timeout they applied.
Pending == {c \in Checkers : checker[c] = "hooks"}

\* Two checkers that picked the same row never both fire the hooks of its timeout.
HooksOncePerMove == hooked + Cardinality(Pending) <= moved

\* Nobody takes over a record lock that has not expired: it can only be deleted.
LockNeverStolen ==
    [][lock # Free /\ ~LockExpired => lock' \in {lock, Free}]_vars

\* A lock that has not expired is released only by its owner or an admin.
OnlyOwnerReleases ==
    [][\A p \in Requests :
         request[p] = "delete" /\ request'[p] = "none" /\ lock # Free /\ ~LockExpired
           => lock = UserOf[p] \/ UserOf[p] \in Admins]_vars

\* A timeout moves a row only after it has been in its state for the time declared.
TimeoutIsDue ==
    [][\A c \in Checkers :
         checker[c] = "apply" /\ checker'[c] # "apply" /\ moved' # moved
           => entered + After < clock]_vars

-----------------------------------------------------------------------------
(***************************************************************************)
(* The inductive invariant behind them.                                    *)
(***************************************************************************)

\* A client's token names the content it saw for as long as the token is current.
TokenInv ==
    \A p \in Requests :
        token[p] # NoToken => /\ token[p] <= version
                              /\ token[p] = version => seen[p] = content

\* What a request or a checker is about to do was declared for the state it read.
MoveInv ==
    /\ \A p \in Requests :
         request[p] = "transition" => <<from[p], to[p]>> \in Moves
    /\ \A c \in Checkers :
         checker[c] = "apply" => aged[c] \in DOMAIN TimeoutTo

EditInv == TypeOK /\ TokenInv /\ MoveInv /\ HooksOncePerMove
=============================================================================
