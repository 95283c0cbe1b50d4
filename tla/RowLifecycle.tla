---------------------------- MODULE RowLifecycle ----------------------------
(***************************************************************************)
(* The life of the rows of two tables with a deleted_at column, children   *)
(* with a foreign key on parents: idempotent create (src/crud_create.go),  *)
(* single, batch and transactional delete (src/crud_delete.go,             *)
(* src/crud_batch.go, src/crud_transaction.go), the cascade that follows a *)
(* delete once it has committed, restore (src/crud_restore.go), and the    *)
(* PATCH that points a child at another parent (src/crud_update.go).       *)
(*                                                                         *)
(* A transaction begins immediate and is one step; a statement outside one *)
(* is a step of its own. Record locks come and go as in RecordEditing.     *)
(***************************************************************************)
EXTENDS Naturals, FiniteSets

CONSTANTS
    Parents, Children,
    RowRequests,     \* HTTP requests in flight
    Callers, CallerOf,
    Unlocked,        \* the holder of a lock nobody holds
    Keys,            \* X-Idempotency-Key values,
    NoKey,           \*   and a create without one
    NoRow,
    Named,           \* bound: the sets of rows that delete requests name
    MaxRequests,     \* bound: how many requests are begun
    MaxUpsets        \* bound: how often a lock is taken, an idempotency record
                     \*   outlives its day or the process dies

Rows == Parents \cup Children

ASSUME RowAssumption ==
    /\ Parents \cap Children = {} /\ NoRow \notin Rows
    /\ CallerOf \in [RowRequests -> Callers] /\ Unlocked \notin Callers
    /\ IsFiniteSet(RowRequests) /\ NoKey \notin Keys /\ Named \subseteq SUBSET Rows
    /\ MaxRequests \in Nat /\ MaxUpsets \in Nat

VARIABLES
    rowStatus,     \* absent, live, or deleted: deleted_at is set
    parentOf,      \* the children's foreign key
    heldBy,        \* who holds the record lock
    record,        \* _benmore_idempotency: the row a key's response shows ...
    input,         \*   the input its fingerprint was taken from,
    stale,         \*   and whether it is older than a day
    step,          \* what a request is about to do ...
    asked,         \*   the rows named in it,
    target,        \*   the parent a PATCH names,
    queue,         \*   the deleted parents it has yet to cascade from,
    cause,         \*   the one it is cascading from,
    candidates,    \*   the children selected for it,
    chosen,        \*   those found unlocked,
    due,           \*   and the deleted rows whose effects it has yet to fire
    begun, upsets,   \* what the bounds count
    day,           \* history, read by properties only: a key's days so far,
    shown,         \*   the rows made or shown under a key, its day and the input,
    excuse,        \*   why a child of a deleted parent is live,
    since,         \*   who checked a row before it was locked or revived,
    deaths, audited, fired, lost   \* deletions, their audit rows and effects

table    == <<rowStatus, parentOf>>
keys     == <<record, input, stale, day, shown>>
cascade  == <<queue, cause, candidates, chosen>>
requestVars == <<step, asked, target, cascade, due>>
tally   == <<deaths, audited, fired, lost>>
bounds   == <<begun, upsets>>
rowVars  == <<table, heldBy, keys, requestVars, bounds, excuse, since, tally>>

Excuses == {"none", "locked", "refused", "failed", "crash", "transaction", "late"}
RowSteps == {"none", "look", "delete", "transaction look", "transaction", "cascade",
             "look child", "repoint look", "repoint"}

RowTypeOK ==
    /\ rowStatus \in [Rows -> {"absent", "live", "deleted"}]
    /\ parentOf \in [Children -> Parents]
    /\ heldBy \in [Rows -> Callers \cup {Unlocked}]
    /\ record \in [Keys -> Children \cup {NoRow}]
    /\ input \in [Keys -> Parents \cup {NoRow}] /\ stale \in [Keys -> BOOLEAN]
    /\ step \in [RowRequests -> RowSteps]
    /\ asked \in [RowRequests -> SUBSET Rows] /\ target \in [RowRequests -> Parents \cup {NoRow}]
    /\ queue \in [RowRequests -> SUBSET Parents]
    /\ cause \in [RowRequests -> Parents \cup {NoRow}]
    /\ candidates \in [RowRequests -> SUBSET Children]
    /\ chosen \in [RowRequests -> SUBSET Children]
    /\ due \in [RowRequests -> SUBSET Rows]
    /\ begun \in Nat /\ upsets \in Nat
    /\ day \in [Keys -> Nat]
    /\ shown \subseteq [key : Keys, day : Nat, input : Parents, row : Children]
    /\ excuse \in [Children -> Excuses] /\ since \in [Rows -> SUBSET RowRequests]
    /\ deaths \in [Rows -> Nat] /\ audited \in [Rows -> Nat]
    /\ fired \in [Rows -> Nat] /\ lost \in [Rows -> Nat]

\* The parents are there and at most one child; others are yet to be created.
RowInit ==
    /\ \E c \in Children \cup {NoRow} :
          rowStatus = [x \in Rows |-> IF x \in Parents \cup {c} THEN "live" ELSE "absent"]
    /\ \E p \in Parents : parentOf = [c \in Children |-> p]
    /\ heldBy = [x \in Rows |-> Unlocked]
    /\ record = [k \in Keys |-> NoRow]
    /\ input = [k \in Keys |-> NoRow]
    /\ stale = [k \in Keys |-> FALSE]
    /\ step = [r \in RowRequests |-> "none"]
    /\ asked = [r \in RowRequests |-> {}]
    /\ target = [r \in RowRequests |-> NoRow]
    /\ queue = [r \in RowRequests |-> {}]
    /\ cause = [r \in RowRequests |-> NoRow]
    /\ candidates = [r \in RowRequests |-> {}]
    /\ chosen = [r \in RowRequests |-> {}]
    /\ due = [r \in RowRequests |-> {}]
    /\ begun = 0 /\ upsets = 0
    /\ day = [k \in Keys |-> 0]
    /\ shown = {}
    /\ excuse = [c \in Children |-> "none"]
    /\ since = [x \in Rows |-> {}]
    /\ deaths = [x \in Rows |-> 0] /\ audited = [x \in Rows |-> 0]
    /\ fired = [x \in Rows |-> 0] /\ lost = [x \in Rows |-> 0]

Live(x) == rowStatus[x] = "live"
ChildrenOf(p) == {c \in Children : Live(c) /\ parentOf[c] = p}
Orphan(c) == Live(c) /\ rowStatus[parentOf[c]] = "deleted"
HeldByOther(r, x) == heldBy[x] \notin {Unlocked, CallerOf[r]}

Begins(r) == step[r] = "none" /\ begun < MaxRequests /\ begun' = begun + 1
Upset == upsets < MaxUpsets /\ upsets' = upsets + 1
Goes(r, s) == step' = [step EXCEPT ![r] = s]
Answers(r) == Goes(r, "none")
Excused(cs, why) == [c \in Children |-> IF c \in cs THEN why ELSE excuse[c]]

-----------------------------------------------------------------------------
(* Create. *)

\* Variant: a key whose row has been deleted is free again.
FoundWhileLive(k) == k # NoKey /\ record[k] # NoRow /\ ~stale[k] /\ Live(record[k])

\* A record younger than a day is found; an older one is deleted first.
Found(k) == k # NoKey /\ record[k] # NoRow /\ ~stale[k]

Shows(k, p, c) ==
    shown' = IF k = NoKey THEN shown
             ELSE shown \cup {[key |-> k, day |-> day[k], input |-> p, row |-> c]}

\* The row and its idempotency record are inserted by one transaction. The
\* foreign key may name a deleted parent: it is not checked for that.
Create(r, k, c, p) ==
    /\ Begins(r) /\ rowStatus[c] = "absent" /\ ~Found(k)
    /\ rowStatus' = [rowStatus EXCEPT ![c] = "live"]
    /\ parentOf' = [parentOf EXCEPT ![c] = p]
    /\ record' = [j \in Keys |-> IF j = k THEN c ELSE record[j]]
    /\ input' = [j \in Keys |-> IF j = k THEN p ELSE input[j]]
    /\ stale' = [j \in Keys |-> IF j = k THEN FALSE ELSE stale[j]]
    /\ Shows(k, p, c)
    /\ excuse' = Excused({c}, IF Live(p) THEN "none" ELSE "late")
    /\ UNCHANGED <<heldBy, requestVars, upsets, day, since, tally>>

\* The same input gets the cached response; another input is refused.
Replay(r, k, p) ==
    /\ Begins(r) /\ Found(k) /\ input[k] = p
    /\ Shows(k, p, record[k])
    /\ UNCHANGED <<table, heldBy, record, input, stale, day, requestVars, upsets,
                   excuse, since, tally>>

\* A record that outlives its day begins the key's next one.
DayPasses(k) ==
    /\ record[k] # NoRow /\ ~stale[k] /\ Upset
    /\ stale' = [stale EXCEPT ![k] = TRUE] /\ day' = [day EXCEPT ![k] = @ + 1]
    /\ UNCHANGED <<table, heldBy, record, input, shown, requestVars, begun, excuse,
                   since, tally>>

-----------------------------------------------------------------------------
(* Delete. *)

\* DELETE names one row, a batch several of one table; a transaction any, and
\* it leaves the children of those to its caller.
StartDelete(r, xs, s) ==
    /\ Begins(r) /\ s \in {"look", "transaction look"} /\ Goes(r, s)
    /\ s = "look" => xs \subseteq Parents \/ xs \subseteq Children
    /\ asked' = [asked EXCEPT ![r] = xs]
    /\ UNCHANGED <<table, heldBy, keys, target, cascade, due, upsets, excuse,
                   since, tally>>

\* Variant: only when every row named is held.
RefusedIfAllHeld(r, xs) == \A x \in xs : HeldByOther(r, x) /\ Live(x)

\* A lock held by another refuses the request, if the row is there to see.
Refused(r, xs) == \E x \in xs : HeldByOther(r, x) /\ Live(x)

LookLocks(r) ==
    /\ step[r] \in {"look", "transaction look"}
    /\ Goes(r, IF Refused(r, asked[r]) THEN "none"
               ELSE IF step[r] = "look" THEN "delete" ELSE "transaction")
    /\ since' = [x \in Rows |-> IF x \in asked[r] THEN since[x] \ {r} ELSE since[x]]
    /\ UNCHANGED <<table, heldBy, keys, asked, target, cascade, due, bounds, excuse, tally>>

\* Variant: a row that was gone already is audited again.
DeletesAndAuditsAll(xs) ==
    /\ rowStatus' = [x \in Rows |-> IF x \in xs /\ Live(x) THEN "deleted" ELSE rowStatus[x]]
    /\ audited' = [x \in Rows |-> IF x \in xs THEN audited[x] + 1 ELSE audited[x]]
    /\ deaths' = [x \in Rows |-> IF Live(x) /\ rowStatus'[x] = "deleted"
                                 THEN deaths[x] + 1 ELSE deaths[x]]

\* UPDATE ... SET deleted_at WHERE id = ? AND deleted_at IS NULL, with its
\* audit row, in one transaction.
Deletes(xs) ==
    /\ rowStatus' = [x \in Rows |-> IF x \in xs /\ Live(x) THEN "deleted" ELSE rowStatus[x]]
    /\ audited' = [x \in Rows |-> IF x \in xs /\ Live(x) THEN audited[x] + 1 ELSE audited[x]]
    /\ deaths' = [x \in Rows |-> IF Live(x) /\ rowStatus'[x] = "deleted"
                                 THEN deaths[x] + 1 ELSE deaths[x]]

\* handleDelete and handleBatchDelete: rows no longer live are passed over.
DeleteRows(r) ==
    /\ step[r] = "delete"
    /\ LET gone == {x \in asked[r] : Live(x)} IN
       /\ Deletes(asked[r])
       /\ queue' = [queue EXCEPT ![r] = gone \cap Parents]
       /\ due' = [due EXCEPT ![r] = gone]
       /\ excuse' = Excused({c \in Children : parentOf[c] \in gone}, "none")
       /\ Goes(r, IF gone = {} THEN "none" ELSE "cascade")
    /\ UNCHANGED <<parentOf, heldBy, keys, asked, target, cause, candidates, chosen, bounds,
                   since, fired, lost>>

\* POST /api/_transaction: all of its operations or none, and no cascade.
DeleteInTransaction(r) ==
    /\ step[r] = "transaction"
    /\ IF \A x \in asked[r] : Live(x)
       THEN /\ Deletes(asked[r])
            /\ due' = [due EXCEPT ![r] = asked[r]]
            /\ excuse' = Excused({c \in Children : parentOf[c] \in asked[r]}, "transaction")
            /\ Goes(r, "cascade")
       ELSE Answers(r) /\ UNCHANGED <<rowStatus, audited, deaths, due, excuse>>
    /\ UNCHANGED <<parentOf, heldBy, keys, asked, target, cascade, bounds, since,
                   fired, lost>>

-----------------------------------------------------------------------------
(* cascadeSoftDelete, after the commit and parent by parent. *)

\* The effects of the children one cascade deleted precede the next one.
Cascading(r) == step[r] = "cascade" /\ due[r] \subseteq asked[r]

\* SELECT id ... WHERE fk = ? AND deleted_at IS NULL.
ReadChildren(r, p) ==
    /\ Cascading(r) /\ p \in queue[r]
    /\ queue' = [queue EXCEPT ![r] = @ \ {p}]
    /\ cause' = [cause EXCEPT ![r] = p]
    /\ candidates' = [candidates EXCEPT ![r] = ChildrenOf(p)]
    /\ chosen' = [chosen EXCEPT ![r] = {}]
    /\ Goes(r, "look child")
    /\ UNCHANGED <<table, heldBy, keys, asked, target, due, bounds, excuse, since, tally>>

\* A child held by another is left alone.
LookChild(r, c) ==
    /\ step[r] = "look child" /\ c \in candidates[r]
    /\ candidates' = [candidates EXCEPT ![r] = @ \ {c}]
    /\ since' = [since EXCEPT ![c] = @ \ {r}]
    /\ IF HeldByOther(r, c)
       THEN /\ excuse' = Excused({c} \cap ChildrenOf(cause[r]), "locked")
            /\ UNCHANGED chosen
       ELSE chosen' = [chosen EXCEPT ![r] = @ \cup {c}] /\ UNCHANGED excuse
    /\ UNCHANGED <<table, heldBy, keys, step, asked, target, queue, cause, due, bounds, tally>>

\* One transaction for the chosen children. It names them by id only; those
\* in cs are out of the caller's delete scope or refused by a before-hook.
DeleteChildren(r, cs) ==
    /\ step[r] = "look child" /\ candidates[r] = {} /\ cs \subseteq chosen[r]
    /\ Deletes(chosen[r] \ cs)
    /\ due' = [due EXCEPT ![r] = @ \cup {c \in chosen[r] \ cs : Live(c)}]
    /\ excuse' = Excused(cs \cap ChildrenOf(cause[r]), "refused")
    /\ chosen' = [chosen EXCEPT ![r] = {}]
    /\ Goes(r, "cascade")
    /\ UNCHANGED <<parentOf, heldBy, keys, asked, target, queue, cause, candidates, bounds,
                   since, fired, lost>>

\* Any other error rolls it back; it is logged, and the request goes on.
CascadeFails(r) ==
    /\ step[r] = "look child" /\ candidates[r] = {} /\ chosen[r] # {}
    /\ excuse' = Excused(chosen[r] \cap ChildrenOf(cause[r]), "failed")
    /\ chosen' = [chosen EXCEPT ![r] = {}]
    /\ Goes(r, "cascade")
    /\ UNCHANGED <<table, heldBy, keys, asked, target, queue, cause, candidates, due, bounds,
                   since, tally>>

\* The hooks, flows and webhooks of a deleted row: of a child at once, of the
\* rows the request named when every cascade is over.
FireEffects(r, x) ==
    /\ step[r] = "cascade" /\ x \in due[r]
    /\ x \in asked[r] => Cascading(r) /\ queue[r] = {}
    /\ fired' = [fired EXCEPT ![x] = @ + 1]
    /\ due' = [due EXCEPT ![r] = @ \ {x}]
    /\ UNCHANGED <<table, heldBy, keys, step, asked, target, cascade, bounds, excuse, since,
                   deaths, audited, lost>>

EndDelete(r) ==
    /\ step[r] = "cascade" /\ queue[r] = {} /\ due[r] = {} /\ Answers(r)
    /\ UNCHANGED <<table, heldBy, keys, asked, target, cascade, due, bounds, excuse, since,
                   tally>>

-----------------------------------------------------------------------------
(* PATCH of the foreign key, restore, record locks, the death of the process. *)

StartRepoint(r, c, p) ==
    /\ Begins(r) /\ Goes(r, "repoint look")
    /\ asked' = [asked EXCEPT ![r] = {c}] /\ target' = [target EXCEPT ![r] = p]
    /\ UNCHANGED <<table, heldBy, keys, cascade, due, upsets, excuse, since, tally>>

LookRepoint(r) ==
    /\ step[r] = "repoint look"
    /\ Goes(r, IF Refused(r, asked[r]) THEN "none" ELSE "repoint")
    /\ UNCHANGED <<table, heldBy, keys, asked, target, cascade, due, bounds, excuse, since,
                   tally>>

\* A live row only; its new parent may be a deleted one, as in a create.
Repoint(r) ==
    /\ step[r] = "repoint" /\ Answers(r)
    /\ LET moved == {c \in asked[r] \cap Children : Live(c)} IN
       /\ parentOf' = [c \in Children |-> IF c \in moved THEN target[r] ELSE parentOf[c]]
       /\ excuse' = Excused({c \in moved : parentOf[c] # target[r]},
                            IF Live(target[r]) THEN "none" ELSE "late")
    /\ UNCHANGED <<rowStatus, heldBy, keys, asked, target, cascade, due, bounds, since, tally>>

\* Variant: the parent is not looked at.
RestoreAnyRow(r, x) ==
    /\ Begins(r) /\ rowStatus[x] = "deleted" /\ ~HeldByOther(r, x)
    /\ rowStatus' = [rowStatus EXCEPT ![x] = "live"]
    /\ excuse' = Excused({x} \cap Children, "none")
    /\ since' = [since EXCEPT ![x] = RowRequests]
    /\ UNCHANGED <<parentOf, heldBy, keys, requestVars, upsets, tally>>

\* One transaction: the lock, and for a child its parent, are checked in it.
RestoreRow(r, x) ==
    /\ Begins(r) /\ rowStatus[x] = "deleted" /\ ~HeldByOther(r, x)
    /\ x \in Children => Live(parentOf[x])
    /\ rowStatus' = [rowStatus EXCEPT ![x] = "live"]
    /\ excuse' = Excused({x} \cap Children, "none")
    /\ since' = [since EXCEPT ![x] = RowRequests]
    /\ UNCHANGED <<parentOf, heldBy, keys, requestVars, upsets, tally>>

\* A lock is taken on a row its holder can see.
Lock(u, x) ==
    /\ heldBy[x] = Unlocked /\ Live(x) /\ Upset
    /\ heldBy' = [heldBy EXCEPT ![x] = u]
    /\ since' = [since EXCEPT ![x] = RowRequests]
    /\ UNCHANGED <<table, keys, requestVars, begun, excuse, tally>>

\* Released by its holder, or expired.
Unlock(x) ==
    /\ heldBy[x] # Unlocked
    /\ heldBy' = [heldBy EXCEPT ![x] = Unlocked]
    /\ UNCHANGED <<table, keys, requestVars, bounds, excuse, since, tally>>

\* The children r's cascades have yet to delete or to leave alone.
Pending(r) ==
    {c \in Children :
        \/ step[r] \in {"cascade", "look child"} /\ Live(c) /\ parentOf[c] \in queue[r]
        \/ step[r] = "look child" /\ c \in candidates[r] \cup chosen[r] /\ parentOf[c] = cause[r]}

\* The requests die with the process, their cascades and effects with them.
ServerCrash ==
    /\ \E r \in RowRequests : step[r] # "none"
    /\ Upset
    /\ excuse' = Excused(UNION {Pending(r) : r \in RowRequests}, "crash")
    /\ lost' = [x \in Rows |-> lost[x] + Cardinality({r \in RowRequests : x \in due[r]})]
    /\ step' = [r \in RowRequests |-> "none"]
    /\ due' = [r \in RowRequests |-> {}]
    /\ queue' = [r \in RowRequests |-> {}]
    /\ candidates' = [r \in RowRequests |-> {}]
    /\ chosen' = [r \in RowRequests |-> {}]
    /\ UNCHANGED <<table, heldBy, keys, asked, target, cause, begun, since, deaths,
                   audited, fired>>

-----------------------------------------------------------------------------
CreateStep == \E r \in RowRequests, k \in Keys \cup {NoKey}, c \in Children, p \in Parents :
                  Create(r, k, c, p) \/ (k # NoKey /\ Replay(r, k, p))
DeleteStep == \E r \in RowRequests :
    \/ \E xs \in Named, s \in RowSteps : StartDelete(r, xs, s)
    \/ LookLocks(r) \/ DeleteRows(r) \/ DeleteInTransaction(r)
    \/ \E x \in Rows : FireEffects(r, x)
    \/ EndDelete(r)
CascadeStep == \E r \in RowRequests :
    \/ \E p \in Parents : ReadChildren(r, p)
    \/ \E c \in Children : LookChild(r, c)
    \/ \E cs \in SUBSET Children : DeleteChildren(r, cs)
    \/ CascadeFails(r)
UpdateStep == \E r \in RowRequests :
    \/ \E c \in Children, p \in Parents : StartRepoint(r, c, p)
    \/ LookRepoint(r) \/ Repoint(r)
    \/ \E x \in Rows : RestoreRow(r, x)
RowEnvironment ==
    \/ \E u \in Callers, x \in Rows : Lock(u, x)
    \/ \E x \in Rows : Unlock(x)
    \/ \E k \in Keys : DayPasses(k)
    \/ ServerCrash

RowNext == CreateStep \/ DeleteStep \/ CascadeStep \/ UpdateStep \/ RowEnvironment
RowSpec == RowInit /\ [][RowNext]_rowVars

-----------------------------------------------------------------------------
(* Properties. *)

\* A cascade runs after the delete that asked for it, on rows other requests
\* meanwhile create, move, restore and lock. A live child of a deleted parent
\* is one a cascade has yet to come to, or there is a reason it was left: held
\* by another, refused, the cascade failed or died with the process, the parent
\* went in a transaction, or the child came to it when it was deleted already.
OrphanHasCause ==
    \A c \in Children :
        Orphan(c) => excuse[c] # "none" \/ \E r \in RowRequests : c \in Pending(r)

\* However often a create is sent again, at once or later, and whatever becomes
\* of its row, one key stands for one row and one input all day.
OneRowPerKey ==
    \A a, b \in shown : a.key = b.key /\ a.day = b.day => a = b

\* However deletes, batches and cascades meet on a row, each time it goes there
\* is one audit row, and its effects fire once or are lost with the process.
OneAuditPerDeletion ==
    \A x \in Rows :
        /\ audited[x] = deaths[x]
        /\ deaths[x] = fired[x] + lost[x] + Cardinality({r \in RowRequests : x \in due[r]})

\* No delete takes a row another caller holds, unless the lock was taken or the
\* row restored after the delete had looked.
LockedRowsSurvive ==
    [][\A x \in Rows, r \in RowRequests :
          Live(x) /\ rowStatus'[x] = "deleted" /\ step[r] # step'[r] /\ HeldByOther(r, x)
              => r \in since[x]]_rowVars

-----------------------------------------------------------------------------
(* What the proofs need besides. *)

\* Where a request is tells which of its local variables hold anything.
ShapeOf(r) ==
    /\ step[r] \notin {"cascade", "look child"} => due[r] = {} /\ queue[r] = {}
    /\ step[r] \in {"look", "delete"} => asked[r] \subseteq Parents \/ asked[r] \subseteq Children
    /\ step[r] \in {"repoint look", "repoint"} => target[r] \in Parents
    /\ step[r] = "look child" =>
          /\ cause[r] \in Parents /\ asked[r] \subseteq Parents /\ due[r] \subseteq asked[r]
          /\ candidates[r] \cap chosen[r] = {}
    /\ step[r] = "cascade" /\ queue[r] # {} => asked[r] \subseteq Parents

RequestShape == \A r \in RowRequests : ShapeOf(r)

\* What was shown under a key today is what its record says.
KeyShape ==
    \A a \in shown :
        /\ a.day <= day[a.key]
        /\ a.day = day[a.key] =>
              record[a.key] = a.row /\ input[a.key] = a.input /\ ~stale[a.key]

\* A lock that is in the way of a request past its check came after it.
LockShape ==
    /\ \A x \in Rows : rowStatus[x] = "absent" => heldBy[x] = Unlocked
    /\ \A r \in RowRequests, x \in Rows :
          Live(x) /\ HeldByOther(r, x) /\ ( \/ step[r] \in {"delete", "transaction"} /\ x \in asked[r]
                                            \/ step[r] = "look child" /\ x \in chosen[r] )
              => r \in since[x]

RowInv ==
    /\ RowTypeOK /\ RequestShape /\ KeyShape /\ LockShape
    /\ OrphanHasCause /\ OneRowPerKey /\ OneAuditPerDeletion
=============================================================================
