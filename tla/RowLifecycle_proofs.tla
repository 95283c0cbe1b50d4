------------------------- MODULE RowLifecycle_proofs -------------------------
(***************************************************************************)
(* Proofs about RowLifecycle for any parents, children, callers, requests  *)
(* and keys, and any number of locks, days and crashes.                    *)
(***************************************************************************)
EXTENDS RowLifecycle, FiniteSetTheorems, TLAPS

\* A request goes to one of the steps there are.
LEMMA GoesType ==
    ASSUME RowTypeOK, NEW r \in RowRequests, NEW s \in RowSteps, Goes(r, s)
    PROVE  step' \in [RowRequests -> RowSteps]
BY DEF RowTypeOK, Goes

\* One more request is begun.
LEMMA IdleType ==
    ASSUME RowTypeOK, NEW r \in RowRequests, Begins(r) PROVE begun' \in Nat
BY DEF RowTypeOK, Begins

\* Only the children named get the excuse.
LEMMA ExcusedType ==
    ASSUME RowTypeOK, NEW cs, NEW why \in Excuses
    PROVE  Excused(cs, why) \in [Children -> Excuses]
BY DEF RowTypeOK, Excused

\* A deletion leaves rows, counts and audit rows of their types.
LEMMA DeletesType ==
    ASSUME RowTypeOK, NEW xs, Deletes(xs)
    PROVE  /\ rowStatus' \in [Rows -> {"absent", "live", "deleted"}]
           /\ audited' \in [Rows -> Nat] /\ deaths' \in [Rows -> Nat]
<1>1. rowStatus' \in [Rows -> {"absent", "live", "deleted"}]
  BY DEF RowTypeOK, Deletes
<1>2. audited' \in [Rows -> Nat]
  <2>1. \A x \in Rows : audited[x] \in Nat /\ audited[x] + 1 \in Nat
    BY DEF RowTypeOK
  <2> QED BY <2>1 DEF Deletes
<1>3. deaths' \in [Rows -> Nat]
  <2>1. \A x \in Rows : deaths[x] \in Nat /\ deaths[x] + 1 \in Nat
    BY DEF RowTypeOK
  <2> QED BY <2>1 DEF Deletes
<1> QED BY <1>1, <1>2, <1>3

\* What a response shows under a key is one of its shown rows.
LEMMA ShowsType ==
    ASSUME RowTypeOK, NEW k \in Keys \cup {NoKey}, NEW p \in Parents, NEW c \in Children,
           Shows(k, p, c)
    PROVE  shown' \subseteq [key : Keys, day : Nat, input : Parents, row : Children]
<1>1. CASE k = NoKey
  BY <1>1 DEF RowTypeOK, Shows
<1>2. CASE k # NoKey
  <2>1. k \in Keys /\ day[k] \in Nat
    BY <1>2 DEF RowTypeOK
  <2> QED BY <1>2, <2>1 DEF RowTypeOK, Shows
<1> QED BY <1>1, <1>2

\* Every step keeps the type.
LEMMA RowTypeStep ==
    ASSUME RowTypeOK, RequestShape, RowNext PROVE RowTypeOK'
<1>1. ASSUME NEW r \in RowRequests, NEW k \in Keys \cup {NoKey}, NEW c \in Children, NEW p \in Parents, Create(r, k, c, p)
      PROVE  RowTypeOK'
  <2>1. begun' \in Nat
    BY <1>1, IdleType DEF Create
  <2>2. rowStatus' \in [Rows -> {"absent", "live", "deleted"}]
    BY <1>1 DEF Create, Rows, RowTypeOK
  <2>3. parentOf' \in [Children -> Parents]
    BY <1>1 DEF Create, RowTypeOK
  <2>4. record' \in [Keys -> Children \cup {NoRow}] /\ stale' \in [Keys -> BOOLEAN]
    BY <1>1 DEF Create, RowTypeOK
  <2>5. input' \in [Keys -> Parents \cup {NoRow}]
    BY <1>1 DEF Create, RowTypeOK
  <2>6. shown' \subseteq [key : Keys, day : Nat, input : Parents, row : Children]
    BY <1>1, ShowsType DEF Create
  <2>7. excuse' \in [Children -> Excuses]
    BY <1>1, ExcusedType DEF Create, Excuses
  <2> QED BY <1>1, <2>1, <2>2, <2>3, <2>4, <2>5, <2>6, <2>7 DEF Create, RowTypeOK, table, keys, cascade, requestVars, tally, bounds
<1>2. ASSUME NEW r \in RowRequests, NEW k \in Keys, NEW p \in Parents, Replay(r, k, p)
      PROVE  RowTypeOK'
  <2>1. begun' \in Nat
    BY <1>2, IdleType DEF Replay
  <2>2. shown' \subseteq [key : Keys, day : Nat, input : Parents, row : Children]
    <3>1. record[k] \in Children
      BY <1>2 DEF Replay, Found, RowTypeOK
    <3> QED BY <1>2, <3>1, ShowsType DEF Replay
  <2> QED BY <1>2, <2>1, <2>2 DEF Replay, RowTypeOK, table, keys, cascade, requestVars, tally, bounds
<1>3. ASSUME NEW r \in RowRequests, NEW xs \in Named, NEW s \in RowSteps, StartDelete(r, xs, s)
      PROVE  RowTypeOK'
  <2>1. begun' \in Nat
    BY <1>3, IdleType DEF StartDelete
  <2>2. step' \in [RowRequests -> RowSteps]
    BY <1>3, GoesType DEF StartDelete, RowSteps
  <2>3. asked' \in [RowRequests -> SUBSET Rows]
    BY <1>3, RowAssumption DEF StartDelete, RowTypeOK
  <2> QED BY <1>3, <2>1, <2>2, <2>3 DEF StartDelete, RowTypeOK, table, keys, cascade, requestVars, tally, bounds
<1>4. ASSUME NEW r \in RowRequests, LookLocks(r)
      PROVE  RowTypeOK'
  <2>1. step' \in [RowRequests -> RowSteps]
    BY <1>4, GoesType DEF LookLocks, RowSteps
  <2>2. since' \in [Rows -> SUBSET RowRequests]
    BY <1>4 DEF LookLocks, RowTypeOK
  <2> QED BY <1>4, <2>1, <2>2 DEF LookLocks, RowTypeOK, table, keys, cascade, requestVars, tally, bounds
<1>5. ASSUME NEW r \in RowRequests, DeleteRows(r)
      PROVE  RowTypeOK'
  <2>1. rowStatus' \in [Rows -> {"absent", "live", "deleted"}]
        /\ audited' \in [Rows -> Nat] /\ deaths' \in [Rows -> Nat]
    BY <1>5, DeletesType DEF DeleteRows
  <2>2. queue' \in [RowRequests -> SUBSET Parents]
    BY <1>5 DEF DeleteRows, RowTypeOK
  <2>3. due' \in [RowRequests -> SUBSET Rows]
    BY <1>5 DEF DeleteRows, RowTypeOK
  <2>4. excuse' \in [Children -> Excuses]
    BY <1>5, ExcusedType DEF DeleteRows, Excuses
  <2>5. step' \in [RowRequests -> RowSteps]
    BY <1>5, GoesType DEF DeleteRows, RowSteps
  <2> QED BY <1>5, <2>1, <2>2, <2>3, <2>4, <2>5 DEF DeleteRows, RowTypeOK, table, keys, cascade, requestVars, tally, bounds
<1>6. ASSUME NEW r \in RowRequests, DeleteInTransaction(r)
      PROVE  RowTypeOK'
  <2>1. CASE \A x \in asked[r] : Live(x)
    <3>1. rowStatus' \in [Rows -> {"absent", "live", "deleted"}]
        /\ audited' \in [Rows -> Nat] /\ deaths' \in [Rows -> Nat]
      BY <1>6, <2>1, DeletesType DEF DeleteInTransaction
    <3>2. due' \in [RowRequests -> SUBSET Rows]
      BY <1>6, <2>1 DEF DeleteInTransaction, RowTypeOK
    <3>3. excuse' \in [Children -> Excuses]
      BY <1>6, <2>1, ExcusedType DEF DeleteInTransaction, Excuses
    <3>4. step' \in [RowRequests -> RowSteps]
      BY <1>6, <2>1, GoesType DEF DeleteInTransaction, RowSteps
    <3> QED BY <1>6, <3>1, <3>2, <3>3, <3>4 DEF DeleteInTransaction, RowTypeOK, table, keys, cascade, requestVars, tally, bounds
  <2>2. CASE ~ \A x \in asked[r] : Live(x)
    <3>1. step' \in [RowRequests -> RowSteps]
      BY <1>6, <2>2, GoesType DEF DeleteInTransaction, RowSteps, Answers
    <3> QED BY <1>6, <2>2, <3>1 DEF DeleteInTransaction, RowTypeOK, table, keys, cascade, requestVars, tally, bounds
  <2> QED BY <2>1, <2>2
<1>7. ASSUME NEW r \in RowRequests, NEW x \in Rows, FireEffects(r, x)
      PROVE  RowTypeOK'
  <2>1. fired' \in [Rows -> Nat]
    <3>1. fired[x] + 1 \in Nat
      BY DEF RowTypeOK
    <3> QED BY <1>7, <3>1 DEF FireEffects, RowTypeOK
  <2>2. due' \in [RowRequests -> SUBSET Rows]
    BY <1>7 DEF FireEffects, RowTypeOK
  <2> QED BY <1>7, <2>1, <2>2 DEF FireEffects, RowTypeOK, table, keys, cascade, requestVars, tally, bounds
<1>8. ASSUME NEW r \in RowRequests, EndDelete(r)
      PROVE  RowTypeOK'
  <2>1. step' \in [RowRequests -> RowSteps]
    BY <1>8, GoesType DEF EndDelete, RowSteps, Answers
  <2> QED BY <1>8, <2>1 DEF EndDelete, RowTypeOK, table, keys, cascade, requestVars, tally, bounds
<1>9. ASSUME NEW r \in RowRequests, NEW p \in Parents, ReadChildren(r, p)
      PROVE  RowTypeOK'
  <2>1. queue' \in [RowRequests -> SUBSET Parents]
    BY <1>9 DEF ReadChildren, RowTypeOK
  <2>2. cause' \in [RowRequests -> Parents \cup {NoRow}]
    BY <1>9 DEF ReadChildren, RowTypeOK
  <2>3. candidates' \in [RowRequests -> SUBSET Children]
    BY <1>9 DEF ReadChildren, ChildrenOf, RowTypeOK
  <2>4. chosen' \in [RowRequests -> SUBSET Children]
    BY <1>9 DEF ReadChildren, RowTypeOK
  <2>5. step' \in [RowRequests -> RowSteps]
    BY <1>9, GoesType DEF ReadChildren, RowSteps
  <2> QED BY <1>9, <2>1, <2>2, <2>3, <2>4, <2>5 DEF ReadChildren, RowTypeOK, table, keys, cascade, requestVars, tally, bounds
<1>10. ASSUME NEW r \in RowRequests, NEW c \in Children, LookChild(r, c)
      PROVE  RowTypeOK'
  <2>1. candidates' \in [RowRequests -> SUBSET Children]
    BY <1>10 DEF LookChild, RowTypeOK
  <2>2. since' \in [Rows -> SUBSET RowRequests]
    <3>1. since \in [Rows -> SUBSET RowRequests] /\ c \in Rows
      BY DEF RowTypeOK, Rows
    <3> QED BY <1>10, <3>1 DEF LookChild
  <2>3. chosen' \in [RowRequests -> SUBSET Children]
    <3>1. chosen \in [RowRequests -> SUBSET Children]
      BY DEF RowTypeOK
    <3>2. chosen' = chosen \/ chosen' = [chosen EXCEPT ![r] = @ \cup {c}]
      BY <1>10 DEF LookChild
    <3> QED BY <3>1, <3>2
  <2>4. excuse' \in [Children -> Excuses]
    <3>1. excuse' = excuse \/ excuse' = Excused({c} \cap ChildrenOf(cause[r]), "locked")
      BY <1>10 DEF LookChild
    <3>2. Excused({c} \cap ChildrenOf(cause[r]), "locked") \in [Children -> Excuses]
      BY ExcusedType DEF Excuses
    <3> QED BY <3>1, <3>2 DEF RowTypeOK
  <2> QED BY <1>10, <2>1, <2>2, <2>3, <2>4 DEF LookChild, RowTypeOK, table, keys, cascade, requestVars, tally, bounds
<1>11. ASSUME NEW r \in RowRequests, NEW cs \in SUBSET Children, DeleteChildren(r, cs)
      PROVE  RowTypeOK'
  <2>1. rowStatus' \in [Rows -> {"absent", "live", "deleted"}]
        /\ audited' \in [Rows -> Nat] /\ deaths' \in [Rows -> Nat]
    BY <1>11, DeletesType DEF DeleteChildren
  <2>2. due' \in [RowRequests -> SUBSET Rows]
    BY <1>11 DEF DeleteChildren, Rows, RowTypeOK
  <2>3. excuse' \in [Children -> Excuses]
    BY <1>11, ExcusedType DEF DeleteChildren, Excuses
  <2>4. chosen' \in [RowRequests -> SUBSET Children]
    BY <1>11 DEF DeleteChildren, RowTypeOK
  <2>5. step' \in [RowRequests -> RowSteps]
    BY <1>11, GoesType DEF DeleteChildren, RowSteps
  <2> QED BY <1>11, <2>1, <2>2, <2>3, <2>4, <2>5 DEF DeleteChildren, RowTypeOK, table, keys, cascade, requestVars, tally, bounds
<1>12. ASSUME NEW r \in RowRequests, CascadeFails(r)
      PROVE  RowTypeOK'
  <2>1. excuse' \in [Children -> Excuses]
    BY <1>12, ExcusedType DEF CascadeFails, Excuses
  <2>2. chosen' \in [RowRequests -> SUBSET Children]
    BY <1>12 DEF CascadeFails, RowTypeOK
  <2>3. step' \in [RowRequests -> RowSteps]
    BY <1>12, GoesType DEF CascadeFails, RowSteps
  <2> QED BY <1>12, <2>1, <2>2, <2>3 DEF CascadeFails, RowTypeOK, table, keys, cascade, requestVars, tally, bounds
<1>13. ASSUME NEW r \in RowRequests, NEW c \in Children, NEW p \in Parents, StartRepoint(r, c, p)
      PROVE  RowTypeOK'
  <2>1. begun' \in Nat
    BY <1>13, IdleType DEF StartRepoint
  <2>2. step' \in [RowRequests -> RowSteps]
    BY <1>13, GoesType DEF StartRepoint, RowSteps
  <2>3. asked' \in [RowRequests -> SUBSET Rows]
    BY <1>13 DEF StartRepoint, Rows, RowTypeOK
  <2>4. target' \in [RowRequests -> Parents \cup {NoRow}]
    BY <1>13 DEF StartRepoint, RowTypeOK
  <2> QED BY <1>13, <2>1, <2>2, <2>3, <2>4 DEF StartRepoint, RowTypeOK, table, keys, cascade, requestVars, tally, bounds
<1>14. ASSUME NEW r \in RowRequests, LookRepoint(r)
      PROVE  RowTypeOK'
  <2>1. step' \in [RowRequests -> RowSteps]
    BY <1>14, GoesType DEF LookRepoint, RowSteps
  <2> QED BY <1>14, <2>1 DEF LookRepoint, RowTypeOK, table, keys, cascade, requestVars, tally, bounds
<1>15. ASSUME NEW r \in RowRequests, Repoint(r)
      PROVE  RowTypeOK'
  <2>1. step' \in [RowRequests -> RowSteps]
    BY <1>15, GoesType DEF Repoint, RowSteps, Answers
  <2>2. parentOf' \in [Children -> Parents]
    <3>1. parentOf \in [Children -> Parents] /\ target[r] \in Parents \cup {NoRow}
      BY DEF RowTypeOK
    <3>2. target[r] \in Parents
      BY <1>15 DEF Repoint, RequestShape, ShapeOf
    <3> QED BY <1>15, <3>1, <3>2 DEF Repoint
  <2>3. excuse' \in [Children -> Excuses]
    BY <1>15, ExcusedType DEF Repoint, Excuses
  <2> QED BY <1>15, <2>1, <2>2, <2>3 DEF Repoint, RowTypeOK, table, keys, cascade, requestVars, tally, bounds
<1>16. ASSUME NEW r \in RowRequests, NEW x \in Rows, RestoreRow(r, x)
      PROVE  RowTypeOK'
  <2>1. begun' \in Nat
    BY <1>16, IdleType DEF RestoreRow
  <2>2. rowStatus' \in [Rows -> {"absent", "live", "deleted"}]
    BY <1>16 DEF RestoreRow, RowTypeOK
  <2>3. excuse' \in [Children -> Excuses]
    BY <1>16, ExcusedType DEF RestoreRow, Excuses
  <2>4. since' \in [Rows -> SUBSET RowRequests]
    BY <1>16 DEF RestoreRow, RowTypeOK
  <2> QED BY <1>16, <2>1, <2>2, <2>3, <2>4 DEF RestoreRow, RowTypeOK, table, keys, cascade, requestVars, tally, bounds
<1>17. ASSUME NEW u \in Callers, NEW x \in Rows, Lock(u, x)
      PROVE  RowTypeOK'
  <2>1. heldBy' \in [Rows -> Callers \cup {Unlocked}]
    BY <1>17 DEF Lock, RowTypeOK
  <2>2. since' \in [Rows -> SUBSET RowRequests]
    BY <1>17 DEF Lock, RowTypeOK
  <2>3. upsets' \in Nat
    BY <1>17 DEF Lock, Upset, RowTypeOK
  <2> QED BY <1>17, <2>1, <2>2, <2>3 DEF Lock, RowTypeOK, table, keys, cascade, requestVars, tally, bounds
<1>18. ASSUME NEW x \in Rows, Unlock(x)
      PROVE  RowTypeOK'
  <2>1. heldBy' \in [Rows -> Callers \cup {Unlocked}]
    BY <1>18 DEF Unlock, RowTypeOK
  <2> QED BY <1>18, <2>1 DEF Unlock, RowTypeOK, table, keys, cascade, requestVars, tally, bounds
<1>19. ASSUME NEW k \in Keys, DayPasses(k)
      PROVE  RowTypeOK'
  <2>1. stale' \in [Keys -> BOOLEAN]
    BY <1>19 DEF DayPasses, RowTypeOK
  <2>2. day' \in [Keys -> Nat]
    <3>1. day[k] + 1 \in Nat
      BY DEF RowTypeOK
    <3> QED BY <1>19, <3>1 DEF DayPasses, RowTypeOK
  <2>3. upsets' \in Nat
    BY <1>19 DEF DayPasses, Upset, RowTypeOK
  <2> QED BY <1>19, <2>1, <2>2, <2>3 DEF DayPasses, RowTypeOK, table, keys, cascade, requestVars, tally, bounds
<1>20. ASSUME ServerCrash
      PROVE  RowTypeOK'
  <2>1. upsets' \in Nat
    BY <1>20 DEF ServerCrash, Upset, RowTypeOK
  <2>2. step' \in [RowRequests -> RowSteps]
    BY <1>20 DEF ServerCrash, RowSteps, RowTypeOK
  <2>3. due' \in [RowRequests -> SUBSET Rows]
    BY <1>20 DEF ServerCrash, RowTypeOK
  <2>4. queue' \in [RowRequests -> SUBSET Parents]
    BY <1>20 DEF ServerCrash, RowTypeOK
  <2>5. candidates' \in [RowRequests -> SUBSET Children]
    BY <1>20 DEF ServerCrash, RowTypeOK
  <2>6. chosen' \in [RowRequests -> SUBSET Children]
    BY <1>20 DEF ServerCrash, RowTypeOK
  <2>7. excuse' \in [Children -> Excuses]
    BY <1>20, ExcusedType DEF ServerCrash, Excuses
  <2>8. lost' \in [Rows -> Nat]
    <3>1. ASSUME NEW x \in Rows PROVE lost[x] + Cardinality({r \in RowRequests : x \in due[r]}) \in Nat
      <4>1. IsFiniteSet({r \in RowRequests : x \in due[r]})
        BY RowAssumption, FS_Subset
      <4> QED BY <4>1, FS_CardinalityType DEF RowTypeOK
    <3> QED BY <1>20, <3>1 DEF ServerCrash
  <2> QED BY <1>20, <2>1, <2>2, <2>3, <2>4, <2>5, <2>6, <2>7, <2>8 DEF ServerCrash, RowTypeOK, table, keys, cascade, requestVars, tally, bounds
<1> QED BY <1>1, <1>2, <1>3, <1>4, <1>5, <1>6, <1>7, <1>8, <1>9, <1>10, <1>11, <1>12, <1>13, <1>14, <1>15, <1>16, <1>17, <1>18, <1>19, <1>20
    DEF RowNext, CreateStep, DeleteStep, CascadeStep, UpdateStep, RowEnvironment

\* Every step keeps what a request's place tells of its variables.
LEMMA RequestShapeStep ==
    ASSUME RowTypeOK, RequestShape, RowNext PROVE RequestShape'
<1>1. ASSUME NEW r \in RowRequests, NEW k \in Keys \cup {NoKey}, NEW c \in Children, NEW p \in Parents, Create(r, k, c, p)
      PROVE  RequestShape'
  BY <1>1 DEF Create, RowTypeOK, RequestShape, ShapeOf, Goes, Answers, Begins, Cascading, Rows,
     table, keys, cascade, requestVars, tally, bounds
<1>2. ASSUME NEW r \in RowRequests, NEW k \in Keys, NEW p \in Parents, Replay(r, k, p)
      PROVE  RequestShape'
  BY <1>2 DEF Replay, RowTypeOK, RequestShape, ShapeOf, Goes, Answers, Begins, Cascading, Rows,
     table, keys, cascade, requestVars, tally, bounds
<1>3. ASSUME NEW r \in RowRequests, NEW xs \in Named, NEW s \in RowSteps, StartDelete(r, xs, s)
      PROVE  RequestShape'
  BY <1>3 DEF StartDelete, RowTypeOK, RequestShape, ShapeOf, Goes, Answers, Begins, Cascading, Rows,
     table, keys, cascade, requestVars, tally, bounds
<1>4. ASSUME NEW r \in RowRequests, LookLocks(r)
      PROVE  RequestShape'
  BY <1>4 DEF LookLocks, RowTypeOK, RequestShape, ShapeOf, Goes, Answers, Begins, Cascading, Rows,
     table, keys, cascade, requestVars, tally, bounds
<1>5. ASSUME NEW r \in RowRequests, DeleteRows(r)
      PROVE  RequestShape'
  <2>1. /\ step[r] = "delete" /\ step' = [step EXCEPT ![r] = step'[r]]
        /\ step'[r] \in {"none", "cascade"}
        /\ queue' = [queue EXCEPT ![r] = queue'[r]] /\ queue'[r] \subseteq asked[r] \cap Parents
        /\ due' = [due EXCEPT ![r] = due'[r]]
        /\ step'[r] = "none" => due'[r] = {} /\ queue'[r] = {}
        /\ UNCHANGED <<asked, cause, target, candidates, chosen>>
    BY <1>5 DEF DeleteRows, RowTypeOK, Goes
  <2>2. asked[r] \subseteq Parents \/ asked[r] \subseteq Children
    BY <2>1 DEF RequestShape, ShapeOf
  <2>3. queue'[r] # {} => asked[r] \subseteq Parents
    BY <2>1, <2>2, RowAssumption
  <2>4. ASSUME NEW q \in RowRequests, q # r
        PROVE  step'[q] = step[q] /\ queue'[q] = queue[q] /\ due'[q] = due[q]
    BY <2>1, <2>4 DEF RowTypeOK
  <2> SUFFICES ASSUME NEW q \in RowRequests PROVE ShapeOf(q)'
    BY DEF RequestShape
  <2>5. CASE q # r
    <3>1. ShapeOf(q)
      BY DEF RequestShape
    <3> QED BY <2>1, <2>4, <2>5, <3>1 DEF ShapeOf
  <2>6. CASE q = r
    BY <2>1, <2>3, <2>6 DEF ShapeOf
  <2> QED BY <2>5, <2>6
<1>6. ASSUME NEW r \in RowRequests, DeleteInTransaction(r)
      PROVE  RequestShape'
  <2>1. /\ step[r] = "transaction" /\ step' = [step EXCEPT ![r] = step'[r]]
        /\ step'[r] \in {"none", "cascade"} /\ due' = [due EXCEPT ![r] = due'[r]]
        /\ step'[r] = "none" => due' = due
        /\ UNCHANGED <<asked, queue, cause, target, candidates, chosen>>
    BY <1>6 DEF DeleteInTransaction, RowTypeOK, Goes, Answers, cascade
  <2>2. due[r] = {} /\ queue[r] = {}
    BY <2>1 DEF RequestShape, ShapeOf
  <2> SUFFICES ASSUME NEW q \in RowRequests PROVE ShapeOf(q)'
    BY DEF RequestShape
  <2>3. CASE q # r
    <3>1. ShapeOf(q)
      BY DEF RequestShape
    <3>2. step'[q] = step[q] /\ due'[q] = due[q]
      BY <2>1, <2>3 DEF RowTypeOK
    <3> QED BY <2>1, <3>1, <3>2 DEF ShapeOf
  <2>4. CASE q = r
    BY <2>1, <2>2, <2>4 DEF ShapeOf
  <2> QED BY <2>3, <2>4
<1>7. ASSUME NEW r \in RowRequests, NEW x \in Rows, FireEffects(r, x)
      PROVE  RequestShape'
  BY <1>7 DEF FireEffects, RowTypeOK, RequestShape, ShapeOf, Goes, Answers, Begins, Cascading, Rows,
     table, keys, cascade, requestVars, tally, bounds
<1>8. ASSUME NEW r \in RowRequests, EndDelete(r)
      PROVE  RequestShape'
  BY <1>8 DEF EndDelete, RowTypeOK, RequestShape, ShapeOf, Goes, Answers, Begins, Cascading, Rows,
     table, keys, cascade, requestVars, tally, bounds
<1>9. ASSUME NEW r \in RowRequests, NEW p \in Parents, ReadChildren(r, p)
      PROVE  RequestShape'
  BY <1>9 DEF ReadChildren, RowTypeOK, RequestShape, ShapeOf, Goes, Answers, Begins, Cascading, Rows,
     table, keys, cascade, requestVars, tally, bounds
<1>10. ASSUME NEW r \in RowRequests, NEW c \in Children, LookChild(r, c)
      PROVE  RequestShape'
  BY <1>10 DEF LookChild, RowTypeOK, RequestShape, ShapeOf, Goes, Answers, Begins, Cascading, Rows,
     table, keys, cascade, requestVars, tally, bounds
<1>11. ASSUME NEW r \in RowRequests, NEW cs \in SUBSET Children, DeleteChildren(r, cs)
      PROVE  RequestShape'
  BY <1>11 DEF DeleteChildren, RowTypeOK, RequestShape, ShapeOf, Goes, Answers, Begins, Cascading, Rows,
     table, keys, cascade, requestVars, tally, bounds
<1>12. ASSUME NEW r \in RowRequests, CascadeFails(r)
      PROVE  RequestShape'
  BY <1>12 DEF CascadeFails, RowTypeOK, RequestShape, ShapeOf, Goes, Answers, Begins, Cascading, Rows,
     table, keys, cascade, requestVars, tally, bounds
<1>13. ASSUME NEW r \in RowRequests, NEW c \in Children, NEW p \in Parents, StartRepoint(r, c, p)
      PROVE  RequestShape'
  BY <1>13 DEF StartRepoint, RowTypeOK, RequestShape, ShapeOf, Goes, Answers, Begins, Cascading, Rows,
     table, keys, cascade, requestVars, tally, bounds
<1>14. ASSUME NEW r \in RowRequests, LookRepoint(r)
      PROVE  RequestShape'
  BY <1>14 DEF LookRepoint, RowTypeOK, RequestShape, ShapeOf, Goes, Answers, Begins, Cascading, Rows,
     table, keys, cascade, requestVars, tally, bounds
<1>15. ASSUME NEW r \in RowRequests, Repoint(r)
      PROVE  RequestShape'
  BY <1>15 DEF Repoint, RowTypeOK, RequestShape, ShapeOf, Goes, Answers, Begins, Cascading, Rows,
     table, keys, cascade, requestVars, tally, bounds
<1>16. ASSUME NEW r \in RowRequests, NEW x \in Rows, RestoreRow(r, x)
      PROVE  RequestShape'
  BY <1>16 DEF RestoreRow, RowTypeOK, RequestShape, ShapeOf, Goes, Answers, Begins, Cascading, Rows,
     table, keys, cascade, requestVars, tally, bounds
<1>17. ASSUME NEW u \in Callers, NEW x \in Rows, Lock(u, x)
      PROVE  RequestShape'
  BY <1>17 DEF Lock, RowTypeOK, RequestShape, ShapeOf, Goes, Answers, Begins, Cascading, Rows,
     table, keys, cascade, requestVars, tally, bounds
<1>18. ASSUME NEW x \in Rows, Unlock(x)
      PROVE  RequestShape'
  BY <1>18 DEF Unlock, RowTypeOK, RequestShape, ShapeOf, Goes, Answers, Begins, Cascading, Rows,
     table, keys, cascade, requestVars, tally, bounds
<1>19. ASSUME NEW k \in Keys, DayPasses(k)
      PROVE  RequestShape'
  BY <1>19 DEF DayPasses, RowTypeOK, RequestShape, ShapeOf, Goes, Answers, Begins, Cascading, Rows,
     table, keys, cascade, requestVars, tally, bounds
<1>20. ASSUME ServerCrash
      PROVE  RequestShape'
  BY <1>20 DEF ServerCrash, RowTypeOK, RequestShape, ShapeOf, Goes, Answers, Begins, Cascading, Rows,
     table, keys, cascade, requestVars, tally, bounds
<1> QED BY <1>1, <1>2, <1>3, <1>4, <1>5, <1>6, <1>7, <1>8, <1>9, <1>10, <1>11, <1>12, <1>13, <1>14, <1>15, <1>16, <1>17, <1>18, <1>19, <1>20
    DEF RowNext, CreateStep, DeleteStep, CascadeStep, UpdateStep, RowEnvironment

\* Every step keeps what the records say of the rows shown.
LEMMA KeyShapeStep ==
    ASSUME RowTypeOK, KeyShape, RowNext PROVE KeyShape'
<1>1. ASSUME NEW r \in RowRequests, NEW k \in Keys \cup {NoKey}, NEW c \in Children, NEW p \in Parents, Create(r, k, c, p)
      PROVE  KeyShape'
  <2>1. CASE k = NoKey
    <3>1. UNCHANGED <<day, shown>>
      BY <1>1, <2>1 DEF Create, Shows
    <3>2. ASSUME NEW j \in Keys
          PROVE  record'[j] = record[j] /\ input'[j] = input[j] /\ stale'[j] = stale[j]
      BY <1>1, <2>1, RowAssumption DEF Create
    <3>3. \A a \in shown : a.key \in Keys
      BY DEF RowTypeOK
    <3> QED BY <3>1, <3>2, <3>3 DEF KeyShape
  <2>2. CASE k # NoKey
    <3> SUFFICES ASSUME NEW a \in shown'
                 PROVE  /\ a.day <= day'[a.key]
                        /\ a.day = day'[a.key] =>
                              record'[a.key] = a.row /\ input'[a.key] = a.input /\ ~stale'[a.key]
      BY DEF KeyShape
    <3>1. CASE a \in shown
      <4>1. a.key \in Keys /\ a.day <= day[a.key]
            /\ (a.day = day[a.key] => record[a.key] = a.row /\ input[a.key] = a.input /\ ~stale[a.key])
        BY <3>1 DEF KeyShape, RowTypeOK
      <4>2. a.row # NoRow
        BY <3>1, RowAssumption DEF RowTypeOK, Rows
      <4>3. a.key = k => a.day # day[a.key]
        BY <1>1, <2>2, <4>1, <4>2 DEF Create, Found
      <4> QED BY <1>1, <4>1, <4>3 DEF Create, RowTypeOK
    <3>2. CASE a \notin shown
      <4>1. k \in Keys /\ a = [key |-> k, day |-> day[k], input |-> p, row |-> c]
        BY <1>1, <2>2, <3>2 DEF Create, Shows
      <4>2. day[k] \in Nat
        BY <4>1 DEF RowTypeOK
      <4> QED BY <1>1, <4>1, <4>2 DEF Create, RowTypeOK
    <3> QED BY <3>1, <3>2
  <2> QED BY <2>1, <2>2
<1>2. ASSUME NEW r \in RowRequests, NEW k \in Keys, NEW p \in Parents, Replay(r, k, p)
      PROVE  KeyShape'
  <2>1. /\ UNCHANGED <<record, input, stale, day>>
        /\ shown' = shown \cup {[key |-> k, day |-> day[k], input |-> p, row |-> record[k]]}
        /\ input[k] = p /\ ~stale[k]
    BY <1>2, RowAssumption DEF Replay, Found, Shows
  <2>2. day[k] \in Nat
    BY DEF RowTypeOK
  <2> QED BY <2>1, <2>2 DEF KeyShape
<1>3. ASSUME NEW r \in RowRequests, NEW xs \in Named, NEW s \in RowSteps, StartDelete(r, xs, s)
      PROVE  KeyShape'
  BY <1>3 DEF StartDelete, RowTypeOK, KeyShape,
     table, keys, cascade, requestVars, tally, bounds
<1>4. ASSUME NEW r \in RowRequests, LookLocks(r)
      PROVE  KeyShape'
  BY <1>4 DEF LookLocks, RowTypeOK, KeyShape,
     table, keys, cascade, requestVars, tally, bounds
<1>5. ASSUME NEW r \in RowRequests, DeleteRows(r)
      PROVE  KeyShape'
  BY <1>5 DEF DeleteRows, RowTypeOK, KeyShape,
     table, keys, cascade, requestVars, tally, bounds
<1>6. ASSUME NEW r \in RowRequests, DeleteInTransaction(r)
      PROVE  KeyShape'
  BY <1>6 DEF DeleteInTransaction, RowTypeOK, KeyShape,
     table, keys, cascade, requestVars, tally, bounds
<1>7. ASSUME NEW r \in RowRequests, NEW x \in Rows, FireEffects(r, x)
      PROVE  KeyShape'
  BY <1>7 DEF FireEffects, RowTypeOK, KeyShape,
     table, keys, cascade, requestVars, tally, bounds
<1>8. ASSUME NEW r \in RowRequests, EndDelete(r)
      PROVE  KeyShape'
  BY <1>8 DEF EndDelete, RowTypeOK, KeyShape,
     table, keys, cascade, requestVars, tally, bounds
<1>9. ASSUME NEW r \in RowRequests, NEW p \in Parents, ReadChildren(r, p)
      PROVE  KeyShape'
  BY <1>9 DEF ReadChildren, RowTypeOK, KeyShape,
     table, keys, cascade, requestVars, tally, bounds
<1>10. ASSUME NEW r \in RowRequests, NEW c \in Children, LookChild(r, c)
      PROVE  KeyShape'
  BY <1>10 DEF LookChild, RowTypeOK, KeyShape,
     table, keys, cascade, requestVars, tally, bounds
<1>11. ASSUME NEW r \in RowRequests, NEW cs \in SUBSET Children, DeleteChildren(r, cs)
      PROVE  KeyShape'
  BY <1>11 DEF DeleteChildren, RowTypeOK, KeyShape,
     table, keys, cascade, requestVars, tally, bounds
<1>12. ASSUME NEW r \in RowRequests, CascadeFails(r)
      PROVE  KeyShape'
  BY <1>12 DEF CascadeFails, RowTypeOK, KeyShape,
     table, keys, cascade, requestVars, tally, bounds
<1>13. ASSUME NEW r \in RowRequests, NEW c \in Children, NEW p \in Parents, StartRepoint(r, c, p)
      PROVE  KeyShape'
  BY <1>13 DEF StartRepoint, RowTypeOK, KeyShape,
     table, keys, cascade, requestVars, tally, bounds
<1>14. ASSUME NEW r \in RowRequests, LookRepoint(r)
      PROVE  KeyShape'
  BY <1>14 DEF LookRepoint, RowTypeOK, KeyShape,
     table, keys, cascade, requestVars, tally, bounds
<1>15. ASSUME NEW r \in RowRequests, Repoint(r)
      PROVE  KeyShape'
  BY <1>15 DEF Repoint, RowTypeOK, KeyShape,
     table, keys, cascade, requestVars, tally, bounds
<1>16. ASSUME NEW r \in RowRequests, NEW x \in Rows, RestoreRow(r, x)
      PROVE  KeyShape'
  BY <1>16 DEF RestoreRow, RowTypeOK, KeyShape,
     table, keys, cascade, requestVars, tally, bounds
<1>17. ASSUME NEW u \in Callers, NEW x \in Rows, Lock(u, x)
      PROVE  KeyShape'
  BY <1>17 DEF Lock, RowTypeOK, KeyShape,
     table, keys, cascade, requestVars, tally, bounds
<1>18. ASSUME NEW x \in Rows, Unlock(x)
      PROVE  KeyShape'
  BY <1>18 DEF Unlock, RowTypeOK, KeyShape,
     table, keys, cascade, requestVars, tally, bounds
<1>19. ASSUME NEW k \in Keys, DayPasses(k)
      PROVE  KeyShape'
  BY <1>19 DEF DayPasses, RowTypeOK, KeyShape,
     table, keys, cascade, requestVars, tally, bounds
<1>20. ASSUME ServerCrash
      PROVE  KeyShape'
  BY <1>20 DEF ServerCrash, RowTypeOK, KeyShape,
     table, keys, cascade, requestVars, tally, bounds
<1> QED BY <1>1, <1>2, <1>3, <1>4, <1>5, <1>6, <1>7, <1>8, <1>9, <1>10, <1>11, <1>12, <1>13, <1>14, <1>15, <1>16, <1>17, <1>18, <1>19, <1>20
    DEF RowNext, CreateStep, DeleteStep, CascadeStep, UpdateStep, RowEnvironment

\* No step shows a second row under a key on one day.
LEMMA OneRowPerKeyStep ==
    ASSUME RowTypeOK, KeyShape, OneRowPerKey, RowNext PROVE OneRowPerKey'
<1>1. ASSUME NEW r \in RowRequests, NEW k \in Keys \cup {NoKey}, NEW c \in Children, NEW p \in Parents, Create(r, k, c, p)
      PROVE  OneRowPerKey'
  <2>1. CASE k = NoKey
    BY <1>1, <2>1 DEF Create, Shows, OneRowPerKey
  <2>2. CASE k # NoKey
    <3>1. shown' = shown \cup {[key |-> k, day |-> day[k], input |-> p, row |-> c]} /\ k \in Keys
      BY <1>1, <2>2 DEF Create, Shows
    <3>2. ASSUME NEW a \in shown, a.key = k PROVE a.day # day[k]
      <4>1. a.row # NoRow
        BY RowAssumption DEF RowTypeOK, Rows
      <4> QED BY <1>1, <2>2, <3>2, <4>1 DEF Create, Found, KeyShape
    <3> QED BY <3>1, <3>2 DEF OneRowPerKey
  <2> QED BY <2>1, <2>2
<1>2. ASSUME NEW r \in RowRequests, NEW k \in Keys, NEW p \in Parents, Replay(r, k, p)
      PROVE  OneRowPerKey'
  <2>1. shown' = shown \cup {[key |-> k, day |-> day[k], input |-> input[k], row |-> record[k]]}
    BY <1>2, RowAssumption DEF Replay, Shows
  <2>2. ASSUME NEW a \in shown, a.key = k, a.day = day[k]
        PROVE  a = [key |-> k, day |-> day[k], input |-> input[k], row |-> record[k]]
    <3>1. a \in [key : Keys, day : Nat, input : Parents, row : Children]
      BY DEF RowTypeOK
    <3>2. record[k] = a.row /\ input[k] = a.input
      BY <2>2 DEF KeyShape
    <3> QED BY <2>2, <3>1, <3>2
  <2> QED BY <2>1, <2>2 DEF OneRowPerKey
<1>3. ASSUME NEW r \in RowRequests, NEW xs \in Named, NEW s \in RowSteps, StartDelete(r, xs, s)
      PROVE  OneRowPerKey'
  BY <1>3 DEF StartDelete, RowTypeOK, OneRowPerKey,
     table, keys, cascade, requestVars, tally, bounds
<1>4. ASSUME NEW r \in RowRequests, LookLocks(r)
      PROVE  OneRowPerKey'
  BY <1>4 DEF LookLocks, RowTypeOK, OneRowPerKey,
     table, keys, cascade, requestVars, tally, bounds
<1>5. ASSUME NEW r \in RowRequests, DeleteRows(r)
      PROVE  OneRowPerKey'
  BY <1>5 DEF DeleteRows, RowTypeOK, OneRowPerKey,
     table, keys, cascade, requestVars, tally, bounds
<1>6. ASSUME NEW r \in RowRequests, DeleteInTransaction(r)
      PROVE  OneRowPerKey'
  BY <1>6 DEF DeleteInTransaction, RowTypeOK, OneRowPerKey,
     table, keys, cascade, requestVars, tally, bounds
<1>7. ASSUME NEW r \in RowRequests, NEW x \in Rows, FireEffects(r, x)
      PROVE  OneRowPerKey'
  BY <1>7 DEF FireEffects, RowTypeOK, OneRowPerKey,
     table, keys, cascade, requestVars, tally, bounds
<1>8. ASSUME NEW r \in RowRequests, EndDelete(r)
      PROVE  OneRowPerKey'
  BY <1>8 DEF EndDelete, RowTypeOK, OneRowPerKey,
     table, keys, cascade, requestVars, tally, bounds
<1>9. ASSUME NEW r \in RowRequests, NEW p \in Parents, ReadChildren(r, p)
      PROVE  OneRowPerKey'
  BY <1>9 DEF ReadChildren, RowTypeOK, OneRowPerKey,
     table, keys, cascade, requestVars, tally, bounds
<1>10. ASSUME NEW r \in RowRequests, NEW c \in Children, LookChild(r, c)
      PROVE  OneRowPerKey'
  BY <1>10 DEF LookChild, RowTypeOK, OneRowPerKey,
     table, keys, cascade, requestVars, tally, bounds
<1>11. ASSUME NEW r \in RowRequests, NEW cs \in SUBSET Children, DeleteChildren(r, cs)
      PROVE  OneRowPerKey'
  BY <1>11 DEF DeleteChildren, RowTypeOK, OneRowPerKey,
     table, keys, cascade, requestVars, tally, bounds
<1>12. ASSUME NEW r \in RowRequests, CascadeFails(r)
      PROVE  OneRowPerKey'
  BY <1>12 DEF CascadeFails, RowTypeOK, OneRowPerKey,
     table, keys, cascade, requestVars, tally, bounds
<1>13. ASSUME NEW r \in RowRequests, NEW c \in Children, NEW p \in Parents, StartRepoint(r, c, p)
      PROVE  OneRowPerKey'
  BY <1>13 DEF StartRepoint, RowTypeOK, OneRowPerKey,
     table, keys, cascade, requestVars, tally, bounds
<1>14. ASSUME NEW r \in RowRequests, LookRepoint(r)
      PROVE  OneRowPerKey'
  BY <1>14 DEF LookRepoint, RowTypeOK, OneRowPerKey,
     table, keys, cascade, requestVars, tally, bounds
<1>15. ASSUME NEW r \in RowRequests, Repoint(r)
      PROVE  OneRowPerKey'
  BY <1>15 DEF Repoint, RowTypeOK, OneRowPerKey,
     table, keys, cascade, requestVars, tally, bounds
<1>16. ASSUME NEW r \in RowRequests, NEW x \in Rows, RestoreRow(r, x)
      PROVE  OneRowPerKey'
  BY <1>16 DEF RestoreRow, RowTypeOK, OneRowPerKey,
     table, keys, cascade, requestVars, tally, bounds
<1>17. ASSUME NEW u \in Callers, NEW x \in Rows, Lock(u, x)
      PROVE  OneRowPerKey'
  BY <1>17 DEF Lock, RowTypeOK, OneRowPerKey,
     table, keys, cascade, requestVars, tally, bounds
<1>18. ASSUME NEW x \in Rows, Unlock(x)
      PROVE  OneRowPerKey'
  BY <1>18 DEF Unlock, RowTypeOK, OneRowPerKey,
     table, keys, cascade, requestVars, tally, bounds
<1>19. ASSUME NEW k \in Keys, DayPasses(k)
      PROVE  OneRowPerKey'
  BY <1>19 DEF DayPasses, RowTypeOK, OneRowPerKey,
     table, keys, cascade, requestVars, tally, bounds
<1>20. ASSUME ServerCrash
      PROVE  OneRowPerKey'
  BY <1>20 DEF ServerCrash, RowTypeOK, OneRowPerKey,
     table, keys, cascade, requestVars, tally, bounds
<1> QED BY <1>1, <1>2, <1>3, <1>4, <1>5, <1>6, <1>7, <1>8, <1>9, <1>10, <1>11, <1>12, <1>13, <1>14, <1>15, <1>16, <1>17, <1>18, <1>19, <1>20
    DEF RowNext, CreateStep, DeleteStep, CascadeStep, UpdateStep, RowEnvironment

\* Every step keeps locks in the way of a request later than its check.
LEMMA LockShapeStep ==
    ASSUME RowTypeOK, RequestShape, LockShape, RowNext PROVE LockShape'
<1>1. ASSUME NEW r \in RowRequests, NEW k \in Keys \cup {NoKey}, NEW c \in Children, NEW p \in Parents, Create(r, k, c, p)
      PROVE  LockShape'
  BY <1>1 DEF Create, RowTypeOK, RequestShape, ShapeOf, LockShape, HeldByOther, Live, Goes, Answers, Begins, Refused, Deletes, Rows,
     table, keys, cascade, requestVars, tally, bounds
<1>2. ASSUME NEW r \in RowRequests, NEW k \in Keys, NEW p \in Parents, Replay(r, k, p)
      PROVE  LockShape'
  BY <1>2 DEF Replay, RowTypeOK, RequestShape, ShapeOf, LockShape, HeldByOther, Live, Goes, Answers, Begins, Refused, Deletes, Rows,
     table, keys, cascade, requestVars, tally, bounds
<1>3. ASSUME NEW r \in RowRequests, NEW xs \in Named, NEW s \in RowSteps, StartDelete(r, xs, s)
      PROVE  LockShape'
  BY <1>3 DEF StartDelete, RowTypeOK, RequestShape, ShapeOf, LockShape, HeldByOther, Live, Goes, Answers, Begins, Refused, Deletes, Rows,
     table, keys, cascade, requestVars, tally, bounds
<1>4. ASSUME NEW r \in RowRequests, LookLocks(r)
      PROVE  LockShape'
  BY <1>4 DEF LookLocks, RowTypeOK, RequestShape, ShapeOf, LockShape, HeldByOther, Live, Goes, Answers, Begins, Refused, Deletes, Rows,
     table, keys, cascade, requestVars, tally, bounds
<1>5. ASSUME NEW r \in RowRequests, DeleteRows(r)
      PROVE  LockShape'
  BY <1>5 DEF DeleteRows, RowTypeOK, RequestShape, ShapeOf, LockShape, HeldByOther, Live, Goes, Answers, Begins, Refused, Deletes, Rows,
     table, keys, cascade, requestVars, tally, bounds
<1>6. ASSUME NEW r \in RowRequests, DeleteInTransaction(r)
      PROVE  LockShape'
  <2>1. /\ step[r] = "transaction" /\ step' = [step EXCEPT ![r] = step'[r]]
        /\ step'[r] \in {"none", "cascade"}
        /\ UNCHANGED <<heldBy, asked, chosen, since>>
    BY <1>6 DEF DeleteInTransaction, RowTypeOK, Goes, Answers, cascade, requestVars
  <2>2. \A x \in Rows : /\ rowStatus'[x] = "live" => rowStatus[x] = "live"
                        /\ rowStatus'[x] = "absent" => rowStatus[x] = "absent"
    <3>1. rowStatus' = rowStatus \/ Deletes(asked[r])
      BY <1>6 DEF DeleteInTransaction
    <3> QED BY <3>1 DEF Deletes, Live, RowTypeOK
  <2>3. \A q \in RowRequests : q # r => step'[q] = step[q]
    BY <2>1 DEF RowTypeOK
  <2> QED BY <2>1, <2>2, <2>3 DEF LockShape, Live, HeldByOther
<1>7. ASSUME NEW r \in RowRequests, NEW x \in Rows, FireEffects(r, x)
      PROVE  LockShape'
  BY <1>7 DEF FireEffects, RowTypeOK, RequestShape, ShapeOf, LockShape, HeldByOther, Live, Goes, Answers, Begins, Refused, Deletes, Rows,
     table, keys, cascade, requestVars, tally, bounds
<1>8. ASSUME NEW r \in RowRequests, EndDelete(r)
      PROVE  LockShape'
  BY <1>8 DEF EndDelete, RowTypeOK, RequestShape, ShapeOf, LockShape, HeldByOther, Live, Goes, Answers, Begins, Refused, Deletes, Rows,
     table, keys, cascade, requestVars, tally, bounds
<1>9. ASSUME NEW r \in RowRequests, NEW p \in Parents, ReadChildren(r, p)
      PROVE  LockShape'
  BY <1>9 DEF ReadChildren, RowTypeOK, RequestShape, ShapeOf, LockShape, HeldByOther, Live, Goes, Answers, Begins, Refused, Deletes, Rows,
     table, keys, cascade, requestVars, tally, bounds
<1>10. ASSUME NEW r \in RowRequests, NEW c \in Children, LookChild(r, c)
      PROVE  LockShape'
  <2>1. /\ step[r] = "look child"
        /\ UNCHANGED <<rowStatus, heldBy, step, asked>>
        /\ since' = [since EXCEPT ![c] = @ \ {r}]
        /\ chosen' = chosen \/ (chosen' = [chosen EXCEPT ![r] = @ \cup {c}] /\ ~HeldByOther(r, c))
    BY <1>10 DEF LookChild, table
  <2>2. c \notin chosen[r]
    BY <1>10, <2>1 DEF LookChild, RequestShape, ShapeOf
  <2>3. ASSUME NEW q \in RowRequests, NEW x \in Rows, q # r \/ x # c, q \in since[x]
        PROVE  q \in since'[x]
    BY <2>1, <2>3 DEF RowTypeOK, Rows
  <2>4. ASSUME NEW q \in RowRequests, NEW x \in Rows, x \in chosen'[q], x \notin chosen[q]
        PROVE  q = r /\ x = c /\ ~HeldByOther(r, c)
    <3>1. chosen \in [RowRequests -> SUBSET Children]
      BY DEF RowTypeOK
    <3>2. chosen' # chosen
      BY <2>4
    <3> QED BY <2>1, <2>4, <3>1, <3>2
  <2> QED BY <2>1, <2>2, <2>3, <2>4 DEF LockShape, Live, HeldByOther
<1>11. ASSUME NEW r \in RowRequests, NEW cs \in SUBSET Children, DeleteChildren(r, cs)
      PROVE  LockShape'
  BY <1>11 DEF DeleteChildren, RowTypeOK, RequestShape, ShapeOf, LockShape, HeldByOther, Live, Goes, Answers, Begins, Refused, Deletes, Rows,
     table, keys, cascade, requestVars, tally, bounds
<1>12. ASSUME NEW r \in RowRequests, CascadeFails(r)
      PROVE  LockShape'
  BY <1>12 DEF CascadeFails, RowTypeOK, RequestShape, ShapeOf, LockShape, HeldByOther, Live, Goes, Answers, Begins, Refused, Deletes, Rows,
     table, keys, cascade, requestVars, tally, bounds
<1>13. ASSUME NEW r \in RowRequests, NEW c \in Children, NEW p \in Parents, StartRepoint(r, c, p)
      PROVE  LockShape'
  BY <1>13 DEF StartRepoint, RowTypeOK, RequestShape, ShapeOf, LockShape, HeldByOther, Live, Goes, Answers, Begins, Refused, Deletes, Rows,
     table, keys, cascade, requestVars, tally, bounds
<1>14. ASSUME NEW r \in RowRequests, LookRepoint(r)
      PROVE  LockShape'
  BY <1>14 DEF LookRepoint, RowTypeOK, RequestShape, ShapeOf, LockShape, HeldByOther, Live, Goes, Answers, Begins, Refused, Deletes, Rows,
     table, keys, cascade, requestVars, tally, bounds
<1>15. ASSUME NEW r \in RowRequests, Repoint(r)
      PROVE  LockShape'
  BY <1>15 DEF Repoint, RowTypeOK, RequestShape, ShapeOf, LockShape, HeldByOther, Live, Goes, Answers, Begins, Refused, Deletes, Rows,
     table, keys, cascade, requestVars, tally, bounds
<1>16. ASSUME NEW r \in RowRequests, NEW x \in Rows, RestoreRow(r, x)
      PROVE  LockShape'
  BY <1>16 DEF RestoreRow, RowTypeOK, RequestShape, ShapeOf, LockShape, HeldByOther, Live, Goes, Answers, Begins, Refused, Deletes, Rows,
     table, keys, cascade, requestVars, tally, bounds
<1>17. ASSUME NEW u \in Callers, NEW x \in Rows, Lock(u, x)
      PROVE  LockShape'
  BY <1>17 DEF Lock, RowTypeOK, RequestShape, ShapeOf, LockShape, HeldByOther, Live, Goes, Answers, Begins, Refused, Deletes, Rows,
     table, keys, cascade, requestVars, tally, bounds
<1>18. ASSUME NEW x \in Rows, Unlock(x)
      PROVE  LockShape'
  BY <1>18 DEF Unlock, RowTypeOK, RequestShape, ShapeOf, LockShape, HeldByOther, Live, Goes, Answers, Begins, Refused, Deletes, Rows,
     table, keys, cascade, requestVars, tally, bounds
<1>19. ASSUME NEW k \in Keys, DayPasses(k)
      PROVE  LockShape'
  BY <1>19 DEF DayPasses, RowTypeOK, RequestShape, ShapeOf, LockShape, HeldByOther, Live, Goes, Answers, Begins, Refused, Deletes, Rows,
     table, keys, cascade, requestVars, tally, bounds
<1>20. ASSUME ServerCrash
      PROVE  LockShape'
  BY <1>20 DEF ServerCrash, RowTypeOK, RequestShape, ShapeOf, LockShape, HeldByOther, Live, Goes, Answers, Begins, Refused, Deletes, Rows,
     table, keys, cascade, requestVars, tally, bounds
<1> QED BY <1>1, <1>2, <1>3, <1>4, <1>5, <1>6, <1>7, <1>8, <1>9, <1>10, <1>11, <1>12, <1>13, <1>14, <1>15, <1>16, <1>17, <1>18, <1>19, <1>20
    DEF RowNext, CreateStep, DeleteStep, CascadeStep, UpdateStep, RowEnvironment

\* No step leaves an orphan without a cause.
LEMMA OrphanStep ==
    ASSUME RowTypeOK, RequestShape, OrphanHasCause, RowNext PROVE OrphanHasCause'
<1>1. ASSUME NEW r \in RowRequests, NEW k \in Keys \cup {NoKey}, NEW c \in Children, NEW p \in Parents, Create(r, k, c, p)
      PROVE  OrphanHasCause'
  <2> SUFFICES ASSUME NEW o \in Children, Orphan(o)'
               PROVE  excuse'[o] # "none" \/ \E q \in RowRequests : (o \in Pending(q))'
    BY DEF OrphanHasCause
  <2>1. /\ rowStatus' = [rowStatus EXCEPT ![c] = "live"] /\ parentOf' = [parentOf EXCEPT ![c] = p]
        /\ rowStatus[c] = "absent" /\ c \in Rows /\ parentOf[o] \in Parents /\ o \in Rows
        /\ UNCHANGED <<step, queue, cause, candidates, chosen>>
        /\ excuse' = Excused({c}, IF Live(p) THEN "none" ELSE "late")
    BY <1>1 DEF Create, RowTypeOK, requestVars, cascade, Rows
  <2>2. CASE o = c
    <3>1. ~Live(p)
      BY <2>1, <2>2, RowAssumption DEF Orphan, Live, RowTypeOK, Rows
    <3> QED BY <2>1, <2>2, <3>1 DEF Excused
  <2>3. CASE o # c
    <3>1. parentOf'[o] = parentOf[o] /\ excuse'[o] = excuse[o] /\ rowStatus'[o] = rowStatus[o]
      BY <2>1, <2>3 DEF Excused, RowTypeOK
    <3>2. Orphan(o)
      BY <2>1, <3>1, RowAssumption DEF Orphan, Live, RowTypeOK, Rows
    <3>3. ASSUME NEW q \in RowRequests, o \in Pending(q) PROVE (o \in Pending(q))'
      BY <2>1, <3>1, <3>3 DEF Pending, Live
    <3> QED BY <3>1, <3>2, <3>3 DEF OrphanHasCause
  <2> QED BY <2>2, <2>3
<1>2. ASSUME NEW r \in RowRequests, NEW k \in Keys, NEW p \in Parents, Replay(r, k, p)
      PROVE  OrphanHasCause'
  BY <1>2 DEF Replay, RowTypeOK, RequestShape, ShapeOf, OrphanHasCause, Orphan, Pending, Live, ChildrenOf, Goes, Answers, Begins, Deletes, Excused, Rows,
     table, keys, cascade, requestVars, tally, bounds
<1>3. ASSUME NEW r \in RowRequests, NEW xs \in Named, NEW s \in RowSteps, StartDelete(r, xs, s)
      PROVE  OrphanHasCause'
  BY <1>3 DEF StartDelete, RowTypeOK, RequestShape, ShapeOf, OrphanHasCause, Orphan, Pending, Live, ChildrenOf, Goes, Answers, Begins, Deletes, Excused, Rows,
     table, keys, cascade, requestVars, tally, bounds
<1>4. ASSUME NEW r \in RowRequests, LookLocks(r)
      PROVE  OrphanHasCause'
  BY <1>4 DEF LookLocks, RowTypeOK, RequestShape, ShapeOf, OrphanHasCause, Orphan, Pending, Live, ChildrenOf, Goes, Answers, Begins, Deletes, Excused, Rows,
     table, keys, cascade, requestVars, tally, bounds
<1>5. ASSUME NEW r \in RowRequests, DeleteRows(r)
      PROVE  OrphanHasCause'
  <2> SUFFICES ASSUME NEW o \in Children, Orphan(o)'
               PROVE  excuse'[o] # "none" \/ \E q \in RowRequests : (o \in Pending(q))'
    BY DEF OrphanHasCause
  <2>1. step[r] = "delete" /\ parentOf' = parentOf /\ Live(o) /\ parentOf[o] \in Parents
    BY <1>5 DEF DeleteRows, Orphan, Live, Deletes, RowTypeOK, Rows
  <2>2. CASE parentOf[o] \in asked[r] /\ Live(parentOf[o])
    <3>1. parentOf[o] \in queue'[r] /\ step'[r] = "cascade"
      BY <1>5, <2>1, <2>2 DEF DeleteRows, Goes, RowTypeOK
    <3> QED BY <2>1, <3>1 DEF Pending, Orphan, Live
  <2>3. CASE ~(parentOf[o] \in asked[r] /\ Live(parentOf[o]))
    <3>1. Orphan(o) /\ excuse'[o] = excuse[o]
      BY <1>5, <2>1, <2>3 DEF DeleteRows, Orphan, Deletes, Live, Excused, Rows
    <3>2. ASSUME NEW q \in RowRequests, o \in Pending(q)
          PROVE  (o \in Pending(q))'
      <4>1. q # r
        BY <2>1, <3>2 DEF Pending
      <4>2. step'[q] = step[q] /\ queue'[q] = queue[q] /\ UNCHANGED <<candidates, chosen, cause>>
        BY <1>5, <4>1 DEF DeleteRows, Goes, RowTypeOK
      <4> QED BY <2>1, <3>2, <4>2 DEF Pending, Orphan, Live
    <3> QED BY <3>1, <3>2 DEF OrphanHasCause
  <2> QED BY <2>2, <2>3
<1>6. ASSUME NEW r \in RowRequests, DeleteInTransaction(r)
      PROVE  OrphanHasCause'
  <2> SUFFICES ASSUME NEW o \in Children, Orphan(o)'
               PROVE  excuse'[o] # "none" \/ \E q \in RowRequests : (o \in Pending(q))'
    BY DEF OrphanHasCause
  <2>1. /\ step[r] = "transaction" /\ parentOf[o] \in Parents
        /\ UNCHANGED <<parentOf, queue, candidates, chosen, cause>>
    BY <1>6 DEF DeleteInTransaction, cascade, RowTypeOK
  <2>2. Live(o)
    BY <1>6 DEF DeleteInTransaction, Deletes, Orphan, Live, Rows
  <2>3. ASSUME NEW q \in RowRequests, o \in Pending(q) PROVE (o \in Pending(q))'
    <3>1. q # r
      BY <2>1, <2>3 DEF Pending
    <3>2. step'[q] = step[q]
      BY <1>6, <3>1 DEF DeleteInTransaction, Goes, Answers, RowTypeOK
    <3> QED BY <2>1, <2>3, <3>2 DEF Pending, Orphan, Live
  <2>4. CASE \A x \in asked[r] : Live(x)
    <3>1. CASE parentOf[o] \in asked[r]
      BY <1>6, <2>4, <3>1 DEF DeleteInTransaction, Excused
    <3>2. CASE parentOf[o] \notin asked[r]
      <4>1. Orphan(o) /\ excuse'[o] = excuse[o]
        BY <1>6, <2>1, <2>2, <2>4, <3>2 DEF DeleteInTransaction, Orphan, Deletes, Live, Excused, Rows
      <4> QED BY <2>3, <4>1 DEF OrphanHasCause
    <3> QED BY <3>1, <3>2
  <2>5. CASE ~ \A x \in asked[r] : Live(x)
    <3>1. Orphan(o) /\ excuse'[o] = excuse[o]
      BY <1>6, <2>1, <2>5 DEF DeleteInTransaction, Orphan, Live
    <3> QED BY <2>3, <3>1 DEF OrphanHasCause
  <2> QED BY <2>4, <2>5
<1>7. ASSUME NEW r \in RowRequests, NEW x \in Rows, FireEffects(r, x)
      PROVE  OrphanHasCause'
  BY <1>7 DEF FireEffects, RowTypeOK, RequestShape, ShapeOf, OrphanHasCause, Orphan, Pending, Live, ChildrenOf, Goes, Answers, Begins, Deletes, Excused, Rows,
     table, keys, cascade, requestVars, tally, bounds
<1>8. ASSUME NEW r \in RowRequests, EndDelete(r)
      PROVE  OrphanHasCause'
  BY <1>8 DEF EndDelete, RowTypeOK, RequestShape, ShapeOf, OrphanHasCause, Orphan, Pending, Live, ChildrenOf, Goes, Answers, Begins, Deletes, Excused, Rows,
     table, keys, cascade, requestVars, tally, bounds
<1>9. ASSUME NEW r \in RowRequests, NEW p \in Parents, ReadChildren(r, p)
      PROVE  OrphanHasCause'
  <2> SUFFICES ASSUME NEW o \in Children, Orphan(o)'
               PROVE  excuse'[o] # "none" \/ \E q \in RowRequests : (o \in Pending(q))'
    BY DEF OrphanHasCause
  <2>1. Orphan(o) /\ excuse' = excuse /\ UNCHANGED <<rowStatus, parentOf>>
    BY <1>9 DEF ReadChildren, Orphan, Live, table
  <2>2. ASSUME NEW q \in RowRequests, q # r, o \in Pending(q) PROVE (o \in Pending(q))'
    BY <1>9, <2>1, <2>2 DEF ReadChildren, Pending, Live, Goes, RowTypeOK
  <2>3. ASSUME o \in Pending(r) PROVE (o \in Pending(r))'
    <3>1. step[r] = "cascade" /\ parentOf[o] \in queue[r] /\ Live(o)
      BY <1>9, <2>3 DEF ReadChildren, Cascading, Pending
    <3>2. step'[r] = "look child"
      BY <1>9 DEF ReadChildren, Goes, RowTypeOK
    <3>3. CASE parentOf[o] = p
      <4>1. o \in candidates'[r] /\ cause'[r] = p
        BY <1>9, <3>1, <3>3 DEF ReadChildren, ChildrenOf, RowTypeOK
      <4> QED BY <2>1, <3>2, <3>3, <4>1 DEF Pending
    <3>4. CASE parentOf[o] # p
      <4>1. parentOf[o] \in queue'[r]
        BY <1>9, <3>1, <3>4 DEF ReadChildren, RowTypeOK
      <4> QED BY <2>1, <3>1, <3>2, <4>1 DEF Pending, Live
    <3> QED BY <3>3, <3>4
  <2> QED BY <2>1, <2>2, <2>3 DEF OrphanHasCause
<1>10. ASSUME NEW r \in RowRequests, NEW c \in Children, LookChild(r, c)
      PROVE  OrphanHasCause'
  <2> SUFFICES ASSUME NEW o \in Children, Orphan(o)'
               PROVE  excuse'[o] # "none" \/ \E q \in RowRequests : (o \in Pending(q))'
    BY DEF OrphanHasCause
  <2>1. /\ Orphan(o) /\ UNCHANGED <<rowStatus, parentOf, step, queue, cause>>
        /\ step[r] = "look child"
    BY <1>10 DEF LookChild, Orphan, Live, table
  <2>2. excuse[o] # "none" => excuse'[o] # "none"
    <3>1. excuse' = excuse \/ excuse' = Excused({c} \cap ChildrenOf(cause[r]), "locked")
      BY <1>10 DEF LookChild
    <3> QED BY <3>1 DEF Excused
  <2>3. ASSUME NEW q \in RowRequests, q # r \/ o # c, o \in Pending(q) PROVE (o \in Pending(q))'
    <3>1. o \in candidates[q] => o \in candidates'[q]
      BY <1>10, <2>3 DEF LookChild, RowTypeOK
    <3>2. o \in chosen[q] => o \in chosen'[q]
      <4>1. chosen' = chosen \/ chosen' = [chosen EXCEPT ![r] = @ \cup {c}]
        BY <1>10 DEF LookChild
      <4> QED BY <4>1 DEF RowTypeOK
    <3> QED BY <2>1, <2>3, <3>1, <3>2 DEF Pending, Live
  <2>4. ASSUME o = c, o \in Pending(r) PROVE excuse'[o] # "none" \/ (o \in Pending(r))'
    <3>1. CASE parentOf[o] \in queue[r]
      BY <2>1, <3>1 DEF Pending, Orphan, Live
    <3>2. CASE parentOf[o] = cause[r] /\ HeldByOther(r, c)
      <4>1. o \in {c} \cap ChildrenOf(cause[r])
        BY <2>1, <2>4, <3>2 DEF ChildrenOf, Orphan
      <4> QED BY <1>10, <3>2, <4>1 DEF LookChild, Excused
    <3>3. CASE parentOf[o] = cause[r] /\ ~HeldByOther(r, c)
      <4>1. chosen' = [chosen EXCEPT ![r] = @ \cup {c}]
        BY <1>10, <3>3 DEF LookChild
      <4>2. c \in chosen'[r]
        BY <4>1 DEF RowTypeOK
      <4> QED BY <2>1, <2>4, <3>3, <4>2 DEF Pending
    <3> QED BY <2>4, <3>1, <3>2, <3>3 DEF Pending
  <2> QED BY <2>1, <2>2, <2>3, <2>4 DEF OrphanHasCause
<1>11. ASSUME NEW r \in RowRequests, NEW cs \in SUBSET Children, DeleteChildren(r, cs)
      PROVE  OrphanHasCause'
  <2> SUFFICES ASSUME NEW o \in Children, Orphan(o)'
               PROVE  excuse'[o] # "none" \/ \E q \in RowRequests : (o \in Pending(q))'
    BY DEF OrphanHasCause
  <2>1. /\ parentOf' = parentOf /\ Live(o) /\ o \notin chosen[r] \ cs
        /\ step[r] = "look child" /\ candidates[r] = {} /\ cause[r] \in Parents
        /\ UNCHANGED <<queue, cause, candidates>>
    BY <1>11 DEF DeleteChildren, Orphan, Live, Deletes, RowTypeOK, RequestShape, ShapeOf, Rows
  <2>2. Orphan(o)
    <3>1. parentOf[o] \in Parents /\ chosen[r] \subseteq Children
      BY DEF RowTypeOK
    <3>2. parentOf[o] \notin chosen[r]
      BY <3>1, RowAssumption
    <3> QED BY <1>11, <2>1, <3>1, <3>2 DEF DeleteChildren, Orphan, Deletes, Live, Rows
  <2>3. excuse[o] # "none" => excuse'[o] # "none"
    BY <1>11 DEF DeleteChildren, Excused
  <2>4. ASSUME NEW q \in RowRequests, q # r, o \in Pending(q) PROVE (o \in Pending(q))'
    <3>1. step'[q] = step[q] /\ chosen'[q] = chosen[q]
      BY <1>11, <2>4 DEF DeleteChildren, Goes, RowTypeOK
    <3> QED BY <2>1, <2>4, <3>1 DEF Pending, Orphan, Live
  <2>5. ASSUME o \in Pending(r) PROVE excuse'[o] # "none" \/ (o \in Pending(r))'
    <3>1. CASE parentOf[o] \in queue[r]
      <4>1. step'[r] = "cascade"
        BY <1>11 DEF DeleteChildren, Goes, RowTypeOK
      <4> QED BY <2>1, <3>1, <4>1 DEF Pending, Orphan, Live
    <3>2. CASE o \in chosen[r] /\ parentOf[o] = cause[r]
      <4>1. o \in cs \cap ChildrenOf(cause[r])
        BY <2>1, <3>2 DEF ChildrenOf
      <4> QED BY <1>11, <4>1 DEF DeleteChildren, Excused
    <3> QED BY <2>1, <2>5, <3>1, <3>2 DEF Pending
  <2> QED BY <2>2, <2>3, <2>4, <2>5 DEF OrphanHasCause
<1>12. ASSUME NEW r \in RowRequests, CascadeFails(r)
      PROVE  OrphanHasCause'
  <2> SUFFICES ASSUME NEW o \in Children, Orphan(o)'
               PROVE  excuse'[o] # "none" \/ \E q \in RowRequests : (o \in Pending(q))'
    BY DEF OrphanHasCause
  <2>1. /\ Orphan(o) /\ step[r] = "look child" /\ candidates[r] = {}
        /\ UNCHANGED <<rowStatus, parentOf, queue, cause, candidates>>
    BY <1>12 DEF CascadeFails, Orphan, Live, table
  <2>2. excuse[o] # "none" => excuse'[o] # "none"
    BY <1>12 DEF CascadeFails, Excused
  <2>3. ASSUME NEW q \in RowRequests, q # r, o \in Pending(q) PROVE (o \in Pending(q))'
    <3>1. step'[q] = step[q] /\ chosen'[q] = chosen[q]
      BY <1>12, <2>3 DEF CascadeFails, Goes, RowTypeOK
    <3> QED BY <2>1, <2>3, <3>1 DEF Pending, Live
  <2>4. ASSUME o \in Pending(r) PROVE excuse'[o] # "none" \/ (o \in Pending(r))'
    <3>1. CASE parentOf[o] \in queue[r]
      <4>1. step'[r] = "cascade"
        BY <1>12 DEF CascadeFails, Goes, RowTypeOK
      <4> QED BY <2>1, <3>1, <4>1 DEF Pending, Orphan, Live
    <3>2. CASE o \in chosen[r] /\ parentOf[o] = cause[r]
      <4>1. o \in chosen[r] \cap ChildrenOf(cause[r])
        BY <2>1, <3>2 DEF ChildrenOf, Orphan
      <4> QED BY <1>12, <4>1 DEF CascadeFails, Excused
    <3> QED BY <2>1, <2>4, <3>1, <3>2 DEF Pending
  <2> QED BY <2>1, <2>2, <2>3, <2>4 DEF OrphanHasCause
<1>13. ASSUME NEW r \in RowRequests, NEW c \in Children, NEW p \in Parents, StartRepoint(r, c, p)
      PROVE  OrphanHasCause'
  BY <1>13 DEF StartRepoint, RowTypeOK, RequestShape, ShapeOf, OrphanHasCause, Orphan, Pending, Live, ChildrenOf, Goes, Answers, Begins, Deletes, Excused, Rows,
     table, keys, cascade, requestVars, tally, bounds
<1>14. ASSUME NEW r \in RowRequests, LookRepoint(r)
      PROVE  OrphanHasCause'
  BY <1>14 DEF LookRepoint, RowTypeOK, RequestShape, ShapeOf, OrphanHasCause, Orphan, Pending, Live, ChildrenOf, Goes, Answers, Begins, Deletes, Excused, Rows,
     table, keys, cascade, requestVars, tally, bounds
<1>15. ASSUME NEW r \in RowRequests, Repoint(r)
      PROVE  OrphanHasCause'
  <2> SUFFICES ASSUME NEW o \in Children, Orphan(o)'
               PROVE  excuse'[o] # "none" \/ \E q \in RowRequests : (o \in Pending(q))'
    BY DEF OrphanHasCause
  <2>1. step[r] = "repoint" /\ UNCHANGED <<rowStatus, queue, cause, candidates, chosen>>
    BY <1>15 DEF Repoint, cascade
  <2>2. CASE o \in asked[r] /\ parentOf[o] # target[r]
    <3>1. Live(o) /\ parentOf'[o] = target[r]
      BY <1>15, <2>1, <2>2 DEF Repoint, Orphan, Live, RowTypeOK
    <3>2. ~Live(target[r])
      BY <2>1, <3>1 DEF Orphan, Live
    <3> QED BY <1>15, <2>2, <3>1, <3>2 DEF Repoint, Excused
  <2>3. CASE ~(o \in asked[r] /\ parentOf[o] # target[r])
    <3>1. parentOf'[o] = parentOf[o] /\ excuse'[o] = excuse[o]
      BY <1>15, <2>3 DEF Repoint, Excused
    <3>2. ASSUME NEW q \in RowRequests, o \in Pending(q) PROVE (o \in Pending(q))'
      <4>1. q # r
        BY <2>1, <3>2 DEF Pending
      <4>2. step'[q] = step[q]
        BY <1>15, <4>1 DEF Repoint, Goes, Answers, RowTypeOK
      <4> QED BY <2>1, <3>1, <3>2, <4>2 DEF Pending, Live
    <3>3. Orphan(o)
      BY <2>1, <3>1 DEF Orphan, Live
    <3> QED BY <3>1, <3>2, <3>3 DEF OrphanHasCause
  <2> QED BY <2>2, <2>3
<1>16. ASSUME NEW r \in RowRequests, NEW x \in Rows, RestoreRow(r, x)
      PROVE  OrphanHasCause'
  BY <1>16 DEF RestoreRow, RowTypeOK, RequestShape, ShapeOf, OrphanHasCause, Orphan, Pending, Live, ChildrenOf, Goes, Answers, Begins, Deletes, Excused, Rows,
     table, keys, cascade, requestVars, tally, bounds
<1>17. ASSUME NEW u \in Callers, NEW x \in Rows, Lock(u, x)
      PROVE  OrphanHasCause'
  BY <1>17 DEF Lock, RowTypeOK, RequestShape, ShapeOf, OrphanHasCause, Orphan, Pending, Live, ChildrenOf, Goes, Answers, Begins, Deletes, Excused, Rows,
     table, keys, cascade, requestVars, tally, bounds
<1>18. ASSUME NEW x \in Rows, Unlock(x)
      PROVE  OrphanHasCause'
  BY <1>18 DEF Unlock, RowTypeOK, RequestShape, ShapeOf, OrphanHasCause, Orphan, Pending, Live, ChildrenOf, Goes, Answers, Begins, Deletes, Excused, Rows,
     table, keys, cascade, requestVars, tally, bounds
<1>19. ASSUME NEW k \in Keys, DayPasses(k)
      PROVE  OrphanHasCause'
  BY <1>19 DEF DayPasses, RowTypeOK, RequestShape, ShapeOf, OrphanHasCause, Orphan, Pending, Live, ChildrenOf, Goes, Answers, Begins, Deletes, Excused, Rows,
     table, keys, cascade, requestVars, tally, bounds
<1>20. ASSUME ServerCrash
      PROVE  OrphanHasCause'
  <2> SUFFICES ASSUME NEW o \in Children, Orphan(o)'
               PROVE  excuse'[o] # "none" \/ \E q \in RowRequests : (o \in Pending(q))'
    BY DEF OrphanHasCause
  <2>1. Orphan(o)
    BY <1>20 DEF ServerCrash, Orphan, Live, table
  <2>2. ASSUME NEW q \in RowRequests, o \in Pending(q) PROVE excuse'[o] = "crash"
    <3>1. o \in UNION {Pending(r) : r \in RowRequests}
      BY <2>2
    <3> QED BY <1>20, <3>1 DEF ServerCrash, Excused
  <2>3. excuse[o] # "none" => excuse'[o] # "none"
    BY <1>20 DEF ServerCrash, Excused
  <2> QED BY <2>1, <2>2, <2>3 DEF OrphanHasCause
<1> QED BY <1>1, <1>2, <1>3, <1>4, <1>5, <1>6, <1>7, <1>8, <1>9, <1>10, <1>11, <1>12, <1>13, <1>14, <1>15, <1>16, <1>17, <1>18, <1>19, <1>20
    DEF RowNext, CreateStep, DeleteStep, CascadeStep, UpdateStep, RowEnvironment

\* The requests that have yet to fire the effects of a row are counted anew
\* when what one of them owes changes.
LEMMA DueCount ==
    ASSUME RowTypeOK, NEW r \in RowRequests, NEW D \in SUBSET Rows, NEW x \in Rows,
           due' = [due EXCEPT ![r] = D]
    PROVE  LET n == Cardinality({q \in RowRequests : x \in due[q]})
               m == Cardinality({q \in RowRequests : x \in due'[q]})
           IN  /\ n \in Nat /\ m \in Nat
               /\ x \in D /\ x \notin due[r] => m = n + 1
               /\ x \notin D /\ x \in due[r] => n = m + 1
               /\ (x \in D <=> x \in due[r]) => m = n
<1> DEFINE N == {q \in RowRequests : x \in due[q]}
           M == {q \in RowRequests : x \in due'[q]}
<1>1. due'[r] = D /\ \A q \in RowRequests : q # r => due'[q] = due[q]
  BY DEF RowTypeOK
<1>2. IsFiniteSet(N) /\ IsFiniteSet(M)
  BY RowAssumption, FS_Subset
<1>3. Cardinality(N) \in Nat /\ Cardinality(M) \in Nat
  BY <1>2, FS_CardinalityType
<1>4. ASSUME x \in D, x \notin due[r] PROVE Cardinality(M) = Cardinality(N) + 1
  <2>1. M = N \cup {r} /\ r \notin N
    BY <1>1, <1>4
  <2> QED BY <1>2, <2>1, FS_AddElement
<1>5. ASSUME x \notin D, x \in due[r] PROVE Cardinality(N) = Cardinality(M) + 1
  <2>1. N = M \cup {r} /\ r \notin M
    BY <1>1, <1>5
  <2> QED BY <1>2, <2>1, FS_AddElement
<1>6. ASSUME x \in D <=> x \in due[r] PROVE M = N
  BY <1>1, <1>6
<1> QED BY <1>3, <1>4, <1>5, <1>6

\* A deletion adds as much to the audit rows as to the effects yet to fire.
LEMMA DeletesLedger ==
    ASSUME RowTypeOK, OneAuditPerDeletion, NEW r \in RowRequests, NEW xs \in SUBSET Rows,
           Deletes(xs), due' = [due EXCEPT ![r] = @ \cup {x \in xs : Live(x)}],
           xs \cap due[r] = {}, UNCHANGED <<fired, lost>>
    PROVE  OneAuditPerDeletion'
<1> SUFFICES ASSUME NEW x \in Rows
             PROVE  /\ audited'[x] = deaths'[x]
                    /\ deaths'[x] = fired'[x] + lost'[x]
                                    + Cardinality({q \in RowRequests : x \in due'[q]})
  BY DEF OneAuditPerDeletion
<1> DEFINE D == due[r] \cup {y \in xs : Live(y)}
           n == Cardinality({q \in RowRequests : x \in due[q]})
           m == Cardinality({q \in RowRequests : x \in due'[q]})
<1>1. D \in SUBSET Rows /\ due' = [due EXCEPT ![r] = D]
  BY DEF RowTypeOK
<1>2. /\ n \in Nat /\ m \in Nat
      /\ x \in D /\ x \notin due[r] => m = n + 1
      /\ (x \in D <=> x \in due[r]) => m = n
  <2> HIDE DEF D
  <2> QED BY <1>1, DueCount
<1>3. /\ audited[x] = deaths[x] /\ deaths[x] = fired[x] + lost[x] + n
      /\ fired[x] \in Nat /\ lost[x] \in Nat
  BY DEF OneAuditPerDeletion, RowTypeOK
<1>4. CASE x \in xs /\ Live(x)
  <2>1. audited'[x] = audited[x] + 1 /\ deaths'[x] = deaths[x] + 1
    BY <1>4 DEF Deletes
  <2>2. m = n + 1
    BY <1>2, <1>4
  <2> HIDE DEF n, m
  <2>3. deaths[x] + 1 = fired[x] + lost[x] + m
    BY <1>2, <1>3, <2>2
  <2> QED BY <1>3, <2>1, <2>3 DEF m
<1>5. CASE ~(x \in xs /\ Live(x))
  <2>1. audited'[x] = audited[x] /\ deaths'[x] = deaths[x]
    BY <1>5 DEF Deletes, Live
  <2>2. m = n
    BY <1>2, <1>5
  <2> QED BY <1>3, <2>1, <2>2
<1> QED BY <1>4, <1>5

\* No step deletes a row without its audit row and its effects.
LEMMA LedgerStep ==
    ASSUME RowTypeOK, RequestShape, OneAuditPerDeletion, RowNext PROVE OneAuditPerDeletion'
<1>1. ASSUME NEW r \in RowRequests, NEW k \in Keys \cup {NoKey}, NEW c \in Children, NEW p \in Parents, Create(r, k, c, p)
      PROVE  OneAuditPerDeletion'
  BY <1>1 DEF Create, OneAuditPerDeletion, requestVars, tally
<1>2. ASSUME NEW r \in RowRequests, NEW k \in Keys, NEW p \in Parents, Replay(r, k, p)
      PROVE  OneAuditPerDeletion'
  BY <1>2 DEF Replay, OneAuditPerDeletion, requestVars, tally
<1>3. ASSUME NEW r \in RowRequests, NEW xs \in Named, NEW s \in RowSteps, StartDelete(r, xs, s)
      PROVE  OneAuditPerDeletion'
  BY <1>3 DEF StartDelete, OneAuditPerDeletion, requestVars, tally
<1>4. ASSUME NEW r \in RowRequests, LookLocks(r)
      PROVE  OneAuditPerDeletion'
  BY <1>4 DEF LookLocks, OneAuditPerDeletion, requestVars, tally
<1>5. ASSUME NEW r \in RowRequests, DeleteRows(r)
      PROVE  OneAuditPerDeletion'
  <2>1. due[r] = {} /\ asked[r] \in SUBSET Rows
    BY <1>5 DEF DeleteRows, RequestShape, ShapeOf, RowTypeOK
  <2>2. due' = [due EXCEPT ![r] = @ \cup {x \in asked[r] : Live(x)}]
    BY <1>5, <2>1 DEF DeleteRows
  <2>3. Deletes(asked[r]) /\ UNCHANGED <<fired, lost>>
    BY <1>5 DEF DeleteRows
  <2> QED BY <2>1, <2>2, <2>3, DeletesLedger
<1>6. ASSUME NEW r \in RowRequests, DeleteInTransaction(r)
      PROVE  OneAuditPerDeletion'
  <2>1. due[r] = {} /\ asked[r] \in SUBSET Rows
    BY <1>6 DEF DeleteInTransaction, RequestShape, ShapeOf, RowTypeOK
  <2>2. CASE \A x \in asked[r] : Live(x)
    <3>1. due' = [due EXCEPT ![r] = @ \cup {x \in asked[r] : Live(x)}]
      BY <1>6, <2>1, <2>2 DEF DeleteInTransaction
    <3>2. Deletes(asked[r]) /\ UNCHANGED <<fired, lost>>
      BY <1>6, <2>2 DEF DeleteInTransaction
    <3> QED BY <2>1, <3>1, <3>2, DeletesLedger
  <2>3. CASE ~ \A x \in asked[r] : Live(x)
    BY <1>6, <2>3 DEF DeleteInTransaction, OneAuditPerDeletion
  <2> QED BY <2>2, <2>3
<1>7. ASSUME NEW r \in RowRequests, NEW x \in Rows, FireEffects(r, x)
      PROVE  OneAuditPerDeletion'
  <2>1. /\ x \in due[r] /\ due' = [due EXCEPT ![r] = @ \ {x}]
        /\ fired' = [fired EXCEPT ![x] = @ + 1] /\ UNCHANGED <<deaths, audited, lost>>
    BY <1>7 DEF FireEffects
  <2> SUFFICES ASSUME NEW y \in Rows
               PROVE  /\ audited'[y] = deaths'[y]
                      /\ deaths'[y] = fired'[y] + lost'[y]
                                      + Cardinality({q \in RowRequests : y \in due'[q]})
    BY DEF OneAuditPerDeletion
  <2> DEFINE D == due[r] \ {x}
             n == Cardinality({q \in RowRequests : y \in due[q]})
             m == Cardinality({q \in RowRequests : y \in due'[q]})
  <2>2. D \in SUBSET Rows /\ due' = [due EXCEPT ![r] = D]
    BY <2>1 DEF RowTypeOK
  <2>3. /\ n \in Nat /\ m \in Nat
        /\ y \notin D /\ y \in due[r] => n = m + 1
        /\ (y \in D <=> y \in due[r]) => m = n
    <3> HIDE DEF D
    <3> QED BY <2>2, DueCount
  <2>4. /\ audited[y] = deaths[y] /\ deaths[y] = fired[y] + lost[y] + n
        /\ fired[y] \in Nat /\ lost[y] \in Nat /\ fired \in [Rows -> Nat]
    BY DEF OneAuditPerDeletion, RowTypeOK
  <2>5. CASE y = x
    <3>1. n = m + 1 /\ fired'[y] = fired[y] + 1
      BY <2>1, <2>3, <2>4, <2>5
    <3> HIDE DEF n, m
    <3>2. deaths[y] = fired[y] + 1 + lost[y] + m
      BY <2>3, <2>4, <3>1
    <3> QED BY <2>1, <2>4, <3>1, <3>2 DEF m
  <2>6. CASE y # x
    <3>1. m = n /\ fired'[y] = fired[y]
      BY <2>1, <2>3, <2>4, <2>6
    <3> QED BY <2>1, <2>4, <3>1
  <2> QED BY <2>5, <2>6
<1>8. ASSUME NEW r \in RowRequests, EndDelete(r)
      PROVE  OneAuditPerDeletion'
  BY <1>8 DEF EndDelete, OneAuditPerDeletion, requestVars, tally
<1>9. ASSUME NEW r \in RowRequests, NEW p \in Parents, ReadChildren(r, p)
      PROVE  OneAuditPerDeletion'
  BY <1>9 DEF ReadChildren, OneAuditPerDeletion, requestVars, tally
<1>10. ASSUME NEW r \in RowRequests, NEW c \in Children, LookChild(r, c)
      PROVE  OneAuditPerDeletion'
  BY <1>10 DEF LookChild, OneAuditPerDeletion, requestVars, tally
<1>11. ASSUME NEW r \in RowRequests, NEW cs \in SUBSET Children, DeleteChildren(r, cs)
      PROVE  OneAuditPerDeletion'
  <2>1. (chosen[r] \ cs) \in SUBSET Rows /\ (chosen[r] \ cs) \cap due[r] = {}
    <3>1. step[r] = "look child" /\ chosen[r] \subseteq Children
      BY <1>11 DEF DeleteChildren, RowTypeOK
    <3>2. due[r] \subseteq Parents
      BY <3>1 DEF RequestShape, ShapeOf
    <3> QED BY <3>1, <3>2, RowAssumption DEF Rows
  <2>2. /\ Deletes(chosen[r] \ cs) /\ UNCHANGED <<fired, lost>>
        /\ due' = [due EXCEPT ![r] = @ \cup {x \in chosen[r] \ cs : Live(x)}]
    BY <1>11 DEF DeleteChildren
  <2> QED BY <2>1, <2>2, DeletesLedger
<1>12. ASSUME NEW r \in RowRequests, CascadeFails(r)
      PROVE  OneAuditPerDeletion'
  BY <1>12 DEF CascadeFails, OneAuditPerDeletion, requestVars, tally
<1>13. ASSUME NEW r \in RowRequests, NEW c \in Children, NEW p \in Parents, StartRepoint(r, c, p)
      PROVE  OneAuditPerDeletion'
  BY <1>13 DEF StartRepoint, OneAuditPerDeletion, requestVars, tally
<1>14. ASSUME NEW r \in RowRequests, LookRepoint(r)
      PROVE  OneAuditPerDeletion'
  BY <1>14 DEF LookRepoint, OneAuditPerDeletion, requestVars, tally
<1>15. ASSUME NEW r \in RowRequests, Repoint(r)
      PROVE  OneAuditPerDeletion'
  BY <1>15 DEF Repoint, OneAuditPerDeletion, requestVars, tally
<1>16. ASSUME NEW r \in RowRequests, NEW x \in Rows, RestoreRow(r, x)
      PROVE  OneAuditPerDeletion'
  BY <1>16 DEF RestoreRow, OneAuditPerDeletion, requestVars, tally
<1>17. ASSUME NEW u \in Callers, NEW x \in Rows, Lock(u, x)
      PROVE  OneAuditPerDeletion'
  BY <1>17 DEF Lock, OneAuditPerDeletion, requestVars, tally
<1>18. ASSUME NEW x \in Rows, Unlock(x)
      PROVE  OneAuditPerDeletion'
  BY <1>18 DEF Unlock, OneAuditPerDeletion, requestVars, tally
<1>19. ASSUME NEW k \in Keys, DayPasses(k)
      PROVE  OneAuditPerDeletion'
  BY <1>19 DEF DayPasses, OneAuditPerDeletion, requestVars, tally
<1>20. ASSUME ServerCrash
      PROVE  OneAuditPerDeletion'
  <2> SUFFICES ASSUME NEW y \in Rows
               PROVE  /\ audited'[y] = deaths'[y]
                      /\ deaths'[y] = fired'[y] + lost'[y]
                                      + Cardinality({q \in RowRequests : y \in due'[q]})
    BY DEF OneAuditPerDeletion
  <2> DEFINE n == Cardinality({q \in RowRequests : y \in due[q]})
  <2>1. {q \in RowRequests : y \in due'[q]} = {}
    BY <1>20 DEF ServerCrash
  <2>2. Cardinality({q \in RowRequests : y \in due'[q]}) = 0
    BY <2>1, FS_EmptySet
  <2>3. lost'[y] = lost[y] + n /\ UNCHANGED <<deaths, audited, fired>>
    BY <1>20 DEF ServerCrash
  <2>4. /\ audited[y] = deaths[y] /\ deaths[y] = fired[y] + lost[y] + n
        /\ fired[y] \in Nat /\ lost[y] \in Nat
    BY DEF OneAuditPerDeletion, RowTypeOK
  <2>5. n \in Nat
    <3>1. IsFiniteSet({q \in RowRequests : y \in due[q]})
      BY RowAssumption, FS_Subset
    <3> QED BY <3>1, FS_CardinalityType
  <2> HIDE DEF n
  <2>6. deaths[y] = fired[y] + (lost[y] + n) + 0
    BY <2>4, <2>5
  <2> QED BY <2>2, <2>3, <2>4, <2>6
<1> QED BY <1>1, <1>2, <1>3, <1>4, <1>5, <1>6, <1>7, <1>8, <1>9, <1>10, <1>11, <1>12, <1>13, <1>14, <1>15, <1>16, <1>17, <1>18, <1>19, <1>20
    DEF RowNext, CreateStep, DeleteStep, CascadeStep, UpdateStep, RowEnvironment

\* The initial states satisfy the invariant.
LEMMA RowInitially ==
    ASSUME RowInit PROVE RowInv
<1>1. RowTypeOK
  BY RowAssumption DEF RowInit, RowTypeOK, RowSteps, Excuses, Rows
<1>2. RequestShape
  BY DEF RowInit, RequestShape, ShapeOf
<1>3. KeyShape /\ OneRowPerKey
  BY DEF RowInit, KeyShape, OneRowPerKey
<1>4. LockShape
  BY DEF RowInit, LockShape, HeldByOther
<1>5. OrphanHasCause
  BY RowAssumption DEF RowInit, OrphanHasCause, Orphan, Live, Rows
<1>6. OneAuditPerDeletion
  <2>1. \A x \in Rows : {r \in RowRequests : x \in due[r]} = {}
    BY DEF RowInit
  <2>2. \A x \in Rows : Cardinality({r \in RowRequests : x \in due[r]}) = 0
    BY <2>1, FS_EmptySet
  <2>3. \A x \in Rows : deaths[x] = 0 /\ audited[x] = 0 /\ fired[x] = 0 /\ lost[x] = 0
    BY DEF RowInit
  <2> QED BY <2>2, <2>3 DEF OneAuditPerDeletion
<1> QED BY <1>1, <1>2, <1>3, <1>4, <1>5, <1>6 DEF RowInv

\* A step that changes nothing keeps the invariant.
LEMMA RowStutter ==
    ASSUME RowInv, UNCHANGED rowVars PROVE RowInv'
<1> USE DEF rowVars, table, keys, requestVars, cascade, bounds, tally
<1>1. RowTypeOK' /\ KeyShape' /\ OneRowPerKey'
  BY DEF RowInv, RowTypeOK, KeyShape, OneRowPerKey
<1>2. RequestShape'
  BY DEF RowInv, RequestShape, ShapeOf
<1>3. LockShape'
  BY DEF RowInv, LockShape, HeldByOther, Live
<1>4. OrphanHasCause'
  BY DEF RowInv, OrphanHasCause, Orphan, Pending, Live
<1>5. OneAuditPerDeletion'
  BY DEF RowInv, OneAuditPerDeletion
<1> QED BY <1>1, <1>2, <1>3, <1>4, <1>5 DEF RowInv

\* No delete takes a row past a lock it should have seen.
LEMMA LockedRowsStep ==
    ASSUME RowTypeOK, RequestShape, LockShape, RowNext,
           NEW x \in Rows, NEW q \in RowRequests,
           Live(x), rowStatus'[x] = "deleted", step[q] # step'[q], HeldByOther(q, x)
    PROVE  q \in since[x]
<1> DEFINE Keeps == rowStatus'[x] # "deleted"
<1>1. ASSUME NEW r \in RowRequests, NEW k \in Keys \cup {NoKey}, NEW c \in Children, NEW p \in Parents, Create(r, k, c, p) PROVE Keeps
  BY <1>1 DEF Create, RowTypeOK, Live, Rows
<1>2. ASSUME NEW r \in RowRequests, NEW k \in Keys, NEW p \in Parents, Replay(r, k, p) PROVE Keeps
  BY <1>2 DEF Replay, Live, table
<1>3. ASSUME NEW r \in RowRequests, NEW xs \in Named, NEW s \in RowSteps, StartDelete(r, xs, s) PROVE Keeps
  BY <1>3 DEF StartDelete, Live, table
<1>4. ASSUME NEW r \in RowRequests, LookLocks(r) PROVE Keeps
  BY <1>4 DEF LookLocks, Live, table
<1>5. ASSUME NEW r \in RowRequests, DeleteRows(r) PROVE q \in since[x]
  <2>1. step[r] = "delete" /\ x \in asked[r]
    BY <1>5 DEF DeleteRows, Deletes, Live
  <2>2. q = r
    BY <1>5 DEF DeleteRows, Goes, Answers, RowTypeOK
  <2> QED BY <2>1, <2>2 DEF LockShape, Live
<1>6. ASSUME NEW r \in RowRequests, DeleteInTransaction(r) PROVE q \in since[x]
  <2>1. step[r] = "transaction" /\ x \in asked[r]
    BY <1>6 DEF DeleteInTransaction, Deletes, Live
  <2>2. q = r
    BY <1>6 DEF DeleteInTransaction, Goes, Answers, RowTypeOK
  <2> QED BY <2>1, <2>2 DEF LockShape, Live
<1>7. ASSUME NEW r \in RowRequests, NEW y \in Rows, FireEffects(r, y) PROVE Keeps
  BY <1>7 DEF FireEffects, Live, table
<1>8. ASSUME NEW r \in RowRequests, EndDelete(r) PROVE Keeps
  BY <1>8 DEF EndDelete, Live, table
<1>9. ASSUME NEW r \in RowRequests, NEW p \in Parents, ReadChildren(r, p) PROVE Keeps
  BY <1>9 DEF ReadChildren, Live, table
<1>10. ASSUME NEW r \in RowRequests, NEW c \in Children, LookChild(r, c) PROVE Keeps
  BY <1>10 DEF LookChild, Live, table
<1>11. ASSUME NEW r \in RowRequests, NEW cs \in SUBSET Children, DeleteChildren(r, cs) PROVE q \in since[x]
  <2>1. step[r] = "look child" /\ x \in chosen[r] \ cs
    BY <1>11 DEF DeleteChildren, Deletes, Live
  <2>2. q = r
    BY <1>11 DEF DeleteChildren, Goes, Answers, RowTypeOK
  <2> QED BY <2>1, <2>2 DEF LockShape, Live
<1>12. ASSUME NEW r \in RowRequests, CascadeFails(r) PROVE Keeps
  BY <1>12 DEF CascadeFails, Live, table
<1>13. ASSUME NEW r \in RowRequests, NEW c \in Children, NEW p \in Parents, StartRepoint(r, c, p) PROVE Keeps
  BY <1>13 DEF StartRepoint, Live, table
<1>14. ASSUME NEW r \in RowRequests, LookRepoint(r) PROVE Keeps
  BY <1>14 DEF LookRepoint, Live, table
<1>15. ASSUME NEW r \in RowRequests, Repoint(r) PROVE Keeps
  BY <1>15 DEF Repoint, Live, table
<1>16. ASSUME NEW r \in RowRequests, NEW y \in Rows, RestoreRow(r, y) PROVE Keeps
  BY <1>16 DEF RestoreRow, RowTypeOK, Live, Rows
<1>17. ASSUME NEW u \in Callers, NEW y \in Rows, Lock(u, y) PROVE Keeps
  BY <1>17 DEF Lock, Live, table
<1>18. ASSUME NEW y \in Rows, Unlock(y) PROVE Keeps
  BY <1>18 DEF Unlock, Live, table
<1>19. ASSUME NEW k \in Keys, DayPasses(k) PROVE Keeps
  BY <1>19 DEF DayPasses, Live, table
<1>20. ASSUME ServerCrash PROVE Keeps
  BY <1>20 DEF ServerCrash, Live, table
<1> QED BY <1>1, <1>2, <1>3, <1>4, <1>5, <1>6, <1>7, <1>8, <1>9, <1>10,
          <1>11, <1>12, <1>13, <1>14, <1>15, <1>16, <1>17, <1>18, <1>19, <1>20 DEF RowNext, CreateStep, DeleteStep, CascadeStep, UpdateStep,
                  RowEnvironment

\* Every step keeps the invariant.
LEMMA RowStep ==
    ASSUME RowInv, [RowNext]_rowVars PROVE RowInv'
<1>1. CASE RowNext
  BY <1>1, RowTypeStep, RequestShapeStep, KeyShapeStep, LockShapeStep, OneRowPerKeyStep,
     OrphanStep, LedgerStep DEF RowInv
<1>2. CASE UNCHANGED rowVars
  BY <1>2, RowStutter
<1> QED BY <1>1, <1>2

\* Every reachable state satisfies the invariant.
THEOREM RowInvariant == RowSpec => []RowInv
<1>1. RowInit => RowInv
  BY RowInitially
<1>2. RowInv /\ [RowNext]_rowVars => RowInv'
  BY RowStep
<1> QED BY <1>1, <1>2, PTL DEF RowSpec

\* The variables keep their types.
THEOREM RowTypeCorrect == RowSpec => []RowTypeOK
<1>1. RowInv => RowTypeOK
  BY DEF RowInv
<1> QED BY <1>1, RowInvariant, PTL

\* Cascades, moves, restores, locks and crashes leave no live child of a
\* deleted parent without a reason.
THEOREM OrphansHaveCauses == RowSpec => []OrphanHasCause
<1>1. RowInv => OrphanHasCause
  BY DEF RowInv
<1> QED BY <1>1, RowInvariant, PTL

\* A key stands for one row and one input as long as its record is young.
THEOREM KeysNameOneRow == RowSpec => []OneRowPerKey
<1>1. RowInv => OneRowPerKey
  BY DEF RowInv
<1> QED BY <1>1, RowInvariant, PTL

\* Audit rows, effects and deletions agree for every row.
THEOREM DeletionsAudited == RowSpec => []OneAuditPerDeletion
<1>1. RowInv => OneAuditPerDeletion
  BY DEF RowInv
<1> QED BY <1>1, RowInvariant, PTL

\* A delete takes a row held by another only if the lock came after its check.
THEOREM LocksRespected == RowSpec => LockedRowsSurvive
<1>1. RowInv /\ [RowNext]_rowVars =>
        [\A x \in Rows, r \in RowRequests :
            Live(x) /\ rowStatus'[x] = "deleted" /\ step[r] # step'[r] /\ HeldByOther(r, x)
                => r \in since[x]]_rowVars
  BY LockedRowsStep DEF RowInv
<1> QED BY <1>1, RowInvariant, PTL DEF RowSpec, LockedRowsSurvive

=============================================================================
