----------------------------- MODULE MCPlatform -----------------------------
(***************************************************************************)
(* The components that keep their state apart from each other and from the *)
(* queue, the scheduler and the record workflows: the rows of two tables,  *)
(* the breaker of one host, what the owner lets the connector do, what     *)
(* users let it do, and a bulk import. None reads a variable of another,   *)
(* so a behaviour exercises one of them, picked at its start.              *)
(***************************************************************************)
EXTENDS RowLifecycle, CircuitBreaker, ConnectorAuthority, ConnectorGrants, BulkImport, TLC

\* Two parents, two children, and a pair that serves a set of every component:
\* what permutes it permutes all of them, and only one component moves.
CONSTANTS m1, m2, n1, n2, q1, q2, u1, u2

VARIABLE area

Areas == {"rows", "breaker", "authority", "grants", "import"}

platformVars == <<area, rowVars, breakerVars, authorityVars, grantVars, importVars>>

PlatformInit ==
    /\ area \in Areas
    /\ RowInit /\ BreakerInit /\ AuthorityInit /\ GrantInit /\ ImportInit
    /\ area # "authority" => source = NoDigest /\ ~ledger

PlatformNext ==
    \/ /\ area = "rows" /\ UNCHANGED <<area, breakerVars, authorityVars, grantVars, importVars>>
       /\ RowNext
    \/ /\ area = "breaker" /\ UNCHANGED <<area, rowVars, authorityVars, grantVars, importVars>>
       /\ BreakerNext
    \/ /\ area = "authority" /\ UNCHANGED <<area, rowVars, breakerVars, grantVars, importVars>>
       /\ AuthorityNext
    \/ /\ area = "grants" /\ UNCHANGED <<area, rowVars, breakerVars, authorityVars, importVars>>
       /\ GrantNext
    \/ /\ area = "import" /\ UNCHANGED <<area, rowVars, breakerVars, authorityVars, grantVars>>
       /\ ImportNext

PlatformSpec == PlatformInit /\ [][PlatformNext]_platformVars

\* The strengthened invariants, which the proofs show inductive, and the types.
PlatformInv ==
    CASE area = "rows" -> RowInv
      [] area = "breaker" -> BreakerInv
      [] area = "authority" -> AuthorityInv
      [] area = "grants" -> GrantInv
      [] area = "import" -> ImportInv

-----------------------------------------------------------------------------
(* The constants. *)

\* Two parents, m1 and m2, and two children, n1 and n2.
MCNamed == {{m1}, {m2}, {n1}, {n2}, {m1, m2}}
MCCallerOf == q1 :> u1 @@ q2 :> u2

\* Requests go with their callers.
Swap(a, b) == {a :> a @@ b :> b, a :> b @@ b :> a}
PlatformSymmetry ==
    {f @@ g @@ h :
        f \in Swap(m1, m2), g \in Swap(n1, n2),
        h \in {q1 :> q1 @@ q2 :> q2 @@ u1 :> u1 @@ u2 :> u2,
               q1 :> q2 @@ q2 :> q1 @@ u1 :> u2 @@ u2 :> u1}}

-----------------------------------------------------------------------------
(* The view keeps what steps and properties read: not a local variable of a    *)
(* request that is past its use, not a counter where a difference is read, not *)
(* a token's number where only equality is.                                    *)

Deleting(r, x) ==
    \/ step[r] \in {"delete", "transaction"} /\ x \in asked[r]
    \/ step[r] = "look child" /\ x \in chosen[r]

RequestView(r) ==
    IF step[r] = "none" THEN <<>>
    ELSE <<step[r], asked[r],
           IF step[r] \in {"repoint look", "repoint"} THEN target[r] ELSE NoRow,
           IF step[r] \in {"cascade", "look child"} THEN <<queue[r], candidates[r], chosen[r]>>
                                                    ELSE <<>>,
           IF step[r] = "look child" THEN cause[r] ELSE NoRow>>

RowView ==
    <<table, heldBy, due, bounds, [r \in RowRequests |-> RequestView(r)],
      [k \in Keys |-> <<record[k], input[k], stale[k], day[k],
                        {<<a.row, a.input>> : a \in {b \in shown : b.key = k /\ b.day = day[k]}}>>],
      [c \in Children |-> Orphan(c) /\ excuse[c] = "none"],
      [x \in Rows |-> <<{r \in since[x] : Deleting(r, x)},
                        deaths[x] - audited[x], deaths[x] - fired[x] - lost[x]>>]>>

Age(t) == IF clock - t > Cooldown THEN Cooldown + 1 ELSE clock - t

BreakerView ==
    <<circuit, IF circuit = "closed" THEN failures ELSE 0, Age(lastFailure), Age(lastAttempt), clock,
      [d \in Deliveries |->
          IF sending[d] = "none" THEN <<>>
          ELSE <<sending[d], clock - started[d],
                 Probing(d) /\ started[d] <= failedBefore[d] + Cooldown>>]>>

AuthorityView ==
    <<[owner EXCEPT !.epoch = 0, !.writeEpoch = 0, !.autoEpoch = 0],
      enrolled.state, enrolled.epoch = owner.epoch, ledger, source, phase, loaded, request,
      grant.epoch = owner.epoch, grant.autoEpoch # 0 /\ grant.autoEpoch = owner.autoEpoch,
      grant.digest,
      [o \in Operations |->
          <<stored[o].state, stored[o].digest, stored[o].epoch = owner.epoch,
            stored[o].writeEpoch = owner.writeEpoch, stored[o].autoEpoch = owner.autoEpoch>>],
      stands, lasting, autoLasting, consentLasts>>

\* A refresh of a grant that has ended can only be refused.
GrantView ==
    <<page, code, approval, allowed, ended,
      [e \in Exchanges |->
          <<exchange[e].step, exchange[e].approval,
            IF exchange[e].step = "checked" THEN exchange[e].scopes ELSE {},
            IF family[e].state = "live" THEN family[e] ELSE family[e].state>>],
      [f \in Refreshes |-> IF refresh[f].step = "none" THEN "none"
                           ELSE IF family[refresh[f].family].state # "live" THEN "refused"
                           ELSE refresh[f]]>>

PlatformView ==
    <<area, CASE area = "rows" -> RowView
              [] area = "breaker" -> BreakerView
              [] area = "authority" -> AuthorityView
              [] area = "grants" -> GrantView
              [] area = "import" -> <<importState, part, put, job, purging, landed, whole, abandoned>> >>
=============================================================================
