------------------------ MODULE ConnectorGrants_proofs ------------------------
(***************************************************************************)
(* However pages are sent in, codes presented and tokens refreshed, at     *)
(* once or again, one consent makes one grant, a grant has one good        *)
(* refresh token and only ever fewer scopes, and what was ended stays so.  *)
(***************************************************************************)
EXTENDS ConnectorGrants, TLAPS

-----------------------------------------------------------------------------
(* Records keep their type when a step moves them on. *)

\* A page or a code that changes state.
LEMMA RowMoves ==
    ASSUME NEW r \in StoredRows, NEW s \in RowStates
    PROVE  [r EXCEPT !.state = s] \in StoredRows
  BY DEF StoredRows

\* An approval that goes on.
LEMMA ApprovalMoves ==
    ASSUME NEW r \in ApprovalRecords, NEW s \in {"none", "read", "claimed", "over"}
    PROVE  [r EXCEPT !.step = s] \in ApprovalRecords
  BY DEF ApprovalRecords

\* An exchange that goes on.
LEMMA ExchangeMoves ==
    ASSUME NEW r \in ExchangeRecords, NEW s \in {"none", "read", "claimed", "checked", "over"}
    PROVE  [r EXCEPT !.step = s] \in ExchangeRecords
  BY DEF ExchangeRecords

\* An exchange that has read its code.
LEMMA ExchangeReads ==
    ASSUME NEW r \in ExchangeRecords, NEW a \in Approvals
    PROVE  [r EXCEPT !.step = "read", !.approval = a] \in ExchangeRecords
  <1>1. ASSUME NEW v, v = [r EXCEPT !.step = "read", !.approval = a]
        PROVE  v = [step |-> "read", approval |-> a, scopes |-> r.scopes]
    BY <1>1 DEF ExchangeRecords
  <1> QED
    BY <1>1 DEF ExchangeRecords

\* An exchange that knows its scopes.
LEMMA ExchangeChecks ==
    ASSUME NEW r \in ExchangeRecords, NEW x \in ScopeSets
    PROVE  [r EXCEPT !.step = "checked", !.scopes = x] \in ExchangeRecords
  <1>1. ASSUME NEW v, v = [r EXCEPT !.step = "checked", !.scopes = x]
        PROVE  v = [step |-> "checked", approval |-> r.approval, scopes |-> x]
    BY <1>1 DEF ExchangeRecords
  <1> QED
    BY <1>1 DEF ExchangeRecords

\* A grant that ends.
LEMMA FamilyEnds ==
    ASSUME NEW r \in Families, NEW s \in {"none", "live", "revoked", "expired"}
    PROVE  [r EXCEPT !.state = s] \in Families
  BY DEF Families

\* A refresh that goes on.
LEMMA RefreshMoves ==
    ASSUME NEW r \in RefreshRecords, NEW s \in {"none", "read", "checked"}
    PROVE  [r EXCEPT !.step = s] \in RefreshRecords
  BY DEF RefreshRecords

\* A refresh that knows its scopes.
LEMMA RefreshChecks ==
    ASSUME NEW r \in RefreshRecords, NEW x \in ScopeSets
    PROVE  [r EXCEPT !.step = "checked", !.scopes = @ \cap x] \in RefreshRecords
  <1>1. ASSUME NEW v, v = [r EXCEPT !.step = "checked", !.scopes = @ \cap x]
        PROVE  v = [step |-> "checked", family |-> r.family, token |-> r.token, scopes |-> r.scopes \cap x]
    BY <1>1 DEF RefreshRecords
  <1> QED
    BY <1>1 DEF RefreshRecords, ScopeSets

-----------------------------------------------------------------------------
\* What a rotation changes: the one grant, which stays live.
LEMMA RotateFacts ==
    ASSUME GrantTypeOK, RefreshesHold, NEW f \in Refreshes, Rotate(f),
           NEW e, e = refresh[f].family
    PROVE  /\ e \in Exchanges /\ refresh[f].token \in Nat /\ refresh[f].token \in Tokens(e)
           /\ family[e] \in Families /\ family' \in [Exchanges -> Families]
           /\ \A d \in Exchanges : d # e => family'[d] = family[d]
           /\ family[e].state = "live" /\ family'[e].state = "live"
           /\ refresh[f].token \notin family[e].spent
           /\ family'[e].issued = family[e].issued + 1
           /\ family'[e].spent = family[e].spent \cup {refresh[f].token}
           /\ family'[e].scopes \subseteq family[e].scopes
  <1> DEFINE x == family[e].scopes \cap refresh[f].scopes
  <1>1. e \in Exchanges /\ refresh[f] \in RefreshRecords /\ refresh[f].token \in Tokens(e)
        /\ refresh[f].token \notin family[e].spent /\ family[e].state = "live"
    BY DEF Rotate, InTransaction, Spent, GrantTypeOK, RefreshesHold
  <1>2. family[e] \in Families
    BY <1>1 DEF GrantTypeOK
  <1>3. refresh[f].token \in Nat
    BY <1>1 DEF RefreshRecords
  <1>4. x \in ScopeSets /\ x \subseteq family[e].scopes
    BY <1>2 DEF Families, ScopeSets
  <1>5. PICK w : w = [family[e] EXCEPT !.scopes = x, !.issued = @ + 1,
                                       !.spent = @ \cup {refresh[f].token}]
    OBVIOUS
  <1>6. w = [state |-> "live", scopes |-> x, issued |-> family[e].issued + 1,
             spent |-> family[e].spent \cup {refresh[f].token}]
    BY <1>1, <1>2, <1>5 DEF Families
  <1>7. w \in Families
    BY <1>2, <1>3, <1>4, <1>6 DEF Families
  <1>8. family' = [family EXCEPT ![e] = w]
    BY <1>5 DEF Rotate
  <1> HIDE DEF x
  <1> QED
    BY <1>1, <1>2, <1>3, <1>4, <1>6, <1>7, <1>8 DEF GrantTypeOK

\* What ending an account's grants changes: states only.
LEMMA RevokeFacts ==
    ASSUME GrantTypeOK, RevokeUserGrants
    PROVE  /\ \A e \in Exchanges :
                 /\ family'[e].state = IF family[e].state = "live" THEN "revoked" ELSE family[e].state
                 /\ family'[e].scopes = family[e].scopes
                 /\ family'[e].issued = family[e].issued /\ family'[e].spent = family[e].spent
           /\ \A p \in Pages :
                 /\ page'[p].state = IF page[p].state = "none" THEN "none" ELSE "gone"
                 /\ page'[p].scopes = page[p].scopes
           /\ \A a \in Approvals :
                 /\ code'[a].state = IF code[a].state = "none" THEN "none" ELSE "gone"
                 /\ code'[a].scopes = code[a].scopes
           /\ approval' = approval /\ exchange' = exchange /\ refresh' = refresh
           /\ ended' = ended \cup {p \in Pages : page[p].state = "open"}
                             \cup {a \in Approvals : code[a].state = "open"}
  <1>1. ASSUME NEW e \in Exchanges
        PROVE  /\ family'[e].state = IF family[e].state = "live" THEN "revoked" ELSE family[e].state
               /\ family'[e].scopes = family[e].scopes
               /\ family'[e].issued = family[e].issued /\ family'[e].spent = family[e].spent
    <2>1. family[e] \in Families
      BY DEF GrantTypeOK
    <2>2. family'[e] = [family[e] EXCEPT !.state = IF @ = "live" THEN "revoked" ELSE @]
      BY DEF RevokeUserGrants
    <2> QED
      BY <2>1, <2>2 DEF Families
  <1>2. ASSUME NEW p \in Pages
        PROVE  /\ page'[p].state = IF page[p].state = "none" THEN "none" ELSE "gone"
               /\ page'[p].scopes = page[p].scopes
    BY DEF RevokeUserGrants, Gone, GrantTypeOK, StoredRows
  <1>3. ASSUME NEW a \in Approvals
        PROVE  /\ code'[a].state = IF code[a].state = "none" THEN "none" ELSE "gone"
               /\ code'[a].scopes = code[a].scopes
    BY DEF RevokeUserGrants, Gone, GrantTypeOK, StoredRows
  <1>4. /\ approval' = approval /\ exchange' = exchange /\ refresh' = refresh
        /\ ended' = ended \cup {p \in Pages : page[p].state = "open"}
                          \cup {a \in Approvals : code[a].state = "open"}
    BY DEF RevokeUserGrants, Claimable
  <1> QED
    BY <1>1, <1>2, <1>3, <1>4

-----------------------------------------------------------------------------
\* Every step keeps the types.
LEMMA TypeKept ==
    ASSUME GrantTypeOK, ClaimsHold, RefreshesHold, [GrantNext]_grantVars
    PROVE  GrantTypeOK'
  <1>1. ASSUME NEW p \in Pages, NEW s \in ScopeSets, ShowPage(p, s)
        PROVE  GrantTypeOK'
    BY <1>1 DEF ShowPage, ScopeSets, GrantTypeOK, StoredRows, RowStates
  <1>2. ASSUME NEW a \in Approvals, NEW p \in Pages, ReadConsent(a, p)
        PROVE  GrantTypeOK'
    BY <1>2 DEF ReadConsent, GrantTypeOK, ApprovalRecords
  <1>3. ASSUME NEW a \in Approvals, ClaimConsent(a)
        PROVE  GrantTypeOK'
    BY <1>3, RowMoves, ApprovalMoves DEF ClaimConsent, Claimable, GrantTypeOK, RowStates, ClaimsHold
  <1>4. ASSUME NEW a \in Approvals, StoreCode(a)
        PROVE  GrantTypeOK'
    BY <1>4, ApprovalMoves DEF StoreCode, GrantTypeOK, StoredRows, RowStates, ClaimsHold
  <1>5. ASSUME NEW a \in Approvals, EndApproval(a)
        PROVE  GrantTypeOK'
    BY <1>5, ApprovalMoves DEF EndApproval, GrantTypeOK
  <1>6. ASSUME NEW e \in Exchanges, NEW a \in Approvals, ReadCode(e, a)
        PROVE  GrantTypeOK'
    BY <1>6, ExchangeReads DEF ReadCode, GrantTypeOK
  <1>7. ASSUME NEW e \in Exchanges, ClaimCode(e)
        PROVE  GrantTypeOK'
    BY <1>7, RowMoves, ExchangeMoves DEF ClaimCode, Claimable, GrantTypeOK, RowStates, ClaimsHold
  <1>8. ASSUME NEW e \in Exchanges, CheckExchange(e)
        PROVE  GrantTypeOK'
    BY <1>8, ExchangeChecks DEF CheckExchange, GrantTypeOK, StoredRows, ScopeSets, ClaimsHold
  <1>9. ASSUME NEW e \in Exchanges, PersistGrant(e)
        PROVE  GrantTypeOK'
    BY <1>9, ExchangeMoves DEF PersistGrant, GrantTypeOK, Families, ExchangeRecords
  <1>10. ASSUME NEW e \in Exchanges, EndExchange(e)
        PROVE  GrantTypeOK'
    BY <1>10, ExchangeMoves DEF EndExchange, GrantTypeOK
  <1>11. ASSUME NEW f \in Refreshes, NEW e \in Exchanges, NEW s \in ScopeSets, NEW t \in 1..MaxTokens, ReadRefresh(f, e, t, s)
        PROVE  GrantTypeOK'
    BY <1>11 DEF ReadRefresh, Tokens, GrantTypeOK, RefreshRecords, ScopeSets
  <1>12. ASSUME NEW f \in Refreshes, CheckRefresh(f)
        PROVE  GrantTypeOK'
    BY <1>12, RefreshChecks DEF CheckRefresh, GrantTypeOK
  <1>13. ASSUME NEW f \in Refreshes, Rotate(f)
        PROVE  GrantTypeOK'
    <2>1. [refresh[f] EXCEPT !.step = "none"] \in RefreshRecords
      BY RefreshMoves DEF GrantTypeOK
    <2>2. family' \in [Exchanges -> Families]
      BY <1>13, RotateFacts
    <2> QED
      BY <1>13, <2>1, <2>2 DEF Rotate, Over, GrantTypeOK
  <1>14. ASSUME NEW f \in Refreshes, Replayed(f)
        PROVE  GrantTypeOK'
    BY <1>14, RefreshMoves, FamilyEnds DEF Replayed, InTransaction, Spent, Over, GrantTypeOK,
       RefreshRecords, RefreshesHold
  <1>15. ASSUME NEW f \in Refreshes, EndRefresh(f)
        PROVE  GrantTypeOK'
    BY <1>15, RefreshMoves DEF EndRefresh, Over, GrantTypeOK
  <1>16. ASSUME NEW e \in Exchanges, RevokeGrant(e)
        PROVE  GrantTypeOK'
    BY <1>16, FamilyEnds DEF RevokeGrant, GrantTypeOK
  <1>17. ASSUME NEW e \in Exchanges, ExpireGrant(e)
        PROVE  GrantTypeOK'
    BY <1>17, FamilyEnds DEF ExpireGrant, GrantTypeOK
  <1>18. ASSUME NEW p \in Pages, ExpirePage(p)
        PROVE  GrantTypeOK'
    BY <1>18, RowMoves DEF ExpirePage, Gone, GrantTypeOK, RowStates
  <1>19. ASSUME NEW a \in Approvals, ExpireCode(a)
        PROVE  GrantTypeOK'
    BY <1>19, RowMoves DEF ExpireCode, Gone, GrantTypeOK, RowStates
  <1>20. ASSUME RevokeUserGrants
        PROVE  GrantTypeOK'
    <2>1. ASSUME NEW e \in Exchanges
          PROVE  [family[e] EXCEPT !.state = IF @ = "live" THEN "revoked" ELSE @] \in Families
      <3>1. family[e] \in Families /\ family[e].state \in {"none", "live", "revoked", "expired"}
        BY DEF GrantTypeOK, Families
      <3> QED
        BY <3>1, FamilyEnds
    <2>2. family' \in [Exchanges -> Families]
      BY <1>20, <2>1 DEF RevokeUserGrants
    <2>3. page' \in [Pages -> StoredRows] /\ code' \in [Approvals -> StoredRows]
      BY <1>20, RowMoves DEF RevokeUserGrants, Gone, GrantTypeOK, RowStates
    <2>4. ended' \subseteq Pages \cup Approvals
      BY <1>20 DEF RevokeUserGrants, GrantTypeOK
    <2> QED
      BY <1>20, <2>2, <2>3, <2>4 DEF RevokeUserGrants, GrantTypeOK
  <1>21. ASSUME NEW s \in ScopeSets, Allow(s)
        PROVE  GrantTypeOK'
    BY <1>21 DEF Allow, GrantTypeOK
  <1>22. CASE UNCHANGED grantVars
    BY <1>22 DEF grantVars, GrantTypeOK
  <1> QED
    BY <1>1, <1>2, <1>3, <1>4, <1>5, <1>6, <1>7, <1>8, <1>9, <1>10, <1>11, <1>12, <1>13, <1>14,
       <1>15, <1>16, <1>17, <1>18, <1>19, <1>20, <1>21, <1>22
    DEF GrantNext, ConsentStep, ExchangeStep, RefreshStep, EndStep

\* What was claimed was claimed by one request.
LEMMA ClaimsKept ==
    ASSUME GrantTypeOK, ClaimsHold, RefreshesHold, [GrantNext]_grantVars
    PROVE  ClaimsHold'
  <1> USE GrantAssumption
  <1>1. ASSUME NEW p \in Pages, NEW s \in ScopeSets, ShowPage(p, s)
        PROVE  ClaimsHold'
    BY <1>1 DEF ShowPage, ScopeSets, GrantTypeOK, ClaimsHold, HasPage, HasCode, Spendable,
       RowStates, StoredRows, ApprovalRecords, ExchangeRecords
  <1>2. ASSUME NEW a \in Approvals, NEW p \in Pages, ReadConsent(a, p)
        PROVE  ClaimsHold'
    BY <1>2 DEF ReadConsent, GrantTypeOK, ClaimsHold, HasPage, HasCode, Spendable, RowStates,
       StoredRows, ApprovalRecords, ExchangeRecords
  <1>3. ASSUME NEW a \in Approvals, ClaimConsent(a)
        PROVE  ClaimsHold'
    BY <1>3 DEF ClaimConsent, Claimable, GrantTypeOK, ClaimsHold, HasPage, HasCode, Spendable,
       RowStates, StoredRows, ApprovalRecords, ExchangeRecords
  <1>4. ASSUME NEW a \in Approvals, StoreCode(a)
        PROVE  ClaimsHold'
    BY <1>4 DEF StoreCode, GrantTypeOK, ClaimsHold, HasPage, HasCode, Spendable, RowStates,
       StoredRows, ApprovalRecords, ExchangeRecords
  <1>5. ASSUME NEW a \in Approvals, EndApproval(a)
        PROVE  ClaimsHold'
    BY <1>5 DEF EndApproval, GrantTypeOK, ClaimsHold, HasPage, HasCode, Spendable, RowStates,
       StoredRows, ApprovalRecords, ExchangeRecords
  <1>6. ASSUME NEW e \in Exchanges, NEW a \in Approvals, ReadCode(e, a)
        PROVE  ClaimsHold'
    BY <1>6 DEF ReadCode, GrantTypeOK, ClaimsHold, HasPage, HasCode, Spendable, RowStates,
       StoredRows, ApprovalRecords, ExchangeRecords
  <1>7. ASSUME NEW e \in Exchanges, ClaimCode(e)
        PROVE  ClaimsHold'
    <2> DEFINE b == exchange[e].approval
    <2>1. b \in Approvals /\ code[b].state = "open" /\ exchange[e].step = "read"
      BY <1>7 DEF ClaimCode, Claimable, ClaimsHold
    <2>2. /\ UNCHANGED <<page, approval, family>>
          /\ \A a \in Approvals : code'[a].state = IF a = b THEN "used" ELSE code[a].state
          /\ \A d \in Exchanges : /\ exchange'[d].approval = exchange[d].approval
                                   /\ exchange'[d].step = IF d = e THEN "claimed" ELSE exchange[d].step
      BY <1>7, <2>1 DEF ClaimCode, GrantTypeOK, StoredRows, ExchangeRecords
    <2>3. \A d \in Exchanges : d # e /\ HasCode(d) => exchange[d].approval # b
      BY <2>1 DEF ClaimsHold, Spendable
    <2> HIDE DEF b
    <2> QED
      BY <2>1, <2>2, <2>3 DEF b, ClaimsHold, HasPage, HasCode, Spendable
  <1>8. ASSUME NEW e \in Exchanges, CheckExchange(e)
        PROVE  ClaimsHold'
    BY <1>8 DEF CheckExchange, GrantTypeOK, ClaimsHold, HasPage, HasCode, Spendable, RowStates,
       StoredRows, ApprovalRecords, ExchangeRecords
  <1>9. ASSUME NEW e \in Exchanges, PersistGrant(e)
        PROVE  ClaimsHold'
    BY <1>9 DEF PersistGrant, GrantTypeOK, ClaimsHold, HasPage, HasCode, Spendable, RowStates,
       StoredRows, ApprovalRecords, ExchangeRecords
  <1>10. ASSUME NEW e \in Exchanges, EndExchange(e)
        PROVE  ClaimsHold'
    BY <1>10 DEF EndExchange, GrantTypeOK, ClaimsHold, HasPage, HasCode, Spendable, RowStates,
       StoredRows, ApprovalRecords, ExchangeRecords
  <1>11. ASSUME NEW f \in Refreshes, NEW e \in Exchanges, NEW s \in ScopeSets, NEW t \in 1..MaxTokens, ReadRefresh(f, e, t, s)
        PROVE  ClaimsHold'
    BY <1>11 DEF ReadRefresh, Tokens, GrantTypeOK, ClaimsHold, HasPage, HasCode, Spendable,
       RowStates, StoredRows, ApprovalRecords, ExchangeRecords
  <1>12. ASSUME NEW f \in Refreshes, CheckRefresh(f)
        PROVE  ClaimsHold'
    BY <1>12 DEF CheckRefresh, GrantTypeOK, ClaimsHold, HasPage, HasCode, Spendable, RowStates,
       StoredRows, ApprovalRecords, ExchangeRecords
  <1>13. ASSUME NEW f \in Refreshes, Rotate(f)
        PROVE  ClaimsHold'
    <2>1. UNCHANGED <<page, code, approval, exchange>>
      BY <1>13 DEF Rotate
    <2>2. \A e \in Exchanges : family'[e].state = family[e].state
      BY <1>13, RotateFacts
    <2> QED
      BY <2>1, <2>2 DEF ClaimsHold, HasPage, HasCode, Spendable
  <1>14. ASSUME NEW f \in Refreshes, Replayed(f)
        PROVE  ClaimsHold'
    BY <1>14 DEF Replayed, InTransaction, Spent, Over, GrantTypeOK, ClaimsHold, HasPage, HasCode,
       Spendable, RowStates, StoredRows, ApprovalRecords, ExchangeRecords
  <1>15. ASSUME NEW f \in Refreshes, EndRefresh(f)
        PROVE  ClaimsHold'
    BY <1>15 DEF EndRefresh, Over, GrantTypeOK, ClaimsHold, HasPage, HasCode, Spendable,
       RowStates, StoredRows, ApprovalRecords, ExchangeRecords
  <1>16. ASSUME NEW e \in Exchanges, RevokeGrant(e)
        PROVE  ClaimsHold'
    BY <1>16 DEF RevokeGrant, GrantTypeOK, ClaimsHold, HasPage, HasCode, Spendable, RowStates,
       StoredRows, ApprovalRecords, ExchangeRecords
  <1>17. ASSUME NEW e \in Exchanges, ExpireGrant(e)
        PROVE  ClaimsHold'
    BY <1>17 DEF ExpireGrant, GrantTypeOK, ClaimsHold, HasPage, HasCode, Spendable, RowStates,
       StoredRows, ApprovalRecords, ExchangeRecords
  <1>18. ASSUME NEW p \in Pages, ExpirePage(p)
        PROVE  ClaimsHold'
    BY <1>18 DEF ExpirePage, Gone, GrantTypeOK, ClaimsHold, HasPage, HasCode, Spendable,
       RowStates, StoredRows, ApprovalRecords, ExchangeRecords
  <1>19. ASSUME NEW a \in Approvals, ExpireCode(a)
        PROVE  ClaimsHold'
    BY <1>19 DEF ExpireCode, Gone, GrantTypeOK, ClaimsHold, HasPage, HasCode, Spendable,
       RowStates, StoredRows, ApprovalRecords, ExchangeRecords
  <1>20. ASSUME RevokeUserGrants
        PROVE  ClaimsHold'
    BY <1>20, RevokeFacts DEF ClaimsHold, HasPage, HasCode, Spendable
  <1>21. ASSUME NEW s \in ScopeSets, Allow(s)
        PROVE  ClaimsHold'
    BY <1>21 DEF Allow, GrantTypeOK, ClaimsHold, HasPage, HasCode, Spendable, RowStates,
       StoredRows, ApprovalRecords, ExchangeRecords
  <1>22. CASE UNCHANGED grantVars
    BY <1>22 DEF grantVars, GrantTypeOK, ClaimsHold, HasPage, HasCode, Spendable, RowStates,
       StoredRows, ApprovalRecords, ExchangeRecords
  <1> QED
    BY <1>1, <1>2, <1>3, <1>4, <1>5, <1>6, <1>7, <1>8, <1>9, <1>10, <1>11, <1>12, <1>13, <1>14,
       <1>15, <1>16, <1>17, <1>18, <1>19, <1>20, <1>21, <1>22
    DEF GrantNext, ConsentStep, ExchangeStep, RefreshStep, EndStep

\* What was shown bounds what is stored.
LEMMA ScopesKept ==
    ASSUME GrantTypeOK, ClaimsHold, ScopesHold, [GrantNext]_grantVars
    PROVE  ScopesHold'
  <1> USE GrantAssumption
  <1>1. ASSUME NEW p \in Pages, NEW s \in ScopeSets, ShowPage(p, s)
        PROVE  ScopesHold'
    BY <1>1 DEF ShowPage, ScopeSets, GrantTypeOK, ClaimsHold, ScopesHold, HasPage, HasCode,
       Spendable
  <1>2. ASSUME NEW a \in Approvals, NEW p \in Pages, ReadConsent(a, p)
        PROVE  ScopesHold'
    BY <1>2 DEF ReadConsent, GrantTypeOK, ClaimsHold, ScopesHold, HasPage, HasCode, Spendable
  <1>3. ASSUME NEW a \in Approvals, ClaimConsent(a)
        PROVE  ScopesHold'
    BY <1>3 DEF ClaimConsent, Claimable, GrantTypeOK, ClaimsHold, ScopesHold, HasPage, HasCode,
       Spendable
  <1>4. ASSUME NEW a \in Approvals, StoreCode(a)
        PROVE  ScopesHold'
    BY <1>4 DEF StoreCode, GrantTypeOK, ClaimsHold, ScopesHold, HasPage, HasCode, Spendable
  <1>5. ASSUME NEW a \in Approvals, EndApproval(a)
        PROVE  ScopesHold'
    BY <1>5 DEF EndApproval, GrantTypeOK, ClaimsHold, ScopesHold, HasPage, HasCode, Spendable
  <1>6. ASSUME NEW e \in Exchanges, NEW a \in Approvals, ReadCode(e, a)
        PROVE  ScopesHold'
    BY <1>6 DEF ReadCode, GrantTypeOK, ClaimsHold, ScopesHold, HasPage, HasCode, Spendable
  <1>7. ASSUME NEW e \in Exchanges, ClaimCode(e)
        PROVE  ScopesHold'
    BY <1>7 DEF ClaimCode, Claimable, GrantTypeOK, ClaimsHold, ScopesHold, HasPage, HasCode,
       Spendable
  <1>8. ASSUME NEW e \in Exchanges, CheckExchange(e)
        PROVE  ScopesHold'
    BY <1>8 DEF CheckExchange, GrantTypeOK, ClaimsHold, ScopesHold, HasPage, HasCode, Spendable
  <1>9. ASSUME NEW e \in Exchanges, PersistGrant(e)
        PROVE  ScopesHold'
    BY <1>9 DEF PersistGrant, GrantTypeOK, ClaimsHold, ScopesHold, HasPage, HasCode, Spendable
  <1>10. ASSUME NEW e \in Exchanges, EndExchange(e)
        PROVE  ScopesHold'
    BY <1>10 DEF EndExchange, GrantTypeOK, ClaimsHold, ScopesHold, HasPage, HasCode, Spendable
  <1>11. ASSUME NEW f \in Refreshes, NEW e \in Exchanges, NEW s \in ScopeSets, NEW t \in 1..MaxTokens, ReadRefresh(f, e, t, s)
        PROVE  ScopesHold'
    BY <1>11 DEF ReadRefresh, Tokens, GrantTypeOK, ClaimsHold, ScopesHold, HasPage, HasCode,
       Spendable
  <1>12. ASSUME NEW f \in Refreshes, CheckRefresh(f)
        PROVE  ScopesHold'
    BY <1>12 DEF CheckRefresh, GrantTypeOK, ClaimsHold, ScopesHold, HasPage, HasCode, Spendable
  <1>13. ASSUME NEW f \in Refreshes, Rotate(f)
        PROVE  ScopesHold'
    BY <1>13 DEF Rotate, InTransaction, Spent, Over, GrantTypeOK, ClaimsHold, ScopesHold, HasPage,
       HasCode, Spendable
  <1>14. ASSUME NEW f \in Refreshes, Replayed(f)
        PROVE  ScopesHold'
    BY <1>14 DEF Replayed, InTransaction, Spent, Over, GrantTypeOK, ClaimsHold, ScopesHold,
       HasPage, HasCode, Spendable
  <1>15. ASSUME NEW f \in Refreshes, EndRefresh(f)
        PROVE  ScopesHold'
    BY <1>15 DEF EndRefresh, Over, GrantTypeOK, ClaimsHold, ScopesHold, HasPage, HasCode, Spendable
  <1>16. ASSUME NEW e \in Exchanges, RevokeGrant(e)
        PROVE  ScopesHold'
    BY <1>16 DEF RevokeGrant, GrantTypeOK, ClaimsHold, ScopesHold, HasPage, HasCode, Spendable
  <1>17. ASSUME NEW e \in Exchanges, ExpireGrant(e)
        PROVE  ScopesHold'
    BY <1>17 DEF ExpireGrant, GrantTypeOK, ClaimsHold, ScopesHold, HasPage, HasCode, Spendable
  <1>18. ASSUME NEW p \in Pages, ExpirePage(p)
        PROVE  ScopesHold'
    BY <1>18 DEF ExpirePage, Gone, GrantTypeOK, ClaimsHold, ScopesHold, HasPage, HasCode, Spendable
  <1>19. ASSUME NEW a \in Approvals, ExpireCode(a)
        PROVE  ScopesHold'
    BY <1>19 DEF ExpireCode, Gone, GrantTypeOK, ClaimsHold, ScopesHold, HasPage, HasCode, Spendable
  <1>20. ASSUME RevokeUserGrants
        PROVE  ScopesHold'
    BY <1>20 DEF RevokeUserGrants, Gone, Claimable, GrantTypeOK, ClaimsHold, ScopesHold, HasPage,
       HasCode, Spendable
  <1>21. ASSUME NEW s \in ScopeSets, Allow(s)
        PROVE  ScopesHold'
    BY <1>21 DEF Allow, GrantTypeOK, ClaimsHold, ScopesHold, HasPage, HasCode, Spendable
  <1>22. CASE UNCHANGED grantVars
    BY <1>22 DEF grantVars, GrantTypeOK, ClaimsHold, ScopesHold, HasPage, HasCode, Spendable
  <1> QED
    BY <1>1, <1>2, <1>3, <1>4, <1>5, <1>6, <1>7, <1>8, <1>9, <1>10, <1>11, <1>12, <1>13, <1>14,
       <1>15, <1>16, <1>17, <1>18, <1>19, <1>20, <1>21, <1>22
    DEF GrantNext, ConsentStep, ExchangeStep, RefreshStep, EndStep

\* What was ended unclaimed stays unclaimed.
LEMMA EndedKept ==
    ASSUME GrantTypeOK, ClaimsHold, ScopesHold, EndedHold, RefreshesHold, [GrantNext]_grantVars
    PROVE  EndedHold'
  <1> USE GrantAssumption
  <1>1. ASSUME NEW p \in Pages, NEW s \in ScopeSets, ShowPage(p, s)
        PROVE  EndedHold'
    BY <1>1 DEF ShowPage, ScopeSets, GrantTypeOK, ClaimsHold, ScopesHold, EndedHold, HasPage,
       HasCode, Spendable
  <1>2. ASSUME NEW a \in Approvals, NEW p \in Pages, ReadConsent(a, p)
        PROVE  EndedHold'
    BY <1>2 DEF ReadConsent, GrantTypeOK, ClaimsHold, ScopesHold, EndedHold, HasPage, HasCode,
       Spendable
  <1>3. ASSUME NEW a \in Approvals, ClaimConsent(a)
        PROVE  EndedHold'
    BY <1>3 DEF ClaimConsent, Claimable, GrantTypeOK, ClaimsHold, ScopesHold, EndedHold, HasPage,
       HasCode, Spendable
  <1>4. ASSUME NEW a \in Approvals, StoreCode(a)
        PROVE  EndedHold'
    BY <1>4 DEF StoreCode, GrantTypeOK, ClaimsHold, ScopesHold, EndedHold, HasPage, HasCode,
       Spendable
  <1>5. ASSUME NEW a \in Approvals, EndApproval(a)
        PROVE  EndedHold'
    BY <1>5 DEF EndApproval, GrantTypeOK, ClaimsHold, ScopesHold, EndedHold, HasPage, HasCode,
       Spendable
  <1>6. ASSUME NEW e \in Exchanges, NEW a \in Approvals, ReadCode(e, a)
        PROVE  EndedHold'
    BY <1>6 DEF ReadCode, GrantTypeOK, ClaimsHold, ScopesHold, EndedHold, HasPage, HasCode,
       Spendable
  <1>7. ASSUME NEW e \in Exchanges, ClaimCode(e)
        PROVE  EndedHold'
    BY <1>7 DEF ClaimCode, Claimable, GrantTypeOK, ClaimsHold, ScopesHold, EndedHold, HasPage,
       HasCode, Spendable
  <1>8. ASSUME NEW e \in Exchanges, CheckExchange(e)
        PROVE  EndedHold'
    BY <1>8 DEF CheckExchange, GrantTypeOK, ClaimsHold, ScopesHold, EndedHold, HasPage, HasCode,
       Spendable
  <1>9. ASSUME NEW e \in Exchanges, PersistGrant(e)
        PROVE  EndedHold'
    BY <1>9 DEF PersistGrant, GrantTypeOK, ClaimsHold, ScopesHold, EndedHold, HasPage, HasCode,
       Spendable
  <1>10. ASSUME NEW e \in Exchanges, EndExchange(e)
        PROVE  EndedHold'
    BY <1>10 DEF EndExchange, GrantTypeOK, ClaimsHold, ScopesHold, EndedHold, HasPage, HasCode,
       Spendable
  <1>11. ASSUME NEW f \in Refreshes, NEW e \in Exchanges, NEW s \in ScopeSets, NEW t \in 1..MaxTokens, ReadRefresh(f, e, t, s)
        PROVE  EndedHold'
    BY <1>11 DEF ReadRefresh, Tokens, GrantTypeOK, ClaimsHold, ScopesHold, EndedHold, HasPage,
       HasCode, Spendable
  <1>12. ASSUME NEW f \in Refreshes, CheckRefresh(f)
        PROVE  EndedHold'
    BY <1>12 DEF CheckRefresh, GrantTypeOK, ClaimsHold, ScopesHold, EndedHold, HasPage, HasCode,
       Spendable
  <1>13. ASSUME NEW f \in Refreshes, Rotate(f)
        PROVE  EndedHold'
    BY <1>13 DEF Rotate, InTransaction, Spent, Over, GrantTypeOK, ClaimsHold, ScopesHold,
       EndedHold, HasPage, HasCode, Spendable
  <1>14. ASSUME NEW f \in Refreshes, Replayed(f)
        PROVE  EndedHold'
    BY <1>14 DEF Replayed, InTransaction, Spent, Over, GrantTypeOK, ClaimsHold, ScopesHold,
       EndedHold, HasPage, HasCode, Spendable
  <1>15. ASSUME NEW f \in Refreshes, EndRefresh(f)
        PROVE  EndedHold'
    BY <1>15 DEF EndRefresh, Over, GrantTypeOK, ClaimsHold, ScopesHold, EndedHold, HasPage,
       HasCode, Spendable
  <1>16. ASSUME NEW e \in Exchanges, RevokeGrant(e)
        PROVE  EndedHold'
    BY <1>16 DEF RevokeGrant, GrantTypeOK, ClaimsHold, ScopesHold, EndedHold, HasPage, HasCode,
       Spendable
  <1>17. ASSUME NEW e \in Exchanges, ExpireGrant(e)
        PROVE  EndedHold'
    BY <1>17 DEF ExpireGrant, GrantTypeOK, ClaimsHold, ScopesHold, EndedHold, HasPage, HasCode,
       Spendable
  <1>18. ASSUME NEW p \in Pages, ExpirePage(p)
        PROVE  EndedHold'
    BY <1>18 DEF ExpirePage, Gone, GrantTypeOK, ClaimsHold, ScopesHold, EndedHold, HasPage,
       HasCode, Spendable
  <1>19. ASSUME NEW a \in Approvals, ExpireCode(a)
        PROVE  EndedHold'
    BY <1>19 DEF ExpireCode, Gone, GrantTypeOK, ClaimsHold, ScopesHold, EndedHold, HasPage,
       HasCode, Spendable
  <1>20. ASSUME RevokeUserGrants
        PROVE  EndedHold'
    BY <1>20, RevokeFacts, GrantAssumption DEF GrantTypeOK, ClaimsHold, EndedHold, HasPage,
       HasCode, Spendable
  <1>21. ASSUME NEW s \in ScopeSets, Allow(s)
        PROVE  EndedHold'
    BY <1>21 DEF Allow, GrantTypeOK, ClaimsHold, ScopesHold, EndedHold, HasPage, HasCode, Spendable
  <1>22. CASE UNCHANGED grantVars
    BY <1>22 DEF grantVars, GrantTypeOK, ClaimsHold, ScopesHold, EndedHold, HasPage, HasCode,
       Spendable
  <1> QED
    BY <1>1, <1>2, <1>3, <1>4, <1>5, <1>6, <1>7, <1>8, <1>9, <1>10, <1>11, <1>12, <1>13, <1>14,
       <1>15, <1>16, <1>17, <1>18, <1>19, <1>20, <1>21, <1>22
    DEF GrantNext, ConsentStep, ExchangeStep, RefreshStep, EndStep

\* A refresh is on a token that was issued.
LEMMA RefreshesKept ==
    ASSUME GrantTypeOK, ClaimsHold, RefreshesHold, [GrantNext]_grantVars
    PROVE  RefreshesHold'
  <1> USE GrantAssumption
  <1>1. ASSUME NEW p \in Pages, NEW s \in ScopeSets, ShowPage(p, s)
        PROVE  RefreshesHold'
    BY <1>1 DEF ShowPage, ScopeSets, GrantTypeOK, ClaimsHold, RefreshesHold, HasCode, Tokens,
       RefreshRecords
  <1>2. ASSUME NEW a \in Approvals, NEW p \in Pages, ReadConsent(a, p)
        PROVE  RefreshesHold'
    BY <1>2 DEF ReadConsent, GrantTypeOK, ClaimsHold, RefreshesHold, HasCode, Tokens, RefreshRecords
  <1>3. ASSUME NEW a \in Approvals, ClaimConsent(a)
        PROVE  RefreshesHold'
    BY <1>3 DEF ClaimConsent, Claimable, GrantTypeOK, ClaimsHold, RefreshesHold, HasCode, Tokens,
       RefreshRecords
  <1>4. ASSUME NEW a \in Approvals, StoreCode(a)
        PROVE  RefreshesHold'
    BY <1>4 DEF StoreCode, GrantTypeOK, ClaimsHold, RefreshesHold, HasCode, Tokens, RefreshRecords
  <1>5. ASSUME NEW a \in Approvals, EndApproval(a)
        PROVE  RefreshesHold'
    BY <1>5 DEF EndApproval, GrantTypeOK, ClaimsHold, RefreshesHold, HasCode, Tokens, RefreshRecords
  <1>6. ASSUME NEW e \in Exchanges, NEW a \in Approvals, ReadCode(e, a)
        PROVE  RefreshesHold'
    BY <1>6 DEF ReadCode, GrantTypeOK, ClaimsHold, RefreshesHold, HasCode, Tokens, RefreshRecords
  <1>7. ASSUME NEW e \in Exchanges, ClaimCode(e)
        PROVE  RefreshesHold'
    BY <1>7 DEF ClaimCode, Claimable, GrantTypeOK, ClaimsHold, RefreshesHold, HasCode, Tokens,
       RefreshRecords
  <1>8. ASSUME NEW e \in Exchanges, CheckExchange(e)
        PROVE  RefreshesHold'
    BY <1>8 DEF CheckExchange, GrantTypeOK, ClaimsHold, RefreshesHold, HasCode, Tokens,
       RefreshRecords
  <1>9. ASSUME NEW e \in Exchanges, PersistGrant(e)
        PROVE  RefreshesHold'
    BY <1>9 DEF PersistGrant, GrantTypeOK, ClaimsHold, RefreshesHold, HasCode, Tokens,
       RefreshRecords
  <1>10. ASSUME NEW e \in Exchanges, EndExchange(e)
        PROVE  RefreshesHold'
    BY <1>10 DEF EndExchange, GrantTypeOK, ClaimsHold, RefreshesHold, HasCode, Tokens,
       RefreshRecords
  <1>11. ASSUME NEW f \in Refreshes, NEW e \in Exchanges, NEW s \in ScopeSets, NEW t \in 1..MaxTokens, ReadRefresh(f, e, t, s)
        PROVE  RefreshesHold'
    BY <1>11 DEF ReadRefresh, Tokens, GrantTypeOK, ClaimsHold, RefreshesHold, HasCode,
       RefreshRecords
  <1>12. ASSUME NEW f \in Refreshes, CheckRefresh(f)
        PROVE  RefreshesHold'
    BY <1>12 DEF CheckRefresh, GrantTypeOK, ClaimsHold, RefreshesHold, HasCode, Tokens,
       RefreshRecords
  <1>13. ASSUME NEW f \in Refreshes, Rotate(f)
        PROVE  RefreshesHold'
    <2>1. \A e \in Exchanges : Tokens(e) \subseteq Tokens(e)'
      BY <1>13, RotateFacts DEF Tokens, Families
    <2>2. \A g \in Refreshes : refresh'[g].step # "none" => refresh'[g] = refresh[g]
      BY <1>13 DEF Rotate, Over, GrantTypeOK, RefreshRecords
    <2>3. \A e \in Exchanges : family'[e].spent \subseteq Tokens(e)'
      BY <1>13, <2>1, RotateFacts DEF RefreshesHold
    <2>4. \A e \in Exchanges : family'[e].state = "none" => family'[e].issued = 0
      BY <1>13, RotateFacts DEF RefreshesHold
    <2> QED
      BY <2>1, <2>2, <2>3, <2>4 DEF RefreshesHold
  <1>14. ASSUME NEW f \in Refreshes, Replayed(f)
        PROVE  RefreshesHold'
    BY <1>14 DEF Replayed, InTransaction, Spent, Over, GrantTypeOK, ClaimsHold, RefreshesHold,
       HasCode, Tokens, RefreshRecords
  <1>15. ASSUME NEW f \in Refreshes, EndRefresh(f)
        PROVE  RefreshesHold'
    BY <1>15 DEF EndRefresh, Over, GrantTypeOK, ClaimsHold, RefreshesHold, HasCode, Tokens,
       RefreshRecords
  <1>16. ASSUME NEW e \in Exchanges, RevokeGrant(e)
        PROVE  RefreshesHold'
    BY <1>16 DEF RevokeGrant, GrantTypeOK, ClaimsHold, RefreshesHold, HasCode, Tokens,
       RefreshRecords
  <1>17. ASSUME NEW e \in Exchanges, ExpireGrant(e)
        PROVE  RefreshesHold'
    BY <1>17 DEF ExpireGrant, GrantTypeOK, ClaimsHold, RefreshesHold, HasCode, Tokens,
       RefreshRecords
  <1>18. ASSUME NEW p \in Pages, ExpirePage(p)
        PROVE  RefreshesHold'
    BY <1>18 DEF ExpirePage, Gone, GrantTypeOK, ClaimsHold, RefreshesHold, HasCode, Tokens,
       RefreshRecords
  <1>19. ASSUME NEW a \in Approvals, ExpireCode(a)
        PROVE  RefreshesHold'
    BY <1>19 DEF ExpireCode, Gone, GrantTypeOK, ClaimsHold, RefreshesHold, HasCode, Tokens,
       RefreshRecords
  <1>20. ASSUME RevokeUserGrants
        PROVE  RefreshesHold'
    BY <1>20, RevokeFacts DEF RefreshesHold, Tokens
  <1>21. ASSUME NEW s \in ScopeSets, Allow(s)
        PROVE  RefreshesHold'
    BY <1>21 DEF Allow, GrantTypeOK, ClaimsHold, RefreshesHold, HasCode, Tokens, RefreshRecords
  <1>22. CASE UNCHANGED grantVars
    BY <1>22 DEF grantVars, GrantTypeOK, ClaimsHold, RefreshesHold, HasCode, Tokens, RefreshRecords
  <1> QED
    BY <1>1, <1>2, <1>3, <1>4, <1>5, <1>6, <1>7, <1>8, <1>9, <1>10, <1>11, <1>12, <1>13, <1>14,
       <1>15, <1>16, <1>17, <1>18, <1>19, <1>20, <1>21, <1>22
    DEF GrantNext, ConsentStep, ExchangeStep, RefreshStep, EndStep

\* One refresh token of a live grant is good.
LEMMA TokensKept ==
    ASSUME GrantTypeOK, ClaimsHold, RefreshesHold, OneLiveRefresh, [GrantNext]_grantVars
    PROVE  OneLiveRefresh'
  <1> USE GrantAssumption
  <1>1. ASSUME NEW p \in Pages, NEW s \in ScopeSets, ShowPage(p, s)
        PROVE  OneLiveRefresh'
    BY <1>1 DEF ShowPage, ScopeSets, GrantTypeOK, ClaimsHold, RefreshesHold, OneLiveRefresh, Tokens
  <1>2. ASSUME NEW a \in Approvals, NEW p \in Pages, ReadConsent(a, p)
        PROVE  OneLiveRefresh'
    BY <1>2 DEF ReadConsent, GrantTypeOK, ClaimsHold, RefreshesHold, OneLiveRefresh, Tokens
  <1>3. ASSUME NEW a \in Approvals, ClaimConsent(a)
        PROVE  OneLiveRefresh'
    BY <1>3 DEF ClaimConsent, Claimable, GrantTypeOK, ClaimsHold, RefreshesHold, OneLiveRefresh,
       Tokens
  <1>4. ASSUME NEW a \in Approvals, StoreCode(a)
        PROVE  OneLiveRefresh'
    BY <1>4 DEF StoreCode, GrantTypeOK, ClaimsHold, RefreshesHold, OneLiveRefresh, Tokens
  <1>5. ASSUME NEW a \in Approvals, EndApproval(a)
        PROVE  OneLiveRefresh'
    BY <1>5 DEF EndApproval, GrantTypeOK, ClaimsHold, RefreshesHold, OneLiveRefresh, Tokens
  <1>6. ASSUME NEW e \in Exchanges, NEW a \in Approvals, ReadCode(e, a)
        PROVE  OneLiveRefresh'
    BY <1>6 DEF ReadCode, GrantTypeOK, ClaimsHold, RefreshesHold, OneLiveRefresh, Tokens
  <1>7. ASSUME NEW e \in Exchanges, ClaimCode(e)
        PROVE  OneLiveRefresh'
    BY <1>7 DEF ClaimCode, Claimable, GrantTypeOK, ClaimsHold, RefreshesHold, OneLiveRefresh, Tokens
  <1>8. ASSUME NEW e \in Exchanges, CheckExchange(e)
        PROVE  OneLiveRefresh'
    BY <1>8 DEF CheckExchange, GrantTypeOK, ClaimsHold, RefreshesHold, OneLiveRefresh, Tokens
  <1>9. ASSUME NEW e \in Exchanges, PersistGrant(e)
        PROVE  OneLiveRefresh'
    BY <1>9 DEF PersistGrant, GrantTypeOK, ClaimsHold, RefreshesHold, OneLiveRefresh, Tokens
  <1>10. ASSUME NEW e \in Exchanges, EndExchange(e)
        PROVE  OneLiveRefresh'
    BY <1>10 DEF EndExchange, GrantTypeOK, ClaimsHold, RefreshesHold, OneLiveRefresh, Tokens
  <1>11. ASSUME NEW f \in Refreshes, NEW e \in Exchanges, NEW s \in ScopeSets, NEW t \in 1..MaxTokens, ReadRefresh(f, e, t, s)
        PROVE  OneLiveRefresh'
    BY <1>11 DEF ReadRefresh, Tokens, GrantTypeOK, ClaimsHold, RefreshesHold, OneLiveRefresh
  <1>12. ASSUME NEW f \in Refreshes, CheckRefresh(f)
        PROVE  OneLiveRefresh'
    BY <1>12 DEF CheckRefresh, GrantTypeOK, ClaimsHold, RefreshesHold, OneLiveRefresh, Tokens
  <1>13. ASSUME NEW f \in Refreshes, Rotate(f)
        PROVE  OneLiveRefresh'
    <2>1. PICK e : e = refresh[f].family
      OBVIOUS
    <2>2. Tokens(e) \ family[e].spent = {family[e].issued} /\ e \in Exchanges
      BY <1>13, <2>1, RotateFacts DEF OneLiveRefresh
    <2>3. refresh[f].token = family[e].issued /\ family[e].issued \in Nat
      BY <1>13, <2>1, <2>2, RotateFacts DEF Families
    <2>4. Tokens(e)' = Tokens(e) \cup {family[e].issued + 1}
      BY <1>13, <2>1, <2>3, RotateFacts DEF Tokens
    <2>5. Tokens(e)' \ family'[e].spent = {family'[e].issued}
      <3>1. family[e].issued + 1 \notin family[e].spent \cup {family[e].issued}
        BY <2>2, <2>3 DEF RefreshesHold, Tokens
      <3> QED
        BY <1>13, <2>1, <2>2, <2>3, <2>4, <3>1, RotateFacts
    <2> QED
      BY <1>13, <2>1, <2>5, RotateFacts DEF OneLiveRefresh, Tokens
  <1>14. ASSUME NEW f \in Refreshes, Replayed(f)
        PROVE  OneLiveRefresh'
    BY <1>14 DEF Replayed, InTransaction, Spent, Over, GrantTypeOK, ClaimsHold, RefreshesHold,
       OneLiveRefresh, Tokens
  <1>15. ASSUME NEW f \in Refreshes, EndRefresh(f)
        PROVE  OneLiveRefresh'
    BY <1>15 DEF EndRefresh, Over, GrantTypeOK, ClaimsHold, RefreshesHold, OneLiveRefresh, Tokens
  <1>16. ASSUME NEW e \in Exchanges, RevokeGrant(e)
        PROVE  OneLiveRefresh'
    BY <1>16 DEF RevokeGrant, GrantTypeOK, ClaimsHold, RefreshesHold, OneLiveRefresh, Tokens
  <1>17. ASSUME NEW e \in Exchanges, ExpireGrant(e)
        PROVE  OneLiveRefresh'
    BY <1>17 DEF ExpireGrant, GrantTypeOK, ClaimsHold, RefreshesHold, OneLiveRefresh, Tokens
  <1>18. ASSUME NEW p \in Pages, ExpirePage(p)
        PROVE  OneLiveRefresh'
    BY <1>18 DEF ExpirePage, Gone, GrantTypeOK, ClaimsHold, RefreshesHold, OneLiveRefresh, Tokens
  <1>19. ASSUME NEW a \in Approvals, ExpireCode(a)
        PROVE  OneLiveRefresh'
    BY <1>19 DEF ExpireCode, Gone, GrantTypeOK, ClaimsHold, RefreshesHold, OneLiveRefresh, Tokens
  <1>20. ASSUME RevokeUserGrants
        PROVE  OneLiveRefresh'
    BY <1>20, RevokeFacts DEF OneLiveRefresh, Tokens
  <1>21. ASSUME NEW s \in ScopeSets, Allow(s)
        PROVE  OneLiveRefresh'
    BY <1>21 DEF Allow, GrantTypeOK, ClaimsHold, RefreshesHold, OneLiveRefresh, Tokens
  <1>22. CASE UNCHANGED grantVars
    BY <1>22 DEF grantVars, GrantTypeOK, ClaimsHold, RefreshesHold, OneLiveRefresh, Tokens
  <1> QED
    BY <1>1, <1>2, <1>3, <1>4, <1>5, <1>6, <1>7, <1>8, <1>9, <1>10, <1>11, <1>12, <1>13, <1>14,
       <1>15, <1>16, <1>17, <1>18, <1>19, <1>20, <1>21, <1>22
    DEF GrantNext, ConsentStep, ExchangeStep, RefreshStep, EndStep

-----------------------------------------------------------------------------
(* The theorems. *)

\* Claims of different requests are claims of different rows.
LEMMA ClaimsGiveOne ==
    ASSUME ClaimsHold
    PROVE  OneGrantPerConsent
  <1> SUFFICES ASSUME NEW e \in Exchanges, NEW d \in Exchanges, e # d,
                      family[e].state # "none", family[d].state # "none"
               PROVE  PageOf(e) # PageOf(d)
    BY DEF OneGrantPerConsent
  <1>1. /\ exchange[e].approval \in Approvals /\ exchange[d].approval \in Approvals
        /\ exchange[e].approval # exchange[d].approval
    BY DEF ClaimsHold, HasCode
  <1>2. HasPage(exchange[e].approval) /\ HasPage(exchange[d].approval)
    BY DEF ClaimsHold, HasPage
  <1> QED
    BY <1>1, <1>2 DEF ClaimsHold, PageOf

\* The invariant holds at first.
LEMMA GrantsBegin ==
    GrantInit => GrantInv
  BY GrantAssumption DEF GrantInit, GrantInv, GrantTypeOK, ClaimsHold, ScopesHold, EndedHold,
     RefreshesHold, OneGrantPerConsent, OneLiveRefresh, HasPage, HasCode, Tokens, StoredRows,
     RowStates, ScopeSets, ApprovalRecords, ExchangeRecords, Families, RefreshRecords

\* Every step keeps it.
LEMMA GrantsGoOn ==
    GrantInv /\ [GrantNext]_grantVars => GrantInv'
  <1> SUFFICES ASSUME GrantInv, [GrantNext]_grantVars PROVE GrantInv'
    OBVIOUS
  <1>1. ClaimsHold'
    BY ClaimsKept DEF GrantInv
  <1>2. OneGrantPerConsent'
    BY <1>1, ClaimsGiveOne, PTL
  <1> QED
    BY <1>1, <1>2, TypeKept, ScopesKept, EndedKept, RefreshesKept, TokensKept DEF GrantInv

\* The inductive invariant of the connector's grants.
THEOREM GrantInvariant == GrantSpec => []GrantInv
  BY GrantsBegin, GrantsGoOn, PTL DEF GrantSpec

\* A consent makes at most one grant, however often it is sent in.
THEOREM ConsentsGrantOnce == GrantSpec => []OneGrantPerConsent
  <1>1. GrantInv => OneGrantPerConsent
    BY DEF GrantInv
  <1> QED
    BY <1>1, GrantInvariant, PTL

\* A live grant has one good refresh token, however refreshes meet.
THEOREM RefreshesLeaveOne == GrantSpec => []OneLiveRefresh
  <1>1. GrantInv => OneLiveRefresh
    BY DEF GrantInv
  <1> QED
    BY <1>1, GrantInvariant, PTL

\* Only two steps store the scopes of a grant, and both narrow them.
THEOREM ScopesNeverGrow == GrantSpec => ScopesOnlyShrink
  <1> DEFINE Narrows == \A e \in Exchanges :
                 family'[e].state # "none" =>
                     family'[e].scopes \subseteq
                         IF family[e].state = "none" THEN page[PageOf(e)].scopes
                                                     ELSE family[e].scopes
  <1>1. GrantInv /\ [GrantNext]_grantVars => Narrows
    <2> SUFFICES ASSUME GrantInv, [GrantNext]_grantVars PROVE Narrows
      OBVIOUS
    <2>1. ASSUME NEW f \in Refreshes, Rotate(f) PROVE Narrows
      BY <2>1, RotateFacts DEF GrantInv
    <2>2. ASSUME NEW e \in Exchanges, PersistGrant(e) PROVE Narrows
      <3>1. exchange[e].scopes \subseteq page[PageOf(e)].scopes /\ family[e].state = "none"
        BY <2>2 DEF PersistGrant, GrantInv, ClaimsHold, ScopesHold, PageOf
      <3>2. \A d \in Exchanges : family'[d] = IF d = e THEN [state |-> "live",
                scopes |-> exchange[e].scopes, issued |-> 1, spent |-> {}] ELSE family[d]
        BY <2>2 DEF PersistGrant, GrantInv, GrantTypeOK
      <3>3. \A d \in Exchanges : d # e /\ family[d].state # "none" => family'[d].scopes \subseteq family[d].scopes
        BY <3>2
      <3>4. family'[e].scopes \subseteq page[PageOf(e)].scopes
        BY <3>1, <3>2
      <3> QED
        BY <3>1, <3>2, <3>3, <3>4
    <2>3. ASSUME NEW f \in Refreshes, Replayed(f) PROVE Narrows
      BY <2>3 DEF Replayed, InTransaction, GrantInv, GrantTypeOK, Families
    <2>4. ASSUME NEW e \in Exchanges, RevokeGrant(e) \/ ExpireGrant(e) PROVE Narrows
      BY <2>4 DEF RevokeGrant, ExpireGrant, GrantInv, GrantTypeOK, Families
    <2>5. ASSUME RevokeUserGrants PROVE Narrows
      BY <2>5, RevokeFacts DEF GrantInv
    <2>6. ASSUME UNCHANGED family PROVE Narrows
      BY <2>6
    <2> HIDE DEF Narrows
    <2> QED
      BY <2>1, <2>2, <2>3, <2>4, <2>5, <2>6
      DEF GrantNext, ConsentStep, ExchangeStep, RefreshStep, EndStep, grantVars, ShowPage,
          ReadConsent, ClaimConsent, StoreCode, EndApproval, ReadCode, ClaimCode, CheckExchange,
          EndExchange, ReadRefresh, CheckRefresh, EndRefresh, ExpirePage, ExpireCode, Allow
  <1> QED
    BY <1>1, GrantInvariant, PTL DEF GrantSpec, ScopesOnlyShrink

\* What was revoked, expired or ended unclaimed yields nothing any more.
THEOREM EndsAreFinal == GrantSpec => EndedForGood
  <1> DEFINE Stays == \A e \in Exchanges : Ended(e) =>
                 family'[e].state # "live" /\ family'[e].issued = family[e].issued
  <1>1. GrantInv /\ [GrantNext]_grantVars => Stays
    <2> SUFFICES ASSUME GrantInv, [GrantNext]_grantVars PROVE Stays
      OBVIOUS
    <2>1. ASSUME NEW f \in Refreshes, Rotate(f) PROVE Stays
      BY <2>1, RotateFacts DEF GrantInv, Ended, RefreshesHold
    <2>2. ASSUME NEW e \in Exchanges, PersistGrant(e) PROVE Stays
      <3>1. family[e].state = "none" /\ HasCode(e) /\ HasPage(exchange[e].approval)
            /\ exchange[e].approval \in Approvals
        BY <2>2 DEF PersistGrant, GrantInv, ClaimsHold, HasCode, HasPage
      <3>2. ~Ended(e)
        BY <3>1 DEF Ended, PageOf, GrantInv, EndedHold
      <3>3. \A d \in Exchanges : d # e => family'[d] = family[d]
        BY <2>2 DEF PersistGrant, GrantInv, GrantTypeOK
      <3> QED
        BY <3>2, <3>3 DEF Ended
    <2>3. ASSUME NEW f \in Refreshes, Replayed(f) PROVE Stays
      BY <2>3 DEF Replayed, InTransaction, Ended, GrantInv, GrantTypeOK, Families
    <2>4. ASSUME NEW e \in Exchanges, RevokeGrant(e) \/ ExpireGrant(e) PROVE Stays
      BY <2>4 DEF RevokeGrant, ExpireGrant, Ended, GrantInv, GrantTypeOK, Families
    <2>5. ASSUME RevokeUserGrants PROVE Stays
      BY <2>5, RevokeFacts DEF GrantInv, Ended
    <2>6. ASSUME UNCHANGED family PROVE Stays
      BY <2>6 DEF Ended
    <2> HIDE DEF Stays
    <2> QED
      BY <2>1, <2>2, <2>3, <2>4, <2>5, <2>6
      DEF GrantNext, ConsentStep, ExchangeStep, RefreshStep, EndStep, grantVars, ShowPage,
          ReadConsent, ClaimConsent, StoreCode, EndApproval, ReadCode, ClaimCode, CheckExchange,
          EndExchange, ReadRefresh, CheckRefresh, EndRefresh, ExpirePage, ExpireCode, Allow
  <1> QED
    BY <1>1, GrantInvariant, PTL DEF GrantSpec, EndedForGood
=============================================================================
