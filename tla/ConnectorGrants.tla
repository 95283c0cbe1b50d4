--------------------------- MODULE ConnectorGrants ---------------------------
(***************************************************************************)
(* How one account's connector gets and keeps a grant: the consent page    *)
(* and the code it is traded for (src/app_mcp_oauth.go), the grant, its    *)
(* refresh tokens and their revocation (src/app_mcp_grants.go,             *)
(* src/app_mcp_oauth_http.go).                                             *)
(*                                                                         *)
(* No transaction is open while a request works out what the account may   *)
(* do, so each request is several steps: it reads, claims by one           *)
(* conditional write, works out the scopes and stores. A form may be sent  *)
(* twice and a lost answer makes a client ask again. A request may end     *)
(* anywhere: refused, denied, timed out, or with the process.              *)
(***************************************************************************)
EXTENDS Naturals

CONSTANTS
    Pages,           \* consent pages shown,
    Approvals,       \*   times one is sent in,
    Exchanges,       \*   times a code is presented
    Refreshes,       \*   and refreshes under way
    Scopes,
    NoOne,
    MaxTokens        \* bound: the refresh tokens of a grant

ASSUME GrantAssumption ==
    /\ NoOne \notin Pages \cup Approvals \cup Exchanges /\ Pages \cap Approvals = {}
    /\ MaxTokens \in Nat

VARIABLES
    page, code,      \* _benmore_mcp_authorizations: a row per page and per approval
    approval,        \* what an approval has done so far, and its page
    exchange,        \* what an exchange has done so far, its approval and scopes
    family,          \* _benmore_mcp_grants with _benmore_mcp_credentials, per exchange
    refresh,         \* what a refresh has done so far, on which token
    allowed,         \* the scopes the account's role and the manifest allow now
    ended            \* history: pages and codes unclaimed as the account's grants were ended

grantVars == <<page, code, approval, exchange, family, refresh, allowed, ended>>

ScopeSets == SUBSET Scopes

RowStates == {"none", "open", "used", "gone"}

StoredRows == [state : RowStates, scopes : ScopeSets]

ApprovalRecords == [step : {"none", "read", "claimed", "over"}, page : Pages \cup {NoOne}]

ExchangeRecords == [step : {"none", "read", "claimed", "checked", "over"},
                    approval : Approvals \cup {NoOne}, scopes : ScopeSets]

Families == [state : {"none", "live", "revoked", "expired"}, scopes : ScopeSets,
             issued : Nat, spent : SUBSET Nat]

RefreshRecords == [step : {"none", "read", "checked"}, family : Exchanges \cup {NoOne},
                   token : Nat, scopes : ScopeSets]

GrantTypeOK ==
    /\ page \in [Pages -> StoredRows] /\ code \in [Approvals -> StoredRows]
    /\ approval \in [Approvals -> ApprovalRecords]
    /\ exchange \in [Exchanges -> ExchangeRecords]
    /\ family \in [Exchanges -> Families]
    /\ refresh \in [Refreshes -> RefreshRecords]
    /\ allowed \in ScopeSets
    /\ ended \subseteq Pages \cup Approvals

GrantInit ==
    /\ page = [p \in Pages |-> [state |-> "none", scopes |-> {}]]
    /\ code = [a \in Approvals |-> [state |-> "none", scopes |-> {}]]
    /\ approval = [a \in Approvals |-> [step |-> "none", page |-> NoOne]]
    /\ exchange = [e \in Exchanges |-> [step |-> "none", approval |-> NoOne, scopes |-> {}]]
    /\ family = [e \in Exchanges |-> [state |-> "none", scopes |-> {}, issued |-> 0, spent |-> {}]]
    /\ refresh = [f \in Refreshes |-> [step |-> "none", family |-> NoOne, token |-> 0,
                                       scopes |-> {}]]
    /\ allowed = Scopes /\ ended = {}

-----------------------------------------------------------------------------
(* From the consent page to a code. *)

\* prepareAppMCPOAuthConsent shows what is asked for, cut down to what the
\* account may do.
ShowPage(p, wanted) ==
    /\ page[p].state = "none" /\ wanted \cap allowed # {}
    /\ page' = [page EXCEPT ![p] = [state |-> "open", scopes |-> wanted \cap allowed]]
    /\ UNCHANGED <<code, approval, exchange, family, refresh, allowed, ended>>

\* readAppMCPOAuthAuthorization and the account's own scopes, still the same.
ReadConsent(a, p) ==
    /\ approval[a].step = "none" /\ page[p].state = "open" /\ page[p].scopes \subseteq allowed
    /\ approval' = [approval EXCEPT ![a] = [step |-> "read", page |-> p]]
    /\ UNCHANGED <<page, code, exchange, family, refresh, allowed, ended>>

\* Variant: without used=0.
ClaimableAgain(row) == row.state # "gone"

\* claimAppMCPOAuthAuthorization: UPDATE ... SET used=1 WHERE ... used=0.
Claimable(row) == row.state = "open"

ClaimConsent(a) ==
    /\ approval[a].step = "read" /\ Claimable(page[approval[a].page])
    /\ page' = [page EXCEPT ![approval[a].page].state = "used"]
    /\ approval' = [approval EXCEPT ![a].step = "claimed"]
    /\ UNCHANGED <<code, exchange, family, refresh, allowed, ended>>

\* A denial claims the consent as well and ends there.
StoreCode(a) ==
    /\ approval[a].step = "claimed"
    /\ code' = [code EXCEPT ![a] = [state |-> "open", scopes |-> page[approval[a].page].scopes]]
    /\ approval' = [approval EXCEPT ![a].step = "over"]
    /\ UNCHANGED <<page, exchange, family, refresh, allowed, ended>>

EndApproval(a) ==
    /\ approval[a].step \in {"read", "claimed"}
    /\ approval' = [approval EXCEPT ![a].step = "over"]
    /\ UNCHANGED <<page, code, exchange, family, refresh, allowed, ended>>

-----------------------------------------------------------------------------
(* From the code to a grant. *)

ReadCode(e, a) ==
    /\ exchange[e].step = "none" /\ code[a].state = "open"
    /\ exchange' = [exchange EXCEPT ![e].step = "read", ![e].approval = a]
    /\ UNCHANGED <<page, code, approval, family, refresh, allowed, ended>>

\* Burned before it is checked.
ClaimCode(e) ==
    /\ exchange[e].step = "read" /\ Claimable(code[exchange[e].approval])
    /\ code' = [code EXCEPT ![exchange[e].approval].state = "used"]
    /\ exchange' = [exchange EXCEPT ![e].step = "claimed"]
    /\ UNCHANGED <<page, approval, family, refresh, allowed, ended>>

\* appMCPGrantActorForGenerationScopes, before the transaction.
CheckExchange(e) ==
    /\ exchange[e].step = "claimed"
    /\ LET scopes == code[exchange[e].approval].scopes \cap allowed IN
       /\ scopes # {}
       /\ exchange' = [exchange EXCEPT ![e].step = "checked", ![e].scopes = scopes]
    /\ UNCHANGED <<page, code, approval, family, refresh, allowed, ended>>

\* persistAppMCPGrant: the grant and its first pair in one transaction.
PersistGrant(e) ==
    /\ exchange[e].step = "checked"
    /\ family' = [family EXCEPT ![e] = [state |-> "live", scopes |-> exchange[e].scopes,
                                        issued |-> 1, spent |-> {}]]
    /\ exchange' = [exchange EXCEPT ![e].step = "over"]
    /\ UNCHANGED <<page, code, approval, refresh, allowed, ended>>

EndExchange(e) ==
    /\ exchange[e].step \in {"read", "claimed", "checked"}
    /\ exchange' = [exchange EXCEPT ![e].step = "over"]
    /\ UNCHANGED <<page, code, approval, family, refresh, allowed, ended>>

-----------------------------------------------------------------------------
(* Refresh. *)

Tokens(e) == 1..family[e].issued

\* The token need not be unspent, nor its grant unrevoked. A client may ask for
\* part of the scopes; asking for more lets the request do nothing but find the
\* token spent.
ReadRefresh(f, e, t, wanted) ==
    /\ refresh[f].step = "none"
    /\ t \in Tokens(e) /\ family[e].state # "expired"
    /\ refresh' = [refresh EXCEPT ![f] =
          [step |-> "read", family |-> e, token |-> t,
           scopes |-> IF wanted \subseteq family[e].scopes THEN wanted ELSE {}]]
    /\ UNCHANGED <<page, code, approval, exchange, family, allowed, ended>>

CheckRefresh(f) ==
    /\ refresh[f].step = "read"
    /\ refresh' = [refresh EXCEPT ![f].step = "checked", ![f].scopes = @ \cap allowed]
    /\ UNCHANGED <<page, code, approval, exchange, family, allowed, ended>>

\* The transaction reads the grant again.
InTransaction(f) ==
    refresh[f].step = "checked" /\ family[refresh[f].family].state = "live"

\* Variant: no token is ever found spent.
NeverSpent(f) == FALSE

Spent(f) == refresh[f].token \in family[refresh[f].family].spent

Over(f) == refresh' = [refresh EXCEPT ![f].step = "none"]

\* UPDATE ... SET used=1 WHERE ... used=0, the narrowed scopes and the next
\* pair, or nothing of it.
Rotate(f) ==
    /\ InTransaction(f) /\ ~Spent(f)
    /\ LET e == refresh[f].family
           scopes == family[e].scopes \cap refresh[f].scopes
       IN  /\ scopes # {} /\ family[e].issued < MaxTokens
           /\ family' = [family EXCEPT ![e].scopes = scopes, ![e].issued = @ + 1,
                                       ![e].spent = @ \cup {refresh[f].token}]
    /\ Over(f)
    /\ UNCHANGED <<page, code, approval, exchange, allowed, ended>>

\* A spent token ends the whole family, whatever else is wrong with the request.
Replayed(f) ==
    /\ InTransaction(f) /\ Spent(f)
    /\ family' = [family EXCEPT ![refresh[f].family].state = "revoked"]
    /\ Over(f)
    /\ UNCHANGED <<page, code, approval, exchange, allowed, ended>>

EndRefresh(f) ==
    /\ refresh[f].step # "none" /\ Over(f)
    /\ UNCHANGED <<page, code, approval, exchange, family, allowed, ended>>

-----------------------------------------------------------------------------
(* What ends rows and grants, and what an account may do. *)

\* The revocation endpoint.
RevokeGrant(e) ==
    /\ family[e].state = "live"
    /\ family' = [family EXCEPT ![e].state = "revoked"]
    /\ UNCHANGED <<page, code, approval, exchange, refresh, allowed, ended>>

Gone(rows, which) == [x \in DOMAIN rows |-> IF x \in which THEN [rows[x] EXCEPT !.state = "gone"]
                                                           ELSE rows[x]]

\* revokeAppMCPUserGrants, in the transaction that replaces the password.
RevokeUserGrants ==
    /\ family' = [e \in Exchanges |->
          [family[e] EXCEPT !.state = IF @ = "live" THEN "revoked" ELSE @]]
    /\ page' = Gone(page, {p \in Pages : page[p].state # "none"})
    /\ code' = Gone(code, {a \in Approvals : code[a].state # "none"})
    /\ ended' = ended \cup {p \in Pages : Claimable(page[p])}
                      \cup {a \in Approvals : Claimable(code[a])}
    /\ UNCHANGED <<approval, exchange, refresh, allowed>>

ExpirePage(p) ==
    /\ page[p].state \in {"open", "used"} /\ page' = Gone(page, {p})
    /\ UNCHANGED <<code, approval, exchange, family, refresh, allowed, ended>>

ExpireCode(a) ==
    /\ code[a].state \in {"open", "used"} /\ code' = Gone(code, {a})
    /\ UNCHANGED <<page, approval, exchange, family, refresh, allowed, ended>>

ExpireGrant(e) ==
    /\ family[e].state \in {"live", "revoked"}
    /\ family' = [family EXCEPT ![e].state = "expired"]
    /\ UNCHANGED <<page, code, approval, exchange, refresh, allowed, ended>>

\* A role, a membership or the manifest changes.
Allow(scopes) ==
    /\ scopes # allowed /\ allowed' = scopes
    /\ UNCHANGED <<page, code, approval, exchange, family, refresh, ended>>

-----------------------------------------------------------------------------
ConsentStep ==
    \/ \E p \in Pages, s \in ScopeSets : ShowPage(p, s)
    \/ \E a \in Approvals :
          \/ \E p \in Pages : ReadConsent(a, p)
          \/ ClaimConsent(a) \/ StoreCode(a) \/ EndApproval(a)
ExchangeStep == \E e \in Exchanges :
    \/ \E a \in Approvals : ReadCode(e, a)
    \/ ClaimCode(e) \/ CheckExchange(e) \/ PersistGrant(e) \/ EndExchange(e)
RefreshStep == \E f \in Refreshes :
    \/ \E e \in Exchanges, s \in ScopeSets, t \in 1..MaxTokens : ReadRefresh(f, e, t, s)
    \/ CheckRefresh(f) \/ Rotate(f) \/ Replayed(f) \/ EndRefresh(f)
EndStep ==
    \/ \E e \in Exchanges : RevokeGrant(e) \/ ExpireGrant(e)
    \/ \E p \in Pages : ExpirePage(p)
    \/ \E a \in Approvals : ExpireCode(a)
    \/ RevokeUserGrants
    \/ \E s \in ScopeSets : Allow(s)

GrantNext == ConsentStep \/ ExchangeStep \/ RefreshStep \/ EndStep

GrantSpec == GrantInit /\ [][GrantNext]_grantVars

-----------------------------------------------------------------------------
(* Properties. *)

\* The page an exchange's code goes back to.
PageOf(e) == approval[exchange[e].approval].page

\* However often a page is sent in and a code presented, at once or again, one
\* consent makes at most one grant.
OneGrantPerConsent ==
    \A e, d \in Exchanges :
        e # d /\ family[e].state # "none" /\ family[d].state # "none" => PageOf(e) # PageOf(d)

\* However refreshes meet, a grant has one token that has not been used, and
\* that is the last one issued: two answers never both stay good.
OneLiveRefresh ==
    \A e \in Exchanges : family[e].state = "live" => Tokens(e) \ family[e].spent = {family[e].issued}

\* The scopes of a grant are some of those the user saw, and only ever fewer,
\* although they are worked out before the transactions that store them.
ScopesOnlyShrink ==
    [][\A e \in Exchanges :
          family'[e].state # "none" =>
              family'[e].scopes \subseteq
                  IF family[e].state = "none" THEN page[PageOf(e)].scopes ELSE family[e].scopes
      ]_grantVars

Ended(e) ==
    \/ family[e].state \in {"revoked", "expired"}
    \/ /\ family[e].state = "none" /\ exchange[e].step # "none"
       /\ {exchange[e].approval, PageOf(e)} \cap ended # {}

\* Ended is ended: a revoked or expired grant issues nothing more and does not
\* come back, and a page or code unclaimed as the account's grants were ended
\* never becomes one.
EndedForGood ==
    [][\A e \in Exchanges : Ended(e) =>
          family'[e].state # "live" /\ family'[e].issued = family[e].issued]_grantVars

-----------------------------------------------------------------------------
(* What the proofs need besides. *)

\* An approval that has claimed its page, and an exchange that has claimed its
\* code: no other one has, and the row cannot be claimed again.
HasPage(a) == approval[a].step = "claimed" \/ code[a].state # "none"
HasCode(e) == exchange[e].step \in {"claimed", "checked"} \/ family[e].state # "none"

Spendable(row) == row.state \in {"used", "gone"}

ClaimsHold ==
    /\ \A a \in Approvals : approval[a].step # "none" => approval[a].page \in Pages
    /\ \A e \in Exchanges : exchange[e].step # "none" => exchange[e].approval \in Approvals
    /\ \A a \in Approvals : HasPage(a) => approval[a].step \in {"claimed", "over"}
                                          /\ Spendable(page[approval[a].page])
    /\ \A e \in Exchanges : HasCode(e) => exchange[e].step # "none"
                                          /\ Spendable(code[exchange[e].approval])
    /\ \A a, b \in Approvals : a # b /\ HasPage(a) /\ HasPage(b) => approval[a].page # approval[b].page
    /\ \A e, d \in Exchanges :
          e # d /\ HasCode(e) /\ HasCode(d) => exchange[e].approval # exchange[d].approval
    /\ \A a \in Approvals : approval[a].step = "claimed" => code[a].state = "none"
    /\ \A a \in Approvals : code[a].state # "none" => approval[a].step = "over"
    /\ \A e \in Exchanges : exchange[e].step # "none" => code[exchange[e].approval].state # "none"
    /\ \A e \in Exchanges : family[e].state # "none" => exchange[e].step = "over"

\* Only tokens that were issued are spent or presented.
RefreshesHold ==
    /\ \A f \in Refreshes : refresh[f].step # "none" =>
          refresh[f].family \in Exchanges /\ refresh[f].token \in Tokens(refresh[f].family)
    /\ \A e \in Exchanges : family[e].spent \subseteq Tokens(e)
    /\ \A e \in Exchanges : family[e].state = "none" => family[e].issued = 0

ScopesHold ==
    /\ \A a \in Approvals : code[a].state # "none" => code[a].scopes = page[approval[a].page].scopes
    /\ \A a \in Approvals : approval[a].step # "none" => page[approval[a].page].state # "none"
    /\ \A e \in Exchanges : exchange[e].step = "checked" =>
          exchange[e].scopes \subseteq code[exchange[e].approval].scopes

\* What was ended unclaimed is gone and was claimed by nobody.
EndedHold ==
    /\ \A p \in Pages \cap ended : page[p].state = "gone"
    /\ \A a \in Approvals \cap ended : code[a].state = "gone"
    /\ \A a \in Approvals : approval[a].page \in ended => ~HasPage(a)
    /\ \A e \in Exchanges : exchange[e].approval \in ended => ~HasCode(e)

GrantInv ==
    /\ GrantTypeOK /\ ClaimsHold /\ ScopesHold /\ EndedHold /\ RefreshesHold
    /\ OneGrantPerConsent /\ OneLiveRefresh
=============================================================================
