--------------------------- MODULE MCRecordEditing ---------------------------
(***************************************************************************)
(* Instances of RecordEditing for TLC.                                     *)
(***************************************************************************)
EXTENDS RecordEditing, TLC

CONSTANTS u1, u2, r1, r2

\* Each user has a request in flight.
MCUserOf == [p \in Requests |-> IF p = r1 THEN u1 ELSE u2]

\* draft -> review -> approved, back to draft, and a review that times out.
MCStates == {"draft", "review", "approved"}
MCMoves == {<<"draft", "review">>, <<"review", "approved">>, <<"review", "draft">>,
            <<"approved", "draft">>}
MCTimeoutTo == "review" :> "draft"

\* Requests are interchangeable together with their users, and checkers are.
RequestSwaps ==
    {f \in Permutations(Requests \cup Users) :
        \A p \in Requests : f[p] \in Requests /\ f[UserOf[p]] = UserOf[f[p]]}

EditSymmetry == {f @@ g : f \in RequestSwaps, g \in Permutations(Checkers)}

\* What a request or a checker computed for a statement it has passed is never
\* read again, a token that is no longer current stays so, and the invariants
\* read only the difference of moved and hooked.
TokenView(p) ==
    IF token[p] = NoToken THEN <<"none">>
    ELSE IF token[p] = version THEN <<"current", seen[p] = content>>
    ELSE <<"stale", token[p] < version>>

RecordView ==
    <<clock, back, lock, until, version, content, wstate, request, checker,
      moved - hooked, [p \in Requests |-> TokenView(p)],
      [p \in Requests |->
         IF request[p] \in {"purge", "look", "insert", "extend"} THEN expiry[p] ELSE 0],
      [p \in Requests |-> IF request[p] = "transition" THEN <<from[p], to[p]>> ELSE <<>>],
      [c \in Checkers |-> IF checker[c] = "apply" THEN aged[c] ELSE Initial]>>
=============================================================================
