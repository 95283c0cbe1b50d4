---------------------- MODULE ConnectorAuthority_proofs ----------------------
(***************************************************************************)
(* Whatever the owner's switches, the loads and the restores do, and in    *)
(* whatever order, approved writes are on only under the owner's standing  *)
(* word, and nothing prepared under an earlier word lands.                 *)
(***************************************************************************)
EXTENDS ConnectorAuthority, TLAPS

-----------------------------------------------------------------------------
(* The fields the operators on the owner file set and leave. *)

\* The fields of an owner file have their types.
LEMMA OwnerFields ==
    ASSUME NEW s \in OwnerStates
    PROVE  /\ s.version \in 0..2 /\ s.exposed \in BOOLEAN /\ s.epoch \in Nat
           /\ s.writesOn \in BOOLEAN /\ s.writeEpoch \in Nat /\ s.binding \in Sources
           /\ s.auto \in BOOLEAN /\ s.autoEpoch \in Nat
  BY DEF OwnerStates

\* Rotating the write epoch ends automatic approval and leaves the rest.
LEMMA RotateFields ==
    ASSUME NEW s \in OwnerStates, minted \in Nat, NEW t, t = RotateWriteEpoch(s)
    PROVE  /\ t \in OwnerStates
           /\ t.writeEpoch = Fresh /\ t.autoEpoch = Fresh /\ t.auto = FALSE
           /\ t.version = s.version /\ t.exposed = s.exposed /\ t.epoch = s.epoch
           /\ t.writesOn = s.writesOn /\ t.binding = s.binding
  <1>1. t = [version |-> s.version, exposed |-> s.exposed, epoch |-> s.epoch, writesOn |-> s.writesOn,
             writeEpoch |-> Fresh, binding |-> s.binding, auto |-> FALSE, autoEpoch |-> Fresh]
    BY DEF OwnerStates, RotateWriteEpoch
  <1>2. Fresh \in Nat
    BY DEF Fresh
  <1> QED
    BY <1>1, <1>2, OwnerFields DEF OwnerStates

\* Turning writes off leaves nothing on.
LEMMA TurnOffFields ==
    ASSUME NEW s \in OwnerStates, minted \in Nat, NEW k \in BOOLEAN, NEW t, t = TurnOff(s, k)
    PROVE  /\ t \in OwnerStates
           /\ t.writeEpoch = Fresh /\ t.autoEpoch = Fresh /\ t.auto = FALSE
           /\ t.version = 2 /\ t.exposed = s.exposed /\ t.epoch = s.epoch
           /\ t.writesOn = FALSE
           /\ t.binding = IF k THEN s.binding ELSE NoDigest
  <1> DEFINE u == [s EXCEPT !.version = 2, !.writesOn = FALSE,
                            !.binding = IF k THEN @ ELSE NoDigest]
  <1>1. /\ u \in OwnerStates /\ u.version = 2 /\ u.exposed = s.exposed /\ u.epoch = s.epoch
        /\ u.writesOn = FALSE /\ u.binding = IF k THEN s.binding ELSE NoDigest
    <2>1. ASSUME NEW v, v = [s EXCEPT !.version = 2, !.writesOn = FALSE,
                                     !.binding = IF k THEN @ ELSE NoDigest]
          PROVE  v = [version |-> 2, exposed |-> s.exposed, epoch |-> s.epoch, writesOn |-> FALSE,
                writeEpoch |-> s.writeEpoch, binding |-> IF k THEN s.binding ELSE NoDigest, auto |-> s.auto, autoEpoch |-> s.autoEpoch]
      BY <2>1 DEF OwnerStates
    <2>2. NoDigest \in Sources /\ 2 \in 0..2
      BY DEF Sources
    <2> QED
      BY <2>1, <2>2, OwnerFields DEF OwnerStates
  <1>2. t = RotateWriteEpoch(u)
    BY DEF TurnOff
  <1> HIDE DEF u
  <1> QED
    BY <1>1, <1>2, RotateFields

\* Turning writes on binds them to the source they were approved for.
LEMMA TurnOnFields ==
    ASSUME owner \in OwnerStates, minted \in Nat, loaded \in Sources, ~owner.writesOn,
           NEW t, t = TurnOn(owner, loaded)
    PROVE  /\ t \in OwnerStates
           /\ t.writeEpoch = Fresh /\ t.autoEpoch = Fresh /\ t.auto = FALSE
           /\ t.version = 2 /\ t.exposed = owner.exposed /\ t.writesOn = TRUE /\ t.binding = loaded
  <1> DEFINE u == [owner EXCEPT !.version = 2, !.writesOn = TRUE, !.binding = loaded]
  <1>1. /\ u \in OwnerStates /\ u.version = 2 /\ u.exposed = owner.exposed
        /\ u.writesOn = TRUE /\ u.binding = loaded
    <2>1. ASSUME NEW v, v = [owner EXCEPT !.version = 2, !.writesOn = TRUE, !.binding = loaded]
          PROVE  v = [version |-> 2, exposed |-> owner.exposed, epoch |-> owner.epoch, writesOn |-> TRUE,
                writeEpoch |-> owner.writeEpoch, binding |-> loaded, auto |-> owner.auto, autoEpoch |-> owner.autoEpoch]
      BY <2>1 DEF OwnerStates
    <2>2. 2 \in 0..2
      OBVIOUS
    <2> QED
      BY <2>1, <2>2, OwnerFields DEF OwnerStates
  <1>2. t = RotateWriteEpoch(u)
    BY DEF TurnOn
  <1> HIDE DEF u
  <1> QED
    BY <1>1, <1>2, RotateFields

\* Exposing reads touches neither writes nor automatic approval.
LEMMA ExposeFields ==
    ASSUME NEW s \in OwnerStates, minted \in Nat, NEW t, t = Expose(s)
    PROVE  /\ t \in OwnerStates /\ t.exposed = TRUE
           /\ t.version = IF s.version = 0 THEN 1 ELSE s.version
           /\ t.writesOn = s.writesOn /\ t.writeEpoch = s.writeEpoch /\ t.binding = s.binding
           /\ t.auto = s.auto /\ t.autoEpoch = s.autoEpoch
  <1>1. Fresh \in Nat /\ 1 \in 0..2
    BY DEF Fresh
  <1>2. CASE s.version = 0
    <2>1. t = [version |-> 1, exposed |-> TRUE, epoch |-> Fresh, writesOn |-> s.writesOn,
               writeEpoch |-> s.writeEpoch, binding |-> s.binding, auto |-> s.auto, autoEpoch |-> s.autoEpoch]
      BY <1>2 DEF OwnerStates, Expose
    <2> QED
      BY <1>1, <1>2, <2>1, OwnerFields DEF OwnerStates
  <1>3. CASE s.version # 0
    <2>1. t = [version |-> s.version, exposed |-> TRUE, epoch |-> s.epoch, writesOn |-> s.writesOn,
               writeEpoch |-> s.writeEpoch, binding |-> s.binding, auto |-> s.auto, autoEpoch |-> s.autoEpoch]
      BY <1>3 DEF OwnerStates, Expose
    <2> QED
      BY <1>3, <2>1, OwnerFields DEF OwnerStates
  <1> QED
    BY <1>2, <1>3

\* Switching automatic approval touches nothing else.
LEMMA SetAutoFields ==
    ASSUME NEW s \in OwnerStates, minted \in Nat, NEW b \in BOOLEAN, NEW t, t = SetAuto(s, b)
    PROVE  /\ t \in OwnerStates /\ t.version = s.version /\ t.exposed = s.exposed
           /\ t.writesOn = s.writesOn /\ t.writeEpoch = s.writeEpoch /\ t.binding = s.binding
           /\ s.version = 2 => t.auto = b /\ t.autoEpoch = Fresh
           /\ s.version # 2 => t.auto = s.auto /\ t.autoEpoch = s.autoEpoch
  <1>1. CASE s.version = 2
    <2>1. t = [version |-> s.version, exposed |-> s.exposed, epoch |-> s.epoch, writesOn |-> s.writesOn,
               writeEpoch |-> s.writeEpoch, binding |-> s.binding, auto |-> b, autoEpoch |-> Fresh]
      BY <1>1 DEF OwnerStates, SetAuto
    <2>2. Fresh \in Nat
      BY DEF Fresh
    <2> QED
      BY <1>1, <2>1, <2>2, OwnerFields DEF OwnerStates
  <1>2. CASE s.version # 2
    BY <1>2 DEF SetAuto
  <1> QED
    BY <1>1, <1>2

-----------------------------------------------------------------------------
(* Steps that leave writes off. *)

\* A file with nothing on, bound to what it was bound to or to nothing.
Quiet(s) ==
    /\ s \in OwnerStates
    /\ ~s.writesOn /\ ~s.auto
    /\ s.writeEpoch \in {owner.writeEpoch, Fresh} /\ s.autoEpoch \in {owner.autoEpoch, Fresh}
    /\ s.binding \in {NoDigest, owner.binding}
    /\ s.version # 2 => s.binding = NoDigest
    /\ s.version = 0 => ~s.exposed

LEMMA TurnOffIsQuiet ==
    ASSUME AuthorityInv, NEW k \in BOOLEAN
    PROVE  Quiet(TurnOff(owner, k)) /\ (~k => TurnOff(owner, k).binding = NoDigest)
  <1>1. owner \in OwnerStates /\ minted \in Nat
    BY DEF AuthorityInv, AuthorityTypeOK
  <1> DEFINE t == TurnOff(owner, k)
  <1>2. /\ t \in OwnerStates
        /\ t.writeEpoch = Fresh /\ t.autoEpoch = Fresh /\ t.auto = FALSE
        /\ t.version = 2 /\ t.writesOn = FALSE
        /\ t.binding = IF k THEN owner.binding ELSE NoDigest
    BY <1>1, TurnOffFields
  <1> QED
    BY <1>2 DEF Quiet

LEMMA HideIsQuiet ==
    ASSUME AuthorityInv, NEW rotate \in BOOLEAN
    PROVE  Quiet(Hide(owner, rotate)) /\ Hide(owner, rotate).binding = NoDigest
  <1> DEFINE h == [owner EXCEPT !.exposed = FALSE, !.epoch = IF rotate THEN Fresh ELSE @]
  <1>1. /\ h \in OwnerStates /\ h.exposed = FALSE /\ h.version = owner.version
        /\ h.writesOn = owner.writesOn /\ h.auto = owner.auto /\ h.binding = owner.binding
        /\ h.writeEpoch = owner.writeEpoch /\ h.autoEpoch = owner.autoEpoch
    <2>1. owner \in OwnerStates /\ Fresh \in Nat
      BY DEF AuthorityInv, AuthorityTypeOK, Fresh
    <2>2. ASSUME NEW v, v = [owner EXCEPT !.exposed = FALSE,
                                         !.epoch = IF rotate THEN Fresh ELSE @]
          PROVE  v = [version |-> owner.version, exposed |-> FALSE, epoch |-> IF rotate THEN Fresh ELSE owner.epoch, writesOn |-> owner.writesOn,
                writeEpoch |-> owner.writeEpoch, binding |-> owner.binding, auto |-> owner.auto, autoEpoch |-> owner.autoEpoch]
      BY <2>1 , <2>2 DEF OwnerStates
    <2> QED
      BY <2>1, <2>2, OwnerFields DEF OwnerStates
  <1>2. CASE owner.version = 2
    <2>1. Hide(owner, rotate) = TurnOff(h, FALSE)
      BY <1>2 DEF Hide
    <2> HIDE DEF h
    <2>2. minted \in Nat
      BY DEF AuthorityInv, AuthorityTypeOK
    <2> DEFINE t == TurnOff(h, FALSE)
    <2>3. /\ t \in OwnerStates
          /\ t.writeEpoch = Fresh /\ t.autoEpoch = Fresh /\ t.auto = FALSE
          /\ t.version = 2 /\ t.writesOn = FALSE /\ t.binding = NoDigest
      BY <1>1, <2>2, TurnOffFields
    <2>4. Hide(owner, rotate) = t
      BY <2>1
    <2> HIDE DEF t
    <2> QED
      BY <2>3, <2>4 DEF Quiet
  <1>3. CASE owner.version # 2
    <2>1. Hide(owner, rotate) = h
      BY <1>3 DEF Hide
    <2> QED
      BY <1>1, <1>3, <2>1 DEF AuthorityInv, FileReadable, Quiet
  <1> QED
    BY <1>2, <1>3

LEMMA OwnerOffIsQuiet ==
    ASSUME AuthorityInv
    PROVE  Quiet(OwnerOff(owner)) /\ OwnerOff(owner).binding = NoDigest
  <1>1. CASE owner.version = 2 /\ ~owner.writesOn /\ owner.binding = NoDigest
    BY <1>1 DEF AuthorityInv, AuthorityTypeOK, FileReadable, OwnerOff, Quiet
  <1>2. CASE ~(owner.version = 2 /\ ~owner.writesOn /\ owner.binding = NoDigest)
    <2>1. OwnerOff(owner) = TurnOff(owner, FALSE)
      BY <1>2 DEF OwnerOff
    <2> QED
      BY <2>1, TurnOffIsQuiet
  <1> QED
    BY <1>1, <1>2

\* What the tokens say survives every change of the file that renews them with
\* what they stand for.
LEMMA StoreKeepsTokens ==
    ASSUME AuthorityInv, NEW s \in OwnerStates, Store(s), UNCHANGED users,
           ~s.writesOn \/ s.writeEpoch = Fresh
                \/ (owner.writesOn /\ s.writeEpoch = owner.writeEpoch),
           ~s.auto \/ s.autoEpoch = Fresh \/ (owner.auto /\ s.autoEpoch = owner.autoEpoch),
           s.writeEpoch \in {owner.writeEpoch, Fresh}, s.autoEpoch \in {owner.autoEpoch, Fresh}
    PROVE  StaleForGood' /\ TokensSpent'
  <1>1. /\ minted \in Nat /\ minted' = minted + 1
        /\ owner.writeEpoch \in Nat /\ owner.autoEpoch \in Nat /\ grant.autoEpoch \in Nat
        /\ \A o \in Operations : stored[o].writeEpoch \in Nat /\ stored[o].autoEpoch \in Nat
    BY DEF AuthorityInv, AuthorityTypeOK, OwnerStates, Grants, StoredOperations, Store, Fresh
  <1>2. TokensSpent'
    BY <1>1 DEF AuthorityInv, TokensSpent, Store, Fresh, users
  <1>3. ASSUME NEW o \in Operations
        PROVE  /\ stored[o].writeEpoch # Fresh /\ stored[o].autoEpoch # Fresh
               /\ grant.autoEpoch # Fresh
    BY <1>1 DEF AuthorityInv, TokensSpent, Fresh
  <1>4. grant.autoEpoch # Fresh
    BY <1>1 DEF AuthorityInv, TokensSpent, Fresh
  <1>5. StaleForGood'
    <2>1. ASSUME NEW o \in Operations,
                 stored[o].state # "none", stored[o].writeEpoch = s.writeEpoch, s.writesOn
          PROVE  o \in lasting'
      BY <1>3, <2>1 DEF AuthorityInv, StaleForGood, Store
    <2>2. ASSUME NEW o \in Operations,
                 stored[o].state = "auto", stored[o].autoEpoch = s.autoEpoch, s.auto
          PROVE  o \in autoLasting'
      BY <1>3, <2>2 DEF AuthorityInv, StaleForGood, Store
    <2>3. ASSUME grant.autoEpoch # 0, grant.autoEpoch = s.autoEpoch, s.auto
          PROVE  consentLasts'
      BY <1>4, <2>3 DEF AuthorityInv, StaleForGood, Store
    <2> QED
      BY <2>1, <2>2, <2>3 DEF StaleForGood, Store, users
  <1> QED
    BY <1>2, <1>5

\* The types of everything but the file, its history and the users.
RestTyped ==
    /\ enrolled' \in Enrollments /\ ledger' \in BOOLEAN
    /\ source' \in Sources /\ loaded' \in Sources
    /\ phase' \in {"down", "checked", "loading", "resume", "settle", "up", "reloading"}
    /\ request' \in Requests /\ stands' \in Sources
    /\ ~Serving' => request'.step = "idle"

LEMMA StoreTyped ==
    ASSUME AuthorityInv, NEW s \in OwnerStates, Store(s), UNCHANGED users, RestTyped
    PROVE  AuthorityTypeOK'
  BY DEF AuthorityInv, AuthorityTypeOK, Store, Fresh, users, RestTyped

LEMMA QuietStep ==
    ASSUME AuthorityInv, NEW s, Quiet(s), Store(s), UNCHANGED users, RestTyped,
           stands' = stands \/ s.binding = NoDigest
    PROVE  AuthorityInv'
  <1>1. AuthorityTypeOK'
    BY StoreTyped DEF Quiet
  <1>2. StaleForGood' /\ TokensSpent'
    BY StoreKeepsTokens DEF Quiet
  <1>3. owner' = s /\ ~s.writesOn
    BY DEF Store, Quiet
  <1>4. FileReadable' /\ BindingStands'
    BY <1>3 DEF FileReadable, BindingStands, Quiet, AuthorityInv
  <1>5. WritesStandApproved'
    BY <1>3 DEF WritesStandApproved
  <1> QED
    BY <1>1, <1>2, <1>3, <1>4, <1>5 DEF AuthorityInv, RestTyped, Serving

\* A step that leaves the file and its users alone and publishes nothing while
\* writes are on.
LEMMA FileKept ==
    ASSUME AuthorityInv, UNCHANGED <<file, users, stands>>, RestTyped,
           owner.writesOn /\ phase' # "down" => phase' = phase /\ loaded' = loaded
    PROVE  AuthorityInv'
  <1>1. AuthorityTypeOK'
    BY DEF AuthorityInv, AuthorityTypeOK, file, users, RestTyped
  <1>2. StaleForGood' /\ TokensSpent'
    BY DEF AuthorityInv, StaleForGood, TokensSpent, file, users
  <1>3. FileReadable' /\ BindingStands'
    BY DEF AuthorityInv, FileReadable, BindingStands, file
  <1> QED
    BY <1>1, <1>2, <1>3 DEF AuthorityInv, WritesStandApproved, RestTyped, Serving, file

-----------------------------------------------------------------------------
(* The owner's switches. *)

\* What every step may count on.
LEMMA Typed ==
    ASSUME AuthorityInv
    PROVE  /\ owner \in OwnerStates /\ minted \in Nat
           /\ enrolled \in Enrollments /\ ledger \in BOOLEAN
           /\ source \in Sources /\ loaded \in Sources /\ stands \in Sources
           /\ phase \in {"down", "checked", "loading", "resume", "settle", "up", "reloading"}
           /\ request \in Requests /\ Idle \in Requests /\ NoDigest \in Sources
           /\ owner.epoch \in Nat
  BY OwnerFields DEF AuthorityInv, AuthorityTypeOK, Requests, Steps, Idle, Sources

\* Going to a step keeps the rest of the request.
LEMMA Going ==
    ASSUME AuthorityInv, NEW step \in Steps, GoTo(step)
    PROVE  request' \in Requests /\ request'.step = step
  BY DEF AuthorityInv, AuthorityTypeOK, GoTo, Requests

\* RestTyped of a step that moves only the request.
LEMMA MovesRequest ==
    ASSUME AuthorityInv, request' \in Requests, ~Serving => request'.step = "idle",
           UNCHANGED <<enrollment, process>>, stands' \in Sources
    PROVE  RestTyped
  BY Typed DEF RestTyped, enrollment, process, Serving

LEMMA DisableStep ==
    ASSUME AuthorityInv, NEW revoke \in BOOLEAN, Disable(revoke)
    PROVE  AuthorityInv'
  <1>1. "retire" \in Steps
    BY DEF Steps
  <1>2. RestTyped
    BY <1>1, Typed, Going, MovesRequest DEF Disable, Asked, Withdraw
  <1> QED
    BY <1>2, HideIsQuiet, QuietStep DEF Disable

LEMMA DisableWritesStep ==
    ASSUME AuthorityInv, DisableWrites
    PROVE  AuthorityInv'
  <1>1. RestTyped
    BY Typed, MovesRequest DEF DisableWrites, Asked, Withdraw
  <1> QED
    BY <1>1, OwnerOffIsQuiet, QuietStep DEF DisableWrites

\* Steps that leave writes as they are: exposing reads and switching automatic
\* approval while it is allowed.
LEMMA WritesKept ==
    ASSUME AuthorityInv, NEW s \in OwnerStates, Store(s), RestTyped,
           UNCHANGED <<users, process, stands>>,
           s.writesOn = owner.writesOn, s.writeEpoch = owner.writeEpoch,
           s.binding = owner.binding,
           ~s.auto \/ (s.writesOn /\ s.autoEpoch = Fresh)
                \/ (owner.auto /\ s.autoEpoch = owner.autoEpoch),
           s.autoEpoch \in {owner.autoEpoch, Fresh},
           owner.exposed => s.exposed,
           s.version = 2 <=> owner.version = 2,
           s.version = 0 => ~s.exposed
    PROVE  AuthorityInv'
  <1>1. AuthorityTypeOK'
    BY StoreTyped
  <1>2. StaleForGood' /\ TokensSpent'
    BY StoreKeepsTokens
  <1>3. owner' = s
    BY DEF Store
  <1>4. FileReadable' /\ BindingStands'
    BY <1>3 DEF AuthorityInv, FileReadable, BindingStands
  <1>5. WritesStandApproved'
    BY <1>3 DEF AuthorityInv, WritesStandApproved, process
  <1> QED
    BY <1>1, <1>2, <1>3, <1>4, <1>5 DEF AuthorityInv, RestTyped, Serving, process

LEMMA ExposeKeeps ==
    ASSUME AuthorityInv, Store(Expose(owner)), RestTyped, UNCHANGED <<users, process, stands>>
    PROVE  AuthorityInv'
  <1> DEFINE t == Expose(owner)
  <1>1. /\ t \in OwnerStates /\ t.exposed = TRUE
        /\ t.version = IF owner.version = 0 THEN 1 ELSE owner.version
        /\ t.writesOn = owner.writesOn /\ t.writeEpoch = owner.writeEpoch
        /\ t.binding = owner.binding /\ t.auto = owner.auto /\ t.autoEpoch = owner.autoEpoch
    BY Typed, ExposeFields
  <1>2. Store(t)
    OBVIOUS
  <1> HIDE DEF t
  <1> QED
    BY <1>1, <1>2, WritesKept

LEMMA SetAutoKeeps ==
    ASSUME AuthorityInv, NEW on \in BOOLEAN, on => owner.writesOn,
           Store(SetAuto(owner, on)), RestTyped, UNCHANGED <<users, process, stands>>
    PROVE  AuthorityInv'
  <1> DEFINE t == SetAuto(owner, on)
  <1>1. /\ t \in OwnerStates /\ t.version = owner.version /\ t.exposed = owner.exposed
        /\ t.writesOn = owner.writesOn /\ t.writeEpoch = owner.writeEpoch
        /\ t.binding = owner.binding
        /\ owner.version = 2 => t.auto = on /\ t.autoEpoch = Fresh
        /\ owner.version # 2 => t.auto = owner.auto /\ t.autoEpoch = owner.autoEpoch
    BY Typed, SetAutoFields
  <1>2. Store(t)
    OBVIOUS
  <1> HIDE DEF t
  <1>3. /\ owner.version = 0 => ~owner.exposed
        /\ owner.version # 2 => ~owner.auto
    BY DEF AuthorityInv, FileReadable
  <1> QED
    BY <1>1, <1>2, <1>3, WritesKept

LEMMA DisableAutoStep ==
    ASSUME AuthorityInv, DisableAuto
    PROVE  AuthorityInv'
  <1>1. RestTyped
    BY Typed, MovesRequest DEF DisableAuto, Asked
  <1> QED
    BY <1>1, SetAutoKeeps DEF DisableAuto

LEMMA EnableReadsStep ==
    ASSUME AuthorityInv, EnableReads
    PROVE  AuthorityInv'
  <1>1. RestTyped
    BY Typed, MovesRequest DEF EnableReads, Asked
  <1> QED
    BY <1>1, ExposeKeeps DEF EnableReads

LEMMA ExposeFirstStep ==
    ASSUME AuthorityInv, ExposeFirst
    PROVE  AuthorityInv'
  <1>1. "look" \in Steps /\ Serving
    BY DEF Steps, ExposeFirst, AuthorityInv
  <1>2. RestTyped
    BY <1>1, Typed, Going, MovesRequest DEF ExposeFirst
  <1> QED
    BY <1>2, ExposeKeeps DEF ExposeFirst

LEMMA AutoOnStep ==
    ASSUME AuthorityInv, AutoOn
    PROVE  AuthorityInv'
  <1>1. "idle" \in Steps
    BY DEF Steps
  <1>2. RestTyped
    BY <1>1, Typed, Going, MovesRequest DEF AutoOn
  <1> QED
    BY <1>2, SetAutoKeeps DEF AutoOn

LEMMA RollBackStep ==
    ASSUME AuthorityInv, RollBack
    PROVE  AuthorityInv'
  <1>1. "idle" \in Steps
    BY DEF Steps
  <1>2. RestTyped
    BY <1>1, Typed, Going, MovesRequest DEF RollBack, Withdraw
  <1> QED
    BY <1>2, HideIsQuiet, QuietStep DEF RollBack

LEMMA EnrollBeginStep ==
    ASSUME AuthorityInv, EnrollBegin
    PROVE  AuthorityInv'
  <1>1. "install" \in Steps /\ Serving
    BY DEF Steps, EnrollBegin, AuthorityInv
  <1>2. request' \in Requests /\ request'.step = "install"
    BY <1>1, Going DEF EnrollBegin
  <1>3. enrolled' \in Enrollments
    BY Typed DEF EnrollBegin, Enrollments
  <1>4. RestTyped
    BY <1>1, <1>2, <1>3, Typed DEF EnrollBegin, RestTyped, process, Withdraw, Serving
  <1> QED
    BY <1>4, TurnOffIsQuiet, QuietStep DEF EnrollBegin

\* Steps of a request that leave the owner file alone.
LEMMA RequestOnly ==
    ASSUME AuthorityInv, request' \in Requests, ~Serving => request'.step = "idle",
           enrolled' \in Enrollments, ledger' \in BOOLEAN,
           UNCHANGED <<file, process, users, stands>>
    PROVE  AuthorityInv'
  <1>1. RestTyped
    BY Typed DEF RestTyped, process, Serving
  <1> QED
    BY <1>1, FileKept DEF process

LEMMA RequestSteps ==
    ASSUME AuthorityInv,
           (\E auto \in BOOLEAN : EnableWrites(auto)) \/ Look \/ EnrollInstall
              \/ EnrollActivate \/ RequestFails
    PROVE  AuthorityInv'
  <1>1. ASSUME NEW auto \in BOOLEAN, EnableWrites(auto)
        PROVE  AuthorityInv'
    <2>1. request' \in Requests /\ Serving
      BY <1>1, Typed, OwnerFields DEF EnableWrites, Requests, Steps
    <2> QED
      BY <1>1, <2>1, Typed, RequestOnly DEF EnableWrites, enrollment
  <1>2. CASE Look
    <2>1. {"flip", "enroll"} \subseteq Steps
      BY DEF Steps
    <2>2. request' \in Requests /\ Serving
      BY <1>2, <2>1, Going DEF Look, AuthorityInv
    <2> QED
      BY <1>2, <2>2, Typed, RequestOnly DEF Look, enrollment
  <1>3. CASE EnrollInstall
    <2>1. "activate" \in Steps
      BY DEF Steps
    <2>2. request' \in Requests /\ Serving
      BY <1>3, <2>1, Going DEF EnrollInstall, AuthorityInv
    <2> QED
      BY <1>3, <2>2, Typed, RequestOnly DEF EnrollInstall
  <1>4. CASE EnrollActivate
    <2>1. "flip" \in Steps
      BY DEF Steps
    <2>2. request' \in Requests /\ Serving
      BY <1>4, <2>1, Going DEF EnrollActivate, AuthorityInv
    <2>3. enrolled' \in Enrollments
      BY <1>4, Typed DEF EnrollActivate, Enrollments
    <2> QED
      BY <1>4, <2>2, <2>3, Typed, RequestOnly DEF EnrollActivate
  <1>5. CASE RequestFails
    <2>1. {"rollback", "idle"} \subseteq Steps
      BY DEF Steps
    <2>2. request' \in Requests /\ Serving
      BY <1>5, <2>1, Going DEF RequestFails, AuthorityInv
    <2> QED
      BY <1>5, <2>2, Typed, RequestOnly DEF RequestFails, enrollment
  <1> QED
    BY <1>1, <1>2, <1>3, <1>4, <1>5

\* Turning writes on, by the owner or by a start that finds the owner's word
\* still good: the source is the loaded one and no generation is on its way.
LEMMA TurnedOn ==
    ASSUME AuthorityInv, Store(TurnOn(owner, loaded)), UNCHANGED <<users, loaded>>, RestTyped,
           stands' = loaded, loaded # NoDigest, owner.exposed, phase' \in {"settle", "up"},
           owner.writesOn => owner.binding = loaded
    PROVE  AuthorityInv'
  <1>1. CASE owner.writesOn
    <2>1. owner' = owner /\ Store(owner)
      BY <1>1 DEF TurnOn, Store
    <2>2. AuthorityTypeOK'
      BY <2>1, Typed, StoreTyped
    <2>3. owner.auto \in BOOLEAN
      BY Typed, OwnerFields
    <2>4. StaleForGood' /\ TokensSpent'
      BY <1>1, <2>1, <2>3, Typed, StoreKeepsTokens
    <2>5. FileReadable' /\ BindingStands' /\ WritesStandApproved'
      BY <1>1, <2>1 DEF AuthorityInv, FileReadable, BindingStands, WritesStandApproved
    <2> QED
      BY <1>1, <2>1, <2>2, <2>4, <2>5 DEF AuthorityInv, RestTyped, Serving
  <1>2. CASE ~owner.writesOn
    <2>0. PICK t : t = TurnOn(owner, loaded)
      OBVIOUS
    <2>1. /\ t \in OwnerStates
          /\ t.writeEpoch = Fresh /\ t.autoEpoch = Fresh /\ t.auto = FALSE
          /\ t.version = 2 /\ t.exposed = owner.exposed /\ t.writesOn = TRUE
          /\ t.binding = loaded
      <3>1. owner \in OwnerStates /\ minted \in Nat /\ loaded \in Sources
        BY Typed
      <3> QED
        BY <1>2, <2>0, <3>1, TurnOnFields
    <2>2. Store(t) /\ owner' = t
      BY <2>0 DEF Store
    <2>3. AuthorityTypeOK'
      BY <2>1, <2>2, StoreTyped
    <2>4. StaleForGood' /\ TokensSpent'
      BY <2>1, <2>2, StoreKeepsTokens
    <2>5. FileReadable'
      <3>1. /\ owner'.version = 2 /\ owner'.exposed /\ owner'.writesOn
            /\ ~owner'.auto
        BY <2>1, <2>2
      <3> QED
        BY <3>1 DEF FileReadable
    <2>6. BindingStands' /\ WritesStandApproved'
      BY <2>1, <2>2 DEF BindingStands, WritesStandApproved
    <2> QED
      BY <2>1, <2>2, <2>3, <2>4, <2>5, <2>6 DEF AuthorityInv, RestTyped, Serving
  <1> QED
    BY <1>1, <1>2

LEMMA FlipStep ==
    ASSUME AuthorityInv, Flip
    PROVE  AuthorityInv'
  <1>1. {"auto", "idle"} \subseteq Steps
    BY DEF Steps
  <1>2. Serving /\ phase = "up"
    BY DEF Flip, AuthorityInv, LockFree, Serving
  <1>3. RestTyped
    BY <1>1, <1>2, Typed, Going, MovesRequest DEF Flip
  <1>4. owner.writesOn => owner.binding = loaded
    BY <1>2 DEF AuthorityInv
  <1> QED
    BY <1>2, <1>3, <1>4, TurnedOn DEF Flip, SourceHolds, process

\* Retiring the ledger withdraws the owner's word, or there is no file.
LEMMA RetireKeeps ==
    ASSUME AuthorityInv, RetireLedger, UNCHANGED <<users, source, loaded>>,
           request' \in Requests, ~Serving' => request'.step = "idle",
           phase' \in {"up", phase}, owner.writesOn => phase \in {"settle", "up", "down"}
    PROVE  AuthorityInv'
  <1>1. ledger' \in BOOLEAN
    BY Typed DEF RetireLedger
  <1>2. CASE Present
    <2>1. enrolled' \in Enrollments
      BY <1>2, Typed DEF RetireLedger, Enrollments
    <2>2. RestTyped
      BY <1>1, <1>2, <2>1, Typed DEF RetireLedger, RestTyped, Withdraw
    <2> QED
      BY <1>2, <2>2, TurnOffIsQuiet, QuietStep DEF RetireLedger
  <1>3. CASE ~Present
    <2>1. ~owner.writesOn
      BY <1>3 DEF Present, AuthorityInv, FileReadable
    <2>2. RestTyped
      BY <1>1, <1>3, Typed DEF RetireLedger, RestTyped
    <2> QED
      BY <1>3, <2>1, <2>2, FileKept DEF RetireLedger
  <1> QED
    BY <1>2, <1>3

LEMMA RetireAfterDisableStep ==
    ASSUME AuthorityInv, RetireAfterDisable
    PROVE  AuthorityInv'
  <1>1. "idle" \in Steps
    BY DEF Steps
  <1>2. request' \in Requests /\ request'.step = "idle"
    BY <1>1, Going DEF RetireAfterDisable
  <1>3. Serving /\ phase = "up"
    BY DEF RetireAfterDisable, AuthorityInv, LockFree, Serving
  <1>4. CASE Retires(loaded # NoDigest)
    BY <1>2, <1>3, <1>4, RetireKeeps DEF RetireAfterDisable, process
  <1>5. CASE ~Retires(loaded # NoDigest)
    BY <1>2, <1>5, Typed, RequestOnly DEF RetireAfterDisable, enrollment
  <1> QED
    BY <1>4, <1>5

-----------------------------------------------------------------------------
(* The process. *)

\* A load suspends, a reload or a restore withdraws; without a file there is
\* nothing to take away.
LEMMA SuspendedStep ==
    ASSUME AuthorityInv, Suspended, UNCHANGED <<users, stands>>, RestTyped
    PROVE  AuthorityInv'
  <1>1. CASE Present
    BY <1>1, TurnOffIsQuiet, QuietStep DEF Suspended
  <1>2. CASE ~Present
    <2>1. ~owner.writesOn
      BY <1>2 DEF Present, AuthorityInv, FileReadable
    <2> QED
      BY <1>2, <2>1, FileKept DEF Suspended
  <1> QED
    BY <1>1, <1>2

LEMMA LoadSteps ==
    ASSUME AuthorityInv, BootCheck \/ CheckOnly \/ LoadBegin \/ LoadEnd
    PROVE  AuthorityInv'
  <1>1. CASE BootCheck
    <2>1. RestTyped
      BY <1>1, Typed DEF BootCheck, RestTyped, enrollment, AuthorityInv, Serving
    <2> QED
      BY <1>1, <2>1, SuspendedStep DEF BootCheck
  <1>2. CASE CheckOnly
    <2>1. RestTyped
      BY <1>2, Typed DEF CheckOnly, RestTyped, enrollment, process, AuthorityInv, Serving
    <2> QED
      BY <1>2, <2>1, TurnOffIsQuiet, QuietStep DEF CheckOnly
  <1>3. CASE LoadBegin
    <2>1. RestTyped
      BY <1>3, Typed DEF LoadBegin, RestTyped, enrollment, AuthorityInv, Serving
    <2> QED
      BY <1>3, <2>1, SuspendedStep DEF LoadBegin
  <1>4. CASE LoadEnd
    <2>1. RestTyped
      BY <1>4, Typed DEF LoadEnd, RestTyped, enrollment, AuthorityInv, Serving
    <2>2. ~owner.writesOn
      BY <1>4 DEF LoadEnd, AuthorityInv
    <2> QED
      BY <1>4, <2>1, <2>2, FileKept DEF LoadEnd
  <1> QED
    BY <1>1, <1>2, <1>3, <1>4

LEMMA ResumeSteps ==
    ASSUME AuthorityInv, Resume \/ ResumeFails
    PROVE  AuthorityInv'
  <1>1. RestTyped
    BY Typed DEF Resume, ResumeFails, RestTyped, enrollment, AuthorityInv, Serving
  <1>2. phase = "resume" /\ ~owner.writesOn
    BY DEF Resume, ResumeFails, AuthorityInv
  <1>3. CASE Resume /\ MayResume
    <2>1. stands' = loaded /\ loaded # NoDigest
      BY <1>3 DEF Resume, MayResume, AuthorityInv, BindingStands
    <2> QED
      BY <1>1, <1>2, <1>3, <2>1, TurnedOn DEF Resume, MayResume
  <1>4. CASE (Resume /\ ~MayResume) \/ ResumeFails
    BY <1>1, <1>2, <1>4, FileKept DEF Resume, ResumeFails
  <1> QED
    BY <1>3, <1>4

LEMMA SettleStep ==
    ASSUME AuthorityInv, Settle
    PROVE  AuthorityInv'
  <1>1. PICK manifest \in BOOLEAN :
           IF Retires(manifest) THEN RetireLedger ELSE UNCHANGED <<file, enrollment, stands>>
    BY DEF Settle
  <1>2. request' \in Requests /\ phase = "settle" /\ phase' = "up" /\ request'.step = "idle"
    BY Typed DEF Settle, AuthorityInv, Serving
  <1>3. CASE Retires(manifest)
    BY <1>1, <1>2, <1>3, RetireKeeps DEF Settle
  <1>4. CASE ~Retires(manifest)
    <2>1. AuthorityTypeOK'
      BY <1>1, <1>2, <1>4 DEF AuthorityInv, AuthorityTypeOK, Settle, file, users, enrollment
    <2>2. StaleForGood' /\ TokensSpent'
      BY <1>1, <1>4 DEF AuthorityInv, StaleForGood, TokensSpent, file, users, Settle
    <2>3. FileReadable' /\ BindingStands'
      BY <1>1, <1>4 DEF AuthorityInv, FileReadable, BindingStands, file
    <2>4. WritesStandApproved'
      BY <1>1, <1>2, <1>4 DEF AuthorityInv, WritesStandApproved, file, Settle
    <2> QED
      BY <1>1, <1>2, <1>4, <2>1, <2>2, <2>3, <2>4 DEF AuthorityInv, Serving, file, Settle
  <1> QED
    BY <1>3, <1>4

LEMMA ReloadSteps ==
    ASSUME AuthorityInv, ReloadBegin \/ ReloadEnd \/ ReloadAborts
    PROVE  AuthorityInv'
  <1>1. CASE ReloadBegin
    <2>1. RestTyped
      BY <1>1, Typed DEF ReloadBegin, RestTyped, enrollment, Withdraw, Serving
    <2>2. CASE Present
      BY <1>1, <2>1, <2>2, TurnOffIsQuiet, QuietStep DEF ReloadBegin
    <2>3. CASE ~Present
      <3>1. ~owner.writesOn /\ owner.binding = NoDigest
        BY <2>3 DEF Present, AuthorityInv, FileReadable
      <3>2. ~owner.auto
        BY <2>3 DEF Present, AuthorityInv, FileReadable
      <3>3. UNCHANGED <<file, users>>
        BY <1>1, <2>3 DEF ReloadBegin
      <3>4. AuthorityTypeOK'
        BY <2>1, <3>3 DEF AuthorityInv, AuthorityTypeOK, file, users, RestTyped
      <3>5. StaleForGood' /\ TokensSpent'
        BY <3>3 DEF AuthorityInv, StaleForGood, TokensSpent, file, users
      <3>6. FileReadable' /\ BindingStands' /\ WritesStandApproved'
        BY <3>1, <3>3 DEF AuthorityInv, FileReadable, BindingStands, WritesStandApproved, file
      <3> QED
        BY <2>1, <3>1, <3>3, <3>4, <3>5, <3>6 DEF AuthorityInv, RestTyped, Serving, file
    <2> QED
      BY <2>2, <2>3
  <1>2. CASE ReloadEnd
    <2>1. request' \in Requests
      BY <1>2, Typed DEF ReloadEnd, Requests
    <2>2. RestTyped
      BY <1>2, <2>1, Typed DEF ReloadEnd, RestTyped, enrollment, Serving
    <2>3. ~owner.writesOn
      BY <1>2 DEF ReloadEnd, AuthorityInv
    <2> QED
      BY <1>2, <2>2, <2>3, FileKept DEF ReloadEnd
  <1>3. CASE ReloadAborts
    <2>1. RestTyped
      BY <1>3, Typed DEF ReloadAborts, RestTyped, enrollment, Serving
    <2>2. ~owner.writesOn
      BY <1>3 DEF ReloadAborts, AuthorityInv
    <2> QED
      BY <1>3, <2>1, <2>2, FileKept DEF ReloadAborts
  <1> QED
    BY <1>1, <1>2, <1>3

LEMMA RestoreStep ==
    ASSUME AuthorityInv, Restore
    PROVE  AuthorityInv'
  <1>1. RestTyped
    BY Typed DEF Restore, RestTyped, process, Withdraw, AuthorityInv, Serving
  <1>2. ASSUME NEW h, h = [owner EXCEPT !.exposed = FALSE, !.epoch = Fresh]
        PROVE  h \in OwnerStates
    <2>1. h = [version |-> owner.version, exposed |-> FALSE, epoch |-> Fresh,
               writesOn |-> owner.writesOn, writeEpoch |-> owner.writeEpoch,
               binding |-> owner.binding, auto |-> owner.auto, autoEpoch |-> owner.autoEpoch]
      BY <1>2, Typed DEF OwnerStates
    <2>2. Fresh \in Nat
      BY Typed DEF Fresh
    <2> QED
      BY <2>1, <2>2, Typed, OwnerFields DEF OwnerStates
  <1>3. PICK t : /\ t = TurnOff([owner EXCEPT !.exposed = FALSE, !.epoch = Fresh], FALSE)
                 /\ Store(t)
    BY DEF Restore
  <1>4. /\ t \in OwnerStates
        /\ t.writeEpoch = Fresh /\ t.autoEpoch = Fresh /\ t.auto = FALSE
        /\ t.version = 2 /\ t.writesOn = FALSE /\ t.binding = NoDigest
    BY <1>2, <1>3, Typed, TurnOffFields
  <1>5. Quiet(t)
    BY <1>4 DEF Quiet
  <1> QED
    BY <1>1, <1>3, <1>4, <1>5, QuietStep DEF Restore

LEMMA OtherProcessSteps ==
    ASSUME AuthorityInv, (\E d \in Sources : Edit(d)) \/ AuthorityCrash
    PROVE  AuthorityInv'
  <1>1. ASSUME NEW d \in Sources, Edit(d)
        PROVE  AuthorityInv'
    <2>1. RestTyped
      BY <1>1, Typed DEF Edit, RestTyped, enrollment, AuthorityInv, Serving
    <2> QED
      BY <1>1, <2>1, FileKept DEF Edit
  <1>2. CASE AuthorityCrash
    <2>1. Idle.step = "idle"
      BY DEF Idle
    <2>2. RestTyped
      BY <1>2, <2>1, Typed DEF AuthorityCrash, RestTyped, enrollment
    <2> QED
      BY <1>2, <2>2, FileKept DEF AuthorityCrash
  <1> QED
    BY <1>1, <1>2

-----------------------------------------------------------------------------
(* Users. *)

\* A step of a user touches only the grant, the operations and what is told of
\* them.
LEMMA UserStep ==
    ASSUME AuthorityInv,
           UNCHANGED <<owner, minted, enrollment, process, request, stands>>,
           grant' \in Grants, stored' \in [Operations -> StoredOperations],
           lasting' \in SUBSET Operations, autoLasting' \in SUBSET Operations,
           consentLasts' \in BOOLEAN, StaleForGood', TokensSpent'
    PROVE  AuthorityInv'
  <1>1. AuthorityTypeOK'
    BY DEF AuthorityInv, AuthorityTypeOK, enrollment, process
  <1>2. FileReadable' /\ BindingStands' /\ WritesStandApproved'
    BY DEF AuthorityInv, FileReadable, BindingStands, WritesStandApproved, process
  <1> QED
    BY <1>1, <1>2 DEF AuthorityInv, Serving, process

LEMMA UserTyped ==
    ASSUME AuthorityInv
    PROVE  /\ owner.epoch \in Nat /\ owner.writeEpoch \in Nat /\ owner.autoEpoch \in Nat
           /\ grant \in Grants /\ stored \in [Operations -> StoredOperations]
           /\ lasting \in SUBSET Operations /\ autoLasting \in SUBSET Operations
           /\ consentLasts \in BOOLEAN /\ loaded \in Sources /\ NoDigest \in Sources
           /\ owner.writeEpoch <= minted /\ owner.autoEpoch <= minted /\ minted \in Nat
           /\ NoOperation \in StoredOperations /\ NoOperation.state = "none"
           /\ NoOperation.writeEpoch <= minted /\ NoOperation.autoEpoch <= minted
  BY Typed, OwnerFields
     DEF AuthorityInv, AuthorityTypeOK, TokensSpent, NoOperation, StoredOperations, Sources

LEMMA ConsentActsStep ==
    ASSUME AuthorityInv, NEW ticked \in BOOLEAN, Consent(ticked)
    PROVE  AuthorityInv'
  <1>1. grant' \in Grants
    BY UserTyped DEF Consent, Grants
  <1>2. grant'.autoEpoch = IF ticked THEN owner.autoEpoch ELSE 0
    BY DEF Consent
  <1>3. StaleForGood'
    BY <1>2 DEF Consent, AuthorityInv, StaleForGood
  <1>4. TokensSpent'
    BY <1>2, UserTyped DEF Consent, AuthorityInv, TokensSpent
  <1> QED
    BY <1>1, <1>3, <1>4, UserTyped, UserStep DEF Consent

LEMMA PrepareStep ==
    ASSUME AuthorityInv, NEW o \in Operations, NEW how \in {"prepared", "auto"}, Prepare(o, how)
    PROVE  AuthorityInv'
  <1> DEFINE r == [state |-> how, epoch |-> owner.epoch, writeEpoch |-> owner.writeEpoch,
                   autoEpoch |-> IF how = "auto" THEN owner.autoEpoch ELSE 0, digest |-> loaded]
  <1>1. /\ r \in StoredOperations /\ r.state = how /\ r.writeEpoch = owner.writeEpoch
        /\ r.autoEpoch = IF how = "auto" THEN owner.autoEpoch ELSE 0
    BY UserTyped DEF StoredOperations
  <1>2. stored' = [stored EXCEPT ![o] = r]
    BY DEF Prepare
  <1> HIDE DEF r
  <1>3. \A q \in Operations : stored'[q] = IF q = o THEN r ELSE stored[q]
    BY <1>2, UserTyped
  <1>4. /\ lasting' = lasting \cup {o}
        /\ autoLasting' = IF how = "auto" THEN autoLasting \cup {o} ELSE autoLasting
        /\ consentLasts' = consentLasts /\ owner' = owner /\ grant' = grant /\ minted' = minted
    BY DEF Prepare
  <1>5. StaleForGood'
    BY <1>1, <1>3, <1>4 DEF AuthorityInv, StaleForGood
  <1>6. TokensSpent'
    BY <1>1, <1>3, <1>4, UserTyped DEF AuthorityInv, TokensSpent
  <1>7. stored' \in [Operations -> StoredOperations]
    BY <1>1, <1>2, UserTyped
  <1> QED
    BY <1>4, <1>5, <1>6, <1>7, UserTyped, UserStep DEF Prepare

LEMMA ApproveStep ==
    ASSUME AuthorityInv, NEW o \in Operations, Approve(o)
    PROVE  AuthorityInv'
  <1>1. /\ \A q \in Operations : stored'[q] = IF q = o THEN [stored[o] EXCEPT !.state = "approved"]
                                                     ELSE stored[q]
        /\ stored' \in [Operations -> StoredOperations]
    BY UserTyped DEF Approve, StoredOperations
  <1>2. /\ stored'[o].state = "approved" /\ stored[o].state = "prepared"
        /\ stored'[o].writeEpoch = stored[o].writeEpoch
        /\ stored'[o].autoEpoch = stored[o].autoEpoch
    BY <1>1, UserTyped DEF Approve, StoredOperations
  <1>3. /\ lasting' = lasting /\ autoLasting' = autoLasting
        /\ consentLasts' = consentLasts /\ owner' = owner /\ grant' = grant /\ minted' = minted
    BY DEF Approve, file
  <1>4. StaleForGood'
    <2>1. ASSUME NEW q \in Operations
          PROVE  /\ stored'[q].writeEpoch = stored[q].writeEpoch
                 /\ stored'[q].state # "none" => stored[q].state # "none"
                 /\ stored'[q].state = "auto" => stored[q].state = "auto"
                 /\ stored'[q].autoEpoch = stored[q].autoEpoch
      BY <1>1, <1>2
    <2> QED
      BY <1>3, <2>1 DEF AuthorityInv, StaleForGood
  <1>5. TokensSpent'
    BY <1>1, <1>2, <1>3 DEF AuthorityInv, TokensSpent
  <1> QED
    BY <1>1, <1>3, <1>4, <1>5, UserTyped, UserStep DEF Approve, file

LEMMA GoneStep ==
    ASSUME AuthorityInv, NEW o \in Operations, Land(o) \/ Discard(o)
    PROVE  AuthorityInv'
  <1>1. /\ \A q \in Operations : stored'[q] = IF q = o THEN NoOperation ELSE stored[q]
        /\ stored' \in [Operations -> StoredOperations]
    BY UserTyped DEF Land, Discard
  <1>2. /\ lasting' = lasting \ {o} /\ autoLasting' = autoLasting \ {o}
        /\ consentLasts' = consentLasts /\ owner' = owner /\ grant' = grant /\ minted' = minted
    BY DEF Land, Discard
  <1>3. StaleForGood'
    BY <1>1, <1>2, UserTyped DEF AuthorityInv, StaleForGood
  <1>4. TokensSpent'
    BY <1>1, <1>2, UserTyped DEF AuthorityInv, TokensSpent
  <1> QED
    BY <1>1, <1>2, <1>3, <1>4, UserTyped, UserStep DEF Land, Discard

-----------------------------------------------------------------------------
(* The theorems. *)

LEMMA AuthorityInitially == ASSUME AuthorityInit PROVE AuthorityInv
  <1>1. AuthorityTypeOK
    <2>1. owner \in OwnerStates
      BY DEF AuthorityInit, OwnerStates, Sources
    <2>2. enrolled \in Enrollments /\ request \in Requests /\ grant \in Grants
      BY DEF AuthorityInit, Enrollments, Requests, Steps, Idle, Grants, Sources
    <2>3. stored \in [Operations -> StoredOperations]
      BY DEF AuthorityInit, NoOperation, StoredOperations, Sources
    <2> QED
      BY <2>1, <2>2, <2>3 DEF AuthorityInit, AuthorityTypeOK, Sources
  <1>2. FileReadable /\ BindingStands /\ WritesStandApproved
    BY DEF AuthorityInit, FileReadable, BindingStands, WritesStandApproved
  <1>3. StaleForGood /\ TokensSpent
    BY DEF AuthorityInit, StaleForGood, TokensSpent, NoOperation
  <1> QED
    BY <1>1, <1>2, <1>3 DEF AuthorityInv, AuthorityInit, Idle

LEMMA AuthorityStep == ASSUME AuthorityInv, [AuthorityNext]_authorityVars PROVE AuthorityInv'
  <1>1. CASE OwnerActs
    <2>1. ASSUME NEW revoke \in BOOLEAN, Disable(revoke)
          PROVE  AuthorityInv'
      BY <2>1, DisableStep
    <2>2. CASE \E auto \in BOOLEAN : EnableWrites(auto)
      BY <2>2, RequestSteps
    <2>3. CASE DisableWrites \/ DisableAuto \/ RetireAfterDisable \/ EnableReads
      BY <2>3, DisableWritesStep, DisableAutoStep, RetireAfterDisableStep, EnableReadsStep
    <2>4. CASE ExposeFirst \/ EnrollBegin \/ Flip \/ AutoOn \/ RollBack
      BY <2>4, ExposeFirstStep, EnrollBeginStep, FlipStep, AutoOnStep, RollBackStep
    <2>5. CASE Look \/ EnrollInstall \/ EnrollActivate \/ RequestFails
      BY <2>5, RequestSteps
    <2> QED
      BY <1>1, <2>1, <2>2, <2>3, <2>4, <2>5 DEF OwnerActs
  <1>2. CASE ProcessActs
    BY <1>2, LoadSteps, ResumeSteps, SettleStep, ReloadSteps, RestoreStep, OtherProcessSteps
       DEF ProcessActs
  <1>3. CASE UserActs
    BY <1>3, ConsentActsStep, PrepareStep, ApproveStep, GoneStep DEF UserActs
  <1>4. CASE UNCHANGED authorityVars
    <2>1. RestTyped
      BY <1>4, Typed DEF RestTyped, authorityVars, AuthorityInv, Serving
    <2> QED
      BY <1>4, <2>1, FileKept DEF authorityVars, file, users
  <1> QED
    BY <1>1, <1>2, <1>3, <1>4 DEF AuthorityNext

\* What the owner file, the process and the operations agree on holds in every
\* reachable state.
THEOREM AuthorityInvariant == AuthoritySpec => []AuthorityInv
  <1>1. AuthorityInit => AuthorityInv
    BY AuthorityInitially
  <1>2. AuthorityInv /\ [AuthorityNext]_authorityVars => AuthorityInv'
    BY AuthorityStep
  <1> QED
    BY <1>1, <1>2, PTL DEF AuthoritySpec

\* Approved writes are on only under the owner's standing word for the loaded
\* source, whatever switches, starts, reloads and restores came between.
THEOREM ApprovedWritesStand == AuthoritySpec => []WritesStandApproved
  <1>1. AuthorityInv => WritesStandApproved
    BY DEF AuthorityInv
  <1> QED
    BY <1>1, AuthorityInvariant, PTL

\* An operation lands only in the unbroken period of approved writes, and of
\* automatic approval where it rests on that, in which it was prepared.
THEOREM StaleNeverLands == AuthoritySpec => NothingStaleLands
  <1>1. ASSUME AuthorityInv
        PROVE  \A o \in Operations :
                  Land(o) => /\ o \in lasting
                             /\ stored[o].state = "auto" => o \in autoLasting /\ consentLasts
    <2>1. ASSUME NEW o \in Operations, Land(o)
          PROVE  o \in lasting
      BY <1>1, <2>1 DEF Land, CallHolds, Unexpired, AuthorityInv, StaleForGood
    <2>2. ASSUME NEW o \in Operations, Land(o), stored[o].state = "auto"
          PROVE  o \in autoLasting /\ consentLasts
      BY <1>1, <2>2 DEF Land, GrantApprovalLive, Eligible, AuthorityInv, StaleForGood
    <2> QED
      BY <2>1, <2>2
  <1> QED
    BY <1>1, AuthorityInvariant, PTL DEF NothingStaleLands
==============================================================================
