------------------------- MODULE ConnectorAuthority -------------------------
(***************************************************************************)
(* What the owner of an app lets its connector do: the owner file          *)
(* (src/app_mcp_epoch.go), the owner's switches                            *)
(* (src/app_mcp_connector_control.go), the revision enrollment             *)
(* (src/app_mcp_revision_enrollment.go, src/app_mcp_revision_retire.go),   *)
(* and the loads, reloads and restores that take approved writes away      *)
(* (src/app_mcp_policy_lock.go, src/app_loader.go, src/server.go), with    *)
(* the start that may give them back (src/app_mcp_writes_resume.go).       *)
(* Prepared operations live in the database and outlast all of these.      *)
(*                                                                         *)
(* Each change of the owner file is one step under its lock; enrollment, a *)
(* load and a reload hold it over several. The switches of one process are *)
(* serialised by lockAppMCPControl. A token is a number never used before. *)
(***************************************************************************)
EXTENDS Naturals

CONSTANTS
    Digests,       \* reviewed sources, each by its contract and execution digest
    NoDigest,      \* no reviewed mcp.yaml, or no approval
    Operations

ASSUME AuthorityAssumption == NoDigest \notin Digests

Sources == Digests \cup {NoDigest}

VARIABLES
    owner,         \* the owner file
    minted,        \* tokens drawn so far
    enrolled, ledger,   \* the enrollment record, and whether its triggers are installed
    source,        \* what is on disk
    phase, loaded, \* the served process and the generation it has published
    request,       \* the owner's switch being applied
    grant,         \* a user's grant, with what the consent allows to apply unreviewed
    stored         \* prepared operations

\* History: the digest the owner's last word stands for, and what has held
\* without a break since an operation was prepared or the user consented.
VARIABLES stands, lasting, autoLasting, consentLasts

file == <<owner, minted, lasting, autoLasting, consentLasts>>
process == <<phase, loaded, source>>
enrollment == <<enrolled, ledger>>
users == <<grant, stored>>

authorityVars == <<owner, minted, enrolled, ledger, source, phase, loaded, request, grant, stored,
                   stands, lasting, autoLasting, consentLasts>>

OwnerStates ==
    [version : 0..2,             \* 0: no file
     exposed : BOOLEAN, epoch : Nat,
     writesOn : BOOLEAN, writeEpoch : Nat, binding : Sources,
     auto : BOOLEAN, autoEpoch : Nat]

Enrollments == [state : {"none", "pending", "active", "retired"}, epoch : Nat]

Steps == {"idle", "expose", "look", "enroll", "install", "activate", "flip", "auto",
          "rollback", "retire"}

Requests == [step : Steps, auto : BOOLEAN, wasExposed : BOOLEAN, current : BOOLEAN]

Grants == [epoch : Nat, autoEpoch : Nat, digest : Sources]

StoredOperations ==
    [state : {"none", "prepared", "approved", "auto"},
     epoch : Nat, writeEpoch : Nat, autoEpoch : Nat, digest : Sources]

NoOperation == [state |-> "none", epoch |-> 0, writeEpoch |-> 0, autoEpoch |-> 0,
                digest |-> NoDigest]

Idle == [step |-> "idle", auto |-> FALSE, wasExposed |-> FALSE, current |-> FALSE]

AuthorityTypeOK ==
    /\ owner \in OwnerStates /\ minted \in Nat
    /\ enrolled \in Enrollments /\ ledger \in BOOLEAN
    /\ source \in Sources /\ loaded \in Sources
    /\ phase \in {"down", "checked", "loading", "resume", "settle", "up", "reloading"}
    /\ request \in Requests
    /\ grant \in Grants /\ stored \in [Operations -> StoredOperations]
    /\ stands \in Sources /\ lasting \in SUBSET Operations /\ autoLasting \in SUBSET Operations
    /\ consentLasts \in BOOLEAN

\* A database brought from elsewhere may hold the ledger's triggers already.
AuthorityInit ==
    /\ owner = [version |-> 0, exposed |-> FALSE, epoch |-> 0, writesOn |-> FALSE,
                writeEpoch |-> 0, binding |-> NoDigest, auto |-> FALSE, autoEpoch |-> 0]
    /\ minted = 0
    /\ enrolled = [state |-> "none", epoch |-> 0] /\ ledger \in BOOLEAN
    /\ source \in Sources /\ loaded = NoDigest /\ phase = "down"
    /\ request = Idle
    /\ grant = [epoch |-> 0, autoEpoch |-> 0, digest |-> NoDigest]
    /\ stored = [o \in Operations |-> NoOperation]
    /\ stands = NoDigest /\ lasting = {} /\ autoLasting = {} /\ consentLasts = FALSE

-----------------------------------------------------------------------------
(* The owner file. *)

Fresh == minted + 1

\* Variant: only automatic approval is renewed.
RotateAutoEpoch(s) == [s EXCEPT !.auto = FALSE, !.autoEpoch = Fresh]

\* rotateAppMCPWriteEpoch: every change of the write authority ends automatic
\* approval with it.
RotateWriteEpoch(s) == [s EXCEPT !.writeEpoch = Fresh, !.auto = FALSE, !.autoEpoch = Fresh]

\* turnOffAppMCPWritesWithLease: a start keeps the digest writes were approved
\* under, everything else forgets it.
TurnOff(s, keepBinding) ==
    RotateWriteEpoch([s EXCEPT !.version = 2, !.writesOn = FALSE,
                               !.binding = IF keepBinding THEN @ ELSE NoDigest])

\* mutateAppMCPEpochContext with exposed TRUE, creating the file if need be.
Expose(s) ==
    IF s.version = 0 THEN [s EXCEPT !.version = 1, !.exposed = TRUE, !.epoch = Fresh]
                     ELSE [s EXCEPT !.exposed = TRUE]

\* mutateAppMCPEpochContext with exposed FALSE; a revoke also renews the epoch.
Hide(s, rotate) ==
    LET hidden == [s EXCEPT !.exposed = FALSE, !.epoch = IF rotate THEN Fresh ELSE @]
    IN  IF s.version = 2 THEN TurnOff(hidden, FALSE) ELSE hidden

\* Variant: nothing to turn off, nothing to forget.
OwnerOffIfOn(s) == IF s.version = 2 /\ ~s.writesOn THEN s ELSE TurnOff(s, FALSE)

\* setAppMCPApprovedWrites(false). An owner-off also clears a start-up
\* suspension: writes off already, but the binding kept.
OwnerOff(s) ==
    IF s.version = 2 /\ ~s.writesOn /\ s.binding = NoDigest THEN s ELSE TurnOff(s, FALSE)

\* The one place that turns writes on (enableAppMCPRevisionEnrolledWritesAs).
TurnOn(s, digest) ==
    IF s.writesOn THEN s
    ELSE RotateWriteEpoch([s EXCEPT !.version = 2, !.writesOn = TRUE, !.binding = digest])

\* setAppMCPAutoApproveContext, either way a fresh token.
SetAuto(s, on) ==
    IF s.version = 2 THEN [s EXCEPT !.auto = on, !.autoEpoch = Fresh] ELSE s

\* The file is replaced as a whole.
Store(s) ==
    /\ owner' = s /\ minted' = Fresh
    /\ lasting' = IF s.writesOn THEN lasting ELSE {}
    /\ autoLasting' = IF s.auto THEN autoLasting ELSE {}
    /\ consentLasts' = (consentLasts /\ s.auto)

Withdraw == stands' = NoDigest

\* The file lock is held across the steps of a load, a reload or an enrollment.
LockFree ==
    /\ phase \notin {"loading", "reloading"}
    /\ request.step \notin {"install", "activate"}

Present == owner.version # 0

Serving == phase \in {"up", "reloading"}

GoTo(step) == request' = [request EXCEPT !.step = step]

-----------------------------------------------------------------------------
(* The owner turns things off. *)

Asked == Serving /\ request.step = "idle" /\ LockFree

\* A pause; with revoke, every grant dies as well. The ledger is retired next.
Disable(revoke) ==
    /\ Asked /\ Present
    /\ Store(Hide(owner, revoke)) /\ Withdraw
    /\ GoTo("retire")
    /\ UNCHANGED <<enrollment, process, users>>

DisableWrites ==
    /\ Asked /\ Present
    /\ Store(OwnerOff(owner)) /\ Withdraw
    /\ UNCHANGED <<enrollment, process, users, request>>

DisableAuto ==
    /\ Asked /\ Present
    /\ Store(SetAuto(owner, FALSE))
    /\ UNCHANGED <<enrollment, process, users, request, stands>>

\* retireAppMCPRevisionLedger: recorded first, dropped after, and the drop may
\* fail. A ledger in use stays.
Retires(manifest) == ledger /\ ~(owner.exposed /\ manifest)

RetireLedger ==
    /\ ledger' \in {ledger, FALSE}
    /\ IF Present
       THEN /\ Store(TurnOff(owner, FALSE)) /\ Withdraw
            /\ enrolled' = IF enrolled.state = "none" THEN enrolled
                           ELSE [state |-> "retired", epoch |-> owner.epoch]
       ELSE UNCHANGED <<file, enrolled, stands>>

RetireAfterDisable ==
    /\ request.step = "retire" /\ LockFree
    /\ IF Retires(loaded # NoDigest) THEN RetireLedger ELSE UNCHANGED <<file, enrollment, stands>>
    /\ GoTo("idle")
    /\ UNCHANGED <<process, users>>

-----------------------------------------------------------------------------
(* The owner turns things on. *)

EnableReads ==
    /\ Asked /\ loaded # NoDigest
    /\ Store(Expose(owner))
    /\ UNCHANGED <<enrollment, process, users, request, stands>>

\* enable --writes captures the generation and reads the exposure it may have
\* to put back.
EnableWrites(auto) ==
    /\ Serving /\ request.step = "idle"
    /\ loaded # NoDigest /\ source = loaded
    /\ request' = [step |-> "expose", auto |-> auto, wasExposed |-> owner.exposed,
                   current |-> TRUE]
    /\ UNCHANGED <<file, enrollment, process, users, stands>>

ExposeFirst ==
    /\ request.step = "expose" /\ LockFree
    /\ Store(Expose(owner))
    /\ GoTo("look")
    /\ UNCHANGED <<enrollment, process, users, stands>>

\* appMCPEnrollAndEnableWrites. A pending enrollment is an operator's matter.
Look ==
    /\ request.step = "look" /\ LockFree /\ enrolled.state # "pending"
    /\ GoTo(IF enrolled.state = "active" /\ enrolled.epoch = owner.epoch THEN "flip"
                                                                        ELSE "enroll")
    /\ UNCHANGED <<file, enrollment, process, users, stands>>

\* The captured generation is still the published one and still what is on disk.
SourceHolds == source = loaded /\ loaded # NoDigest

\* changeAppMCPRevisionEnrollment: writes go off, the record says pending, ...
EnrollBegin ==
    /\ request.step = "enroll" /\ LockFree /\ Present
    /\ request.current /\ SourceHolds
    /\ enrolled.state = "none" => ~ledger
    /\ Store(TurnOff(owner, FALSE)) /\ Withdraw
    /\ enrolled' = [state |-> "pending", epoch |-> owner.epoch]
    /\ GoTo("install")
    /\ UNCHANGED <<ledger, process, users>>

\* ... the triggers and tables commit, ...
EnrollInstall ==
    /\ request.step = "install" /\ request.current /\ SourceHolds
    /\ ledger' = TRUE
    /\ GoTo("activate")
    /\ UNCHANGED <<file, enrolled, process, users, stands>>

\* ... and the record says active.
EnrollActivate ==
    /\ request.step = "activate"
    /\ enrolled' = [enrolled EXCEPT !.state = "active"]
    /\ GoTo("flip")
    /\ UNCHANGED <<file, ledger, process, users, stands>>

\* verifyAppMCPRevisionEnrollmentForTx
Verified == enrolled.state = "active" /\ enrolled.epoch = owner.epoch /\ ledger

Flip ==
    /\ request.step = "flip" /\ LockFree
    /\ Verified /\ request.current /\ SourceHolds /\ owner.exposed
    /\ Store(TurnOn(owner, loaded))
    /\ stands' = loaded
    /\ GoTo(IF request.auto THEN "auto" ELSE "idle")
    /\ UNCHANGED <<enrollment, process, users>>

AutoOn ==
    /\ request.step = "auto" /\ LockFree
    /\ owner.exposed /\ owner.writesOn
    /\ Store(SetAuto(owner, TRUE))
    /\ GoTo("idle")
    /\ UNCHANGED <<enrollment, process, users, stands>>

\* Any step may fail or run out of time. A failed enable puts the exposure back
\* where it found it off.
RequestFails ==
    /\ request.step # "idle"
    /\ GoTo(IF request.step \in {"look", "enroll", "install", "activate", "flip"}
               /\ ~request.wasExposed
            THEN "rollback" ELSE "idle")
    /\ UNCHANGED <<file, enrollment, process, users, stands>>

RollBack ==
    /\ request.step = "rollback" /\ LockFree /\ Present
    /\ Store(Hide(owner, FALSE)) /\ Withdraw
    /\ GoTo("idle")
    /\ UNCHANGED <<enrollment, process, users>>

-----------------------------------------------------------------------------
(* The process. *)

Suspended == IF Present THEN Store(TurnOff(owner, TRUE)) ELSE UNCHANGED file

\* The boot check loads the app once, only to look.
BootCheck ==
    /\ phase = "down" /\ LockFree
    /\ Suspended /\ phase' = "checked"
    /\ UNCHANGED <<enrollment, users, request, stands, loaded, source>>

\* The router's checks of an edit load the app in another process.
CheckOnly ==
    /\ Present /\ LockFree
    /\ Store(TurnOff(owner, TRUE))
    /\ UNCHANGED <<enrollment, process, users, request, stands>>

LoadBegin ==
    /\ phase = "checked" /\ LockFree
    /\ Suspended /\ phase' = "loading"
    /\ UNCHANGED <<enrollment, users, request, stands, loaded, source>>

LoadEnd ==
    /\ phase = "loading"
    /\ loaded' = source /\ phase' = "resume"
    /\ UNCHANGED <<file, enrollment, users, request, stands, source>>

\* resumeAppMCPApprovedWrites: the same reviewed source, still exposed and
\* enrolled, gets back the writes a suspension took; anything else waits for
\* the owner.
MayResume ==
    /\ owner.version = 2 /\ ~owner.writesOn /\ owner.binding # NoDigest
    /\ owner.binding = loaded /\ source = loaded
    /\ owner.exposed /\ Verified

Resume ==
    /\ phase = "resume" /\ LockFree
    /\ IF MayResume THEN Store(TurnOn(owner, loaded)) ELSE UNCHANGED file
    /\ phase' = "settle"
    /\ UNCHANGED <<enrollment, users, request, stands, loaded, source>>

ResumeFails ==
    /\ phase = "resume" /\ phase' = "settle"
    /\ UNCHANGED <<file, enrollment, users, request, stands, loaded, source>>

\* retireUnusedAppMCPRevisionLedger, before requests are served. A manifest
\* that is withheld counts as present.
Settle ==
    /\ phase = "settle" /\ LockFree
    /\ \E manifest \in BOOLEAN :
          /\ loaded # NoDigest => manifest
          /\ IF Retires(manifest) THEN RetireLedger ELSE UNCHANGED <<file, enrollment, stands>>
    /\ phase' = "up"
    /\ UNCHANGED <<users, request, loaded, source>>

\* A reload or a change of environment forgets the approval.
ReloadBegin ==
    /\ phase = "up" /\ LockFree
    /\ IF Present THEN Store(TurnOff(owner, FALSE)) ELSE UNCHANGED file
    /\ Withdraw
    /\ phase' = "reloading"
    /\ UNCHANGED <<enrollment, users, request, loaded, source>>

ReloadEnd ==
    /\ phase = "reloading"
    /\ loaded' = source /\ phase' = "up"
    /\ request' = [request EXCEPT !.current = FALSE]
    /\ UNCHANGED <<file, enrollment, users, stands, source>>

ReloadAborts ==
    /\ phase = "reloading" /\ phase' = "up"
    /\ UNCHANGED <<file, enrollment, users, request, stands, loaded, source>>

\* invalidateAppMCPForRestoreWithLease: no process serves the database while it
\* is replaced, by hand or by a load that found it corrupt. What the restored
\* one holds is what it held then.
Restore ==
    /\ phase \in {"down", "loading"} /\ Present
    /\ Store(TurnOff([owner EXCEPT !.exposed = FALSE, !.epoch = Fresh], FALSE)) /\ Withdraw
    /\ ledger' \in BOOLEAN
    /\ UNCHANGED <<enrolled, process, users, request>>

Edit(d) ==
    /\ d # source /\ source' = d
    /\ UNCHANGED <<file, enrollment, users, request, stands, phase, loaded>>

AuthorityCrash ==
    /\ phase # "down" /\ phase' = "down"
    /\ request' = Idle /\ loaded' = NoDigest
    /\ UNCHANGED <<file, enrollment, users, stands, source>>

-----------------------------------------------------------------------------
(* Users and their operations. A call is admitted under a pin of the owner     *)
(* file and the generation, and refused under the lease unless the pin is      *)
(* still current, so what it does is done at that moment.                      *)

\* appMCPWriteAuthorityForTx under the lease of the coordinator.
CallHolds ==
    /\ phase = "up" /\ LockFree /\ SourceHolds
    /\ owner.exposed /\ owner.writesOn /\ grant.epoch = owner.epoch
    /\ Verified

\* A consent, with or without tools ticked to apply unreviewed.
Consent(ticked) ==
    /\ phase = "up" /\ owner.exposed /\ loaded # NoDigest
    /\ ticked => owner.writesOn /\ owner.auto
    /\ grant' = [epoch |-> owner.epoch, autoEpoch |-> IF ticked THEN owner.autoEpoch ELSE 0,
                 digest |-> IF ticked THEN loaded ELSE NoDigest]
    /\ consentLasts' = ticked
    /\ UNCHANGED <<owner, minted, lasting, autoLasting, enrollment, process, stored, request,
                   stands>>

\* appMCPAutoApproveEligible
Eligible ==
    owner.auto /\ grant.autoEpoch # 0 /\ grant.autoEpoch = owner.autoEpoch /\ grant.digest = loaded

Prepare(o, how) ==
    /\ CallHolds /\ stored[o].state = "none"
    /\ how = "auto" => Eligible
    /\ stored' = [stored EXCEPT ![o] =
          [state |-> how, epoch |-> owner.epoch, writeEpoch |-> owner.writeEpoch,
           autoEpoch |-> IF how = "auto" THEN owner.autoEpoch ELSE 0, digest |-> loaded]]
    /\ lasting' = lasting \cup {o}
    /\ autoLasting' = IF how = "auto" THEN autoLasting \cup {o} ELSE autoLasting
    /\ UNCHANGED <<owner, minted, consentLasts, enrollment, process, grant, request, stands>>

\* appMCPOperationExpired and appMCPBindSource
Unexpired(o) ==
    /\ stored[o].epoch = owner.epoch /\ stored[o].writeEpoch = owner.writeEpoch
    /\ stored[o].digest = loaded

\* The user approves in the browser.
Approve(o) ==
    /\ phase = "up" /\ LockFree /\ SourceHolds /\ owner.writesOn /\ Verified
    /\ stored[o].state = "prepared" /\ Unexpired(o)
    /\ stored' = [stored EXCEPT ![o].state = "approved"]
    /\ UNCHANGED <<file, enrollment, process, grant, request, stands>>

\* appMCPGrantApprovalLive
GrantApprovalLive(o) == Eligible /\ stored[o].autoEpoch = owner.autoEpoch

Land(o) ==
    /\ CallHolds /\ Unexpired(o)
    /\ \/ stored[o].state = "approved"
       \/ stored[o].state = "auto" /\ GrantApprovalLive(o)
    /\ stored' = [stored EXCEPT ![o] = NoOperation]
    /\ lasting' = lasting \ {o} /\ autoLasting' = autoLasting \ {o}
    /\ UNCHANGED <<owner, minted, consentLasts, enrollment, process, grant, request, stands>>

\* Cancelled, or swept once it expired.
Discard(o) ==
    /\ stored[o].state # "none"
    /\ stored' = [stored EXCEPT ![o] = NoOperation]
    /\ lasting' = lasting \ {o} /\ autoLasting' = autoLasting \ {o}
    /\ UNCHANGED <<owner, minted, consentLasts, enrollment, process, grant, request, stands>>

-----------------------------------------------------------------------------

OwnerActs ==
    \/ \E flag \in BOOLEAN : Disable(flag) \/ EnableWrites(flag)
    \/ DisableWrites \/ DisableAuto \/ RetireAfterDisable \/ EnableReads
    \/ ExposeFirst \/ Look \/ EnrollBegin \/ EnrollInstall \/ EnrollActivate
    \/ Flip \/ AutoOn \/ RequestFails \/ RollBack

ProcessActs ==
    \/ BootCheck \/ CheckOnly \/ LoadBegin \/ LoadEnd \/ Resume \/ ResumeFails \/ Settle
    \/ ReloadBegin \/ ReloadEnd \/ ReloadAborts \/ Restore \/ AuthorityCrash
    \/ \E d \in Sources : Edit(d)

UserActs ==
    \/ \E ticked \in BOOLEAN : Consent(ticked)
    \/ \E o \in Operations :
          \/ \E how \in {"prepared", "auto"} : Prepare(o, how)
          \/ Approve(o) \/ Land(o) \/ Discard(o)

AuthorityNext == OwnerActs \/ ProcessActs \/ UserActs

AuthoritySpec == AuthorityInit /\ [][AuthorityNext]_authorityVars

-----------------------------------------------------------------------------
(* Properties. *)

\* Writes are on only while the owner's last word on them is a yes to the very
\* source the process has loaded: not after an off, a disable, a revoke, a
\* reload or a restore, and not because a start found an older yes.
WritesStandApproved ==
    owner.writesOn /\ phase \in {"settle", "up"} => stands # NoDigest /\ stands = loaded

\* What was prepared lands only if writes were on without a break ever since,
\* and, if nobody reviewed it, automatic approval as well, since both the
\* operation and the consent it rests on.
NothingStaleLands ==
    [][\A o \in Operations :
          Land(o) => /\ o \in lasting
                     /\ stored[o].state = "auto" => o \in autoLasting /\ consentLasts
      ]_authorityVars

-----------------------------------------------------------------------------
(* What the proofs need besides. *)

\* readAppMCPEpoch refuses any other file.
FileReadable ==
    /\ owner.version # 2 => ~owner.writesOn /\ ~owner.auto /\ owner.binding = NoDigest
    /\ owner.auto => owner.writesOn
    /\ owner.writesOn => owner.exposed
    /\ owner.version = 0 => ~owner.exposed

BindingStands == owner.binding # NoDigest => owner.binding = stands

StaleForGood ==
    /\ \A o \in Operations :
          stored[o].state # "none" /\ stored[o].writeEpoch = owner.writeEpoch /\ owner.writesOn
              => o \in lasting
    /\ \A o \in Operations :
          stored[o].state = "auto" /\ stored[o].autoEpoch = owner.autoEpoch /\ owner.auto
              => o \in autoLasting
    /\ grant.autoEpoch # 0 /\ grant.autoEpoch = owner.autoEpoch /\ owner.auto => consentLasts

TokensSpent ==
    /\ owner.writeEpoch <= minted /\ owner.autoEpoch <= minted /\ grant.autoEpoch <= minted
    /\ \A o \in Operations : stored[o].writeEpoch <= minted /\ stored[o].autoEpoch <= minted

AuthorityInv ==
    /\ AuthorityTypeOK /\ WritesStandApproved
    /\ FileReadable /\ BindingStands /\ StaleForGood /\ TokensSpent
    /\ ~Serving => request.step = "idle"
    /\ owner.writesOn => owner.binding # NoDigest
    /\ owner.writesOn => phase \notin {"checked", "loading", "resume", "reloading"}
    /\ owner.writesOn /\ phase \in {"settle", "up"} => owner.binding = loaded
=============================================================================
