----------------------------- MODULE BulkImport -----------------------------
(***************************************************************************)
(* Bulk import into one app (src/import.go, src/import_http.go,            *)
(* src/import_run.go, and the same protocol for SQL restores in            *)
(* src/import_sql.go): chunks are staged on disk under a session row,      *)
(* commit hands the session to a load that reads them back, and the sweep  *)
(* of an app load ends what a dead process left. The session row is in the *)
(* database, the chunks are files, the per-app flag is memory.             *)
(*                                                                         *)
(* A statement or a file operation is one step; the load's transaction     *)
(* lands at its commit. Every chunk has one size, so bytes are counted in  *)
(* chunks. Cluster mode, which never sweeps, is left out.                  *)
(***************************************************************************)
EXTENDS Naturals, FiniteSets

CONSTANTS
    Sessions,
    Indices,       \* chunk indices that requests name ...
    File,          \*   and those of the declared file
    Puts,          \* chunk uploads in flight
    NoSession

ASSUME ImportAssumption ==
    /\ IsFiniteSet(Indices) /\ Indices \subseteq Nat
    /\ File \subseteq Indices /\ File # {}
    /\ NoSession \notin Sessions

VARIABLES
    importState,   \* _benmore_imports.state
    part,          \* part-N on disk: absent, or with the declared bytes or others
    put,           \* what an upload is about to do, on which chunk
    job,           \* who holds the per-app flag, with what a load has read so far
    purging,       \* cancelled sessions whose chunks are yet to be removed
    landed,        \* history: loads committed ...
    whole,         \*   and whether all were of the declared file,
    abandoned      \*   sessions whose cleaner died with the process

importVars == <<importState, part, put, job, purging, landed, whole, abandoned>>

Terminal == {"completed", "failed", "cancelled"}
JobSteps == {"down", "boot", "free", "sweep", "claim", "check", "rollback", "load", "open", "read",
             "failing", "purge"}
NoPut == [step |-> "none", session |-> NoSession, index |-> 0, bytes |-> "right"]
Job(s, x) == [step |-> s, session |-> x, left |-> {}, intact |-> FALSE]

ImportTypeOK ==
    /\ importState \in [Sessions -> Terminal \cup {"none", "staging", "running"}]
    /\ part \in [Sessions -> [Indices -> {"absent", "right", "wrong"}]]
    /\ put \in [Puts -> [step : {"none", "write", "recheck", "measure"},
                         session : Sessions \cup {NoSession}, index : Indices \cup {0},
                         bytes : {"right", "wrong"}]]
    /\ job \in [step : JobSteps, session : Sessions \cup {NoSession},
                left : SUBSET Indices, intact : BOOLEAN]
    /\ purging \subseteq Sessions
    /\ landed \in [Sessions -> Nat] /\ whole \in [Sessions -> BOOLEAN]
    /\ abandoned \subseteq Sessions

ImportInit ==
    /\ importState = [s \in Sessions |-> "none"]
    /\ part = [s \in Sessions |-> [n \in Indices |-> "absent"]]
    /\ put = [p \in Puts |-> NoPut]
    /\ job = Job("boot", NoSession)
    /\ purging = {} /\ abandoned = {}
    /\ landed = [s \in Sessions |-> 0] /\ whole = [s \in Sessions |-> TRUE]

\* partIndices and stagedBytes.
Staged(s) == {n \in Indices : part[s][n] # "absent"}
Measures(s) == Cardinality(Staged(s)) = Cardinality(File)

Moves(s, from, to) ==
    /\ importState[s] = from
    /\ importState' = [importState EXCEPT ![s] = to]

\* os.RemoveAll of the staging directory.
Emptied(s) == part' = [part EXCEPT ![s] = [n \in Indices |-> "absent"]]

Accepts == job.step \notin {"down", "boot"}
Loads == UNCHANGED <<landed, whole>>

-----------------------------------------------------------------------------
(* Uploads. *)

\* The identical request again resumes the staging session: nothing changes.
CreateSession(s) ==
    /\ Accepts /\ Moves(s, "none", "staging")
    /\ UNCHANGED <<part, put, job, purging, abandoned>> /\ Loads

StartPut(p, s, n, bytes) ==
    /\ put[p].step = "none" /\ Accepts /\ importState[s] = "staging"
    /\ put' = [put EXCEPT ![p] = [step |-> "write", session |-> s, index |-> n, bytes |-> bytes]]
    /\ UNCHANGED <<importState, part, job, purging, abandoned>> /\ Loads

PutAt(p, step) == put[p].step = step
Chunk(p, what) == part' = [part EXCEPT ![put[p].session][put[p].index] = what]
PutOver(p) == put' = [put EXCEPT ![p] = NoPut]

\* writeImportChunk renames the part into place, over an earlier one.
WritePart(p) ==
    /\ PutAt(p, "write") /\ Chunk(p, put[p].bytes)
    /\ put' = [put EXCEPT ![p].step = "recheck"]
    /\ UNCHANGED <<importState, job, purging, abandoned>> /\ Loads

WriteFails(p) ==
    /\ PutAt(p, "write") /\ PutOver(p)
    /\ UNCHANGED <<importState, part, job, purging, abandoned>> /\ Loads

\* Variant: the session is not read again.
StagingAsBefore(p) == TRUE

\* A session that left staging meanwhile, or cannot be read, loses the part again.
StillStaging(p) == importState[put[p].session] = "staging"

Recheck(p) ==
    /\ PutAt(p, "recheck")
    /\ \/ StillStaging(p) /\ put' = [put EXCEPT ![p].step = "measure"] /\ UNCHANGED part
       \/ Chunk(p, "absent") /\ PutOver(p)
    /\ UNCHANGED <<importState, job, purging, abandoned>> /\ Loads

\* So does one that would exceed the declared size.
MeasurePut(p) ==
    /\ PutAt(p, "measure") /\ PutOver(p)
    /\ IF Cardinality(Staged(put[p].session)) > Cardinality(File)
       THEN Chunk(p, "absent") ELSE UNCHANGED part
    /\ UNCHANGED <<importState, job, purging, abandoned>> /\ Loads

-----------------------------------------------------------------------------
(* Commit and cancel. *)

\* The state was read before the flag is taken and may be another by then.
TakeFlag(s) ==
    /\ job.step = "free" /\ importState[s] # "none"
    /\ job' = Job("claim", s)
    /\ UNCHANGED <<importState, part, put, purging, abandoned>> /\ Loads

\* UPDATE ... SET state='running' WHERE id=? AND state='staging'.
ClaimSession ==
    /\ job.step = "claim"
    /\ \/ Moves(job.session, "staging", "running") /\ job' = [job EXCEPT !.step = "check"]
       \/ job' = Job("free", NoSession) /\ UNCHANGED importState
    /\ UNCHANGED <<part, put, purging, abandoned>> /\ Loads

\* A storage cap or a full disk also refuses it.
CheckCommit ==
    /\ job.step = "check"
    /\ \/ Measures(job.session) /\ job' = [job EXCEPT !.step = "load"]
       \/ job' = [job EXCEPT !.step = "rollback"]
    /\ UNCHANGED <<importState, part, put, purging, abandoned>> /\ Loads

\* A rollback that cannot be written leaves the row running.
RollBackCommit ==
    /\ job.step = "rollback"
    /\ Moves(job.session, "running", "staging") \/ UNCHANGED importState
    /\ job' = Job("free", NoSession)
    /\ UNCHANGED <<part, put, purging, abandoned>> /\ Loads

\* Variant: saveImportState, whatever the state is by now.
CancelAnySession(s) ==
    /\ Accepts /\ importState[s] # "none"
    /\ importState' = [importState EXCEPT ![s] = "cancelled"]
    /\ purging' = purging \cup {s}
    /\ UNCHANGED <<part, put, job, abandoned>> /\ Loads

\* saveImportStateIf: a session that is not staging any more is left alone.
CancelSession(s) ==
    /\ Accepts /\ Moves(s, "staging", "cancelled")
    /\ purging' = purging \cup {s}
    /\ UNCHANGED <<part, put, job, abandoned>> /\ Loads

PurgeCancelled(s) ==
    /\ s \in purging /\ Emptied(s)
    /\ purging' = purging \ {s}
    /\ UNCHANGED <<importState, put, job, abandoned>> /\ Loads

-----------------------------------------------------------------------------
(* The load. *)

Loading == job.step \in {"load", "open", "read"}

MeasureLoad ==
    /\ job.step = "load" /\ Measures(job.session)
    /\ job' = [job EXCEPT !.step = "open"]
    /\ UNCHANGED <<importState, part, put, purging, abandoned>> /\ Loads

\* stagedRawReader lists the parts once.
OpenParts ==
    /\ job.step = "open" /\ Staged(job.session) # {}
    /\ job' = [job EXCEPT !.step = "read", !.left = Staged(job.session),
                          !.intact = (Staged(job.session) = File)]
    /\ UNCHANGED <<importState, part, put, purging, abandoned>> /\ Loads

\* lazyPartsReader opens them one by one, in order; one that has vanished
\* fails the load.
ReadPart(n) ==
    /\ job.step = "read" /\ n \in job.left /\ \A m \in job.left : n <= m
    /\ part[job.session][n] # "absent"
    /\ job' = [job EXCEPT !.left = @ \ {n},
                          !.intact = (@ /\ part[job.session][n] = "right")]
    /\ UNCHANGED <<importState, part, put, purging, abandoned>> /\ Loads

\* Variant: the size is enough.
ChecksumIgnored == TRUE

\* The checksum of what was read.
ChecksumHolds == job.intact

\* The rows and the completed state commit together.
CompleteImport ==
    /\ job.step = "read" /\ job.left = {} /\ ChecksumHolds
    /\ Moves(job.session, "running", "completed")
    /\ landed' = [landed EXCEPT ![job.session] = @ + 1]
    /\ whole' = [whole EXCEPT ![job.session] = @ /\ job.intact]
    /\ job' = [job EXCEPT !.step = "purge"]
    /\ UNCHANGED <<part, put, purging, abandoned>>

\* A bad row, a wrong size or checksum, a panic, a shutdown, a full disk.
LoadFails ==
    /\ Loading
    /\ job' = Job("failing", job.session)
    /\ UNCHANGED <<importState, part, put, purging, abandoned>> /\ Loads

\* If the failure cannot be written the row stays running, its parts stay too.
FailLoad ==
    /\ job.step = "failing"
    /\ \/ Moves(job.session, "running", "failed") /\ job' = Job("purge", job.session)
       \/ job' = Job("free", NoSession) /\ UNCHANGED importState
    /\ UNCHANGED <<part, put, purging, abandoned>> /\ Loads

PurgeLoaded ==
    /\ job.step = "purge" /\ Emptied(job.session)
    /\ job' = Job("free", NoSession)
    /\ UNCHANGED <<importState, put, purging, abandoned>> /\ Loads

-----------------------------------------------------------------------------
(* The sweep of an app load, the death of the process. *)

\* recoverInterruptedImports holds the flag: at the start of a process before
\* requests are served, at a reload while they are. A reload that finds the
\* flag taken does not sweep.
StartSweep ==
    /\ job.step \in {"down", "free"}
    /\ job' = Job(IF job.step = "down" THEN "boot" ELSE "sweep", NoSession)
    /\ UNCHANGED <<importState, part, put, purging, abandoned>> /\ Loads

Sweeping == job.step \in {"boot", "sweep"}

\* A running row, or one that has been staging for a day; then its chunks.
SweepSession(s) ==
    /\ Sweeping /\ job.session = NoSession
    /\ Moves(s, "running", "failed") \/ Moves(s, "staging", "failed")
    /\ job' = [job EXCEPT !.session = s]
    /\ UNCHANGED <<part, put, purging, abandoned>> /\ Loads

SweepPurge ==
    /\ Sweeping /\ job.session # NoSession /\ Emptied(job.session)
    /\ job' = [job EXCEPT !.session = NoSession]
    /\ UNCHANGED <<importState, put, purging, abandoned>> /\ Loads

\* A row whose update fails is passed over.
EndSweep ==
    /\ Sweeping /\ job.session = NoSession
    /\ job' = Job("free", NoSession)
    /\ UNCHANGED <<importState, part, put, purging, abandoned>> /\ Loads

\* Sessions whose chunks somebody is about to remove.
PurgedByJob(s) == job.step \in {"purge", "boot", "sweep"} /\ job.session = s

\* The ended sessions that lose whoever was about to remove their chunks.
Cleaned ==
    {s \in Sessions :
        /\ importState[s] \in Terminal
        /\ \/ s \in purging \/ PurgedByJob(s)
           \/ \E p \in Puts : PutAt(p, "recheck") /\ put[p].session = s}

ImportCrash ==
    /\ job.step # "down"
    /\ job' = Job("down", NoSession)
    /\ put' = [p \in Puts |-> NoPut]
    /\ purging' = {} /\ abandoned' = abandoned \cup Cleaned
    /\ UNCHANGED <<importState, part>> /\ Loads

-----------------------------------------------------------------------------
UploadStep ==
    \/ \E s \in Sessions : CreateSession(s)
    \/ \E p \in Puts :
          \/ \E s \in Sessions, n \in Indices, b \in {"right", "wrong"} : StartPut(p, s, n, b)
          \/ WritePart(p) \/ WriteFails(p) \/ Recheck(p) \/ MeasurePut(p)
CommitStep ==
    \/ \E s \in Sessions : TakeFlag(s) \/ CancelSession(s) \/ PurgeCancelled(s)
    \/ ClaimSession \/ CheckCommit \/ RollBackCommit
LoadStep ==
    \/ MeasureLoad \/ OpenParts \/ CompleteImport \/ LoadFails \/ FailLoad \/ PurgeLoaded
    \/ \E n \in Indices : ReadPart(n)
SweepStep ==
    \/ StartSweep \/ SweepPurge \/ EndSweep \/ ImportCrash
    \/ \E s \in Sessions : SweepSession(s)

ImportNext == UploadStep \/ CommitStep \/ LoadStep \/ SweepStep
ImportSpec == ImportInit /\ [][ImportNext]_importVars

-----------------------------------------------------------------------------
(* Properties. *)

\* Whatever uploads, a second commit, cancels, sweeps and crashes do while the
\* load reads its chunks one by one, the rows of a session are in the table
\* once and are those of the declared file, if and only if it is completed.
LoadedWhole ==
    \A s \in Sessions :
        whole[s] /\ landed[s] = IF importState[s] = "completed" THEN 1 ELSE 0

\* How a session ended is never rewritten: not by a cancel, a sweep or a
\* rollback that had seen it before.
TerminalStays ==
    [][\A s \in Sessions :
          importState[s] \in Terminal => importState'[s] = importState[s]]_importVars

\* Chunks of a session that has ended are about to be removed, by whoever ended
\* it or by the upload that came too late, or that one died with the process.
LeftoversHaveCause ==
    \A s \in Sessions :
        importState[s] \in Terminal /\ s \notin abandoned => \A n \in Staged(s) :
            \/ s \in purging \/ PurgedByJob(s)
            \/ \E p \in Puts : PutAt(p, "recheck") /\ put[p].session = s /\ put[p].index = n

\* The session a commit or a load works on is running, and stays so under it.
OwnerRuns ==
    job.step \in {"check", "rollback", "load", "open", "read", "failing"} =>
        importState[job.session] = "running"

\* What is under way names its session, and an upload its chunk too.
Addressed ==
    /\ job.step \in {"claim", "check", "rollback", "load", "open", "read", "failing", "purge"} =>
          job.session \in Sessions
    /\ \A p \in Puts : put[p].step # "none" =>
          put[p].session \in Sessions /\ put[p].index \in Indices

ImportInv == ImportTypeOK /\ Addressed /\ OwnerRuns /\ LoadedWhole /\ LeftoversHaveCause
=============================================================================
