---------------------------- MODULE StorageFiles -----------------------------
(***************************************************************************)
(* The files of one tenant: their rows, upload intents and quota in the    *)
(* database and their objects at the storage provider                      *)
(* (packages/storage/src/service.ts, maintenance.ts).                      *)
(*                                                                         *)
(* A process runs one operation of the service or one maintenance pass.    *)
(* One action is one transaction, one autocommitted statement, or the      *)
(* calls to the provider between two of them.  Clients put objects through *)
(* signed URLs by themselves.                                              *)
(***************************************************************************)
EXTENDS Integers, FiniteSetsExt

CONSTANTS
  Files, Procs,
  NoFile,
  Bytes,         \* byte_size of a file
  VariantBytes,  \* size of its generated variants; 0: its type has none
  Limit,         \* storage_bytes_limit of the tenant
  MaxFaults      \* bound: crashes and failing calls, together

ASSUME StorageAssumption ==
  /\ IsFiniteSet(Files) /\ NoFile \notin Files
  /\ Bytes \in [Files -> Nat \ {0}] /\ VariantBytes \in [Files -> Nat]
  /\ Limit \in Nat /\ MaxFaults \in Nat

VARIABLES
  fstat, rows,         \* storage_files; files with rows in storage_file_variants
  intent, expired,     \* storage_upload_intents; those past expires_at
  objects, variants,   \* what the provider holds
  used, ledger,        \* storage_bytes_used; the sum of storage_usage_records
  proc, todo,          \* the processes; rows a pass has yet to go through
  faults,
  doubt,  \* history: the transaction took effect but its answer was lost
  late    \* history: claimed past expires_at, with a clock read before it

fileVars == <<fstat, rows, intent>>
objectVars == <<objects, variants>>
quotaVars == <<used, ledger>>
procVars == <<proc, todo>>
history == <<doubt, late>>
vars == <<fileVars, expired, objectVars, quotaVars, procVars, faults, history>>

FileStates == {"none", "pending", "available", "deleted", "abandoned", "purged"}
IntentStates == {"none", "pending", "processing", "completed", "expired"}
Passes == {"expire", "orphan", "purge"}
\* What a process does, for which file, and what its catch block will look at.
Idle == [at |-> "idle", kind |-> "complete", file |-> NoFile, inline |-> FALSE,
         wrote |-> FALSE, made |-> FALSE, perm |-> FALSE]
ProcStates ==
  [at : {"idle", "claim", "verify", "variants", "put", "commit", "undo", "release", "reopen",
         "delete", "erase", "pass", "passtx"},
   kind : {"complete", "upload", "delete"} \cup Passes, file : Files \cup {NoFile},
   inline : BOOLEAN, wrote : BOOLEAN, made : BOOLEAN, perm : BOOLEAN]

StorageTypeOK ==
  /\ fstat \in [Files -> FileStates] /\ rows \subseteq Files
  /\ intent \in [Files -> IntentStates] /\ expired \subseteq Files
  /\ objects \subseteq Files /\ variants \subseteq Files
  /\ used \in Nat /\ ledger \in Int
  /\ proc \in [Procs -> ProcStates] /\ todo \in [Procs -> SUBSET Files]
  /\ faults \in 0..MaxFaults
  /\ doubt \subseteq Files /\ late \subseteq Files

Init ==
  /\ fstat = [f \in Files |-> "none"] /\ rows = {}
  /\ intent = [f \in Files |-> "none"] /\ expired = {}
  /\ objects = {} /\ variants = {} /\ used = 0 /\ ledger = 0
  /\ proc = [p \in Procs |-> Idle] /\ todo = [p \in Procs |-> {}]
  /\ faults = 0 /\ doubt = {} /\ late = {}

-----------------------------------------------------------------------------
At(p, s) == proc[p].at = s
FileOf(p) == proc[p].file
Becomes(p, x) == proc' = [proc EXCEPT ![p] = x]
Goto(p, s) == Becomes(p, [proc[p] EXCEPT !.at = s]) /\ UNCHANGED todo
Leave(p) == Becomes(p, Idle) /\ todo' = [todo EXCEPT ![p] = {}]
Fail == faults < MaxFaults /\ faults' = faults + 1

\* reserveQuota and the usage record next to it.
Fits(delta) == delta <= 0 \/ used + delta <= Limit
Account(delta) ==
  /\ used' = IF used + delta < 0 THEN 0 ELSE used + delta
  /\ ledger' = ledger + delta
SetFile(f, s) == fstat' = [fstat EXCEPT ![f] = s]
\* UPDATE storage_upload_intents SET status = s WHERE status = from.
MoveIntent(f, from, s) ==
  intent' = IF intent[f] = from THEN [intent EXCEPT ![f] = s] ELSE intent

\* createUploadIntent: reservation, file and intent in one transaction.
CreateIntent(f) ==
  /\ fstat[f] = "none" /\ \A p \in Procs : FileOf(p) # f
  /\ Fits(Bytes[f]) /\ Account(Bytes[f])
  /\ SetFile(f, "pending") /\ intent' = [intent EXCEPT ![f] = "pending"]
  /\ UNCHANGED <<rows, expired, objectVars, procVars, faults, history>>

\* The client puts the object while its signed URL is valid.
ClientPut(f) ==
  /\ intent[f] # "none" /\ f \notin expired
  /\ objects' = objects \cup {f}
  /\ UNCHANGED <<fileVars, expired, variants, quotaVars, procVars, faults, history>>

Expire(f) ==
  /\ intent[f] # "none" /\ f \notin expired
  /\ expired' = expired \cup {f}
  /\ UNCHANGED <<fileVars, objectVars, quotaVars, procVars, faults, history>>

-----------------------------------------------------------------------------
(* completeUploadIntent and uploadFile *)

\* completeUploadIntent reads the clock before it claims the intent.
CallComplete(p, f, inline) ==
  /\ At(p, "idle") /\ intent[f] # "none" /\ f \notin expired
  /\ Becomes(p, [Idle EXCEPT !.at = "claim", !.file = f, !.inline = inline])
  /\ UNCHANGED <<fileVars, expired, objectVars, quotaVars, todo, faults, history>>

\* Mutant of Claimable: whoever completes the upload first wins.
ClaimableAgain(f) == intent[f] \in {"pending", "processing"} /\ fstat[f] = "pending"

Claimable(f) == intent[f] = "pending" /\ fstat[f] = "pending"

Claim(p) ==
  LET f == FileOf(p) IN
  /\ At(p, "claim")
  /\ IF Claimable(f)
     THEN /\ intent' = [intent EXCEPT ![f] = "processing"]
          /\ late' = IF f \in expired THEN late \cup {f} ELSE late
          /\ Goto(p, "verify")
     ELSE Leave(p) /\ UNCHANGED <<intent, late>>
  /\ UNCHANGED <<fstat, rows, expired, objectVars, quotaVars, faults, doubt>>

Undone(p, perm) ==
  Becomes(p, [proc[p] EXCEPT !.at = "undo", !.perm = perm]) /\ UNCHANGED todo

\* The checks of the bytes, from the request or read from the provider.
Readable(p) == fstat[FileOf(p)] = "pending" /\ (proc[p].inline \/ FileOf(p) \in objects)
Verify(p) ==
  /\ At(p, "verify") /\ Readable(p)
  /\ \/ Goto(p, "variants")
     \/ Undone(p, TRUE)
  /\ UNCHANGED <<fileVars, expired, objectVars, quotaVars, faults, history>>
\* The file is no longer pending, the object is missing, or a call fails: none
\* of the codes that make a failure permanent.
VerifyFails(p) ==
  /\ At(p, "verify") /\ Undone(p, FALSE)
  /\ IF Readable(p) THEN Fail ELSE UNCHANGED faults
  /\ UNCHANGED <<fileVars, expired, objectVars, quotaVars, history>>

\* uploadFile has checked the bytes it was called with.
StartUpload(p, f) ==
  /\ At(p, "idle") /\ fstat[f] = "none" /\ \A q \in Procs : FileOf(q) # f
  /\ Becomes(p, [Idle EXCEPT !.at = "variants", !.kind = "upload", !.file = f, !.inline = TRUE])
  /\ UNCHANGED <<fileVars, expired, objectVars, quotaVars, todo, faults, history>>

\* createManagedVariants; when it fails it may leave an object behind.
AfterVariants(p) == IF proc[p].inline THEN "put" ELSE "commit"
MakeVariants(p) ==
  LET f == FileOf(p) IN
  /\ At(p, "variants")
  /\ IF VariantBytes[f] > 0
     THEN /\ variants' = variants \cup {f}
          /\ Becomes(p, [proc[p] EXCEPT !.at = AfterVariants(p), !.made = TRUE])
     ELSE UNCHANGED variants /\ Becomes(p, [proc[p] EXCEPT !.at = AfterVariants(p)])
  /\ UNCHANGED <<fileVars, expired, objects, quotaVars, todo, faults, history>>
MakeVariantsFails(p) ==
  /\ At(p, "variants") /\ VariantBytes[FileOf(p)] > 0 /\ Fail /\ Undone(p, FALSE)
  /\ variants' \in {variants, variants \cup {FileOf(p)}}
  /\ UNCHANGED <<fileVars, expired, objects, quotaVars, history>>

\* putObject of the bytes of the request; a failed call may have stored them.
Put(p) ==
  /\ At(p, "put")
  /\ objects' = objects \cup {FileOf(p)}
  /\ Becomes(p, [proc[p] EXCEPT !.at = "commit", !.wrote = TRUE])
  /\ UNCHANGED <<fileVars, expired, variants, quotaVars, todo, faults, history>>
PutFails(p) ==
  /\ At(p, "put") /\ Fail /\ Undone(p, FALSE)
  /\ objects' \in {objects, objects \cup {FileOf(p)}}
  /\ UNCHANGED <<fileVars, expired, variants, quotaVars, history>>

\* What the transaction at the end asks of the database, and what it does.
Delta(p) ==
  VariantBytes[FileOf(p)] + (IF proc[p].kind = "upload" THEN Bytes[FileOf(p)] ELSE 0)
Committable(p) ==
  /\ fstat[FileOf(p)] = (IF proc[p].kind = "upload" THEN "none" ELSE "pending")
  /\ Fits(Delta(p))

MakeAvailable(p) ==
  LET f == FileOf(p) IN
  /\ Committable(p) /\ Account(Delta(p))
  /\ SetFile(f, "available") /\ MoveIntent(f, "processing", "completed")
  /\ rows' = IF proc[p].made THEN rows \cup {f} ELSE rows

Commit(p) ==
  /\ At(p, "commit") /\ MakeAvailable(p) /\ Leave(p)
  /\ UNCHANGED <<expired, objectVars, faults, history>>
CommitRefused(p) ==
  /\ At(p, "commit") /\ ~Committable(p) /\ Undone(p, FALSE)
  /\ UNCHANGED <<fileVars, expired, objectVars, quotaVars, faults, history>>
\* It raises, before or after it took effect.
CommitRaises(p) ==
  /\ At(p, "commit") /\ Fail /\ Undone(p, FALSE)
  /\ \/ UNCHANGED <<fileVars, quotaVars, doubt>>
     \/ MakeAvailable(p) /\ doubt' = doubt \cup {FileOf(p)}
  /\ UNCHANGED <<expired, objectVars, late>>

\* The catch block: remove from the provider what this call has put there, and
\* the client's object when it can never be accepted.
ErasesObject(p) == proc[p].wrote \/ (proc[p].perm /\ ~proc[p].inline)
AfterUndo(p) ==
  IF proc[p].kind = "upload" THEN Leave(p)
  ELSE Goto(p, IF proc[p].perm THEN "release" ELSE "reopen")
Erased(S, f, yes) == IF yes THEN S \ {f} ELSE S
Undo(p) ==
  /\ At(p, "undo")
  /\ objects' = Erased(objects, FileOf(p), ErasesObject(p))
  /\ variants' = Erased(variants, FileOf(p), proc[p].made)
  /\ AfterUndo(p)
  /\ UNCHANGED <<fileVars, expired, quotaVars, faults, history>>
UndoFails(p) ==
  /\ At(p, "undo") /\ Fail
  /\ objects' \in {objects, Erased(objects, FileOf(p), ErasesObject(p))}
  /\ variants' \in {variants, Erased(variants, FileOf(p), proc[p].made)}
  /\ AfterUndo(p)
  /\ UNCHANGED <<fileVars, expired, quotaVars, history>>

\* A file that is still pending is abandoned and its reservation given back.
Abandon(f) ==
  IF fstat[f] = "pending"
  THEN SetFile(f, "abandoned") /\ Account(-Bytes[f])
  ELSE UNCHANGED <<fstat, quotaVars>>

\* Mutant of Release: the intent stays claimed.
ReleaseFileOnly(p) ==
  /\ At(p, "release")
  /\ Abandon(FileOf(p)) /\ Leave(p)
  /\ UNCHANGED <<rows, intent, expired, objectVars, faults, history>>

\* The transaction after a permanent failure.
Release(p) ==
  /\ At(p, "release")
  /\ Abandon(FileOf(p)) /\ MoveIntent(FileOf(p), "processing", "expired")
  /\ Leave(p)
  /\ UNCHANGED <<rows, expired, objectVars, faults, history>>

\* The UPDATE after any other failure: only an unexpired intent is reopened.
Reopen(p) ==
  LET f == FileOf(p) IN
  /\ At(p, "reopen")
  /\ IF f \in expired THEN UNCHANGED intent ELSE MoveIntent(f, "processing", "pending")
  /\ Leave(p)
  /\ UNCHANGED <<fstat, rows, expired, objectVars, quotaVars, faults, history>>

-----------------------------------------------------------------------------
(* deleteFile *)

CallDelete(p, f) ==
  /\ At(p, "idle") /\ fstat[f] = "available"
  /\ Becomes(p, [Idle EXCEPT !.at = "delete", !.kind = "delete", !.file = f, !.made = f \in rows])
  /\ UNCHANGED <<fileVars, expired, objectVars, quotaVars, todo, faults, history>>

\* Mutant of StillThere: the row is not looked at again in the transaction.
StillThereUnchecked(f) == TRUE

StillThere(f) == fstat[f] = "available"

\* The size to give back was read before the transaction.
Delete(p) ==
  LET f == FileOf(p) IN
  /\ At(p, "delete")
  /\ IF StillThere(f)
     THEN /\ SetFile(f, "deleted")
          /\ Account(-(Bytes[f] + (IF proc[p].made THEN VariantBytes[f] ELSE 0)))
          /\ Goto(p, "erase")
     ELSE Leave(p) /\ UNCHANGED <<fstat, quotaVars>>
  /\ UNCHANGED <<rows, intent, expired, objectVars, faults, history>>

Erase(p) ==
  /\ At(p, "erase") /\ Leave(p)
  /\ objects' = objects \ {FileOf(p)}
  /\ variants' = Erased(variants, FileOf(p), proc[p].made)
  /\ UNCHANGED <<fileVars, expired, quotaVars, faults, history>>
\* A provider that fails is not noticed: cleanupDeletedFiles will try again.
EraseFails(p) ==
  /\ At(p, "erase") /\ Fail /\ Leave(p)
  /\ objects' \in {objects, objects \ {FileOf(p)}}
  /\ variants' \in {variants, Erased(variants, FileOf(p), proc[p].made)}
  /\ UNCHANGED <<fileVars, expired, quotaVars, history>>

-----------------------------------------------------------------------------
(* The maintenance passes *)

\* Mutant of Selected: the status of the intent is not looked at.
SelectedByExpiry(k) ==
  CASE k = "expire" -> {f \in expired : intent[f] \in {"pending", "processing"}}
    [] k = "orphan" -> {f \in Files : fstat[f] = "pending"
                                      /\ intent[f] \notin {"pending", "processing"}}
    [] k = "purge"  -> {f \in Files : fstat[f] = "deleted"}

\* The rows of the SELECT, before the ages of the last two are compared.
Selected(k) ==
  CASE k = "expire" -> {f \in expired : intent[f] = "pending"}
    [] k = "orphan" -> {f \in Files : fstat[f] = "pending"
                                      /\ intent[f] \notin {"pending", "processing"}}
    [] k = "purge"  -> {f \in Files : fstat[f] = "deleted"}

\* olderThan leaves open which files are old enough.
StartPass(p, k, S) ==
  /\ At(p, "idle") /\ S # {} /\ S \subseteq Selected(k)
  /\ k = "expire" => S = Selected(k)
  /\ Becomes(p, [Idle EXCEPT !.at = "pass", !.kind = k])
  /\ todo' = [todo EXCEPT ![p] = S]
  /\ UNCHANGED <<fileVars, expired, objectVars, quotaVars, faults, history>>

\* The provider is asked first; a file it does not delete is skipped.
PassErase(p, f) ==
  /\ At(p, "pass") /\ f \in todo[p]
  /\ objects' = objects \ {f}
  /\ variants' = Erased(variants, f, proc[p].kind = "purge" /\ f \in rows)
  /\ Becomes(p, [proc[p] EXCEPT !.at = "passtx", !.file = f])
  /\ todo' = [todo EXCEPT ![p] = @ \ {f}]
  /\ UNCHANGED <<fileVars, expired, quotaVars, faults, history>>
PassEraseFails(p, f) ==
  /\ At(p, "pass") /\ f \in todo[p] /\ Fail
  /\ objects' \in {objects, objects \ {f}}
  /\ variants' \in {variants, Erased(variants, f, proc[p].kind = "purge" /\ f \in rows)}
  /\ todo' = [todo EXCEPT ![p] = @ \ {f}]
  /\ UNCHANGED <<fileVars, expired, quotaVars, proc, history>>

\* Mutant of Settle: the intent expires, its file is forgotten.
SettleIntentOnly(p) ==
  LET f == FileOf(p) IN
  /\ MoveIntent(f, "pending", "expired") /\ UNCHANGED <<fstat, rows, quotaVars>>

\* The transaction, or for "purge" the DELETE with its cascade.
Settle(p) ==
  LET f == FileOf(p) IN
  CASE proc[p].kind = "expire" -> Abandon(f) /\ MoveIntent(f, "pending", "expired")
                                  /\ UNCHANGED rows
    [] proc[p].kind = "orphan" -> Abandon(f) /\ UNCHANGED <<intent, rows>>
    [] proc[p].kind = "purge"  ->
         /\ IF fstat[f] = "deleted"
            THEN SetFile(f, "purged") /\ intent' = [intent EXCEPT ![f] = "none"]
                 /\ rows' = rows \ {f}
            ELSE UNCHANGED fileVars
         /\ UNCHANGED quotaVars

PassSettle(p) ==
  /\ At(p, "passtx") /\ Settle(p)
  /\ Becomes(p, [proc[p] EXCEPT !.at = "pass", !.file = NoFile]) /\ UNCHANGED todo
  /\ UNCHANGED <<expired, objectVars, faults, history>>
PassDone(p) ==
  /\ At(p, "pass") /\ todo[p] = {} /\ Leave(p)
  /\ UNCHANGED <<fileVars, expired, objectVars, quotaVars, faults, history>>

\* The process dies, or a statement outside every try block raises.
Stop(p) ==
  /\ ~At(p, "idle") /\ Fail /\ Leave(p)
  /\ UNCHANGED <<fileVars, expired, objectVars, quotaVars, history>>

-----------------------------------------------------------------------------
Upload(p) ==
  \/ Claim(p) \/ Verify(p) \/ VerifyFails(p) \/ MakeVariants(p) \/ MakeVariantsFails(p)
  \/ Put(p) \/ PutFails(p) \/ Commit(p) \/ CommitRefused(p) \/ CommitRaises(p)
  \/ Undo(p) \/ UndoFails(p) \/ Release(p) \/ Reopen(p)
Pass(p) ==
  \/ \E f \in Files : PassErase(p, f) \/ PassEraseFails(p, f)
  \/ PassSettle(p) \/ PassDone(p)
\* What a process goes on with once it is called, and the passes cron starts.
Work(p) == Upload(p) \/ Delete(p) \/ Erase(p) \/ EraseFails(p) \/ Pass(p)
Cron(p) == \E k \in Passes, S \in SUBSET Files : StartPass(p, k, S)
Call(p) ==
  \E f \in Files :
    CallDelete(p, f) \/ StartUpload(p, f) \/ \E i \in BOOLEAN : CallComplete(p, f, i)

Next ==
  \/ \E f \in Files : CreateIntent(f) \/ ClientPut(f) \/ Expire(f)
  \/ \E p \in Procs : Call(p) \/ Cron(p) \/ Work(p) \/ Stop(p)

Spec == Init /\ [][Next]_vars

\* Intents expire, processes go on, and the cron schedule starts the pass over
\* expired intents again and again on some process.
Fairness ==
  /\ \A f \in Files : WF_vars(Expire(f))
  /\ \A p \in Procs : WF_vars(Work(p))
  /\ WF_vars(\E p \in Procs : StartPass(p, "expire", Selected("expire")))
FairSpec == Spec /\ Fairness

-----------------------------------------------------------------------------
\* The bytes a file takes from the quota.
Held(f) ==
  CASE fstat[f] = "pending"   -> Bytes[f]
    [] fstat[f] = "available" -> Bytes[f] + (IF f \in rows THEN VariantBytes[f] ELSE 0)
    [] OTHER                  -> 0

\* Whatever completions, deletions and passes race or fail half way, the usage
\* charged to the tenant is what its pending and available files hold, and the
\* usage records add up to it: nothing is charged or given back twice, and
\* reservations made at the same time never pass the limit together.
QuotaExact ==
  /\ used = SumFunctionOnSet([f \in Files |-> Held(f)], Files) /\ used <= Limit
  /\ ledger = used

\* Every available file has its object and its variants at the provider.  The
\* two exceptions are the code's: a commit whose answer was lost is undone, and
\* a claim whose clock was read before the expiry meets the cleanup pass.
AvailableHasObject ==
  \A f \in Files :
    fstat[f] = "available" /\ f \notin doubt \cup late
    => /\ f \in objects
       /\ f \in rows => f \in variants

\* At most one call is completing an upload at a time.
OneCompleter ==
  \A p, q \in Procs :
    LET busy == {"verify", "variants", "put", "commit", "undo", "release", "reopen"} IN
    p # q /\ FileOf(p) = FileOf(q) /\ FileOf(p) \notin late
    => ~(proc[p].at \in busy /\ proc[q].at \in busy)

\* File and intent change in different statements and yet agree; a pending file
\* always has a live intent, which is why cleanupOrphanedFiles finds nothing.
IntentAgrees ==
  \A f \in Files \ late :
    /\ fstat[f] = "pending" <=> intent[f] \in {"pending", "processing"}
    /\ fstat[f] = "abandoned" <=> intent[f] = "expired"
    /\ intent[f] = "completed" => fstat[f] \in {"available", "deleted"}

\* A claimed intent that no call works on any more and that nothing reopens.
Stranded(f) ==
  intent[f] = "processing" /\ \A p \in Procs : FileOf(p) # f

\* storage/README.md:45, "Failed or expired uploads release their reservation":
\* an expired upload nobody works on is one a maintenance pass will find.
NoStrandedReservation ==
  \A f \in expired :
    fstat[f] = "pending" /\ (\A p \in Procs : FileOf(p) # f /\ f \notin todo[p])
    => \E k \in Passes : f \in Selected(k)

\* Unless its intent is stranded, every reservation is in the end turned into an
\* available file or given back.
ReservationsReleased ==
  <>[](\A f \in Files : fstat[f] = "pending" => Stranded(f))

=============================================================================
