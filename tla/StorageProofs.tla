---------------------------- MODULE StorageProofs ----------------------------
(***************************************************************************)
(* Proofs about StorageFiles and ApiRequests.                              *)
(*                                                                         *)
(* Storage: the inductive invariant says, for each place a process can be  *)
(* in, what it still relies on: a call completing an upload owns its       *)
(* pending file, an upload's file is nobody else's, the rows a pass goes   *)
(* through can no longer become available, and the sizes that a            *)
(* transaction charges or gives back are those of the rows it changes.     *)
(*                                                                         *)
(* API: a key that has no response is owned by the one request that wrote  *)
(* it, and only its owner logs an event for it.  An upload is completed by *)
(* the request that the API has sent to the storage service, so the answer *)
(* of the one finds the row of the other.                                  *)
(***************************************************************************)
EXTENDS ApiRequests, SumFacts

Completing(p) ==
  /\ proc[p].kind = "complete"
  /\ proc[p].at \in {"verify", "variants", "put", "commit", "undo", "release", "reopen"}
Uploading(p) ==
  /\ proc[p].kind = "upload"
  /\ proc[p].at \in {"variants", "put", "commit", "undo"}

\* Where a process of each kind can be, and when it has a file or rows to do.
StageInv ==
  \A p \in Procs :
    /\ FileOf(p) = NoFile <=> proc[p].at \in {"idle", "pass"}
    /\ proc[p].at \in {"claim", "verify", "release", "reopen"} => proc[p].kind = "complete"
    /\ proc[p].at \in {"variants", "put", "commit", "undo"} =>
         proc[p].kind \in {"complete", "upload"}
    /\ proc[p].at \in {"delete", "erase"} => proc[p].kind = "delete"
    /\ proc[p].at \in {"pass", "passtx"} <=> proc[p].kind \in Passes
    /\ proc[p].at \notin {"pass", "passtx"} => todo[p] = {}
    /\ proc[p].at \in {"claim", "verify", "variants"} => ~proc[p].made

\* What the columns of one file say together.
RowInv ==
  \A f \in Files :
    /\ intent[f] # "none" \/ f \in late => fstat[f] # "none"
    /\ fstat[f] \in {"none", "pending"} => f \notin rows /\ f \notin doubt

\* A completing call owns its file until the commit whose answer it lost.
CompleteInv ==
  \A p \in Procs : Completing(p) /\ FileOf(p) \notin late =>
    \/ intent[FileOf(p)] = "processing" /\ fstat[FileOf(p)] = "pending"
    \/ proc[p].at \in {"undo", "reopen"} /\ ~proc[p].perm /\ FileOf(p) \in doubt

\* No other call writes the file of an upload, and no row names it before the
\* commit.
UploadInv ==
  \A p \in Procs : Uploading(p) =>
    /\ intent[FileOf(p)] = "none"
    /\ fstat[FileOf(p)] = "none" \/ (proc[p].at = "undo" /\ FileOf(p) \in doubt)
    /\ \A q \in Procs \ {p} : FileOf(q) = FileOf(p) => proc[q].kind \in Passes \cup {"delete"}

\* The rows a pass or a deletion has in hand never become available again.
HandInv ==
  \A p \in Procs :
    /\ proc[p].at = "delete" => fstat[FileOf(p)] \in {"available", "deleted", "purged"}
    /\ proc[p].at = "erase" => fstat[FileOf(p)] \in {"deleted", "purged"}
    /\ \A f \in Files \ late : f \in todo[p] \/ f = FileOf(p) =>
         /\ proc[p].kind = "expire" => /\ f \in expired
                                       /\ intent[f] \in {"pending", "expired"}
                                       /\ fstat[f] \in {"pending", "abandoned"}
         /\ proc[p].kind # "orphan"
         /\ proc[p].kind = "purge" => fstat[f] \in {"deleted", "purged"}

\* What a call is about to commit is at the provider.
ObjectInv ==
  \A p \in Procs : (Completing(p) \/ Uploading(p)) /\ FileOf(p) \notin late =>
    /\ proc[p].at = "variants" /\ ~proc[p].inline => FileOf(p) \in objects
    /\ proc[p].at = "commit" => FileOf(p) \in objects
    /\ proc[p].at \in {"put", "commit"} /\ proc[p].made => FileOf(p) \in variants

IInv ==
  /\ StorageTypeOK /\ StageInv /\ RowInv /\ IntentAgrees
  /\ CompleteInv /\ UploadInv /\ OneCompleter /\ HandInv
  /\ ObjectInv /\ AvailableHasObject

-----------------------------------------------------------------------------
\* How an action leaves the record of its process; the others keep theirs.
Stages == {"idle", "claim", "verify", "variants", "put", "commit", "undo", "release", "reopen",
           "delete", "erase", "pass", "passtx"}

Given(p, x) ==
  /\ proc' \in [Procs -> ProcStates] /\ proc'[p] = x
  /\ \A q \in Procs \ {p} : proc'[q] = proc[q]
Now(p, s, k, f, i, w, m, e) ==
  /\ proc' \in [Procs -> ProcStates] /\ \A q \in Procs \ {p} : proc'[q] = proc[q]
  /\ proc'[p].at = s /\ proc'[p].kind = k /\ proc'[p].file = f /\ proc'[p].inline = i
  /\ proc'[p].wrote = w /\ proc'[p].made = m /\ proc'[p].perm = e
\* It only goes to another stage, or is idle again.
NowAt(p, s) ==
  Now(p, s, proc[p].kind, proc[p].file, proc[p].inline, proc[p].wrote, proc[p].made, proc[p].perm)
NowUndone(p, b) ==
  Now(p, "undo", proc[p].kind, proc[p].file, proc[p].inline, proc[p].wrote, proc[p].made, b)
NowIdle(p) ==
  /\ Now(p, "idle", "complete", NoFile, FALSE, FALSE, FALSE, FALSE)
  /\ todo' \in [Procs -> SUBSET Files] /\ todo'[p] = {}
  /\ \A q \in Procs \ {p} : todo'[q] = todo[q]

\* The record of an idle process.
LEMMA IdleTyped == Idle \in ProcStates
BY DEF Idle, ProcStates, Passes

\* The fields of the record of a process.
LEMMA Fields ==
  ASSUME IInv, NEW p \in Procs
  PROVE  /\ proc[p] \in ProcStates
         /\ proc[p].at \in Stages /\ proc[p].kind \in {"complete", "upload", "delete"} \cup Passes
         /\ proc[p].file \in Files \cup {NoFile}
         /\ proc[p].at \notin {"idle", "pass"} => proc[p].file \in Files
<1>1. proc[p] \in ProcStates
  BY DEF IInv, StorageTypeOK
<1>2. /\ proc[p].at \in Stages /\ proc[p].kind \in {"complete", "upload", "delete"} \cup Passes
      /\ proc[p].file \in Files \cup {NoFile}
  BY <1>1 DEF ProcStates, Stages
<1>3. QED
  BY <1>1, <1>2 DEF IInv, StageInv, FileOf

\* A record given to a process is its record from then on.
LEMMA Replaced ==
  ASSUME IInv, NEW p \in Procs, NEW x \in ProcStates, Becomes(p, x)
  PROVE  Given(p, x)
BY DEF IInv, StorageTypeOK, Becomes, Given

\* Goto moves it to another stage.
LEMMA Moved ==
  ASSUME IInv, NEW p \in Procs, NEW s \in Stages, Becomes(p, [proc[p] EXCEPT !.at = s])
  PROVE  NowAt(p, s)
<1>1. proc[p] \in ProcStates /\ [proc[p] EXCEPT !.at = s] \in ProcStates
  BY Fields DEF ProcStates, Stages
<1>2. Given(p, [proc[p] EXCEPT !.at = s])
  BY <1>1, Replaced
<1>3. QED
  BY <1>1, <1>2 DEF Given, Now, NowAt, ProcStates

\* Undone moves it to its catch block.
LEMMA MovedUndone ==
  ASSUME IInv, NEW p \in Procs, NEW b \in BOOLEAN, Undone(p, b)
  PROVE  NowUndone(p, b) /\ todo' = todo
<1>1. proc[p] \in ProcStates /\ [proc[p] EXCEPT !.at = "undo", !.perm = b] \in ProcStates
  BY Fields DEF ProcStates
<1>2. Given(p, [proc[p] EXCEPT !.at = "undo", !.perm = b]) /\ todo' = todo
  BY <1>1, Replaced DEF Undone
<1>3. QED
  BY <1>1, <1>2 DEF Given, Now, NowUndone, ProcStates

\* Leave makes it idle.
LEMMA Left ==
  ASSUME IInv, NEW p \in Procs, Leave(p)
  PROVE  NowIdle(p)
<1>1. Given(p, Idle)
  BY Replaced, IdleTyped DEF Leave
<1>2. Now(p, "idle", "complete", NoFile, FALSE, FALSE, FALSE, FALSE)
  BY <1>1 DEF Given, Idle, Now
<1>3. QED
  BY <1>2 DEF IInv, StorageTypeOK, Leave, NowIdle

\* createUploadIntent takes a file no process knows of.
LEMMA CreateIntentKeeps ==
  ASSUME IInv, NEW f \in Files, CreateIntent(f)
  PROVE  IInv'
<1> USE DEF CreateIntent, Fits, Account, SetFile, At, FileOf,
           fileVars, objectVars, quotaVars, procVars, history
<1>1. StorageTypeOK'
  BY StorageAssumption DEF IInv, StorageTypeOK, FileStates, IntentStates
<1>2. StageInv'
  BY StorageAssumption DEF IInv, StorageTypeOK, StageInv, Passes
<1>3. RowInv'
  BY DEF IInv, StorageTypeOK, RowInv
<1>4. IntentAgrees'
  BY DEF IInv, StorageTypeOK, IntentAgrees
<1>5. CompleteInv'
  BY DEF IInv, StorageTypeOK, CompleteInv, Completing
<1>6. UploadInv'
  BY DEF IInv, StorageTypeOK, UploadInv, Uploading
<1>7. OneCompleter'
  BY DEF IInv, StorageTypeOK, OneCompleter
<1>8. HandInv'
  BY DEF IInv, StorageTypeOK, HandInv, Passes
<1>9. ObjectInv'
  BY DEF IInv, StorageTypeOK, ObjectInv, Completing, Uploading
<1>10. AvailableHasObject'
  BY DEF IInv, StorageTypeOK, AvailableHasObject
<1>11. QED
  BY <1>1, <1>2, <1>3, <1>4, <1>5, <1>6, <1>7, <1>8, <1>9, <1>10 DEF IInv

\* A client's object arrives, an intent expires: rows and processes stay.
LEMMA ClientKeeps ==
  ASSUME IInv, NEW f \in Files, ClientPut(f) \/ Expire(f)
  PROVE  IInv'
<1> USE DEF ClientPut, Expire, At, FileOf,
           fileVars, objectVars, quotaVars, procVars, history
<1>1. StorageTypeOK'
  BY StorageAssumption DEF IInv, StorageTypeOK, FileStates, IntentStates
<1>2. StageInv'
  BY StorageAssumption DEF IInv, StorageTypeOK, StageInv, Passes
<1>3. RowInv'
  BY DEF IInv, StorageTypeOK, RowInv
<1>4. IntentAgrees'
  BY DEF IInv, StorageTypeOK, IntentAgrees
<1>5. CompleteInv'
  BY DEF IInv, StorageTypeOK, CompleteInv, Completing
<1>6. UploadInv'
  BY DEF IInv, StorageTypeOK, UploadInv, Uploading
<1>7. OneCompleter'
  BY DEF IInv, StorageTypeOK, OneCompleter
<1>8. HandInv'
  BY DEF IInv, StorageTypeOK, HandInv, Passes
<1>9. ObjectInv'
  BY DEF IInv, StorageTypeOK, ObjectInv, Completing, Uploading
<1>10. AvailableHasObject'
  BY DEF IInv, StorageTypeOK, AvailableHasObject
<1>11. QED
  BY <1>1, <1>2, <1>3, <1>4, <1>5, <1>6, <1>7, <1>8, <1>9, <1>10 DEF IInv

\* A completion is called.
LEMMA CallCompleteKeeps ==
  ASSUME IInv, NEW p \in Procs, NEW f \in Files, NEW i \in BOOLEAN, CallComplete(p, f, i)
  PROVE  IInv'
<1>1. Now(p, "claim", "complete", f, i, FALSE, FALSE, FALSE)
  <2>1. [Idle EXCEPT !.at = "claim", !.file = f, !.inline = i] \in ProcStates
    BY DEF Idle, ProcStates, Passes
  <2>2. Given(p, [Idle EXCEPT !.at = "claim", !.file = f, !.inline = i])
    BY <2>1, Replaced DEF CallComplete
  <2>3. QED
    BY <2>2 DEF Given, Idle, Now
<1> USE <1>1, Fields DEF CallComplete, At, FileOf, Now,
           fileVars, objectVars, quotaVars, procVars, history
<1>2. StorageTypeOK'
  BY StorageAssumption DEF IInv, StorageTypeOK, FileStates, IntentStates
<1>3. StageInv'
  BY StorageAssumption DEF IInv, StorageTypeOK, StageInv, Passes
<1>4. RowInv'
  BY DEF IInv, StorageTypeOK, RowInv
<1>5. IntentAgrees'
  BY DEF IInv, StorageTypeOK, IntentAgrees
<1>6. CompleteInv'
  BY DEF IInv, StorageTypeOK, CompleteInv, Completing
<1>7. UploadInv'
  BY DEF IInv, StorageTypeOK, UploadInv, Uploading
<1>8. OneCompleter'
  BY DEF IInv, StorageTypeOK, OneCompleter
<1>9. HandInv'
  BY DEF IInv, StorageTypeOK, HandInv, Passes
<1>10. ObjectInv'
  BY DEF IInv, StorageTypeOK, ObjectInv, Completing, Uploading
<1>11. AvailableHasObject'
  BY DEF IInv, StorageTypeOK, AvailableHasObject
<1>12. QED
  BY <1>2, <1>3, <1>4, <1>5, <1>6, <1>7, <1>8, <1>9, <1>10, <1>11 DEF IInv

\* A deletion has seen its file available.
LEMMA CallDeleteKeeps ==
  ASSUME IInv, NEW p \in Procs, NEW f \in Files, CallDelete(p, f)
  PROVE  IInv'
<1>1. Now(p, "delete", "delete", f, FALSE, FALSE, (f \in rows), FALSE)
  <2>1. ASSUME NEW b \in BOOLEAN,
               Becomes(p, [Idle EXCEPT !.at = "delete", !.kind = "delete", !.file = f, !.made = b])
        PROVE  Now(p, "delete", "delete", f, FALSE, FALSE, b, FALSE)
    <3>1. [Idle EXCEPT !.at = "delete", !.kind = "delete", !.file = f, !.made = b] \in ProcStates
      BY DEF Idle, ProcStates, Passes
    <3>2. Given(p, [Idle EXCEPT !.at = "delete", !.kind = "delete", !.file = f, !.made = b])
      BY <2>1, <3>1, Replaced
    <3>3. QED
      BY <3>2 DEF Given, Idle, Now
  <2>2. (f \in rows) \in BOOLEAN
    OBVIOUS
  <2>3. QED
    BY <2>1, <2>2, Zenon DEF CallDelete
<1> USE <1>1, Fields DEF CallDelete, At, FileOf, Now,
           fileVars, objectVars, quotaVars, procVars, history
<1>2. StorageTypeOK'
  BY StorageAssumption DEF IInv, StorageTypeOK, FileStates, IntentStates
<1>3. StageInv'
  BY StorageAssumption DEF IInv, StorageTypeOK, StageInv, Passes
<1>4. RowInv'
  BY DEF IInv, StorageTypeOK, RowInv
<1>5. IntentAgrees'
  BY DEF IInv, StorageTypeOK, IntentAgrees
<1>6. CompleteInv'
  BY DEF IInv, StorageTypeOK, CompleteInv, Completing
<1>7. UploadInv'
  BY DEF IInv, StorageTypeOK, UploadInv, Uploading
<1>8. OneCompleter'
  BY DEF IInv, StorageTypeOK, OneCompleter
<1>9. HandInv'
  BY DEF IInv, StorageTypeOK, HandInv, Passes
<1>10. ObjectInv'
  BY DEF IInv, StorageTypeOK, ObjectInv, Completing, Uploading
<1>11. AvailableHasObject'
  BY DEF IInv, StorageTypeOK, AvailableHasObject
<1>12. QED
  BY <1>2, <1>3, <1>4, <1>5, <1>6, <1>7, <1>8, <1>9, <1>10, <1>11 DEF IInv

\* An upload starts with a file nobody else has.
LEMMA StartUploadKeeps ==
  ASSUME IInv, NEW p \in Procs, NEW f \in Files, StartUpload(p, f)
  PROVE  IInv'
<1>1. Now(p, "variants", "upload", f, TRUE, FALSE, FALSE, FALSE)
  <2>1. [Idle EXCEPT !.at = "variants", !.kind = "upload", !.file = f, !.inline = TRUE]
          \in ProcStates
    BY DEF Idle, ProcStates, Passes
  <2>2. Given(p, [Idle EXCEPT !.at = "variants", !.kind = "upload", !.file = f, !.inline = TRUE])
    BY <2>1, Replaced DEF StartUpload
  <2>3. QED
    BY <2>2 DEF Given, Idle, Now
<1> USE <1>1, Fields DEF StartUpload, At, FileOf, Now,
           fileVars, objectVars, quotaVars, procVars, history
<1>2. StorageTypeOK'
  BY StorageAssumption DEF IInv, StorageTypeOK, FileStates, IntentStates
<1>3. StageInv'
  BY StorageAssumption DEF IInv, StorageTypeOK, StageInv, Passes
<1>4. RowInv'
  BY DEF IInv, StorageTypeOK, RowInv
<1>5. IntentAgrees'
  BY DEF IInv, StorageTypeOK, IntentAgrees
<1>6. CompleteInv'
  BY DEF IInv, StorageTypeOK, CompleteInv, Completing
<1>7. UploadInv'
  BY DEF IInv, StorageTypeOK, StageInv, RowInv, CompleteInv, UploadInv, Passes, Completing,
         Uploading
<1>8. OneCompleter'
  BY DEF IInv, StorageTypeOK, OneCompleter
<1>9. HandInv'
  BY DEF IInv, StorageTypeOK, HandInv, Passes
<1>10. ObjectInv'
  BY DEF IInv, StorageTypeOK, ObjectInv, Completing, Uploading
<1>11. AvailableHasObject'
  BY DEF IInv, StorageTypeOK, AvailableHasObject
<1>12. QED
  BY <1>2, <1>3, <1>4, <1>5, <1>6, <1>7, <1>8, <1>9, <1>10, <1>11 DEF IInv

\* A pass has selected its rows.
LEMMA StartPassKeeps ==
  ASSUME IInv, NEW p \in Procs, NEW k \in Passes, NEW S \in SUBSET Files, StartPass(p, k, S)
  PROVE  IInv'
<1>1. Now(p, "pass", k, NoFile, FALSE, FALSE, FALSE, FALSE)
  <2>1. [Idle EXCEPT !.at = "pass", !.kind = k] \in ProcStates
    BY DEF Idle, ProcStates, Passes
  <2>2. Given(p, [Idle EXCEPT !.at = "pass", !.kind = k])
    BY <2>1, Replaced DEF StartPass
  <2>3. QED
    BY <2>2 DEF Given, Idle, Now
<1>2. \A f \in S \ late :
        /\ k = "expire" => f \in expired /\ intent[f] = "pending"
        /\ k # "orphan"
        /\ k = "purge" => fstat[f] = "deleted"
  <2>1. S \subseteq Selected(k)
    BY DEF StartPass
  <2>2. CASE k = "expire"
    BY <2>1, <2>2 DEF Selected
  <2>3. CASE k = "orphan"
    BY <2>1, <2>3 DEF Selected, IInv, IntentAgrees
  <2>4. CASE k = "purge"
    BY <2>1, <2>4 DEF Selected
  <2>5. QED
    BY <2>2, <2>3, <2>4 DEF Passes
<1> USE <1>1, <1>2, Fields DEF StartPass, At, FileOf, Now,
           fileVars, objectVars, quotaVars, procVars, history
<1>3. StorageTypeOK'
  BY StorageAssumption DEF IInv, StorageTypeOK, FileStates, IntentStates
<1>4. StageInv'
  BY StorageAssumption DEF IInv, StorageTypeOK, StageInv, Passes
<1>5. RowInv'
  BY DEF IInv, StorageTypeOK, RowInv
<1>6. IntentAgrees'
  BY DEF IInv, StorageTypeOK, IntentAgrees
<1>7. CompleteInv'
  BY DEF IInv, StorageTypeOK, CompleteInv, Completing
<1>8. UploadInv'
  BY DEF IInv, StorageTypeOK, UploadInv, Uploading
<1>9. OneCompleter'
  BY DEF IInv, StorageTypeOK, OneCompleter
<1>10. HandInv'
  BY StorageAssumption DEF IInv, StorageTypeOK, StageInv, RowInv, IntentAgrees, CompleteInv,
         UploadInv, HandInv, Passes, Completing, Uploading
<1>11. ObjectInv'
  BY DEF IInv, StorageTypeOK, ObjectInv, Completing, Uploading
<1>12. AvailableHasObject'
  BY DEF IInv, StorageTypeOK, AvailableHasObject
<1>13. QED
  BY <1>3, <1>4, <1>5, <1>6, <1>7, <1>8, <1>9, <1>10, <1>11, <1>12 DEF IInv

\* The claim is refused, or makes the call the owner of its file.
LEMMA ClaimKeeps ==
  ASSUME IInv, NEW p \in Procs, Claim(p)
  PROVE  IInv'
<1>1. IF Claimable(FileOf(p)) THEN NowAt(p, "verify") /\ todo' = todo ELSE NowIdle(p)
  BY Moved, Left DEF Claim, Goto, Stages
<1> USE <1>1, Fields DEF Claim, Claimable, At, FileOf, Now, NowAt, NowIdle,
           fileVars, objectVars, quotaVars, procVars, history
<1>2. StorageTypeOK'
  BY StorageAssumption DEF IInv, StorageTypeOK, FileStates, IntentStates
<1>3. StageInv'
  BY StorageAssumption DEF IInv, StorageTypeOK, StageInv, Passes
<1>4. RowInv'
  BY DEF IInv, StorageTypeOK, RowInv
<1>5. IntentAgrees'
  BY DEF IInv, StorageTypeOK, IntentAgrees
<1>6. CompleteInv'
  BY DEF IInv, StorageTypeOK, CompleteInv, Completing
<1>7. UploadInv'
  BY DEF IInv, StorageTypeOK, StageInv, UploadInv, Passes, Uploading
<1>8. OneCompleter'
  BY DEF IInv, StorageTypeOK, StageInv, RowInv, IntentAgrees, CompleteInv, UploadInv,
         OneCompleter, Passes, Completing, Uploading
<1>9. HandInv'
  BY DEF IInv, StorageTypeOK, HandInv, Passes
<1>10. ObjectInv'
  BY DEF IInv, StorageTypeOK, ObjectInv, Completing, Uploading
<1>11. AvailableHasObject'
  BY DEF IInv, StorageTypeOK, AvailableHasObject
<1>12. QED
  BY <1>2, <1>3, <1>4, <1>5, <1>6, <1>7, <1>8, <1>9, <1>10, <1>11 DEF IInv

\* The bytes pass, or can never be accepted.
LEMMA VerifyKeeps ==
  ASSUME IInv, NEW p \in Procs, Verify(p)
  PROVE  IInv'
<1>1. todo' = todo /\ (NowAt(p, "variants") \/ NowUndone(p, TRUE))
  BY Moved, MovedUndone DEF Verify, Goto, Stages
<1> USE <1>1, Fields DEF Verify, Readable, At, FileOf, Now, NowAt, NowUndone,
           fileVars, objectVars, quotaVars, procVars, history
<1>2. StorageTypeOK'
  BY StorageAssumption DEF IInv, StorageTypeOK, FileStates, IntentStates
<1>3. StageInv'
  BY StorageAssumption DEF IInv, StorageTypeOK, StageInv, Passes
<1>4. RowInv'
  BY DEF IInv, StorageTypeOK, RowInv
<1>5. IntentAgrees'
  BY DEF IInv, StorageTypeOK, IntentAgrees
<1>6. CompleteInv'
  BY DEF IInv, StorageTypeOK, CompleteInv, Completing
<1>7. UploadInv'
  BY DEF IInv, StorageTypeOK, StageInv, UploadInv, Passes, Uploading
<1>8. OneCompleter'
  BY DEF IInv, StorageTypeOK, OneCompleter
<1>9. HandInv'
  BY DEF IInv, StorageTypeOK, HandInv, Passes
<1>10. ObjectInv'
  BY DEF IInv, StorageTypeOK, ObjectInv, Completing, Uploading
<1>11. AvailableHasObject'
  BY DEF IInv, StorageTypeOK, AvailableHasObject
<1>12. QED
  BY <1>2, <1>3, <1>4, <1>5, <1>6, <1>7, <1>8, <1>9, <1>10, <1>11 DEF IInv

\* They cannot be checked.
LEMMA VerifyFailsKeeps ==
  ASSUME IInv, NEW p \in Procs, VerifyFails(p)
  PROVE  IInv'
<1>1. NowUndone(p, FALSE) /\ todo' = todo
  BY MovedUndone DEF VerifyFails
<1> USE <1>1, Fields DEF VerifyFails, Fail, At, FileOf, Now, NowUndone,
           fileVars, objectVars, quotaVars, procVars, history
<1>2. StorageTypeOK'
  BY StorageAssumption DEF IInv, StorageTypeOK, FileStates, IntentStates
<1>3. StageInv'
  BY StorageAssumption DEF IInv, StorageTypeOK, StageInv, Passes
<1>4. RowInv'
  BY DEF IInv, StorageTypeOK, RowInv
<1>5. IntentAgrees'
  BY DEF IInv, StorageTypeOK, IntentAgrees
<1>6. CompleteInv'
  BY DEF IInv, StorageTypeOK, CompleteInv, Completing
<1>7. UploadInv'
  BY DEF IInv, StorageTypeOK, StageInv, UploadInv, Passes, Uploading
<1>8. OneCompleter'
  BY DEF IInv, StorageTypeOK, OneCompleter
<1>9. HandInv'
  BY DEF IInv, StorageTypeOK, HandInv, Passes
<1>10. ObjectInv'
  BY DEF IInv, StorageTypeOK, ObjectInv, Completing, Uploading
<1>11. AvailableHasObject'
  BY DEF IInv, StorageTypeOK, AvailableHasObject
<1>12. QED
  BY <1>2, <1>3, <1>4, <1>5, <1>6, <1>7, <1>8, <1>9, <1>10, <1>11 DEF IInv

\* Variants are made, if the file has any.
LEMMA MakeVariantsKeeps ==
  ASSUME IInv, NEW p \in Procs, MakeVariants(p)
  PROVE  IInv'
<1>1. \/ variants' = variants \cup {FileOf(p)}
         /\ Now(p, AfterVariants(p), proc[p].kind, proc[p].file, proc[p].inline, proc[p].wrote,
                TRUE, proc[p].perm)
      \/ variants' = variants /\ NowAt(p, AfterVariants(p))
  <2>1. AfterVariants(p) \in Stages
    BY DEF AfterVariants, Stages
  <2>2. proc[p] \in ProcStates
        /\ [proc[p] EXCEPT !.at = AfterVariants(p), !.made = TRUE] \in ProcStates
    BY <2>1, Fields DEF ProcStates, Stages
  <2>3. CASE VariantBytes[FileOf(p)] > 0
    <3>1. Given(p, [proc[p] EXCEPT !.at = AfterVariants(p), !.made = TRUE])
          /\ variants' = variants \cup {FileOf(p)}
      BY <2>2, <2>3, Replaced DEF MakeVariants
    <3>2. QED
      BY <2>2, <3>1 DEF Given, Now, ProcStates
  <2>4. CASE ~(VariantBytes[FileOf(p)] > 0)
    BY <2>1, <2>4, Moved DEF MakeVariants
  <2>5. QED
    BY <2>3, <2>4
<1> USE <1>1, Fields DEF MakeVariants, At, FileOf, Now, NowAt,
           fileVars, objectVars, quotaVars, procVars, history
<1>2. StorageTypeOK'
  BY StorageAssumption DEF IInv, StorageTypeOK, FileStates, IntentStates, AfterVariants
<1>3. StageInv'
  BY StorageAssumption DEF IInv, StorageTypeOK, StageInv, Passes, AfterVariants
<1>4. RowInv'
  BY DEF IInv, StorageTypeOK, RowInv, AfterVariants
<1>5. IntentAgrees'
  BY DEF IInv, StorageTypeOK, IntentAgrees, AfterVariants
<1>6. CompleteInv'
  BY DEF IInv, StorageTypeOK, CompleteInv, Completing, AfterVariants
<1>7. UploadInv'
  BY DEF IInv, StorageTypeOK, UploadInv, Uploading, AfterVariants
<1>8. OneCompleter'
  BY DEF IInv, StorageTypeOK, OneCompleter, AfterVariants
<1>9. HandInv'
  BY DEF IInv, StorageTypeOK, HandInv, Passes, AfterVariants
<1>10. ObjectInv'
  BY DEF IInv, StorageTypeOK, StageInv, ObjectInv, Passes, Completing, Uploading,
         AfterVariants
<1>11. AvailableHasObject'
  BY DEF IInv, StorageTypeOK, AvailableHasObject, AfterVariants
<1>12. QED
  BY <1>2, <1>3, <1>4, <1>5, <1>6, <1>7, <1>8, <1>9, <1>10, <1>11 DEF IInv

\* Making them fails.
LEMMA MakeVariantsFailsKeeps ==
  ASSUME IInv, NEW p \in Procs, MakeVariantsFails(p)
  PROVE  IInv'
<1>1. NowUndone(p, FALSE) /\ todo' = todo
  BY MovedUndone DEF MakeVariantsFails
<1> USE <1>1, Fields DEF MakeVariantsFails, Fail, At, FileOf, Now, NowUndone,
           fileVars, objectVars, quotaVars, procVars, history
<1>2. StorageTypeOK'
  BY StorageAssumption DEF IInv, StorageTypeOK, FileStates, IntentStates
<1>3. StageInv'
  BY StorageAssumption DEF IInv, StorageTypeOK, StageInv, Passes
<1>4. RowInv'
  BY DEF IInv, StorageTypeOK, RowInv
<1>5. IntentAgrees'
  BY DEF IInv, StorageTypeOK, IntentAgrees
<1>6. CompleteInv'
  BY DEF IInv, StorageTypeOK, CompleteInv, Completing
<1>7. UploadInv'
  BY DEF IInv, StorageTypeOK, UploadInv, Uploading
<1>8. OneCompleter'
  BY DEF IInv, StorageTypeOK, OneCompleter
<1>9. HandInv'
  BY DEF IInv, StorageTypeOK, HandInv, Passes
<1>10. ObjectInv'
  BY DEF IInv, StorageTypeOK, ObjectInv, Completing, Uploading
<1>11. AvailableHasObject'
  BY DEF IInv, StorageTypeOK, AvailableHasObject
<1>12. QED
  BY <1>2, <1>3, <1>4, <1>5, <1>6, <1>7, <1>8, <1>9, <1>10, <1>11 DEF IInv

\* The object is put.
LEMMA PutKeeps ==
  ASSUME IInv, NEW p \in Procs, Put(p)
  PROVE  IInv'
<1>1. Now(p, "commit", proc[p].kind, proc[p].file, proc[p].inline, TRUE, proc[p].made,
          proc[p].perm)
  <2>1. proc[p] \in ProcStates /\ [proc[p] EXCEPT !.at = "commit", !.wrote = TRUE] \in ProcStates
    BY Fields DEF ProcStates
  <2>2. Given(p, [proc[p] EXCEPT !.at = "commit", !.wrote = TRUE])
    BY <2>1, Replaced DEF Put
  <2>3. QED
    BY <2>1, <2>2 DEF Given, Now, ProcStates
<1> USE <1>1, Fields DEF Put, At, FileOf, Now,
           fileVars, objectVars, quotaVars, procVars, history
<1>2. StorageTypeOK'
  BY StorageAssumption DEF IInv, StorageTypeOK, FileStates, IntentStates
<1>3. StageInv'
  BY StorageAssumption DEF IInv, StorageTypeOK, StageInv, Passes
<1>4. RowInv'
  BY DEF IInv, StorageTypeOK, RowInv
<1>5. IntentAgrees'
  BY DEF IInv, StorageTypeOK, IntentAgrees
<1>6. CompleteInv'
  BY DEF IInv, StorageTypeOK, CompleteInv, Completing
<1>7. UploadInv'
  BY DEF IInv, StorageTypeOK, UploadInv, Uploading
<1>8. OneCompleter'
  BY DEF IInv, StorageTypeOK, OneCompleter
<1>9. HandInv'
  BY DEF IInv, StorageTypeOK, HandInv, Passes
<1>10. ObjectInv'
  BY DEF IInv, StorageTypeOK, ObjectInv, Completing, Uploading
<1>11. AvailableHasObject'
  BY DEF IInv, StorageTypeOK, AvailableHasObject
<1>12. QED
  BY <1>2, <1>3, <1>4, <1>5, <1>6, <1>7, <1>8, <1>9, <1>10, <1>11 DEF IInv

\* Putting it fails.
LEMMA PutFailsKeeps ==
  ASSUME IInv, NEW p \in Procs, PutFails(p)
  PROVE  IInv'
<1>1. NowUndone(p, FALSE) /\ todo' = todo
  BY MovedUndone DEF PutFails
<1> USE <1>1, Fields DEF PutFails, Fail, At, FileOf, Now, NowUndone,
           fileVars, objectVars, quotaVars, procVars, history
<1>2. StorageTypeOK'
  BY StorageAssumption DEF IInv, StorageTypeOK, FileStates, IntentStates
<1>3. StageInv'
  BY StorageAssumption DEF IInv, StorageTypeOK, StageInv, Passes
<1>4. RowInv'
  BY DEF IInv, StorageTypeOK, RowInv
<1>5. IntentAgrees'
  BY DEF IInv, StorageTypeOK, IntentAgrees
<1>6. CompleteInv'
  BY DEF IInv, StorageTypeOK, CompleteInv, Completing
<1>7. UploadInv'
  BY DEF IInv, StorageTypeOK, UploadInv, Uploading
<1>8. OneCompleter'
  BY DEF IInv, StorageTypeOK, OneCompleter
<1>9. HandInv'
  BY DEF IInv, StorageTypeOK, HandInv, Passes
<1>10. ObjectInv'
  BY DEF IInv, StorageTypeOK, ObjectInv, Completing, Uploading
<1>11. AvailableHasObject'
  BY DEF IInv, StorageTypeOK, AvailableHasObject
<1>12. QED
  BY <1>2, <1>3, <1>4, <1>5, <1>6, <1>7, <1>8, <1>9, <1>10, <1>11 DEF IInv

\* The file becomes available.
LEMMA CommitKeeps ==
  ASSUME IInv, NEW p \in Procs, Commit(p)
  PROVE  IInv'
<1>1. NowIdle(p)
  BY Left DEF Commit
<1> USE <1>1, Fields DEF Commit, MakeAvailable, Committable, Account, SetFile, MoveIntent,
           Fits, Delta, At, FileOf, Now, NowIdle,
           fileVars, objectVars, quotaVars, procVars, history
<1>2. StorageTypeOK'
  BY StorageAssumption DEF IInv, StorageTypeOK, FileStates, IntentStates
<1>3. StageInv'
  BY StorageAssumption DEF IInv, StorageTypeOK, StageInv, Passes
<1>4. RowInv'
  BY DEF IInv, StorageTypeOK, RowInv
<1>5. IntentAgrees'
  BY DEF IInv, StorageTypeOK, StageInv, RowInv, IntentAgrees, CompleteInv, Passes, Completing
<1>6. CompleteInv'
  BY DEF IInv, StorageTypeOK, StageInv, RowInv, IntentAgrees, CompleteInv, UploadInv,
         OneCompleter, HandInv, ObjectInv, Passes, Completing, Uploading
<1>7. UploadInv'
  BY DEF IInv, StorageTypeOK, StageInv, UploadInv, Passes, Uploading
<1>8. OneCompleter'
  BY DEF IInv, StorageTypeOK, OneCompleter
<1>9. HandInv'
  BY DEF IInv, StorageTypeOK, StageInv, RowInv, CompleteInv, HandInv, Passes, Completing
<1>10. ObjectInv'
  BY DEF IInv, StorageTypeOK, ObjectInv, Completing, Uploading
<1>11. AvailableHasObject'
  BY DEF IInv, StorageTypeOK, StageInv, RowInv, IntentAgrees, CompleteInv, UploadInv,
         OneCompleter, HandInv, ObjectInv, AvailableHasObject, Passes, Completing, Uploading
<1>12. QED
  BY <1>2, <1>3, <1>4, <1>5, <1>6, <1>7, <1>8, <1>9, <1>10, <1>11 DEF IInv

\* The commit is refused.
LEMMA CommitRefusedKeeps ==
  ASSUME IInv, NEW p \in Procs, CommitRefused(p)
  PROVE  IInv'
<1>1. NowUndone(p, FALSE) /\ todo' = todo
  BY MovedUndone DEF CommitRefused
<1> USE <1>1, Fields DEF CommitRefused, At, FileOf, Now, NowUndone,
           fileVars, objectVars, quotaVars, procVars, history
<1>2. StorageTypeOK'
  BY StorageAssumption DEF IInv, StorageTypeOK, FileStates, IntentStates
<1>3. StageInv'
  BY StorageAssumption DEF IInv, StorageTypeOK, StageInv, Passes
<1>4. RowInv'
  BY DEF IInv, StorageTypeOK, RowInv
<1>5. IntentAgrees'
  BY DEF IInv, StorageTypeOK, IntentAgrees
<1>6. CompleteInv'
  BY DEF IInv, StorageTypeOK, CompleteInv, Completing
<1>7. UploadInv'
  BY DEF IInv, StorageTypeOK, UploadInv, Uploading
<1>8. OneCompleter'
  BY DEF IInv, StorageTypeOK, OneCompleter
<1>9. HandInv'
  BY DEF IInv, StorageTypeOK, HandInv, Passes
<1>10. ObjectInv'
  BY DEF IInv, StorageTypeOK, ObjectInv, Completing, Uploading
<1>11. AvailableHasObject'
  BY DEF IInv, StorageTypeOK, AvailableHasObject
<1>12. QED
  BY <1>2, <1>3, <1>4, <1>5, <1>6, <1>7, <1>8, <1>9, <1>10, <1>11 DEF IInv

\* The commit raises, before or after it took effect.
LEMMA CommitRaisesKeeps ==
  ASSUME IInv, NEW p \in Procs, CommitRaises(p)
  PROVE  IInv'
<1>1. NowUndone(p, FALSE) /\ todo' = todo
  BY MovedUndone DEF CommitRaises
<1> USE <1>1, Fields DEF CommitRaises, Fail, MakeAvailable, Committable, Account, SetFile,
           MoveIntent, Fits, Delta, At, FileOf, Now, NowUndone,
           fileVars, objectVars, quotaVars, procVars, history
<1>2. StorageTypeOK'
  BY StorageAssumption DEF IInv, StorageTypeOK, FileStates, IntentStates
<1>3. StageInv'
  BY StorageAssumption DEF IInv, StorageTypeOK, StageInv, Passes
<1>4. RowInv'
  BY DEF IInv, StorageTypeOK, RowInv
<1>5. IntentAgrees'
  BY DEF IInv, StorageTypeOK, StageInv, RowInv, IntentAgrees, CompleteInv, Passes, Completing
<1>6. CompleteInv'
  BY SMTT(30) DEF IInv, StorageTypeOK, StageInv, RowInv, IntentAgrees, CompleteInv, UploadInv,
         OneCompleter, HandInv, ObjectInv, Passes, Completing, Uploading
<1>7. UploadInv'
  BY DEF IInv, StorageTypeOK, StageInv, UploadInv, Passes, Uploading
<1>8. OneCompleter'
  BY DEF IInv, StorageTypeOK, OneCompleter
<1>9. HandInv'
  BY SMTT(30) DEF IInv, StorageTypeOK, StageInv, RowInv, CompleteInv, HandInv, Passes, Completing
<1>10. ObjectInv'
  BY DEF IInv, StorageTypeOK, ObjectInv, Completing, Uploading
<1>11. AvailableHasObject'
  BY DEF IInv, StorageTypeOK, AvailableHasObject
<1>12. QED
  BY <1>2, <1>3, <1>4, <1>5, <1>6, <1>7, <1>8, <1>9, <1>10, <1>11 DEF IInv

\* The call removes what it has put at the provider.
LEMMA UndoKeeps ==
  ASSUME IInv, NEW p \in Procs, Undo(p) \/ UndoFails(p)
  PROVE  IInv'
<1>1. IF proc[p].kind = "upload" THEN NowIdle(p)
      ELSE todo' = todo /\ NowAt(p, IF proc[p].perm THEN "release" ELSE "reopen")
  <2>1. (IF proc[p].perm THEN "release" ELSE "reopen") \in Stages
    BY DEF Stages
  <2>2. QED
    BY <2>1, Moved, Left DEF Undo, UndoFails, AfterUndo, Goto
<1> USE <1>1, Fields DEF Undo, UndoFails, Erased, ErasesObject, Fail, At, FileOf, Now, NowAt,
           NowIdle,
           fileVars, objectVars, quotaVars, procVars, history
<1>2. StorageTypeOK'
  BY StorageAssumption DEF IInv, StorageTypeOK, FileStates, IntentStates
<1>3. StageInv'
  BY StorageAssumption DEF IInv, StorageTypeOK, StageInv, Passes
<1>4. RowInv'
  BY DEF IInv, StorageTypeOK, RowInv
<1>5. IntentAgrees'
  BY DEF IInv, StorageTypeOK, IntentAgrees
<1>6. CompleteInv'
  BY DEF IInv, StorageTypeOK, CompleteInv, Completing
<1>7. UploadInv'
  BY DEF IInv, StorageTypeOK, StageInv, UploadInv, Passes, Uploading
<1>8. OneCompleter'
  BY DEF IInv, StorageTypeOK, OneCompleter
<1>9. HandInv'
  BY DEF IInv, StorageTypeOK, HandInv, Passes
<1>10. ObjectInv'
  BY DEF IInv, StorageTypeOK, StageInv, RowInv, IntentAgrees, CompleteInv, UploadInv,
         OneCompleter, HandInv, ObjectInv, Passes, Completing, Uploading
<1>11. AvailableHasObject'
  BY DEF IInv, StorageTypeOK, StageInv, RowInv, IntentAgrees, CompleteInv, UploadInv,
         AvailableHasObject, Passes, Completing, Uploading
<1>12. QED
  BY <1>2, <1>3, <1>4, <1>5, <1>6, <1>7, <1>8, <1>9, <1>10, <1>11 DEF IInv

\* The reservation is given back.
LEMMA ReleaseKeeps ==
  ASSUME IInv, NEW p \in Procs, Release(p)
  PROVE  IInv'
<1>1. NowIdle(p)
  BY Left DEF Release
<1> USE <1>1, Fields DEF Release, Abandon, Account, SetFile, MoveIntent, At, FileOf, Now,
           NowIdle,
           fileVars, objectVars, quotaVars, procVars, history
<1>2. StorageTypeOK'
  BY StorageAssumption DEF IInv, StorageTypeOK, FileStates, IntentStates
<1>3. StageInv'
  BY StorageAssumption DEF IInv, StorageTypeOK, StageInv, Passes
<1>4. RowInv'
  BY DEF IInv, StorageTypeOK, RowInv
<1>5. IntentAgrees'
  BY DEF IInv, StorageTypeOK, StageInv, RowInv, IntentAgrees, CompleteInv, Passes, Completing
<1>6. CompleteInv'
  BY DEF IInv, StorageTypeOK, StageInv, RowInv, IntentAgrees, CompleteInv, UploadInv,
         OneCompleter, HandInv, ObjectInv, Passes, Completing, Uploading
<1>7. UploadInv'
  BY DEF IInv, StorageTypeOK, StageInv, UploadInv, Passes, Uploading
<1>8. OneCompleter'
  BY DEF IInv, StorageTypeOK, OneCompleter
<1>9. HandInv'
  BY DEF IInv, StorageTypeOK, HandInv, Passes
<1>10. ObjectInv'
  BY DEF IInv, StorageTypeOK, ObjectInv, Completing, Uploading
<1>11. AvailableHasObject'
  BY DEF IInv, StorageTypeOK, AvailableHasObject
<1>12. QED
  BY <1>2, <1>3, <1>4, <1>5, <1>6, <1>7, <1>8, <1>9, <1>10, <1>11 DEF IInv

\* The intent is reopened.
LEMMA ReopenKeeps ==
  ASSUME IInv, NEW p \in Procs, Reopen(p)
  PROVE  IInv'
<1>1. NowIdle(p)
  BY Left DEF Reopen
<1> USE <1>1, Fields DEF Reopen, MoveIntent, At, FileOf, Now, NowIdle,
           fileVars, objectVars, quotaVars, procVars, history
<1>2. StorageTypeOK'
  BY StorageAssumption DEF IInv, StorageTypeOK, FileStates, IntentStates
<1>3. StageInv'
  BY StorageAssumption DEF IInv, StorageTypeOK, StageInv, Passes
<1>4. RowInv'
  BY DEF IInv, StorageTypeOK, RowInv
<1>5. IntentAgrees'
  BY DEF IInv, StorageTypeOK, IntentAgrees
<1>6. CompleteInv'
  BY DEF IInv, StorageTypeOK, StageInv, RowInv, IntentAgrees, CompleteInv, UploadInv,
         OneCompleter, HandInv, ObjectInv, Passes, Completing, Uploading
<1>7. UploadInv'
  BY DEF IInv, StorageTypeOK, StageInv, UploadInv, Passes, Uploading
<1>8. OneCompleter'
  BY DEF IInv, StorageTypeOK, OneCompleter
<1>9. HandInv'
  BY DEF IInv, StorageTypeOK, HandInv, Passes
<1>10. ObjectInv'
  BY DEF IInv, StorageTypeOK, ObjectInv, Completing, Uploading
<1>11. AvailableHasObject'
  BY DEF IInv, StorageTypeOK, AvailableHasObject
<1>12. QED
  BY <1>2, <1>3, <1>4, <1>5, <1>6, <1>7, <1>8, <1>9, <1>10, <1>11 DEF IInv

\* A deletion finds its file still available, or ends.
LEMMA DeleteKeeps ==
  ASSUME IInv, NEW p \in Procs, Delete(p)
  PROVE  IInv'
<1>1. IF StillThere(FileOf(p)) THEN NowAt(p, "erase") /\ todo' = todo ELSE NowIdle(p)
  BY Moved, Left DEF Delete, Goto, Stages
<1> USE <1>1, Fields DEF Delete, StillThere, Account, SetFile, At, FileOf, Now, NowAt, NowIdle,
           fileVars, objectVars, quotaVars, procVars, history
<1>2. StorageTypeOK'
  BY StorageAssumption DEF IInv, StorageTypeOK, FileStates, IntentStates
<1>3. StageInv'
  BY StorageAssumption DEF IInv, StorageTypeOK, StageInv, Passes
<1>4. RowInv'
  BY DEF IInv, StorageTypeOK, RowInv
<1>5. IntentAgrees'
  BY DEF IInv, StorageTypeOK, IntentAgrees
<1>6. CompleteInv'
  BY DEF IInv, StorageTypeOK, CompleteInv, Completing
<1>7. UploadInv'
  BY DEF IInv, StorageTypeOK, StageInv, UploadInv, Passes, Uploading
<1>8. OneCompleter'
  BY DEF IInv, StorageTypeOK, OneCompleter
<1>9. HandInv'
  BY DEF IInv, StorageTypeOK, HandInv, Passes
<1>10. ObjectInv'
  BY DEF IInv, StorageTypeOK, ObjectInv, Completing, Uploading
<1>11. AvailableHasObject'
  BY DEF IInv, StorageTypeOK, AvailableHasObject
<1>12. QED
  BY <1>2, <1>3, <1>4, <1>5, <1>6, <1>7, <1>8, <1>9, <1>10, <1>11 DEF IInv

\* The objects of a deleted file go.
LEMMA EraseKeeps ==
  ASSUME IInv, NEW p \in Procs, Erase(p) \/ EraseFails(p)
  PROVE  IInv'
<1>1. NowIdle(p)
  BY Left DEF Erase, EraseFails
<1> USE <1>1, Fields DEF Erase, EraseFails, Erased, Fail, At, FileOf, Now, NowIdle,
           fileVars, objectVars, quotaVars, procVars, history
<1>2. StorageTypeOK'
  BY StorageAssumption DEF IInv, StorageTypeOK, FileStates, IntentStates
<1>3. StageInv'
  BY StorageAssumption DEF IInv, StorageTypeOK, StageInv, Passes
<1>4. RowInv'
  BY DEF IInv, StorageTypeOK, RowInv
<1>5. IntentAgrees'
  BY DEF IInv, StorageTypeOK, IntentAgrees
<1>6. CompleteInv'
  BY DEF IInv, StorageTypeOK, CompleteInv, Completing
<1>7. UploadInv'
  BY DEF IInv, StorageTypeOK, StageInv, UploadInv, Passes, Uploading
<1>8. OneCompleter'
  BY DEF IInv, StorageTypeOK, OneCompleter
<1>9. HandInv'
  BY DEF IInv, StorageTypeOK, HandInv, Passes
<1>10. ObjectInv'
  BY DEF IInv, StorageTypeOK, StageInv, RowInv, IntentAgrees, CompleteInv, UploadInv, HandInv,
         ObjectInv, Passes, Completing, Uploading
<1>11. AvailableHasObject'
  BY DEF IInv, StorageTypeOK, StageInv, RowInv, IntentAgrees, CompleteInv, UploadInv, HandInv,
         AvailableHasObject, Passes, Completing, Uploading
<1>12. QED
  BY <1>2, <1>3, <1>4, <1>5, <1>6, <1>7, <1>8, <1>9, <1>10, <1>11 DEF IInv

\* A pass deletes the object of a row it has in hand.
LEMMA PassEraseKeeps ==
  ASSUME IInv, NEW p \in Procs, NEW f \in Files, PassErase(p, f)
  PROVE  IInv'
<1>1. Now(p, "passtx", proc[p].kind, f, proc[p].inline, proc[p].wrote, proc[p].made,
          proc[p].perm)
  <2>1. proc[p] \in ProcStates /\ [proc[p] EXCEPT !.at = "passtx", !.file = f] \in ProcStates
    BY Fields DEF ProcStates
  <2>2. Given(p, [proc[p] EXCEPT !.at = "passtx", !.file = f])
    BY <2>1, Replaced DEF PassErase
  <2>3. QED
    BY <2>1, <2>2 DEF Given, Now, ProcStates
<1> USE <1>1, Fields DEF PassErase, Erased, At, FileOf, Now,
           fileVars, objectVars, quotaVars, procVars, history
<1>2. StorageTypeOK'
  BY StorageAssumption DEF IInv, StorageTypeOK, FileStates, IntentStates
<1>3. StageInv'
  BY StorageAssumption DEF IInv, StorageTypeOK, StageInv, Passes
<1>4. RowInv'
  BY DEF IInv, StorageTypeOK, RowInv
<1>5. IntentAgrees'
  BY DEF IInv, StorageTypeOK, IntentAgrees
<1>6. CompleteInv'
  BY DEF IInv, StorageTypeOK, CompleteInv, Completing
<1>7. UploadInv'
  BY DEF IInv, StorageTypeOK, StageInv, UploadInv, Passes, Uploading
<1>8. OneCompleter'
  BY DEF IInv, StorageTypeOK, OneCompleter
<1>9. HandInv'
  BY DEF IInv, StorageTypeOK, HandInv, Passes
<1>10. ObjectInv'
  BY DEF IInv, StorageTypeOK, StageInv, RowInv, IntentAgrees, CompleteInv, UploadInv, HandInv,
         ObjectInv, Passes, Completing, Uploading
<1>11. AvailableHasObject'
  BY DEF IInv, StorageTypeOK, StageInv, RowInv, IntentAgrees, CompleteInv, UploadInv, HandInv,
         AvailableHasObject, Passes, Completing, Uploading
<1>12. QED
  BY <1>2, <1>3, <1>4, <1>5, <1>6, <1>7, <1>8, <1>9, <1>10, <1>11 DEF IInv

\* The provider does not delete it: the row is skipped.
LEMMA PassEraseFailsKeeps ==
  ASSUME IInv, NEW p \in Procs, NEW f \in Files, PassEraseFails(p, f)
  PROVE  IInv'
<1> USE Fields DEF PassEraseFails, Erased, Fail, At, FileOf,
           fileVars, objectVars, quotaVars, procVars, history
<1>1. StorageTypeOK'
  BY StorageAssumption DEF IInv, StorageTypeOK, FileStates, IntentStates
<1>2. StageInv'
  BY StorageAssumption DEF IInv, StorageTypeOK, StageInv, Passes
<1>3. RowInv'
  BY DEF IInv, StorageTypeOK, RowInv
<1>4. IntentAgrees'
  BY DEF IInv, StorageTypeOK, IntentAgrees
<1>5. CompleteInv'
  BY DEF IInv, StorageTypeOK, CompleteInv, Completing
<1>6. UploadInv'
  BY DEF IInv, StorageTypeOK, UploadInv, Uploading
<1>7. OneCompleter'
  BY DEF IInv, StorageTypeOK, OneCompleter
<1>8. HandInv'
  BY DEF IInv, StorageTypeOK, HandInv, Passes
<1>9. ObjectInv'
  BY DEF IInv, StorageTypeOK, StageInv, RowInv, IntentAgrees, CompleteInv, UploadInv, HandInv,
         ObjectInv, Passes, Completing, Uploading
<1>10. AvailableHasObject'
  BY DEF IInv, StorageTypeOK, StageInv, RowInv, IntentAgrees, CompleteInv, UploadInv, HandInv,
         AvailableHasObject, Passes, Completing, Uploading
<1>11. QED
  BY <1>1, <1>2, <1>3, <1>4, <1>5, <1>6, <1>7, <1>8, <1>9, <1>10 DEF IInv

\* A pass settles the row it has in hand.
LEMMA PassSettleKeeps ==
  ASSUME IInv, NEW p \in Procs, PassSettle(p)
  PROVE  IInv'
<1>1. Now(p, "pass", proc[p].kind, NoFile, proc[p].inline, proc[p].wrote, proc[p].made,
          proc[p].perm)
  <2>1. proc[p] \in ProcStates /\ [proc[p] EXCEPT !.at = "pass", !.file = NoFile] \in ProcStates
    BY Fields DEF ProcStates
  <2>2. Given(p, [proc[p] EXCEPT !.at = "pass", !.file = NoFile])
    BY <2>1, Replaced DEF PassSettle
  <2>3. QED
    BY <2>1, <2>2 DEF Given, Now, ProcStates
<1>2. /\ proc[p].at = "passtx" /\ UNCHANGED <<expired, objectVars, faults, history, todo>>
      /\ \/ proc[p].kind = "expire" /\ Abandon(FileOf(p))
            /\ MoveIntent(FileOf(p), "pending", "expired") /\ UNCHANGED rows
         \/ proc[p].kind = "purge" /\ fstat[FileOf(p)] = "deleted" /\ SetFile(FileOf(p), "purged")
            /\ intent' = [intent EXCEPT ![FileOf(p)] = "none"] /\ rows' = rows \ {FileOf(p)}
            /\ UNCHANGED quotaVars
         \/ UNCHANGED <<fileVars, quotaVars>>
         \/ proc[p].kind = "orphan" /\ Abandon(FileOf(p)) /\ UNCHANGED <<intent, rows>>
  <2>1. proc[p].at = "passtx" /\ proc[p].kind \in Passes
    BY Fields DEF IInv, StageInv, PassSettle, At
  <2>2. CASE proc[p].kind = "expire"
    BY <2>1, <2>2 DEF PassSettle, Settle, FileOf
  <2>3. CASE proc[p].kind = "orphan"
    BY <2>1, <2>3 DEF PassSettle, Settle, FileOf
  <2>4. CASE proc[p].kind = "purge"
    BY <2>1, <2>4 DEF PassSettle, Settle, FileOf
  <2>5. QED
    BY <2>1, <2>2, <2>3, <2>4 DEF Passes
<1> USE <1>1, <1>2, Fields DEF Abandon, Account, SetFile, MoveIntent, At, FileOf, Now,
           fileVars, objectVars, quotaVars, procVars, history
<1>3. StorageTypeOK'
  BY StorageAssumption DEF IInv, StorageTypeOK, FileStates, IntentStates
<1>4. StageInv'
  BY StorageAssumption DEF IInv, StorageTypeOK, StageInv, Passes
<1>5. RowInv'
  BY DEF IInv, StorageTypeOK, RowInv
<1>6. IntentAgrees'
  BY SMTT(30) DEF IInv, StorageTypeOK, StageInv, RowInv, IntentAgrees, CompleteInv, UploadInv, HandInv,
         Passes, Completing, Uploading
<1>7. CompleteInv'
  BY SMTT(30) DEF IInv, StorageTypeOK, StageInv, RowInv, IntentAgrees, CompleteInv, UploadInv, HandInv,
         Passes, Completing, Uploading
<1>8. UploadInv'
  BY DEF IInv, StorageTypeOK, StageInv, UploadInv, Passes, Uploading
<1>9. OneCompleter'
  BY DEF IInv, StorageTypeOK, OneCompleter
<1>10. HandInv'
  BY StorageAssumption DEF IInv, StorageTypeOK, HandInv, Passes
<1>11. ObjectInv'
  BY DEF IInv, StorageTypeOK, ObjectInv, Completing, Uploading
<1>12. AvailableHasObject'
  BY DEF IInv, StorageTypeOK, AvailableHasObject
<1>13. QED
  BY <1>3, <1>4, <1>5, <1>6, <1>7, <1>8, <1>9, <1>10, <1>11, <1>12 DEF IInv

\* A pass is over, or a process dies.
LEMMA StopKeeps ==
  ASSUME IInv, NEW p \in Procs, PassDone(p) \/ Stop(p)
  PROVE  IInv'
<1>1. NowIdle(p)
  BY Left DEF PassDone, Stop
<1> USE <1>1, Fields DEF PassDone, Stop, Fail, At, FileOf, Now, NowIdle,
           fileVars, objectVars, quotaVars, procVars, history
<1>2. StorageTypeOK'
  BY StorageAssumption DEF IInv, StorageTypeOK, FileStates, IntentStates
<1>3. StageInv'
  BY StorageAssumption DEF IInv, StorageTypeOK, StageInv, Passes
<1>4. RowInv'
  BY DEF IInv, StorageTypeOK, RowInv
<1>5. IntentAgrees'
  BY DEF IInv, StorageTypeOK, IntentAgrees
<1>6. CompleteInv'
  BY DEF IInv, StorageTypeOK, CompleteInv, Completing
<1>7. UploadInv'
  BY DEF IInv, StorageTypeOK, StageInv, UploadInv, Passes, Uploading
<1>8. OneCompleter'
  BY DEF IInv, StorageTypeOK, OneCompleter
<1>9. HandInv'
  BY DEF IInv, StorageTypeOK, HandInv, Passes
<1>10. ObjectInv'
  BY DEF IInv, StorageTypeOK, ObjectInv, Completing, Uploading
<1>11. AvailableHasObject'
  BY DEF IInv, StorageTypeOK, AvailableHasObject
<1>12. QED
  BY <1>2, <1>3, <1>4, <1>5, <1>6, <1>7, <1>8, <1>9, <1>10, <1>11 DEF IInv

-----------------------------------------------------------------------------
\* Nothing is uploaded and everyone is idle.
LEMMA Initially == Init => IInv
<1> SUFFICES ASSUME Init PROVE IInv
  OBVIOUS
<1> USE DEF Init, Idle, FileOf
<1>1. StorageTypeOK
  BY StorageAssumption, IdleTyped DEF StorageTypeOK, FileStates, IntentStates
<1>2. StageInv /\ RowInv /\ IntentAgrees
  BY StorageAssumption DEF StageInv, RowInv, IntentAgrees, Passes
<1>3. CompleteInv /\ UploadInv /\ OneCompleter
  BY DEF CompleteInv, UploadInv, OneCompleter, Completing, Uploading
<1>4. HandInv /\ ObjectInv /\ AvailableHasObject
  BY StorageAssumption DEF HandInv, ObjectInv, AvailableHasObject, Completing, Uploading
<1>5. QED
  BY <1>1, <1>2, <1>3, <1>4 DEF IInv

\* The steps of a process that completes or uploads a file.
LEMMA UploadKeeps ==
  ASSUME IInv, NEW p \in Procs, Upload(p)
  PROVE  IInv'
BY ClaimKeeps, VerifyKeeps, VerifyFailsKeeps, MakeVariantsKeeps, MakeVariantsFailsKeeps,
   PutKeeps, PutFailsKeeps, CommitKeeps, CommitRefusedKeeps, CommitRaisesKeeps,
   UndoKeeps, ReleaseKeeps, ReopenKeeps
DEF Upload

\* The steps of a process in a maintenance pass.
LEMMA PassKeeps ==
  ASSUME IInv, NEW p \in Procs, Pass(p)
  PROVE  IInv'
BY PassEraseKeeps, PassEraseFailsKeeps, PassSettleKeeps, StopKeeps DEF Pass

\* Every step keeps the invariant.
LEMMA StepKeeps == IInv /\ [Next]_vars => IInv'
<1> SUFFICES ASSUME IInv, [Next]_vars PROVE IInv'
  OBVIOUS
<1>1. ASSUME NEW f \in Files, CreateIntent(f) \/ ClientPut(f) \/ Expire(f) PROVE IInv'
  BY <1>1, CreateIntentKeeps, ClientKeeps
<1>2. ASSUME NEW p \in Procs, Call(p) PROVE IInv'
  BY <1>2, CallDeleteKeeps, StartUploadKeeps, CallCompleteKeeps DEF Call
<1>3. ASSUME NEW p \in Procs, Cron(p) PROVE IInv'
  BY <1>3, StartPassKeeps DEF Cron
<1>4. ASSUME NEW p \in Procs, Work(p) PROVE IInv'
  BY <1>4, UploadKeeps, DeleteKeeps, EraseKeeps, PassKeeps DEF Work
<1>5. ASSUME NEW p \in Procs, Stop(p) PROVE IInv'
  BY <1>5, StopKeeps
<1>6. CASE UNCHANGED vars
  <2> USE <1>6 DEF vars, fileVars, objectVars, quotaVars, procVars, history, FileOf
  <2>1. StorageTypeOK' /\ StageInv' /\ RowInv' /\ IntentAgrees' /\ AvailableHasObject'
    BY DEF IInv, StorageTypeOK, StageInv, RowInv, IntentAgrees, AvailableHasObject
  <2>2. CompleteInv' /\ UploadInv' /\ OneCompleter' /\ HandInv' /\ ObjectInv'
    BY DEF IInv, CompleteInv, UploadInv, OneCompleter, HandInv, ObjectInv, Completing, Uploading
  <2>3. QED
    BY <2>1, <2>2 DEF IInv
<1>7. QED
  BY <1>1, <1>2, <1>3, <1>4, <1>5, <1>6 DEF Next

\* The invariant holds in every reachable state.
LEMMA Inductive == Spec => []IInv
  BY Initially, StepKeeps, PTL DEF Spec

\* Rows, objects, counters and processes keep their types; the usage charged to
\* a tenant never becomes negative, whatever is given back.
THEOREM StorageTypeCorrect == Spec => []StorageTypeOK
  BY Inductive, PTL DEF IInv

\* A pending file always has a live intent, although the two are read and
\* written in different statements of service.ts and maintenance.ts.
THEOREM IntentsAgree == Spec => []IntentAgrees
  BY Inductive, PTL DEF IInv

\* The claim of completeUploadIntent excludes: one call at a time completes an
\* upload, however many are made.
THEOREM OneCompleterOnly == Spec => []OneCompleter
  BY Inductive, PTL DEF IInv

\* No pass, deletion or failing call takes the object away from a file that is
\* available, outside the two cases AvailableHasObject names.
THEOREM ObjectsKept == Spec => []AvailableHasObject
  BY Inductive, PTL DEF IInv

-----------------------------------------------------------------------------
(* The quota *)

\* The size of the variants is charged as it was made, and given back as it was
\* read before the transaction.
MadeAt(p) ==
  /\ proc[p].at \in {"put", "commit"} => (proc[p].made <=> VariantBytes[proc[p].file] > 0)
  /\ proc[p].at = "delete" /\ fstat[proc[p].file] = "available" =>
       (proc[p].made <=> proc[p].file \in rows)
QuotaInv == QuotaExact /\ \A p \in Procs : MadeAt(p)

LEMMA HeldTyped ==
  ASSUME StorageTypeOK, NEW f \in Files
  PROVE  Held(f) \in Nat
BY StorageAssumption DEF StorageTypeOK, Held

\* One file takes more or less, and the account follows it.
LEMMA QuotaMoves ==
  ASSUME StorageTypeOK, StorageTypeOK', QuotaExact, NEW f \in Files, NEW d \in Int,
         \A g \in Files \ {f} : Held(g)' = Held(g), Held(f)' = Held(f) + d,
         Account(d), Fits(d)
  PROVE  QuotaExact'
<1> DEFINE h == [g \in Files |-> Held(g)]
           k == [g \in Files |-> Held(g)']
<1>1. IsFiniteSet(Files) /\ \A g \in Files : h[g] \in Nat /\ Held(g)' \in Nat
  <2>1. \A g \in Files : Held(g) \in Nat
    BY HeldTyped
  <2>2. \A g \in Files : Held(g)' \in Nat
    BY StorageAssumption DEF StorageTypeOK, Held
  <2> QED
    BY <2>1, <2>2, StorageAssumption
<1>2. SumFunctionOnSet(k, Files) = SumFunctionOnSet(h, Files) - h[f] + k[f]
  <2>1. \A g \in Files : h[g] \in Int /\ k[g] \in Int
    BY <1>1
  <2>2. \A g \in Files \ {f} : k[g] = h[g]
    OBVIOUS
  <2> HIDE DEF h, k
  <2> QED
    BY <1>1, <2>1, <2>2, SumUpdate
<1>3. SumFunctionOnSet(k, Files) \in Nat
  <2>1. \A g \in Files : k[g] \in Nat
    BY <1>1
  <2> HIDE DEF k
  <2> QED
    BY <1>1, <2>1, SumNat
<1>4. used = SumFunctionOnSet(h, Files) /\ used <= Limit /\ ledger = used /\ used \in Nat
  BY DEF QuotaExact, StorageTypeOK
<1>5. h[f] \in Nat /\ k[f] = h[f] + d
  BY <1>1
<1>6. SumFunctionOnSet(k, Files) = used + d
  <2> HIDE DEF h, k
  <2> QED
    BY <1>2, <1>4, <1>5
<1>7. used' = used + d /\ ledger' = used + d
  BY <1>3, <1>4, <1>6 DEF Account
<1>8. used + d <= Limit
  BY <1>4, StorageAssumption DEF Fits
<1> QED
  BY <1>6, <1>7, <1>8 DEF QuotaExact

LEMMA QuotaRests ==
  ASSUME QuotaExact, \A g \in Files : Held(g)' = Held(g), UNCHANGED quotaVars
  PROVE  QuotaExact'
<1>1. [g \in Files |-> Held(g)'] = [g \in Files |-> Held(g)]
  OBVIOUS
<1> QED
  BY <1>1 DEF QuotaExact, quotaVars

\* A process that goes elsewhere than to a commit or a deletion.
LEMMA OthersMade ==
  ASSUME QuotaInv, NEW p \in Procs, UNCHANGED <<fstat, rows>>,
         \A q \in Procs \ {p} : proc'[q] = proc[q], MadeAt(p)'
  PROVE  (\A q \in Procs : MadeAt(q))'
BY DEF QuotaInv, MadeAt

Elsewhere(p) ==
  /\ proc'[p].at \notin {"put", "commit", "delete"}
  /\ \A q \in Procs \ {p} : proc'[q] = proc[q]

LEMMA ElsewhereMoves ==
  ASSUME QuotaInv, NEW p \in Procs, Elsewhere(p), UNCHANGED <<fstat, rows, quotaVars>>
  PROVE  QuotaInv'
<1>1. MadeAt(p)'
  BY DEF Elsewhere, MadeAt
<1>2. \A g \in Files : Held(g)' = Held(g)
  BY DEF Held
<1> QED
  BY <1>1, <1>2, OthersMade, QuotaRests DEF Elsewhere, QuotaInv

\* Goto, Undone, Leave and a new record.
LEMMA GoesElsewhere ==
  ASSUME IInv, NEW p \in Procs
  PROVE  /\ \A x \in ProcStates :
              Becomes(p, x) /\ x.at \notin {"put", "commit", "delete"} => Elsewhere(p)
         /\ Leave(p) => Elsewhere(p)
         /\ \A s \in Stages \ {"put", "commit", "delete"} : Goto(p, s) => Elsewhere(p)
         /\ \A b \in BOOLEAN : Undone(p, b) => Elsewhere(p)
<1>1. ASSUME NEW x \in ProcStates, Becomes(p, x), x.at \notin {"put", "commit", "delete"}
      PROVE  Elsewhere(p)
  BY <1>1, Replaced DEF Given, Elsewhere
<1>2. Leave(p) => Elsewhere(p)
  BY Left DEF NowIdle, Now, Elsewhere
<1>3. ASSUME NEW s \in Stages \ {"put", "commit", "delete"}, Goto(p, s) PROVE Elsewhere(p)
  BY <1>3, Moved DEF Goto, NowAt, Now, Elsewhere
<1>4. ASSUME NEW b \in BOOLEAN, Undone(p, b) PROVE Elsewhere(p)
  BY <1>4, MovedUndone DEF NowUndone, Now, Elsewhere
<1> QED
  BY <1>1, <1>2, <1>3, <1>4

\* createUploadIntent reserves what the file will hold.
LEMMA CreateIntentQuota ==
  ASSUME IInv, QuotaInv, NEW f \in Files, CreateIntent(f)
  PROVE  QuotaInv'
<1>1. StorageTypeOK /\ StorageTypeOK' /\ QuotaExact /\ Bytes[f] \in Int
  BY CreateIntentKeeps, StorageAssumption DEF IInv, QuotaInv
<1>2. Held(f)' = Held(f) + Bytes[f] /\ \A g \in Files \ {f} : Held(g)' = Held(g)
  BY <1>1, StorageAssumption DEF CreateIntent, SetFile, Held, StorageTypeOK
<1>3. QuotaExact'
  BY <1>1, <1>2, QuotaMoves DEF CreateIntent
<1>4. (\A p \in Procs : MadeAt(p))'
  BY <1>1 DEF CreateIntent, SetFile, QuotaInv, MadeAt, StorageTypeOK, procVars
<1> QED
  BY <1>3, <1>4 DEF QuotaInv

\* The transaction at the end charges the variants, and an upload its bytes.
LEMMA MakeAvailableQuota ==
  ASSUME IInv, QuotaInv, NEW p \in Procs, At(p, "commit"), MakeAvailable(p), Elsewhere(p),
         StorageTypeOK'
  PROVE  QuotaInv'
<1>0. PICK f \in Files : f = FileOf(p)
  BY Fields DEF At, FileOf
<1>1. /\ StorageTypeOK /\ f \in Files /\ Bytes[f] \in Nat /\ VariantBytes[f] \in Nat
      /\ Delta(p) \in Int /\ fstat[f] = (IF proc[p].kind = "upload" THEN "none" ELSE "pending")
      /\ QuotaExact
  BY <1>0, Fields, StorageAssumption
     DEF IInv, At, FileOf, MakeAvailable, Committable, Delta, QuotaInv
<1>2. /\ fstat' = [fstat EXCEPT ![f] = "available"] /\ Account(Delta(p)) /\ Fits(Delta(p))
      /\ rows' = IF proc[p].made THEN rows \cup {f} ELSE rows
  BY <1>0 DEF MakeAvailable, Committable, SetFile
<1>3. f \notin rows /\ (proc[p].made <=> VariantBytes[f] > 0)
  BY <1>0, <1>1 DEF IInv, RowInv, QuotaInv, MadeAt, At, FileOf
<1>4. fstat'[f] = "available" /\ (f \in rows' <=> VariantBytes[f] > 0)
  BY <1>1, <1>2, <1>3 DEF StorageTypeOK
<1>5. \A g \in Files \ {f} : fstat'[g] = fstat[g] /\ (g \in rows' <=> g \in rows)
  BY <1>1, <1>2 DEF StorageTypeOK
<1>6. Held(f) = (IF proc[p].kind = "upload" THEN 0 ELSE Bytes[f])
  BY <1>1 DEF Held
<1>7. Held(f)' = Bytes[f] + VariantBytes[f]
  BY <1>1, <1>4 DEF Held
<1>8. Held(f)' = Held(f) + Delta(p)
  BY <1>0, <1>1, <1>6, <1>7 DEF Delta
<1>9. \A g \in Files \ {f} : Held(g)' = Held(g)
  BY <1>5 DEF Held
<1>10. QuotaExact'
  BY <1>1, <1>2, <1>8, <1>9, QuotaMoves
<1>11. ASSUME NEW q \in Procs PROVE MadeAt(q)'
  <2>1. CASE q = p
    BY <2>1 DEF Elsewhere, MadeAt
  <2>2. CASE q # p
    <3>1. proc'[q] = proc[q]
      BY <2>2 DEF Elsewhere
    <3>2. proc[q].at = "delete" => proc[q].file \in Files \ {f}
      BY <1>0, <1>1, Fields DEF IInv, HandInv, FileOf
    <3> QED
      BY <1>5, <3>1, <3>2 DEF QuotaInv, MadeAt
  <2> QED
    BY <2>1, <2>2
<1> QED
  BY <1>10, <1>11 DEF QuotaInv

LEMMA CommitQuota ==
  ASSUME IInv, QuotaInv, NEW p \in Procs, Commit(p) \/ CommitRefused(p) \/ CommitRaises(p)
  PROVE  QuotaInv'
<1>1. StorageTypeOK' /\ Elsewhere(p) /\ At(p, "commit")
  BY CommitKeeps, CommitRefusedKeeps, CommitRaisesKeeps, GoesElsewhere
     DEF IInv, Commit, CommitRefused, CommitRaises
<1>2. MakeAvailable(p) \/ UNCHANGED <<fstat, rows, quotaVars>>
  BY DEF Commit, CommitRefused, CommitRaises, fileVars
<1> QED
  BY <1>1, <1>2, MakeAvailableQuota, ElsewhereMoves

\* A reservation is given back once.
LEMMA AbandonQuota ==
  ASSUME IInv, QuotaInv, StorageTypeOK', NEW p \in Procs, Elsewhere(p), NEW f \in Files,
         Abandon(f), UNCHANGED rows
  PROVE  QuotaInv'
<1>1. CASE fstat[f] # "pending"
  BY <1>1, ElsewhereMoves DEF Abandon
<1>2. CASE fstat[f] = "pending"
  <2>1. /\ StorageTypeOK /\ QuotaExact /\ -Bytes[f] \in Int /\ Bytes[f] \in Nat
        /\ Fits(-Bytes[f]) /\ Account(-Bytes[f])
    BY <1>2, StorageAssumption DEF IInv, QuotaInv, Fits, Abandon
  <2>2. fstat'[f] = "abandoned" /\ \A g \in Files \ {f} : fstat'[g] = fstat[g]
    BY <1>2, <2>1 DEF Abandon, SetFile, StorageTypeOK
  <2>3. Held(f)' = Held(f) + (-Bytes[f]) /\ \A g \in Files \ {f} : Held(g)' = Held(g)
    BY <1>2, <2>1, <2>2 DEF Held
  <2>4. QuotaExact'
    BY <2>1, <2>3, QuotaMoves
  <2>5. ASSUME NEW q \in Procs PROVE MadeAt(q)'
    <3>1. CASE q = p
      BY <3>1 DEF Elsewhere, MadeAt
    <3>2. CASE q # p
      <4>1. proc'[q] = proc[q] /\ (proc[q].at = "delete" => proc[q].file \in Files)
        BY <3>2, Fields DEF Elsewhere
      <4> QED
        BY <2>2, <4>1 DEF QuotaInv, MadeAt
    <3> QED
      BY <3>1, <3>2
  <2> QED
    BY <2>4, <2>5 DEF QuotaInv
<1> QED
  BY <1>1, <1>2

\* deleteFile gives back what it read, which is what the file still holds.
LEMMA DeleteQuota ==
  ASSUME IInv, QuotaInv, NEW p \in Procs, Delete(p)
  PROVE  QuotaInv'
<1>0. PICK f \in Files : f = FileOf(p)
  BY Fields DEF Delete, At, FileOf
<1>1. StorageTypeOK' /\ Elsewhere(p)
  BY DeleteKeeps, GoesElsewhere DEF IInv, Delete, Stages
<1>2. CASE ~StillThere(f)
  BY <1>0, <1>1, <1>2, ElsewhereMoves DEF Delete
<1>3. CASE StillThere(f)
  <2>1. /\ StorageTypeOK /\ QuotaExact /\ f \in Files /\ Bytes[f] \in Nat /\ VariantBytes[f] \in Nat
        /\ fstat[f] = "available" /\ (proc[p].made <=> f \in rows)
    BY <1>0, <1>3, Fields, StorageAssumption
       DEF IInv, QuotaInv, StillThere, Delete, At, FileOf, MadeAt
  <2>2. PICK d \in Int : d = -(Bytes[f] + (IF proc[p].made THEN VariantBytes[f] ELSE 0)) /\ d <= 0
    BY <2>1
  <2>3. /\ fstat'[f] = "deleted" /\ \A g \in Files \ {f} : fstat'[g] = fstat[g]
        /\ rows' = rows /\ Account(d)
    BY <1>0, <1>3, <2>1, <2>2 DEF Delete, SetFile, StorageTypeOK
  <2>4. Held(f)' = Held(f) + d /\ \A g \in Files \ {f} : Held(g)' = Held(g)
    <3>1. Held(f) = Bytes[f] + (IF proc[p].made THEN VariantBytes[f] ELSE 0) /\ Held(f)' = 0
      BY <2>1, <2>3 DEF Held
    <3> QED
      BY <2>1, <2>2, <2>3, <3>1 DEF Held
  <2>5. QuotaExact'
    <3>1. Fits(d)
      BY <2>2 DEF Fits
    <3> QED
      BY <1>1, <2>1, <2>2, <2>3, <2>4, <3>1, QuotaMoves
  <2>6. ASSUME NEW q \in Procs PROVE MadeAt(q)'
    <3>1. CASE q = p
      BY <1>1, <3>1 DEF Elsewhere, MadeAt
    <3>2. CASE q # p
      <4>1. proc'[q] = proc[q] /\ (proc[q].at = "delete" => proc[q].file \in Files)
        BY <1>1, <3>2, Fields DEF Elsewhere
      <4> QED
        BY <2>3, <4>1 DEF QuotaInv, MadeAt
    <3> QED
      BY <3>1, <3>2
  <2> QED
    BY <2>5, <2>6 DEF QuotaInv
<1> QED
  BY <1>2, <1>3

LEMMA SettleQuota ==
  ASSUME IInv, QuotaInv, NEW p \in Procs, PassSettle(p) \/ Release(p)
  PROVE  QuotaInv'
<1> DEFINE f == FileOf(p)
<1>1. StorageTypeOK' /\ StorageTypeOK /\ f \in Files
  BY PassSettleKeeps, ReleaseKeeps, Fields DEF IInv, PassSettle, Release, At, FileOf
<1>2. Elsewhere(p)
  <2>1. CASE Release(p)
    BY <2>1, GoesElsewhere DEF Release
  <2>2. CASE PassSettle(p)
    <3>1. [proc[p] EXCEPT !.at = "pass", !.file = NoFile] \in ProcStates
      BY Fields DEF ProcStates
    <3>2. [proc[p] EXCEPT !.at = "pass", !.file = NoFile].at = "pass"
      BY Fields DEF ProcStates
    <3> QED
      BY <2>2, <3>1, <3>2, GoesElsewhere DEF PassSettle
  <2> QED
    BY <2>1, <2>2
<1>3. \/ Abandon(f) /\ UNCHANGED rows
      \/ fstat[f] = "deleted" /\ SetFile(f, "purged") /\ rows' = rows \ {f} /\ UNCHANGED quotaVars
      \/ UNCHANGED <<fstat, rows, quotaVars>>
  <2>1. PassSettle(p) => proc[p].kind \in Passes
    BY DEF PassSettle, IInv, StageInv, At
  <2> QED
    BY <2>1 DEF PassSettle, Settle, Release, fileVars, Passes
<1>4. CASE fstat[f] = "deleted" /\ SetFile(f, "purged") /\ rows' = rows \ {f} /\ UNCHANGED quotaVars
  <2>1. /\ fstat'[f] = "purged"
        /\ \A g \in Files \ {f} : fstat'[g] = fstat[g] /\ (g \in rows' <=> g \in rows)
    BY <1>1, <1>4 DEF SetFile, StorageTypeOK
  <2>2. \A g \in Files : Held(g)' = Held(g)
    BY <1>4, <2>1 DEF Held
  <2>3. ASSUME NEW q \in Procs PROVE MadeAt(q)'
    <3>1. CASE q = p
      BY <1>2, <3>1 DEF Elsewhere, MadeAt
    <3>2. CASE q # p
      <4>1. proc'[q] = proc[q] /\ (proc[q].at = "delete" => proc[q].file \in Files)
        BY <1>2, <3>2, Fields DEF Elsewhere
      <4> QED
        BY <2>1, <4>1 DEF QuotaInv, MadeAt
    <3> QED
      BY <3>1, <3>2
  <2> QED
    BY <1>4, <2>2, <2>3, QuotaRests DEF QuotaInv
<1> QED
  BY <1>1, <1>2, <1>3, <1>4, AbandonQuota, ElsewhereMoves

\* The variants are made, or the type of the file has none.
LEMMA MakeVariantsQuota ==
  ASSUME IInv, QuotaInv, NEW p \in Procs, MakeVariants(p)
  PROVE  QuotaInv'
<1>1. PICK f \in Files : f = proc[p].file
  BY Fields DEF MakeVariants, At
<1>2. /\ ~proc[p].made /\ proc[p] \in ProcStates /\ VariantBytes[f] \in Nat
      /\ AfterVariants(p) \in {"put", "commit"}
  BY <1>1, Fields, StorageAssumption DEF MakeVariants, At, IInv, StageInv, AfterVariants
<1>3. /\ proc'[p].file = f /\ proc'[p].at \in {"put", "commit"}
      /\ proc'[p].made <=> VariantBytes[f] > 0
      /\ \A q \in Procs \ {p} : proc'[q] = proc[q]
  <2>1. CASE VariantBytes[f] > 0
    <3>1. [proc[p] EXCEPT !.at = AfterVariants(p), !.made = TRUE] \in ProcStates
      BY <1>2 DEF ProcStates
    <3>2. Given(p, [proc[p] EXCEPT !.at = AfterVariants(p), !.made = TRUE])
      BY <1>1, <2>1, <3>1, Replaced DEF MakeVariants, FileOf
    <3> QED
      BY <1>1, <1>2, <2>1, <3>2 DEF Given, ProcStates
  <2>2. CASE ~(VariantBytes[f] > 0)
    <3>1. AfterVariants(p) \in Stages
      BY <1>2 DEF Stages
    <3>2. NowAt(p, AfterVariants(p))
      BY <1>1, <2>2, <3>1, Moved DEF MakeVariants, FileOf
    <3> QED
      BY <1>1, <1>2, <2>2, <3>2 DEF NowAt, Now
  <2> QED
    BY <2>1, <2>2
<1>4. MadeAt(p)'
  BY <1>3 DEF MadeAt
<1>5. UNCHANGED <<fstat, rows, quotaVars>> /\ \A g \in Files : Held(g)' = Held(g)
  BY DEF MakeVariants, fileVars, Held
<1> QED
  BY <1>3, <1>4, <1>5, OthersMade, QuotaRests DEF QuotaInv

\* What was made is still known when the object is there.
LEMMA PutQuota ==
  ASSUME IInv, QuotaInv, NEW p \in Procs, Put(p)
  PROVE  QuotaInv'
<1>1. [proc[p] EXCEPT !.at = "commit", !.wrote = TRUE] \in ProcStates /\ proc[p] \in ProcStates
  BY Fields DEF ProcStates
<1>2. Given(p, [proc[p] EXCEPT !.at = "commit", !.wrote = TRUE])
  BY <1>1, Replaced DEF Put
<1>3. /\ proc'[p].at = "commit" /\ proc'[p].file = proc[p].file /\ proc'[p].made = proc[p].made
      /\ \A q \in Procs \ {p} : proc'[q] = proc[q]
  BY <1>1, <1>2 DEF Given, ProcStates
<1>4. MadeAt(p)'
  BY <1>3 DEF MadeAt, QuotaInv, Put, At
<1>5. UNCHANGED <<fstat, rows, quotaVars>> /\ \A g \in Files : Held(g)' = Held(g)
  BY DEF Put, fileVars, Held
<1> QED
  BY <1>3, <1>4, <1>5, OthersMade, QuotaRests DEF QuotaInv

\* deleteFile reads the rows of the variants before its transaction.
LEMMA CallDeleteQuota ==
  ASSUME IInv, QuotaInv, NEW p \in Procs, NEW f \in Files, CallDelete(p, f)
  PROVE  QuotaInv'
<1>1. /\ proc'[p].at = "delete" /\ proc'[p].file = f /\ (proc'[p].made <=> f \in rows)
      /\ \A q \in Procs \ {p} : proc'[q] = proc[q]
  <2>1. PICK b \in BOOLEAN : b <=> f \in rows
    OBVIOUS
  <2>2. Becomes(p, [Idle EXCEPT !.at = "delete", !.kind = "delete", !.file = f, !.made = b])
    <3>1. (f \in rows) = b
      BY <2>1
    <3> QED
      BY <3>1, Zenon DEF CallDelete
  <2>3. [Idle EXCEPT !.at = "delete", !.kind = "delete", !.file = f, !.made = b] \in ProcStates
    BY DEF Idle, ProcStates, Passes
  <2>4. Given(p, [Idle EXCEPT !.at = "delete", !.kind = "delete", !.file = f, !.made = b])
    BY <2>2, <2>3, Replaced
  <2> QED
    BY <2>1, <2>4 DEF Given, Idle
<1>2. UNCHANGED <<fstat, rows, quotaVars>> /\ \A g \in Files : Held(g)' = Held(g)
  BY DEF CallDelete, fileVars, Held
<1>3. MadeAt(p)'
  BY <1>1, <1>2 DEF MadeAt
<1> QED
  BY <1>1, <1>2, <1>3, OthersMade, QuotaRests DEF QuotaInv

\* Calls and passes that start leave the account alone.
LEMMA StartsQuota ==
  ASSUME IInv, QuotaInv, NEW p \in Procs
  PROVE  /\ \A f \in Files : StartUpload(p, f) => QuotaInv'
         /\ \A f \in Files, i \in BOOLEAN : CallComplete(p, f, i) => QuotaInv'
         /\ Cron(p) => QuotaInv'
<1>1. ASSUME NEW f \in Files, StartUpload(p, f) PROVE QuotaInv'
  <2> DEFINE x == [Idle EXCEPT !.at = "variants", !.kind = "upload", !.file = f, !.inline = TRUE]
  <2>1. x \in ProcStates /\ x.at = "variants"
    BY DEF Idle, ProcStates, Passes
  <2>2. Becomes(p, x) /\ UNCHANGED <<fstat, rows, quotaVars>>
    BY <1>1 DEF StartUpload, fileVars
  <2> HIDE DEF x
  <2> QED
    BY <2>1, <2>2, GoesElsewhere, ElsewhereMoves
<1>2. ASSUME NEW f \in Files, NEW i \in BOOLEAN, CallComplete(p, f, i) PROVE QuotaInv'
  <2> DEFINE x == [Idle EXCEPT !.at = "claim", !.file = f, !.inline = i]
  <2>1. x \in ProcStates /\ x.at = "claim"
    BY DEF Idle, ProcStates, Passes
  <2>2. Becomes(p, x) /\ UNCHANGED <<fstat, rows, quotaVars>>
    BY <1>2 DEF CallComplete, fileVars
  <2> HIDE DEF x
  <2> QED
    BY <2>1, <2>2, GoesElsewhere, ElsewhereMoves
<1>3. ASSUME NEW k \in Passes, NEW S \in SUBSET Files, StartPass(p, k, S) PROVE QuotaInv'
  <2> DEFINE x == [Idle EXCEPT !.at = "pass", !.kind = k]
  <2>1. x \in ProcStates /\ x.at = "pass"
    BY DEF Idle, ProcStates, Passes
  <2>2. Becomes(p, x) /\ UNCHANGED <<fstat, rows, quotaVars>>
    BY <1>3 DEF StartPass, fileVars
  <2> HIDE DEF x
  <2> QED
    BY <2>1, <2>2, GoesElsewhere, ElsewhereMoves
<1> QED
  BY <1>1, <1>2, <1>3 DEF Cron

\* The steps of a completion that touch neither file rows nor the account.
LEMMA CompletionQuota ==
  ASSUME IInv, QuotaInv, NEW p \in Procs,
         \/ Claim(p) \/ Verify(p) \/ VerifyFails(p) \/ MakeVariantsFails(p) \/ PutFails(p)
         \/ Undo(p) \/ UndoFails(p) \/ Reopen(p)
  PROVE  QuotaInv'
<1>1. Elsewhere(p)
  <2>1. Goto(p, "verify") \/ Goto(p, "variants") \/ Goto(p, "release") \/ Goto(p, "reopen")
        => Elsewhere(p)
    BY GoesElsewhere DEF Stages
  <2>2. Leave(p) \/ Undone(p, TRUE) \/ Undone(p, FALSE) => Elsewhere(p)
    BY GoesElsewhere
  <2> QED
    BY <2>1, <2>2 DEF Claim, Verify, VerifyFails, MakeVariantsFails, PutFails, Undo, UndoFails,
                      Reopen, AfterUndo
<1>2. UNCHANGED <<fstat, rows, quotaVars>>
  BY DEF Claim, Verify, VerifyFails, MakeVariantsFails, PutFails, Undo, UndoFails, Reopen, fileVars
<1> QED
  BY <1>1, <1>2, ElsewhereMoves

\* The provider is asked to delete, a pass ends, a process dies.
LEMMA CleanupQuota ==
  ASSUME IInv, QuotaInv, NEW p \in Procs,
         Erase(p) \/ EraseFails(p) \/ PassDone(p) \/ Stop(p) \/ \E f \in Files : PassErase(p, f)
  PROVE  QuotaInv'
<1>1. Elsewhere(p)
  <2>1. ASSUME NEW f \in Files, PassErase(p, f) PROVE Elsewhere(p)
    <3>1. [proc[p] EXCEPT !.at = "passtx", !.file = f] \in ProcStates
          /\ [proc[p] EXCEPT !.at = "passtx", !.file = f].at = "passtx"
      BY Fields DEF ProcStates
    <3> QED
      BY <2>1, <3>1, GoesElsewhere DEF PassErase
  <2>2. ~(\E f \in Files : PassErase(p, f)) => Leave(p)
    BY DEF Erase, EraseFails, PassDone, Stop
  <2> QED
    BY <2>1, <2>2, GoesElsewhere
<1>2. UNCHANGED <<fstat, rows, quotaVars>>
  BY DEF Erase, EraseFails, PassDone, Stop, PassErase, fileVars
<1> QED
  BY <1>1, <1>2, ElsewhereMoves

LEMMA QuotaStays ==
  ASSUME QuotaInv, UNCHANGED <<fstat, rows, quotaVars, proc>>
  PROVE  QuotaInv'
<1>1. \A g \in Files : Held(g)' = Held(g)
  BY DEF Held
<1>2. QuotaExact'
  BY <1>1, QuotaRests DEF QuotaInv
<1> QED
  BY <1>2 DEF QuotaInv, MadeAt

\* Nothing is held and nothing charged.
LEMMA QuotaInitially == Init => QuotaInv
<1> SUFFICES ASSUME Init PROVE QuotaInv
  OBVIOUS
<1> DEFINE g == [f \in Files |-> Held(f)]
<1>1. \A f \in Files : g[f] = 0
  BY DEF Init, Held
<1>2. SumFunctionOnSet(g, Files) = 0
  <2> HIDE DEF g
  <2> QED
    BY <1>1, StorageAssumption, SumZero
<1>3. QuotaExact
  BY <1>2, StorageAssumption DEF Init, QuotaExact
<1>4. \A p \in Procs : MadeAt(p)
  BY DEF Init, Idle, MadeAt
<1> QED
  BY <1>3, <1>4 DEF QuotaInv

LEMMA QuotaStep == IInv /\ QuotaInv /\ [Next]_vars => QuotaInv'
<1> SUFFICES ASSUME IInv, QuotaInv, [Next]_vars PROVE QuotaInv'
  OBVIOUS
<1>1. ASSUME NEW f \in Files, CreateIntent(f) PROVE QuotaInv'
  BY <1>1, CreateIntentQuota
<1>2. ASSUME NEW f \in Files, ClientPut(f) \/ Expire(f) PROVE QuotaInv'
  BY <1>2, QuotaStays DEF ClientPut, Expire, fileVars, procVars
<1>3. ASSUME NEW p \in Procs, Call(p) \/ Cron(p) PROVE QuotaInv'
  BY <1>3, CallDeleteQuota, StartsQuota DEF Call
<1>4. ASSUME NEW p \in Procs, Upload(p) PROVE QuotaInv'
  BY <1>4, CompletionQuota, MakeVariantsQuota, PutQuota, CommitQuota, SettleQuota DEF Upload
<1>5. ASSUME NEW p \in Procs, Pass(p) PROVE QuotaInv'
  <2>1. ASSUME NEW f \in Files, PassEraseFails(p, f) PROVE QuotaInv'
    BY <2>1, QuotaStays DEF PassEraseFails, fileVars
  <2> QED
    BY <1>5, <2>1, CleanupQuota, SettleQuota DEF Pass
<1>6. ASSUME NEW p \in Procs, Delete(p) \/ Erase(p) \/ EraseFails(p) \/ Stop(p) PROVE QuotaInv'
  BY <1>6, DeleteQuota, CleanupQuota
<1>7. CASE UNCHANGED vars
  BY <1>7, QuotaStays DEF vars, fileVars, procVars
<1> QED
  BY <1>1, <1>2, <1>3, <1>4, <1>5, <1>6, <1>7 DEF Next, Work

LEMMA QuotaInductive == Spec => [](IInv /\ QuotaInv)
  BY Initially, StepKeeps, QuotaInitially, QuotaStep, PTL DEF Spec

\* Whatever completions, deletions and passes race or fail half way, the usage
\* charged by service.ts is what the pending and available files hold and stays
\* within the limit, and the usage records add up to it.
THEOREM QuotaIsExact == Spec => []QuotaExact
  BY QuotaInductive, PTL DEF QuotaInv

-----------------------------------------------------------------------------
(* The requests of the API *)

CallStates ==
  [at : {"none", "insert", "storage", "mark", "log", "look", "fanout", "answer"},
   file : Files \cup {NoFile}, key : Keys \cup {None}, body : Bodies \cup {None},
   event : Events \cup {None}]
KeyRows ==
  [at : {"none", "open", "answered"}, body : Bodies \cup {None}, event : Events \cup {None}]
EventRows == [at : {"none", "logged", "queued"}, key : Keys \cup {None}]
Replies == [key : Keys, body : Bodies, event : Events]

ApiTypeOK ==
  /\ call \in [Procs -> CallStates] /\ keys \in [Keys -> KeyRows]
  /\ events \in [Events -> EventRows] /\ replies \subseteq Replies
  /\ upload \in [Files -> {"none", "pending", "uploaded"}]

-----------------------------------------------------------------------------
(* The creation of events *)

InEvent(p) == call[p].at \in {"log", "look", "fanout", "answer"}
\* A request has written its key, and its event is not answered yet.
Owns(p) == call[p].at \in {"log", "fanout", "answer"} /\ call[p].key # None

CallRule ==
  \A p \in Procs :
    /\ InEvent(p) => call[p].body \in Bodies
    /\ call[p].at = "look" => call[p].key # None
    /\ ~InEvent(p) => call[p].key = None
    /\ call[p].at \in {"fanout", "answer"} =>
         /\ call[p].event \in Events /\ events[call[p].event].key = call[p].key
         /\ events[call[p].event].at # "none"
         /\ call[p].at = "answer" => events[call[p].event].at = "queued"
    /\ Owns(p) => /\ keys[call[p].key].at = "open" /\ keys[call[p].key].body = call[p].body
                  /\ \A q \in Procs \ {p} : Owns(q) => call[q].key # call[p].key
    /\ call[p].at = "log" /\ call[p].key # None => \A e \in Events : events[e].key # call[p].key

KeyRule ==
  \A k \in Keys :
    /\ keys[k].at = "none" => \A e \in Events : events[e].key # k
    /\ keys[k].at = "answered" => /\ keys[k].event \in Events /\ events[keys[k].event].key = k
                                  /\ events[keys[k].event].at = "queued"
    /\ keys[k].at = "open" => k \in abandoned \/ \E p \in Procs : Owns(p) /\ call[p].key = k

\* A response is what the row of its key says, now and for ever.
ReplyRule ==
  \A x \in replies :
    keys[x.key].at = "answered" /\ keys[x.key].body = x.body /\ keys[x.key].event = x.event
EventRule ==
  \A d, e \in Events : events[d].key = events[e].key /\ events[d].key # None => d = e

IdemInv == ApiTypeOK /\ CallRule /\ KeyRule /\ ReplyRule /\ EventRule

LEMMA IdemBounds == IdemInv => EventsIdempotent
<1> SUFFICES ASSUME IdemInv PROVE EventsIdempotent
  OBVIOUS
<1>1. \A x \in replies : x \in Replies
  BY DEF IdemInv, ApiTypeOK
<1>2. \A x, y \in replies : x.key = y.key => x = y
  <2> SUFFICES ASSUME NEW x \in replies, NEW y \in replies, x.key = y.key PROVE x = y
    OBVIOUS
  <2>1. x.body = y.body /\ x.event = y.event
    BY DEF IdemInv, ReplyRule
  <2> QED
    BY <1>1, <2>1 DEF Replies
<1>3. \A x \in replies : events[x.event].key = x.key /\ events[x.event].at = "queued"
  BY <1>1 DEF IdemInv, ReplyRule, KeyRule, Replies
<1>4. \A k \in Keys : keys[k].at = "open"
        => k \in abandoned \/ \E p \in Procs : call[p].key = k /\ ~CallAt(p, "look")
  BY DEF IdemInv, KeyRule, Owns, CallAt
<1> QED
  BY <1>2, <1>3, <1>4 DEF EventsIdempotent, IdemInv, EventRule

LEMMA NoneTyped ==
  /\ NoCall \in CallStates /\ NoKey \in KeyRows /\ NoEvent \in EventRows
  /\ None \notin Keys /\ None \notin Bodies /\ None \notin Events
  /\ NoCall.at = "none" /\ NoCall.key = None /\ NoCall.file = NoFile
BY ApiAssumption DEF NoCall, NoKey, NoEvent, CallStates, KeyRows, EventRows

LEMMA IdemInitially == ApiInit => IdemInv
<1> SUFFICES ASSUME ApiInit PROVE IdemInv
  OBVIOUS
<1>1. /\ \A p \in Procs : call[p] = NoCall
      /\ \A k \in Keys : keys[k].at = "none"
      /\ \A e \in Events : events[e].key = None
      /\ replies = {}
  BY DEF ApiInit, NoKey, NoEvent
<1>2. ApiTypeOK
  BY NoneTyped DEF ApiInit, ApiTypeOK
<1>3. CallRule /\ KeyRule /\ ReplyRule /\ EventRule
  BY <1>1, NoneTyped DEF CallRule, KeyRule, ReplyRule, EventRule, InEvent, Owns
<1> QED
  BY <1>2, <1>3 DEF IdemInv

\* A request turns to something else.
LEMMA Turning ==
  ASSUME ApiTypeOK, NEW p \in Procs, NEW x \in CallStates, Turn(p, x)
  PROVE  call' \in [Procs -> CallStates] /\ \A q \in Procs : call'[q] = IF q = p THEN x ELSE call[q]
BY DEF ApiTypeOK, Turn

\* Steps that leave keys and events alone: requests that own a key lose it only
\* when they are abandoned.
LEMMA OthersKeep ==
  ASSUME IdemInv, UNCHANGED <<keys, events, replies>>, abandoned \subseteq abandoned',
         call' \in [Procs -> CallStates],
         upload' \in [Files -> {"none", "pending", "uploaded"}],
         \A p \in Procs :
           \/ call'[p] = call[p]
           \/ /\ call'[p].at \in {"none", "insert", "storage", "mark"} /\ call'[p].key = None
              /\ Owns(p) => call[p].key \in abandoned'
  PROVE  IdemInv'
<1>1. ApiTypeOK'
  BY DEF IdemInv, ApiTypeOK
<1>2. \A p \in Procs : Owns(p)' => Owns(p) /\ call'[p] = call[p]
  BY DEF Owns
<1>3. CallRule'
  BY <1>2 DEF IdemInv, CallRule, InEvent
<1>4. \A p \in Procs : Owns(p) =>
        (Owns(p)' /\ call'[p] = call[p]) \/ call[p].key \in abandoned'
  BY DEF Owns
<1>5. KeyRule'
  BY <1>4 DEF IdemInv, KeyRule
<1>6. ReplyRule' /\ EventRule'
  BY DEF IdemInv, ReplyRule, EventRule
<1> QED
  BY <1>1, <1>3, <1>5, <1>6 DEF IdemInv

LEMMA CallCreateEventKeeps ==
  ASSUME IdemInv, NEW p \in Procs, NEW k \in Keys \cup {None}, NEW b \in Bodies,
         CallCreateEvent(p, k, b)
  PROVE  IdemInv'
<1> DEFINE x == [NoCall EXCEPT !.at = IF k = None \/ Unused(k) THEN "log" ELSE "look",
                               !.key = k, !.body = b]
           mine == k # None /\ Unused(k)
           row == [NoKey EXCEPT !.at = "open", !.body = b]
<1>1. /\ x \in CallStates /\ x.at \in {"log", "look"} /\ x.key = k /\ x.body = b
      /\ x.at = "look" <=> k # None /\ ~Unused(k)
  BY DEF NoCall, CallStates
<1>2. row \in KeyRows /\ row.at = "open" /\ row.body = b
  BY DEF NoKey, KeyRows
<1>3. /\ Turn(p, x) /\ keys' = IF mine THEN [keys EXCEPT ![k] = row] ELSE keys
      /\ UNCHANGED <<events, replies, abandoned, upload>> /\ call[p] = NoCall
  BY DEF CallCreateEvent, Free, apiHistory
<1> HIDE DEF x, row
<1>4. call' \in [Procs -> CallStates] /\ \A q \in Procs : call'[q] = IF q = p THEN x ELSE call[q]
  BY <1>1, <1>3, Turning DEF IdemInv
<1>5. \A j \in Keys : keys'[j] = IF mine /\ j = k THEN row ELSE keys[j]
  BY <1>3 DEF IdemInv, ApiTypeOK
<1>6. ApiTypeOK'
  BY <1>2, <1>3, <1>4 DEF IdemInv, ApiTypeOK
<1>7. /\ \A q \in Procs : q # p => (Owns(q)' <=> Owns(q)) /\ call'[q] = call[q]
      /\ Owns(p)' <=> mine
      /\ ~Owns(p)
  BY <1>1, <1>3, <1>4, NoneTyped DEF Owns
<1>8. mine => /\ \A q \in Procs : Owns(q) => call[q].key # k
              /\ \A e \in Events : events[e].key # k
              /\ keys[k].at = "none" /\ k \in Keys
  BY DEF IdemInv, CallRule, KeyRule, Unused
<1>9. CallRule'
  <2> SUFFICES ASSUME NEW q \in Procs PROVE CallRule!(q)'
    BY DEF CallRule
  <2>1. CASE q # p
    <3>1. call[q].key \in Keys \/ call[q].key = None
      BY DEF IdemInv, ApiTypeOK, CallStates
    <3>2. Owns(q) => call[q].key \in Keys /\ keys'[call[q].key] = keys[call[q].key]
      BY <1>5, <1>8, <3>1 DEF Owns
    <3>3. Owns(q)' => \A u \in Procs \ {q} : Owns(u)' => call'[u].key # call'[q].key
      BY <1>1, <1>4, <1>7, <1>8, <2>1 DEF IdemInv, CallRule
    <3> QED
      BY <1>3, <1>7, <2>1, <3>2, <3>3 DEF IdemInv, CallRule, InEvent
  <2>2. CASE q = p
    <3>1. Owns(p)' => \A u \in Procs \ {p} : Owns(u)' => call'[u].key # call'[p].key
      BY <1>1, <1>4, <1>7, <1>8
    <3>2. Owns(p)' => keys'[call'[p].key].at = "open" /\ keys'[call'[p].key].body = call'[p].body
      BY <1>1, <1>2, <1>4, <1>5, <1>7, <1>8
    <3> QED
      BY <1>1, <1>3, <1>4, <1>8, <2>2, <3>1, <3>2 DEF InEvent
  <2> QED
    BY <2>1, <2>2
<1>10. KeyRule'
  BY <1>1, <1>2, <1>3, <1>4, <1>5, <1>7, <1>8 DEF IdemInv, KeyRule
<1>11. ReplyRule'
  <2>1. \A y \in replies : y.key \in Keys /\ keys[y.key].at = "answered"
    BY DEF IdemInv, ApiTypeOK, Replies, ReplyRule
  <2> QED
    BY <1>3, <1>5, <1>8, <2>1 DEF IdemInv, ReplyRule
<1>12. EventRule'
  BY <1>3 DEF IdemInv, EventRule
<1> QED
  BY <1>6, <1>9, <1>10, <1>11, <1>12 DEF IdemInv

\* A response is given again: it is the one in the row.
LEMMA LookKeeps ==
  ASSUME IdemInv, NEW p \in Procs, Look(p)
  PROVE  IdemInv'
<1> DEFINE k == call[p].key
           y == [key |-> k, body |-> call[p].body, event |-> keys[k].event]
           hit == keys[k].body = call[p].body /\ keys[k].at = "answered"
<1>1. call[p].at = "look" /\ k \in Keys /\ call[p].body \in Bodies /\ ~Owns(p)
  BY DEF Look, CallAt, IdemInv, ApiTypeOK, CallStates, CallRule, InEvent, Owns
<1>2. /\ Turn(p, NoCall) /\ replies' = IF hit THEN replies \cup {y} ELSE replies
      /\ UNCHANGED <<keys, events, upload, abandoned>>
  BY <1>1, NoneTyped DEF Look, Close, Reply, apiRows
<1>3. call' \in [Procs -> CallStates]
      /\ \A q \in Procs : call'[q] = IF q = p THEN NoCall ELSE call[q]
  BY <1>2, NoneTyped, Turning DEF IdemInv
<1>4. hit => y \in Replies
  BY <1>1 DEF IdemInv, KeyRule, Replies
<1>5. ApiTypeOK'
  BY <1>2, <1>3, <1>4 DEF IdemInv, ApiTypeOK
<1>6. \A q \in Procs : Owns(q)' <=> Owns(q)
  BY <1>1, <1>3, NoneTyped DEF Owns
<1>7. CallRule'
  <2> SUFFICES ASSUME NEW q \in Procs PROVE CallRule!(q)'
    BY DEF CallRule
  <2>1. CASE q = p
    BY <1>1, <1>3, <1>6, <2>1, NoneTyped DEF InEvent
  <2>2. CASE q # p
    <3>1. call'[q] = call[q]
      BY <1>3, <2>2
    <3>2. \A u \in Procs : Owns(u)' => Owns(u) /\ call'[u] = call[u]
      BY <1>1, <1>3, <1>6
    <3> QED
      BY <1>2, <3>1, <3>2 DEF IdemInv, CallRule, InEvent
  <2> QED
    BY <2>1, <2>2
<1>8. KeyRule'
  <2>1. \A j \in Keys : (\E q \in Procs : Owns(q) /\ call[q].key = j)
                        => \E q \in Procs : Owns(q)' /\ call'[q].key = j
    BY <1>1, <1>3, <1>6
  <2> QED
    BY <1>2, <2>1 DEF IdemInv, KeyRule
<1>9. ReplyRule' /\ EventRule'
  BY <1>2 DEF IdemInv, ReplyRule, EventRule
<1> QED
  BY <1>5, <1>7, <1>8, <1>9 DEF IdemInv

\* Nobody else logs an event for the key.
LEMMA LogEventKeeps ==
  ASSUME IdemInv, NEW p \in Procs, NEW e \in Events, LogEvent(p, e)
  PROVE  IdemInv'
<1> DEFINE k == call[p].key
           x == [call[p] EXCEPT !.at = "fanout", !.event = e]
           row == [at |-> "logged", key |-> k]
<1>1. call[p].at = "log" /\ k \in Keys \cup {None} /\ call[p].body \in Bodies
  BY DEF LogEvent, CallAt, IdemInv, ApiTypeOK, CallStates, CallRule, InEvent
<1>2. x \in CallStates /\ x.at = "fanout" /\ x.key = k /\ x.body = call[p].body /\ x.event = e
  BY DEF IdemInv, ApiTypeOK, CallStates
<1>3. row \in EventRows /\ row.at = "logged" /\ row.key = k
  BY <1>1 DEF EventRows
<1>4. /\ Turn(p, x) /\ events' = [events EXCEPT ![e] = row] /\ events[e] = NoEvent
      /\ UNCHANGED <<keys, replies, abandoned, upload>>
  BY DEF LogEvent, apiHistory
<1> HIDE DEF x, row
<1>5. call' \in [Procs -> CallStates] /\ \A q \in Procs : call'[q] = IF q = p THEN x ELSE call[q]
  BY <1>2, <1>4, Turning DEF IdemInv
<1>6. \A d \in Events : events'[d] = IF d = e THEN row ELSE events[d]
  BY <1>4 DEF IdemInv, ApiTypeOK
<1>7. events[e].at = "none" /\ events[e].key = None
  BY <1>4 DEF NoEvent
<1>8. ApiTypeOK'
  BY <1>3, <1>4, <1>5 DEF IdemInv, ApiTypeOK
<1>9. /\ \A q \in Procs : /\ Owns(q)' <=> Owns(q)
                          /\ call'[q].key = call[q].key /\ call'[q].body = call[q].body
      /\ Owns(p) <=> k # None
  BY <1>1, <1>2, <1>5 DEF Owns
<1>10. /\ k # None => \A d \in Events : events[d].key # k
       /\ k # None => keys[k].at = "open" /\ \A q \in Procs \ {p} : Owns(q) => call[q].key # k
  BY <1>1, <1>9 DEF IdemInv, CallRule
<1>11. CallRule'
  <2> SUFFICES ASSUME NEW q \in Procs PROVE CallRule!(q)'
    BY DEF CallRule
  <2>1. Owns(q)' => /\ keys'[call'[q].key].at = "open" /\ keys'[call'[q].key].body = call'[q].body
                    /\ \A u \in Procs \ {q} : Owns(u)' => call'[u].key # call'[q].key
    BY <1>4, <1>9 DEF IdemInv, CallRule
  <2>2. CASE q = p
    BY <1>1, <1>2, <1>3, <1>5, <1>6, <2>1, <2>2 DEF InEvent
  <2>3. CASE q # p
    <3>1. call'[q] = call[q]
      BY <1>5, <2>3
    <3>2. call[q].at \in {"fanout", "answer"} => call[q].event # e
      BY <1>7 DEF IdemInv, CallRule
    <3>3. call[q].at = "log" /\ call[q].key # None => call[q].key # k
      BY <1>10, <2>3 DEF Owns
    <3> QED
      BY <1>3, <1>6, <2>1, <3>1, <3>2, <3>3 DEF IdemInv, CallRule, InEvent
  <2> QED
    BY <2>2, <2>3
<1>12. KeyRule'
  <2>1. \A j \in Keys : keys[j].at = "answered" => keys[j].event # e
    BY <1>7, NoneTyped DEF IdemInv, KeyRule
  <2> QED
    BY <1>3, <1>4, <1>6, <1>9, <1>10, <2>1, NoneTyped DEF IdemInv, KeyRule
<1>13. ReplyRule' /\ EventRule'
  BY <1>3, <1>4, <1>6, <1>10 DEF IdemInv, ReplyRule, EventRule
<1> QED
  BY <1>8, <1>11, <1>12, <1>13 DEF IdemInv

LEMMA QueueFanoutKeeps ==
  ASSUME IdemInv, NEW p \in Procs, QueueFanout(p)
  PROVE  IdemInv'
<1> DEFINE e == call[p].event
           x == [call[p] EXCEPT !.at = "answer"]
           row == [events[e] EXCEPT !.at = "queued"]
<1>1. call[p].at = "fanout" /\ e \in Events /\ events[e].key = call[p].key /\ call[p].body \in Bodies
  BY DEF QueueFanout, CallAt, IdemInv, CallRule, InEvent
<1>2. x \in CallStates /\ x.at = "answer" /\ x.key = call[p].key /\ x.body = call[p].body /\ x.event = e
  BY DEF IdemInv, ApiTypeOK, CallStates
<1>3. row \in EventRows /\ row.at = "queued" /\ row.key = events[e].key
  BY <1>1 DEF IdemInv, ApiTypeOK, EventRows
<1>4. /\ Turn(p, x) /\ events' = [events EXCEPT ![e] = row]
      /\ UNCHANGED <<keys, replies, abandoned, upload>>
  BY DEF QueueFanout, TurnTo, apiHistory
<1> HIDE DEF x, row
<1>5. call' \in [Procs -> CallStates] /\ \A q \in Procs : call'[q] = IF q = p THEN x ELSE call[q]
  BY <1>2, <1>4, Turning DEF IdemInv
<1>6. \A d \in Events : /\ events'[d] = IF d = e THEN row ELSE events[d]
                        /\ events'[d].key = events[d].key
                        /\ events[d].at = "queued" => events'[d].at = "queued"
                        /\ events[d].at # "none" => events'[d].at # "none"
  BY <1>1, <1>3, <1>4 DEF IdemInv, ApiTypeOK
<1>7. ApiTypeOK'
  BY <1>1, <1>3, <1>4, <1>5 DEF IdemInv, ApiTypeOK
<1>8. \A q \in Procs : /\ Owns(q)' <=> Owns(q)
                       /\ call'[q].key = call[q].key /\ call'[q].body = call[q].body
                       /\ call'[q].event = call[q].event
                       /\ InEvent(q)' <=> InEvent(q)
                       /\ q # p => call'[q] = call[q]
                       /\ call'[q].at \in {"log", "look"} => call'[q] = call[q]
  BY <1>1, <1>2, <1>5 DEF Owns, InEvent
<1>9. CallRule'
  <2> SUFFICES ASSUME NEW q \in Procs PROVE CallRule!(q)'
    BY DEF CallRule
  <2>1. Owns(q)' => /\ keys'[call'[q].key].at = "open" /\ keys'[call'[q].key].body = call'[q].body
                    /\ \A u \in Procs \ {q} : Owns(u)' => call'[u].key # call'[q].key
    BY <1>4, <1>8 DEF IdemInv, CallRule
  <2>2. CASE q = p
    BY <1>1, <1>2, <1>3, <1>5, <1>6, <2>1, <2>2 DEF InEvent
  <2>3. CASE q # p
    BY <1>6, <1>8, <2>1, <2>3 DEF IdemInv, CallRule, InEvent
  <2> QED
    BY <2>2, <2>3
<1>10. KeyRule' /\ ReplyRule' /\ EventRule'
  BY <1>4, <1>6, <1>8 DEF IdemInv, KeyRule, ReplyRule, EventRule
<1> QED
  BY <1>7, <1>9, <1>10 DEF IdemInv

\* The key gets its one response, from its owner.
LEMMA AnswerEventKeeps ==
  ASSUME IdemInv, NEW p \in Procs, AnswerEvent(p)
  PROVE  IdemInv'
<1> DEFINE k == call[p].key
           e == call[p].event
           y == [key |-> k, body |-> call[p].body, event |-> e]
           row == [keys[k] EXCEPT !.at = "answered", !.event = e]
<1>1. /\ call[p].at = "answer" /\ e \in Events /\ call[p].body \in Bodies
      /\ k \in Keys \cup {None} /\ events[e].key = k /\ events[e].at = "queued"
  BY DEF AnswerEvent, CallAt, IdemInv, CallRule, InEvent, ApiTypeOK, CallStates
<1>2. Turn(p, NoCall) /\ UNCHANGED <<events, upload, abandoned>>
  BY DEF AnswerEvent, Close
<1>3. call' \in [Procs -> CallStates]
      /\ \A q \in Procs : call'[q] = IF q = p THEN NoCall ELSE call[q]
  BY <1>2, NoneTyped, Turning DEF IdemInv
<1>4. CASE k = None
  <2>1. UNCHANGED <<keys, replies>> /\ ~Owns(p)
    BY <1>4 DEF AnswerEvent, Reply, Owns
  <2> QED
    BY <1>2, <1>3, <2>1, NoneTyped, OthersKeep DEF IdemInv, ApiTypeOK
<1>5. CASE k # None
  <2>1. /\ keys[k].at = "open" /\ keys[k].body = call[p].body /\ k \in Keys /\ Owns(p)
        /\ \A q \in Procs \ {p} : Owns(q) => call[q].key # k
    BY <1>1, <1>5 DEF IdemInv, CallRule, Owns
  <2>2. row \in KeyRows /\ row.at = "answered" /\ row.event = e /\ row.body = call[p].body
    BY <1>1, <2>1 DEF IdemInv, ApiTypeOK, KeyRows
  <2>3. keys' = [keys EXCEPT ![k] = row] /\ replies' = replies \cup {y}
    BY <1>5, <2>1 DEF AnswerEvent, Reply, IdemInv, ApiTypeOK, KeyRows
  <2>4. y \in Replies /\ y.key = k /\ y.body = call[p].body /\ y.event = e
    BY <1>1, <2>1 DEF Replies
  <2> HIDE DEF row, y
  <2>5. \A j \in Keys : keys'[j] = IF j = k THEN row ELSE keys[j]
    BY <2>3 DEF IdemInv, ApiTypeOK
  <2>6. ApiTypeOK'
    BY <1>2, <1>3, <2>2, <2>3, <2>4 DEF IdemInv, ApiTypeOK
  <2>7. \A q \in Procs : (Owns(q)' <=> Owns(q) /\ q # p) /\ (q # p => call'[q] = call[q])
    BY <1>3, NoneTyped DEF Owns
  <2>8. CallRule'
    <3> SUFFICES ASSUME NEW q \in Procs PROVE CallRule!(q)'
      BY DEF CallRule
    <3>1. CASE q = p
      BY <1>3, <2>7, <3>1, NoneTyped DEF InEvent
    <3>2. CASE q # p
      <4>1. Owns(q) => call[q].key \in Keys /\ keys'[call[q].key] = keys[call[q].key]
        BY <2>1, <2>5, <3>2 DEF IdemInv, ApiTypeOK, CallStates, Owns
      <4> QED
        BY <1>2, <2>7, <3>2, <4>1 DEF IdemInv, CallRule, InEvent
    <3> QED
      BY <3>1, <3>2
  <2>9. KeyRule'
    <3>1. \A j \in Keys : j # k /\ (\E q \in Procs : Owns(q) /\ call[q].key = j)
                          => \E q \in Procs : Owns(q)' /\ call'[q].key = j
      BY <2>7
    <3> QED
      BY <1>1, <1>2, <2>2, <2>5, <3>1 DEF IdemInv, KeyRule
  <2>10. ReplyRule'
    <3>1. \A z \in replies : z.key \in Keys /\ z.key # k
      BY <2>1 DEF IdemInv, ApiTypeOK, ReplyRule, Replies
    <3> QED
      BY <2>1, <2>2, <2>3, <2>4, <2>5, <3>1 DEF IdemInv, ReplyRule
  <2>11. EventRule'
    BY <1>2 DEF IdemInv, EventRule
  <2> QED
    BY <2>6, <2>8, <2>9, <2>10, <2>11 DEF IdemInv
<1> QED
  BY <1>4, <1>5

-----------------------------------------------------------------------------
(* What a step of the storage service does to the files and the processes *)

Serving(p) == proc[p].kind = "complete" /\ ~At(p, "idle")

\* A file becomes available in the commit of its process alone.
Committed(p, f) ==
  /\ At(p, "commit") /\ FileOf(p) = f /\ fstat'[f] = "available" /\ (proc'[p] = Idle \/ f \in doubt')
  /\ proc[p].kind = "upload" => fstat[f] = "none"
FilesMove ==
  \A f \in Files :
    /\ \/ fstat'[f] = fstat[f]
       \/ fstat[f] = "none" /\ fstat'[f] = "pending"
       \/ fstat[f] = "pending" /\ fstat'[f] = "abandoned"
       \/ fstat[f] \in {"available", "deleted"} /\ fstat'[f] \in {"deleted", "purged"}
       \/ fstat[f] \in {"none", "pending"} /\ \E p \in Procs : Committed(p, f)
    /\ intent[f] # "none" /\ intent'[f] = "none" => fstat'[f] = "purged"
    /\ intent[f] = "none" /\ intent'[f] # "none" => fstat[f] = "none" /\ fstat'[f] = "pending"
ProcsMove ==
  \A p \in Procs :
    /\ Serving(p)' => \/ Serving(p) /\ FileOf(p)' = FileOf(p)
                      \/ At(p, "idle") /\ proc'[p].at = "claim"
    /\ Serving(p) => proc'[p] = Idle \/ (Serving(p)' /\ FileOf(p)' = FileOf(p))
    /\ Succeeded(p) /\ proc'[p] = Idle => fstat'[FileOf(p)] = "available"
Moves == FilesMove /\ ProcsMove /\ doubt \subseteq doubt'

\* The process that steps keeps its file, is idle, or was.
LEMMA ProcessMoves ==
  ASSUME IInv, NEW p \in Procs, NEW x, Becomes(p, x),
         \/ x = Idle
         \/ ~At(p, "idle") /\ x.at # "idle" /\ x.kind = proc[p].kind /\ x.file = proc[p].file
         \/ ~At(p, "idle") /\ x.kind = proc[p].kind /\ x.kind # "complete"
         \/ At(p, "idle") /\ (x.kind # "complete" \/ x.at = "claim"),
         At(p, "commit") /\ x = Idle
         => fstat'[FileOf(p)] = fstat[FileOf(p)] \/ fstat'[FileOf(p)] = "available"
  PROVE  ProcsMove
<1>1. \A q \in Procs : proc'[q] = IF q = p THEN x ELSE proc[q]
  BY DEF Becomes, IInv, StorageTypeOK
<1>2. Idle.at = "idle" /\ Idle.kind = "complete"
  BY DEF Idle
<1> SUFFICES ASSUME NEW q \in Procs PROVE ProcsMove!(q)
  BY DEF ProcsMove
<1>3. CASE q = p
  BY <1>1, <1>2, <1>3 DEF Serving, At, FileOf, Succeeded
<1>4. CASE q # p
  BY <1>1, <1>2, <1>4 DEF Serving, At, FileOf, Succeeded
<1> QED
  BY <1>3, <1>4

LEMMA GoesOn ==
  ASSUME IInv, NEW p \in Procs, NEW s \in Stages \ {"idle"}, ~At(p, "idle"), Goto(p, s)
  PROVE  ProcsMove
<1> DEFINE x == [proc[p] EXCEPT !.at = s]
<1>1. x.at = s /\ x.kind = proc[p].kind /\ x.file = proc[p].file /\ Becomes(p, x) /\ Idle.at = "idle"
  BY Fields DEF ProcStates, Goto, Idle
<1> HIDE DEF x
<1> QED
  BY <1>1, ProcessMoves

LEMMA Undoes ==
  ASSUME IInv, NEW p \in Procs, NEW b \in BOOLEAN, ~At(p, "idle"), Undone(p, b)
  PROVE  ProcsMove
<1> DEFINE x == [proc[p] EXCEPT !.at = "undo", !.perm = b]
<1>1. x.at = "undo" /\ x.kind = proc[p].kind /\ x.file = proc[p].file /\ Becomes(p, x) /\ Idle.at = "idle"
  BY Fields DEF ProcStates, Undone, Idle
<1> HIDE DEF x
<1> QED
  BY <1>1, ProcessMoves

LEMMA Leaves ==
  ASSUME IInv, NEW p \in Procs, Leave(p),
         At(p, "commit")
         => fstat'[FileOf(p)] = fstat[FileOf(p)] \/ fstat'[FileOf(p)] = "available"
  PROVE  ProcsMove
BY ProcessMoves DEF Leave

\* Clients and new intents.
LEMMA ClientMoves ==
  ASSUME IInv, NEW f \in Files, CreateIntent(f) \/ ClientPut(f) \/ Expire(f)
  PROVE  Moves
<1> USE DEF fileVars, objectVars, quotaVars, procVars, history
<1>1. UNCHANGED <<proc, doubt>>
  BY DEF CreateIntent, ClientPut, Expire
<1>2. Idle.at = "idle"
  BY DEF Idle
<1>3. ProcsMove
  BY <1>1, <1>2 DEF ProcsMove, Serving, At, FileOf, Succeeded
<1>4. FilesMove
  BY DEF CreateIntent, ClientPut, Expire, SetFile, FilesMove, IInv, StorageTypeOK
<1> QED
  BY <1>1, <1>3, <1>4 DEF Moves

\* Steps that leave the rows of the files alone.
LEMMA RowsRest ==
  ASSUME UNCHANGED <<fstat, intent, doubt>>, ProcsMove
  PROVE  Moves
BY DEF FilesMove, Moves

LEMMA UploadMoves ==
  ASSUME IInv, NEW p \in Procs, Upload(p)
  PROVE  Moves
<1> USE DEF fileVars, objectVars, quotaVars, procVars, history
<1>1. proc[p].at \notin {"idle", "pass"} => FileOf(p) \in Files
  BY Fields DEF FileOf
<1>2. {"claim", "verify", "variants", "put", "commit", "undo", "release", "reopen"}
      \subseteq Stages \ {"idle"}
  BY DEF Stages
<1>3. CASE Claim(p)
  <2>1. ProcsMove
    BY <1>2, <1>3, GoesOn, Leaves DEF Claim, At
  <2>2. FilesMove /\ doubt' = doubt
    BY <1>1, <1>3 DEF Claim, Claimable, FilesMove, At, IInv, StorageTypeOK
  <2> QED
    BY <2>1, <2>2 DEF Moves
<1>4. CASE Verify(p) \/ VerifyFails(p)
  <2>1. ProcsMove
    BY <1>2, <1>4, GoesOn, Undoes DEF Verify, VerifyFails, At
  <2> QED
    BY <1>4, <2>1, RowsRest DEF Verify, VerifyFails
<1>5. CASE MakeVariants(p) \/ MakeVariantsFails(p)
  <2>1. ProcsMove
    <3>1. CASE MakeVariantsFails(p)
      BY <3>1, Undoes DEF MakeVariantsFails, At
    <3>2. CASE MakeVariants(p)
      <4> DEFINE s == AfterVariants(p)
                 x == [proc[p] EXCEPT !.at = s]
                 y == [proc[p] EXCEPT !.at = s, !.made = TRUE]
      <4>1. s \in {"put", "commit"}
        BY DEF AfterVariants
      <4>2. /\ x.at = s /\ x.kind = proc[p].kind /\ x.file = proc[p].file
            /\ y.at = s /\ y.kind = proc[p].kind /\ y.file = proc[p].file
        BY Fields DEF ProcStates
      <4>3. (Becomes(p, x) \/ Becomes(p, y)) /\ At(p, "variants")
        BY <3>2 DEF MakeVariants
      <4> HIDE DEF x, y, s
      <4> QED
        BY <4>1, <4>2, <4>3, ProcessMoves DEF At
    <3> QED
      BY <1>5, <3>1, <3>2
  <2> QED
    BY <1>5, <2>1, RowsRest DEF MakeVariants, MakeVariantsFails
<1>6. CASE Put(p) \/ PutFails(p)
  <2>1. ProcsMove
    <3>1. CASE PutFails(p)
      BY <3>1, Undoes DEF PutFails, At
    <3>2. CASE Put(p)
      <4> DEFINE x == [proc[p] EXCEPT !.at = "commit", !.wrote = TRUE]
      <4>1. x.at = "commit" /\ x.kind = proc[p].kind /\ x.file = proc[p].file
        BY Fields DEF ProcStates
      <4>2. Becomes(p, x) /\ At(p, "put")
        BY <3>2 DEF Put
      <4> HIDE DEF x
      <4> QED
        BY <4>1, <4>2, ProcessMoves DEF At
    <3> QED
      BY <1>6, <3>1, <3>2
  <2> QED
    BY <1>6, <2>1, RowsRest DEF Put, PutFails
<1>7. ASSUME MakeAvailable(p), At(p, "commit"), proc'[p] = Idle \/ FileOf(p) \in doubt'
      PROVE  FilesMove /\ fstat'[FileOf(p)] = "available"
  <2>1. FileOf(p) \in Files /\ fstat[FileOf(p)] \in {"none", "pending"}
    BY <1>1, <1>7 DEF MakeAvailable, Committable, At
  <2>2. fstat' = [fstat EXCEPT ![FileOf(p)] = "available"]
        /\ intent' = IF intent[FileOf(p)] = "processing"
                     THEN [intent EXCEPT ![FileOf(p)] = "completed"] ELSE intent
    BY <1>7 DEF MakeAvailable, SetFile, MoveIntent
  <2>3. Committed(p, FileOf(p))
    BY <1>7, <2>1, <2>2 DEF Committed, MakeAvailable, Committable, IInv, StorageTypeOK
  <2> QED
    BY <2>1, <2>2, <2>3 DEF FilesMove, IInv, StorageTypeOK
<1>8. CASE Commit(p)
  <2>1. Becomes(p, Idle) /\ proc'[p] = Idle /\ MakeAvailable(p) /\ At(p, "commit") /\ doubt' = doubt
    BY <1>8 DEF Commit, Leave, Becomes, IInv, StorageTypeOK
  <2> QED
    BY <1>7, <2>1, ProcessMoves DEF Moves
<1>9. CASE CommitRefused(p)
  <2>1. ProcsMove
    BY <1>9, Undoes DEF CommitRefused, At
  <2> QED
    BY <1>9, <2>1, RowsRest DEF CommitRefused
<1>10. CASE CommitRaises(p)
  <2>1. ProcsMove
    BY <1>10, Undoes DEF CommitRaises, At
  <2>2. CASE UNCHANGED <<fileVars, quotaVars, doubt>>
    BY <2>1, <2>2, RowsRest
  <2>3. CASE MakeAvailable(p) /\ doubt' = doubt \cup {FileOf(p)}
    BY <1>7, <1>10, <2>1, <2>3 DEF CommitRaises, Moves
  <2> QED
    BY <1>10, <2>2, <2>3 DEF CommitRaises
<1>11. CASE Undo(p) \/ UndoFails(p)
  <2>1. ProcsMove
    <3>1. AfterUndo(p) /\ At(p, "undo")
      BY <1>11 DEF Undo, UndoFails
    <3> QED
      BY <1>2, <3>1, GoesOn, Leaves DEF AfterUndo, At
  <2> QED
    BY <1>11, <2>1, RowsRest DEF Undo, UndoFails
<1>12. CASE Release(p) \/ Reopen(p)
  <2>1. ProcsMove
    BY <1>12, Leaves DEF Release, Reopen, At
  <2>2. FilesMove /\ doubt' = doubt
    BY <1>1, <1>12 DEF Release, Reopen, Abandon, MoveIntent, SetFile, FilesMove, At, IInv, StorageTypeOK
  <2> QED
    BY <2>1, <2>2 DEF Moves
<1> QED
  BY <1>3, <1>4, <1>5, <1>6, <1>8, <1>9, <1>10, <1>11, <1>12 DEF Upload

LEMMA OtherWorkMoves ==
  ASSUME IInv, NEW p \in Procs,
         Call(p) \/ Cron(p) \/ Delete(p) \/ Erase(p) \/ EraseFails(p) \/ Pass(p) \/ Stop(p)
  PROVE  Moves
<1> USE DEF fileVars, objectVars, quotaVars, procVars, history
<1>1. /\ proc[p] \in ProcStates /\ proc[p].at \notin {"idle", "pass"} => FileOf(p) \in Files
      /\ LET y == [proc[p] EXCEPT !.at = "erase"] IN
           y.at = "erase" /\ y.kind = proc[p].kind /\ y.file = proc[p].file
      /\ \A g \in Files \cup {NoFile} :
           LET y == [proc[p] EXCEPT !.at = "passtx", !.file = g]
               z == [proc[p] EXCEPT !.at = "pass", !.file = g]
           IN y.kind = proc[p].kind /\ z.kind = proc[p].kind
  BY Fields DEF ProcStates, FileOf
<1>2. /\ proc[p].at = "delete" => proc[p].kind = "delete"
      /\ proc[p].at \in {"pass", "passtx"} => proc[p].kind \in Passes
  BY DEF IInv, StageInv
<1>3. \A k \in Passes : k \notin {"complete", "upload", "delete"}
  BY DEF Passes
<1>13. "erase" \in Stages \ {"idle"}
  BY DEF Stages
<1>4. ASSUME NEW f \in Files, CallDelete(p, f)
      PROVE  Moves
  <2> DEFINE x == [Idle EXCEPT !.at = "delete", !.kind = "delete", !.file = f, !.made = f \in rows]
  <2>1. x.kind = "delete" /\ Becomes(p, x) /\ At(p, "idle")
    BY <1>4 DEF CallDelete, Idle
  <2>2. ProcsMove
    BY <2>1, ProcessMoves DEF At
  <2> QED
    BY <1>4, <2>2, RowsRest DEF CallDelete
<1>5. ASSUME NEW f \in Files, StartUpload(p, f)
      PROVE  Moves
  <2> DEFINE x == [Idle EXCEPT !.at = "variants", !.kind = "upload", !.file = f, !.inline = TRUE]
  <2>1. x.kind = "upload" /\ Becomes(p, x) /\ At(p, "idle")
    BY <1>5 DEF StartUpload, Idle
  <2>2. ProcsMove
    BY <2>1, ProcessMoves DEF At
  <2> QED
    BY <1>5, <2>2, RowsRest DEF StartUpload
<1>6. ASSUME NEW f \in Files, NEW i \in BOOLEAN, CallComplete(p, f, i)
      PROVE  Moves
  <2> DEFINE x == [Idle EXCEPT !.at = "claim", !.file = f, !.inline = i]
  <2>1. x.at = "claim" /\ Becomes(p, x) /\ At(p, "idle")
    BY <1>6 DEF CallComplete, Idle
  <2>2. ProcsMove
    BY <2>1, ProcessMoves DEF At
  <2> QED
    BY <1>6, <2>2, RowsRest DEF CallComplete
<1>7. ASSUME NEW k \in Passes, NEW S \in SUBSET Files, StartPass(p, k, S)
      PROVE  Moves
  <2> DEFINE x == [Idle EXCEPT !.at = "pass", !.kind = k]
  <2>1. x.kind = k /\ Becomes(p, x) /\ At(p, "idle")
    BY <1>7 DEF StartPass, Idle
  <2>2. ProcsMove
    BY <1>3, <2>1, ProcessMoves DEF At
  <2> QED
    BY <1>7, <2>2, RowsRest DEF StartPass
<1>8. CASE Delete(p)
  <2>1. ProcsMove
    BY <1>8, <1>13, GoesOn, Leaves DEF Delete, At
  <2>2. FilesMove /\ doubt' = doubt
    BY <1>1, <1>8 DEF Delete, StillThere, SetFile, FilesMove, At, IInv, StorageTypeOK
  <2> QED
    BY <2>1, <2>2 DEF Moves
<1>9. CASE Erase(p) \/ EraseFails(p) \/ Stop(p) \/ PassDone(p)
  <2>1. ProcsMove
    BY <1>9, Leaves DEF Erase, EraseFails, Stop, PassDone, At
  <2> QED
    BY <1>9, <2>1, RowsRest DEF Erase, EraseFails, Stop, PassDone
<1>10. ASSUME NEW f \in Files, PassErase(p, f)
       PROVE  Moves
  <2> DEFINE x == [proc[p] EXCEPT !.at = "passtx", !.file = f]
  <2>1. x.kind = proc[p].kind /\ Becomes(p, x) /\ At(p, "pass")
    BY <1>1, <1>10 DEF PassErase
  <2>2. ProcsMove
    BY <1>2, <1>3, <2>1, ProcessMoves DEF At
  <2> QED
    BY <1>10, <2>2, RowsRest DEF PassErase
<1>11. ASSUME NEW f \in Files, PassEraseFails(p, f)
       PROVE  Moves
  <2>1. Idle.at = "idle" /\ UNCHANGED <<fstat, intent, doubt, proc>>
    BY <1>11 DEF PassEraseFails, Idle
  <2>2. ProcsMove
    BY <2>1 DEF ProcsMove, Serving, At, FileOf, Succeeded
  <2> QED
    BY <2>1, <2>2, RowsRest
<1>12. CASE PassSettle(p)
  <2> DEFINE x == [proc[p] EXCEPT !.at = "pass", !.file = NoFile]
  <2>1. x.kind = proc[p].kind /\ Becomes(p, x) /\ At(p, "passtx")
    BY <1>1, <1>12 DEF PassSettle
  <2>2. ProcsMove
    BY <1>2, <1>3, <2>1, ProcessMoves DEF At
  <2>3. FilesMove /\ doubt' = doubt
    BY <1>1, <1>2, <1>12 DEF PassSettle, Settle, Abandon, MoveIntent, SetFile, FilesMove, At, Passes,
      IInv, StorageTypeOK
  <2> QED
    BY <2>2, <2>3 DEF Moves
<1> QED
  BY <1>4, <1>5, <1>6, <1>7, <1>8, <1>9, <1>10, <1>11, <1>12 DEF Call, Cron, Pass

LEMMA StorageMoves == IInv /\ Next => Moves
  BY ClientMoves, UploadMoves, OtherWorkMoves DEF Next, Work

-----------------------------------------------------------------------------
(* The uploads of mobile clients *)

Stored(f) == fstat[f] \in {"available", "deleted", "purged"}
Uploads(p) == call[p].at \in {"insert", "storage", "mark"}

\* What a request of the API knows of its file.
RequestRule ==
  \A p \in Procs :
    /\ call[p].file \in IF Uploads(p) THEN Files ELSE {NoFile}
    /\ call[p].at = "insert" =>
         /\ intent[call[p].file] # "none" /\ upload[call[p].file] = "none"
         /\ call[p].file \notin direct
         /\ \A q \in Procs \ {p} : call[q].at = "insert" => call[q].file # call[p].file
    /\ call[p].at \in {"storage", "mark"} => upload[call[p].file] # "none"
    /\ call[p].at = "mark" => Stored(call[p].file)
    /\ IF call[p].at = "storage" THEN Serving(p) /\ FileOf(p) = call[p].file
       ELSE call[p].at = "none" \/ At(p, "idle")

\* Only a request of the API completes a file that is not of another caller, and
\* nobody does before its row is there.
ServeRule ==
  /\ \A p \in Procs : Serving(p) =>
       FileOf(p) \in direct \/ (call[p].at = "storage" /\ call[p].file = FileOf(p))
  /\ \A f \in Files :
       /\ f \in direct \/ upload[f] # "none" => fstat[f] # "none"
       /\ f \in direct => upload[f] = "none"
       /\ upload[f] = "none" /\ intent[f] # "none" /\ f \notin direct
          => fstat[f] \in {"pending", "abandoned"}

FileInv == RequestRule /\ ServeRule /\ MobileUploadsFollow

\* Calls that end with their file noted, or are not about files.
LEMMA FilesRest ==
  ASSUME FileInv, ApiTypeOK, UNCHANGED <<fstat, intent, doubt, proc, upload, direct>>,
         forgotten \subseteq forgotten',
         \A p \in Procs :
           \/ call'[p] = call[p]
           \/ /\ ~Uploads(p)' /\ call'[p].file = NoFile /\ At(p, "idle") /\ call[p].at # "storage"
              /\ call[p].file \in forgotten' \cup {NoFile}
  PROVE  FileInv'
<1>1. \A p \in Procs : ((Uploads(p) <=> Uploads(p)') /\ call'[p] = call[p]) \/ ~Uploads(p)'
  BY DEF Uploads
<1>2. RequestRule'
  BY <1>1 DEF FileInv, RequestRule, Uploads, Stored, Serving, At, FileOf
<1>3. ServeRule'
  BY DEF FileInv, ServeRule, Serving, At, FileOf
<1>4. \A f \in Files, p \in Procs : call[p].file = f /\ ~CallAt(p, "storage")
        => (call'[p].file = f /\ ~CallAt(p, "storage")') \/ f \in forgotten'
  BY StorageAssumption DEF CallAt
<1>5. MobileUploadsFollow'
  BY <1>4 DEF FileInv, MobileUploadsFollow
<1> QED
  BY <1>2, <1>3, <1>5 DEF FileInv

LEMMA CreateUploadKeeps ==
  ASSUME IInv, ApiTypeOK, FileInv, NEW p \in Procs, NEW f \in Files, CallCreateUpload(p, f)
  PROVE  FileInv'
<1> DEFINE x == [NoCall EXCEPT !.at = "insert", !.file = f]
<1>1. x \in CallStates /\ x.at = "insert" /\ x.file = f
  BY DEF NoCall, CallStates
<1>2. /\ Turn(p, x) /\ call[p] = NoCall /\ At(p, "idle") /\ fstat[f] = "none"
      /\ fstat' = [fstat EXCEPT ![f] = "pending"] /\ intent' = [intent EXCEPT ![f] = "pending"]
      /\ \A q \in Procs : FileOf(q) # f
      /\ UNCHANGED <<upload, direct, forgotten, doubt, proc>>
  BY DEF CallCreateUpload, Free, CreateIntent, SetFile, apiRows, apiHistory, procVars, history
<1> HIDE DEF x
<1>3. \A q \in Procs : call'[q] = IF q = p THEN x ELSE call[q]
  BY <1>1, <1>2, Turning
<1>4. \A g \in Files : /\ fstat'[g] = IF g = f THEN "pending" ELSE fstat[g]
                       /\ intent'[g] = IF g = f THEN "pending" ELSE intent[g]
  BY <1>2 DEF IInv, StorageTypeOK
<1>5. intent[f] = "none" /\ upload[f] = "none" /\ f \notin direct
  BY <1>2 DEF FileInv, ServeRule, IInv, RowInv
<1>6. RequestRule'
  <2>1. \A q \in Procs : call[q].at = "insert" => call[q].file # f
    BY <1>5 DEF FileInv, RequestRule
  <2> QED
    BY <1>1, <1>2, <1>3, <1>4, <1>5, <2>1 DEF FileInv, RequestRule, Uploads, Stored, Serving, At, FileOf
<1>7. ServeRule'
  BY <1>2, <1>3, <1>4, <1>5, NoneTyped DEF FileInv, ServeRule, Serving, At, FileOf
<1>8. MobileUploadsFollow'
  <2>1. \A g \in Files : g # f /\ (\E q \in Procs : call[q].file = g /\ ~CallAt(q, "storage"))
          => (\E q \in Procs : call'[q].file = g /\ ~CallAt(q, "storage")')
    BY <1>2, <1>3, NoneTyped, StorageAssumption DEF CallAt
  <2>2. call'[p].file = f /\ ~CallAt(p, "storage")'
    BY <1>1, <1>3 DEF CallAt
  <2> QED
    BY <1>2, <1>4, <1>5, <2>1, <2>2 DEF FileInv, MobileUploadsFollow
<1> QED
  BY <1>6, <1>7, <1>8 DEF FileInv

LEMMA InsertUploadKeeps ==
  ASSUME ApiTypeOK, FileInv, NEW p \in Procs, InsertUpload(p)
  PROVE  FileInv'
<1> DEFINE f == call[p].file
<1>1. /\ call[p].at = "insert" /\ f \in Files /\ upload[f] = "none" /\ f \notin direct /\ ~Stored(f)
      /\ fstat[f] # "none" /\ \A q \in Procs \ {p} : call[q].at = "insert" => call[q].file # f
  BY DEF InsertUpload, CallAt, FileInv, RequestRule, ServeRule, Uploads, Stored
<1>2. /\ Turn(p, NoCall) /\ upload' = [upload EXCEPT ![f] = "pending"]
      /\ UNCHANGED <<fstat, intent, doubt, proc, direct, forgotten>>
  BY DEF InsertUpload, Close, vars, fileVars, procVars, history, apiHistory
<1>3. \A q \in Procs : call'[q] = IF q = p THEN NoCall ELSE call[q]
  BY <1>2, Turning, NoneTyped
<1>4. \A g \in Files : upload'[g] = IF g = f THEN "pending" ELSE upload[g]
  BY <1>2 DEF ApiTypeOK
<1>5. RequestRule'
  <2> SUFFICES ASSUME NEW q \in Procs PROVE RequestRule!(q)'
    BY DEF RequestRule
  <2>1. CASE q = p
    BY <1>3, <2>1, NoneTyped DEF Uploads
  <2>2. CASE q # p
    <3>1. call'[q] = call[q]
      BY <1>3, <2>2
    <3>2. \A u \in Procs : call'[u].at = "insert" => call[u].at = "insert" /\ call'[u].file = call[u].file
      BY <1>3, NoneTyped
    <3> QED
      BY <1>1, <1>2, <1>4, <2>2, <3>1, <3>2
         DEF FileInv, RequestRule, Uploads, Stored, Serving, At, FileOf
  <2> QED
    BY <2>1, <2>2
<1>6. ServeRule'
  BY <1>1, <1>2, <1>3, <1>4 DEF FileInv, ServeRule, Serving, At, FileOf
<1>7. MobileUploadsFollow'
  <2>1. \A g \in Files : g # f /\ (\E q \in Procs : call[q].file = g /\ ~CallAt(q, "storage"))
          => (\E q \in Procs : call'[q].file = g /\ ~CallAt(q, "storage")')
    BY <1>3 DEF CallAt
  <2> QED
    BY <1>1, <1>2, <1>4, <2>1 DEF FileInv, MobileUploadsFollow, Stored
<1> QED
  BY <1>5, <1>6, <1>7 DEF FileInv

LEMMA CompleteUploadKeeps ==
  ASSUME IInv, ApiTypeOK, FileInv, NEW p \in Procs, NEW f \in Files, CallCompleteUpload(p, f)
  PROVE  FileInv'
<1> DEFINE x == [NoCall EXCEPT !.at = "storage", !.file = f]
           y == [Idle EXCEPT !.at = "claim", !.file = f, !.inline = FALSE]
<1>1. x \in CallStates /\ x.at = "storage" /\ x.file = f
  BY DEF NoCall, CallStates
<1>2. y.at = "claim" /\ y.kind = "complete" /\ y.file = f
  BY DEF Idle
<1>3. /\ Turn(p, x) /\ Becomes(p, y) /\ call[p] = NoCall /\ At(p, "idle") /\ upload[f] = "pending"
      /\ UNCHANGED <<fstat, intent, doubt, upload, direct, forgotten>>
  BY DEF CallCompleteUpload, Free, CallComplete, apiRows, apiHistory, fileVars, history
<1> HIDE DEF x, y
<1>4. \A q \in Procs : /\ call'[q] = IF q = p THEN x ELSE call[q]
                       /\ proc'[q] = IF q = p THEN y ELSE proc[q]
  BY <1>1, <1>3, Turning DEF Becomes, IInv, StorageTypeOK
<1>5. RequestRule'
  <2> SUFFICES ASSUME NEW q \in Procs PROVE RequestRule!(q)'
    BY DEF RequestRule
  <2>1. \A u \in Procs : call'[u].at = "insert" => call'[u] = call[u]
    BY <1>1, <1>4
  <2>2. CASE q = p
    BY <1>1, <1>2, <1>3, <1>4, <2>2 DEF Uploads, Serving, At, FileOf
  <2>3. CASE q # p
    BY <1>3, <1>4, <2>1, <2>3 DEF FileInv, RequestRule, Uploads, Stored, Serving, At, FileOf
  <2> QED
    BY <2>2, <2>3
<1>6. ServeRule'
  BY <1>1, <1>2, <1>3, <1>4 DEF FileInv, ServeRule, Serving, At, FileOf
<1>7. MobileUploadsFollow'
  <2>1. \A g \in Files : (\E q \in Procs : call[q].file = g /\ ~CallAt(q, "storage"))
          => (\E q \in Procs : call'[q].file = g /\ ~CallAt(q, "storage")')
    BY <1>3, <1>4, NoneTyped, StorageAssumption DEF CallAt
  <2> QED
    BY <1>3, <2>1 DEF FileInv, MobileUploadsFollow
<1> QED
  BY <1>5, <1>6, <1>7 DEF FileInv

LEMMA MarkUploadedKeeps ==
  ASSUME ApiTypeOK, FileInv, NEW p \in Procs, MarkUploaded(p)
  PROVE  FileInv'
<1> DEFINE f == call[p].file
<1>1. call[p].at = "mark" /\ f \in Files /\ upload[f] # "none" /\ Stored(f)
  BY DEF MarkUploaded, CallAt, FileInv, RequestRule, Uploads
<1>2. /\ Turn(p, NoCall) /\ UNCHANGED <<fstat, intent, doubt, proc, direct, forgotten>>
      /\ upload' = [upload EXCEPT ![f] = "uploaded"]
  BY <1>1 DEF MarkUploaded, Close, vars, fileVars, procVars, history, apiHistory, ApiTypeOK
<1>3. \A q \in Procs : call'[q] = IF q = p THEN NoCall ELSE call[q]
  BY <1>2, Turning, NoneTyped
<1>4. \A g \in Files : upload'[g] = IF g = f THEN "uploaded" ELSE upload[g]
  BY <1>2 DEF ApiTypeOK
<1>5. RequestRule'
  <2> SUFFICES ASSUME NEW q \in Procs PROVE RequestRule!(q)'
    BY DEF RequestRule
  <2>1. CASE q = p
    BY <1>3, <2>1, NoneTyped DEF Uploads
  <2>2. CASE q # p
    <3>1. call'[q] = call[q]
      BY <1>3, <2>2
    <3>2. \A u \in Procs : call'[u].at = "insert" => call[u].at = "insert" /\ call'[u].file = call[u].file
      BY <1>3, NoneTyped
    <3> QED
      BY <1>1, <1>2, <1>4, <2>2, <3>1, <3>2
         DEF FileInv, RequestRule, Uploads, Stored, Serving, At, FileOf
  <2> QED
    BY <2>1, <2>2
<1>6. ServeRule'
  BY <1>1, <1>2, <1>3, <1>4 DEF FileInv, ServeRule, Serving, At, FileOf
<1>7. MobileUploadsFollow'
  <2>1. \A g \in Files : g # f /\ (\E q \in Procs : call[q].file = g /\ ~CallAt(q, "storage"))
          => (\E q \in Procs : call'[q].file = g /\ ~CallAt(q, "storage")')
    BY <1>3 DEF CallAt
  <2> QED
    BY <1>1, <1>2, <1>4, <2>1 DEF FileInv, MobileUploadsFollow, Stored
<1> QED
  BY <1>5, <1>6, <1>7 DEF FileInv

-----------------------------------------------------------------------------
(* Steps of the storage service, and the whole *)

LEMMA Answers ==
  ASSUME StorageStep, ApiTypeOK, FileInv, IInv
  PROVE  /\ call' \in [Procs -> CallStates] /\ Moves
         /\ \A p \in Procs :
              \/ call'[p] = call[p] /\ (call[p].at = "storage" => Serving(p)' /\ FileOf(p)' = FileOf(p))
              \/ /\ call[p].at = "storage" /\ call'[p] = NoCall /\ proc'[p] = Idle /\ ~Succeeded(p)
              \/ /\ call[p].at = "storage" /\ proc'[p] = Idle /\ Succeeded(p)
                 /\ call'[p] \in CallStates /\ call'[p].at = "mark" /\ call'[p].file = call[p].file
                 /\ call'[p].key = call[p].key /\ Stored(call[p].file)'
<1>1. Moves
  BY StorageMoves DEF StorageStep
<1> DEFINE next(p) == IF ~CallAt(p, "storage") \/ proc'[p] # Idle THEN call[p]
                      ELSE IF Succeeded(p) THEN [call[p] EXCEPT !.at = "mark"] ELSE NoCall
<1>2. call' = [p \in Procs |-> next(p)]
  BY DEF StorageStep
<1> HIDE DEF next
<1>8. \A p \in Procs : call'[p] = next(p)
  BY <1>2
<1>3. ASSUME NEW p \in Procs
      PROVE  LET y == [call[p] EXCEPT !.at = "mark"] IN
             y \in CallStates /\ y.at = "mark" /\ y.file = call[p].file /\ y.key = call[p].key
  BY DEF ApiTypeOK, CallStates
<1>4. ASSUME NEW p \in Procs, CallAt(p, "storage"), proc'[p] # Idle
      PROVE  Serving(p)' /\ FileOf(p)' = FileOf(p)
  BY <1>1, <1>4 DEF FileInv, RequestRule, CallAt, Moves, ProcsMove
<1>5. ASSUME NEW p \in Procs, CallAt(p, "storage"), proc'[p] = Idle, Succeeded(p)
      PROVE  Stored(call[p].file)'
  <2>1. fstat'[FileOf(p)] = "available" /\ FileOf(p) = call[p].file
    BY <1>1, <1>5 DEF FileInv, RequestRule, CallAt, Moves, ProcsMove
  <2>2. Uploads(p)
    BY <1>5 DEF Uploads, CallAt
  <2> QED
    BY <1>3, <1>5, <1>8, <2>1, <2>2 DEF Stored, next
<1>6. \A p \in Procs : call'[p] \in CallStates
  BY <1>3, <1>8, NoneTyped DEF ApiTypeOK, next
<1>7. call' \in [Procs -> CallStates]
  BY <1>2, <1>6, <1>8
<1> SUFFICES ASSUME NEW p \in Procs
             PROVE  \/ call'[p] = call[p]
                       /\ (call[p].at = "storage" => Serving(p)' /\ FileOf(p)' = FileOf(p))
                    \/ /\ call[p].at = "storage" /\ call'[p] = NoCall /\ proc'[p] = Idle
                       /\ ~Succeeded(p)
                    \/ /\ call[p].at = "storage" /\ proc'[p] = Idle /\ Succeeded(p)
                       /\ call'[p] \in CallStates /\ call'[p].at = "mark"
                       /\ call'[p].file = call[p].file /\ call'[p].key = call[p].key
                       /\ Stored(call[p].file)'
  BY <1>1, <1>7
<1>9. CASE ~CallAt(p, "storage")
  BY <1>8, <1>9 DEF next, CallAt
<1>10. CASE CallAt(p, "storage") /\ proc'[p] # Idle
  BY <1>4, <1>8, <1>10 DEF next
<1>11. CASE CallAt(p, "storage") /\ proc'[p] = Idle /\ ~Succeeded(p)
  BY <1>8, <1>11 DEF next, CallAt
<1>12. CASE CallAt(p, "storage") /\ proc'[p] = Idle /\ Succeeded(p)
  BY <1>3, <1>5, <1>8, <1>12 DEF next, CallAt
<1> QED
  BY <1>9, <1>10, <1>11, <1>12

LEMMA StorageKeepsFiles ==
  ASSUME StorageStep, ApiTypeOK, FileInv, IInv
  PROVE  FileInv'
<1>1. /\ UNCHANGED <<upload, forgotten>> /\ doubt \subseteq doubt' /\ direct \subseteq direct'
      /\ direct' = direct \cup {f \in Files : fstat[f] = "none" /\ fstat'[f] = "pending"}
      /\ \A p \in Procs : At(p, "idle") /\ proc'[p].at = "claim" => proc'[p].file \in direct
      /\ \A p \in Procs : CallAt(p, "none") \/ CallAt(p, "storage") \/ proc'[p] = Idle
  BY Answers DEF StorageStep, Moves, apiRows
<1>2. Idle.at = "idle"
  BY DEF Idle
<1>3. \A p \in Procs : At(p, "commit") =>
        /\ proc[p].kind \in {"complete", "upload"} /\ (proc[p].kind = "complete" => Serving(p))
  BY DEF IInv, StageInv, At, Serving
<1>4. \A f \in Files : Stored(f) => Stored(f)' /\ fstat[f] \notin {"none", "pending", "abandoned"}
  BY Answers DEF Moves, FilesMove, Committed, Stored
<1>5. ASSUME NEW f \in Files, f \notin direct, fstat[f] # "none", ~Stored(f), Stored(f)'
      PROVE  \E p \in Procs : /\ call[p].at = "storage" /\ call[p].file = f /\ Committed(p, f)
  <2>1. PICK p \in Procs : Committed(p, f)
    BY <1>5, Answers DEF Moves, FilesMove, Stored
  <2>2. Serving(p) /\ FileOf(p) = f
    BY <1>3, <1>5, <2>1 DEF Committed
  <2> QED
    BY <1>5, <2>1, <2>2 DEF FileInv, ServeRule
<1>6. ASSUME NEW f \in Files, upload[f] = "none", intent'[f] # "none", f \notin direct'
      PROVE  intent[f] # "none" /\ fstat'[f] \in {"pending", "abandoned"}
  <2>1. intent[f] # "none" /\ f \notin direct
    BY <1>1, <1>6, Answers DEF Moves, FilesMove
  <2>2. fstat[f] \in {"pending", "abandoned"}
    BY <1>6, <2>1 DEF FileInv, ServeRule
  <2>3. ~Stored(f)'
    <3>1. \A p \in Procs : call[p].at = "storage" => call[p].file # f
      BY <1>6 DEF FileInv, RequestRule
    <3> QED
      BY <1>5, <2>1, <2>2, <3>1 DEF Stored
  <2> QED
    BY <2>1, <2>2, <2>3, Answers DEF Moves, FilesMove, Stored, Committed
<1>7. \A p \in Procs : ~Serving(p)' => ~(call'[p] = call[p] /\ call[p].at = "storage")
  BY <1>2, Answers, NoneTyped
<1>8. \A f \in Files : f \in direct' => fstat'[f] # "none" /\ upload[f] = "none"
  <2>1. \A f \in Files : fstat'[f] = "none" => fstat[f] = "none"
    BY Answers DEF Moves, FilesMove, Committed
  <2> QED
    BY <1>1, <2>1 DEF FileInv, ServeRule
<1>9. RequestRule'
  <2> SUFFICES ASSUME NEW p \in Procs PROVE RequestRule!(p)'
    BY DEF RequestRule
  <2>1. \A q \in Procs : call'[q].at = "insert" => call'[q] = call[q]
    BY Answers, NoneTyped
  <2>2. CASE call'[p] = call[p]
    <3>1. call[p].at = "storage" => Serving(p)' /\ FileOf(p)' = FileOf(p)
      BY <1>2, <2>2, Answers, NoneTyped
    <3>2. call[p].at \notin {"none", "storage"} => At(p, "idle")'
      BY <1>1, <1>2 DEF CallAt, At
    <3>3. call[p].at = "insert" =>
            /\ intent'[call[p].file] # "none" /\ call[p].file \notin direct'
            /\ call[p].file \in Files
      <4> SUFFICES ASSUME call[p].at = "insert"
                   PROVE  intent'[call[p].file] # "none" /\ call[p].file \notin direct'
                          /\ call[p].file \in Files
        OBVIOUS
      <4> DEFINE f == call[p].file
      <4>1. f \in Files /\ intent[f] # "none" /\ upload[f] = "none" /\ f \notin direct
        BY DEF FileInv, RequestRule, Uploads
      <4>2. fstat[f] \in {"pending", "abandoned"}
        BY <4>1 DEF FileInv, ServeRule
      <4>3. fstat'[f] # "purged"
        BY <4>1, <4>2, Answers DEF Moves, FilesMove, Committed
      <4> QED
        BY <1>1, <4>1, <4>2, <4>3, Answers DEF Moves, FilesMove
    <3>4. call[p].at = "mark" => Stored(call[p].file)'
      BY <1>4, <2>2 DEF FileInv, RequestRule, Uploads, Stored
    <3> QED
      BY <1>1, <2>1, <2>2, <3>1, <3>2, <3>3, <3>4 DEF FileInv, RequestRule, Uploads
  <2>3. CASE call'[p] = NoCall
    BY <2>3, NoneTyped DEF Uploads
  <2>4. CASE /\ call[p].at = "storage" /\ proc'[p] = Idle /\ call'[p].at = "mark"
             /\ call'[p].file = call[p].file /\ Stored(call[p].file)'
    <3>1. call[p].file \in Files /\ upload[call[p].file] # "none"
      BY <2>4 DEF FileInv, RequestRule, Uploads
    <3> QED
      BY <1>1, <1>2, <2>4, <3>1 DEF Uploads, At, Stored
  <2> QED
    BY <2>2, <2>3, <2>4, Answers
<1>10. ServeRule'
  <2>1. ASSUME NEW p \in Procs, Serving(p)'
        PROVE  FileOf(p)' \in direct' \/ (call'[p].at = "storage" /\ call'[p].file = FileOf(p)')
    <3>1. CASE Serving(p) /\ FileOf(p)' = FileOf(p)
      <4>1. proc'[p] # Idle
        BY <1>2, <2>1 DEF Serving, At
      <4> QED
        BY <1>1, <3>1, <4>1, Answers DEF FileInv, ServeRule
    <3>2. CASE At(p, "idle") /\ proc'[p].at = "claim"
      BY <1>1, <3>2 DEF FileOf
    <3> QED
      BY <2>1, <3>1, <3>2, Answers DEF Moves, ProcsMove
  <2>2. \A f \in Files : upload[f] # "none" => fstat'[f] # "none"
    BY Answers DEF FileInv, ServeRule, Moves, FilesMove, Committed
  <2> QED
    BY <1>1, <1>6, <1>8, <2>1, <2>2 DEF ServeRule
<1>11. MobileUploadsFollow'
  <2>1. \A f \in Files, p \in Procs : call[p].file = f /\ ~CallAt(p, "storage")
          => call'[p].file = f /\ ~CallAt(p, "storage")'
    BY Answers DEF CallAt
  <2>2. ASSUME NEW f \in Files, upload[f] = "uploaded"
        PROVE  Stored(f)'
    BY <1>4, <2>2 DEF FileInv, MobileUploadsFollow, Stored
  <2>3. ASSUME NEW f \in Files, upload[f] = "pending", Stored(f)', f \notin forgotten \cup doubt'
        PROVE  \E p \in Procs : call'[p].file = f /\ ~CallAt(p, "storage")'
    <3>1. CASE Stored(f)
      BY <1>1, <2>1, <2>3, <3>1 DEF FileInv, MobileUploadsFollow, Stored
    <3>2. CASE ~Stored(f)
      <4>1. f \notin direct /\ fstat[f] # "none"
        BY <2>3 DEF FileInv, ServeRule
      <4>2. PICK p \in Procs : call[p].at = "storage" /\ call[p].file = f /\ Committed(p, f)
        BY <1>5, <2>3, <3>2, <4>1
      <4>3. proc'[p] = Idle
        BY <2>3, <4>2 DEF Committed
      <4>4. Succeeded(p)
        BY <3>2, <4>2 DEF Committed, Succeeded, Stored
      <4>5. call'[p].at = "mark" /\ call'[p].file = f
        <5>1. ~Serving(p)'
          BY <1>2, <4>3 DEF Serving, At
        <5> QED
          BY <4>2, <4>3, <4>4, <5>1, Answers
      <4> QED
        BY <4>5 DEF CallAt
    <3> QED
      BY <3>1, <3>2
  <2>4. ASSUME NEW f \in Files, upload[f] = "none", intent'[f] # "none", f \notin direct',
               f \notin forgotten
        PROVE  \E p \in Procs : call'[p].file = f /\ ~CallAt(p, "storage")'
    BY <1>1, <1>6, <2>1, <2>4 DEF FileInv, MobileUploadsFollow
  <2> QED
    BY <1>1, <2>2, <2>3, <2>4 DEF MobileUploadsFollow, Stored
<1> QED
  BY <1>9, <1>10, <1>11 DEF FileInv

ApiInv == IInv /\ IdemInv /\ FileInv

LEMMA ApiInitially == ApiInit => ApiInv
<1> SUFFICES ASSUME ApiInit PROVE ApiInv
  OBVIOUS
<1>1. IInv /\ IdemInv
  BY Initially, IdemInitially DEF ApiInit
<1>2. /\ \A p \in Procs : call[p] = NoCall /\ ~Serving(p)
      /\ \A f \in Files : upload[f] = "none" /\ intent[f] = "none" /\ f \notin direct
  BY DEF ApiInit, Init, Serving, At, Idle
<1>3. FileInv
  BY <1>2, NoneTyped DEF FileInv, RequestRule, ServeRule, MobileUploadsFollow, Uploads
<1> QED
  BY <1>1, <1>3 DEF ApiInv

\* The process dies outside the storage service.
LEMMA DieOutsideKeeps ==
  ASSUME ApiInv, NEW p \in Procs, DieOutside(p)
  PROVE  ApiInv'
<1> USE DEF fileVars, objectVars, quotaVars, procVars, history, apiRows
<1>1. /\ Turn(p, NoCall) /\ call[p].at \notin {"none", "storage"}
      /\ forgotten' = forgotten \cup ({call[p].file} \cap Files)
      /\ Owns(p) => call[p].key \in abandoned'
      /\ abandoned \subseteq abandoned'
      /\ UNCHANGED <<fstat, rows, intent, expired, objects, variants, used, ledger, proc, todo, doubt,
                     late, upload, keys, events, direct, replies>>
  BY DEF DieOutside, Close, CallAt, Owns, ApiInv, IdemInv, ApiTypeOK, CallStates
<1>2. call' \in [Procs -> CallStates] /\ \A q \in Procs : call'[q] = IF q = p THEN NoCall ELSE call[q]
  BY <1>1, Turning, NoneTyped DEF ApiInv, IdemInv
<1>3. faults' \in 0..MaxFaults
  BY StorageAssumption DEF DieOutside, Fail, ApiInv, IInv, StorageTypeOK
<1>4. IInv'
  BY <1>1, <1>3 DEF ApiInv, IInv, StorageTypeOK, StageInv, RowInv, IntentAgrees, CompleteInv,
    UploadInv, OneCompleter, HandInv, ObjectInv, AvailableHasObject, Completing, Uploading, FileOf
<1>5. IdemInv'
  BY <1>1, <1>2, NoneTyped, OthersKeep DEF ApiInv, IdemInv, ApiTypeOK
<1>6. FileInv'
  <2>1. At(p, "idle") /\ call[p].file \in Files \cup {NoFile}
    BY <1>1 DEF ApiInv, FileInv, RequestRule
  <2> QED
    BY <1>1, <1>2, <2>1, NoneTyped, FilesRest DEF ApiInv, IdemInv, Uploads
<1> QED
  BY <1>4, <1>5, <1>6 DEF ApiInv

LEMMA UploadCallKeeps ==
  ASSUME ApiInv, NEW p \in Procs, UploadCall(p)
  PROVE  ApiInv'
<1>1. IInv /\ IdemInv /\ FileInv /\ ApiTypeOK
  BY DEF ApiInv, IdemInv
<1>2. IInv'
  <2>1. [Next]_vars
    BY DEF UploadCall, CallCreateUpload, CallCompleteUpload, InsertUpload, MarkUploaded, Next, Call
  <2> QED
    BY <1>1, <2>1, StepKeeps
<1>3. FileInv'
  BY <1>1, CreateUploadKeeps, CompleteUploadKeeps, InsertUploadKeeps, MarkUploadedKeeps DEF UploadCall
<1>4. /\ ~InEvent(p) /\ ~Owns(p) /\ UNCHANGED <<keys, events, replies, abandoned>>
      /\ upload' \in [Files -> {"none", "pending", "uploaded"}]
  <2>1. call[p].at \in {"none", "insert", "mark"}
    BY NoneTyped DEF UploadCall, CallCreateUpload, CallCompleteUpload, InsertUpload, MarkUploaded, Free,
      CallAt
  <2>2. UNCHANGED <<keys, events, replies, abandoned>>
    BY DEF UploadCall, CallCreateUpload, CallCompleteUpload, InsertUpload, MarkUploaded, apiRows,
      apiHistory
  <2>3. \/ upload' = upload
        \/ upload' = [upload EXCEPT ![call[p].file] = "pending"]
        \/ upload' = [upload EXCEPT ![call[p].file] =
                        IF upload[call[p].file] = "pending" THEN "uploaded" ELSE upload[call[p].file]]
    BY DEF UploadCall, CallCreateUpload, CallCompleteUpload, InsertUpload, MarkUploaded, apiRows
  <2>4. upload' \in [Files -> {"none", "pending", "uploaded"}]
    BY <1>1, <2>3 DEF ApiTypeOK
  <2> QED
    BY <2>1, <2>2, <2>4 DEF InEvent, Owns
<1>5. \E x \in CallStates : Turn(p, x) /\ x.at \in {"none", "insert", "storage", "mark"} /\ x.key = None
  <2>1. ASSUME NEW f \in Files, NEW s \in {"insert", "storage"}
        PROVE  LET x == [NoCall EXCEPT !.at = s, !.file = f] IN
               x \in CallStates /\ x.at = s /\ x.key = None
    BY DEF NoCall, CallStates
  <2> QED
    BY <2>1, NoneTyped DEF UploadCall, CallCreateUpload, CallCompleteUpload, InsertUpload,
      MarkUploaded, Close
<1>6. IdemInv'
  BY <1>1, <1>4, <1>5, Turning, OthersKeep
<1> QED
  BY <1>2, <1>3, <1>6 DEF ApiInv

LEMMA EventCallKeeps ==
  ASSUME ApiInv, NEW p \in Procs, EventCall(p)
  PROVE  ApiInv'
<1>1. IInv /\ IdemInv /\ FileInv /\ ApiTypeOK
  BY DEF ApiInv, IdemInv
<1>2. UNCHANGED <<fstat, intent, doubt, proc, upload, direct, forgotten>> /\ UNCHANGED vars
  BY DEF EventCall, CallCreateEvent, Look, RefuseEvent, LogEvent, QueueFanout, AnswerEvent,
    vars, fileVars, procVars, history, apiRows, apiHistory
<1>3. IInv'
  BY <1>1, <1>2, StepKeeps
<1>4. FileInv'
  <2>1. call[p].file = NoFile /\ call[p].at \notin {"insert", "storage", "mark"} /\ At(p, "idle")
    BY <1>1, NoneTyped DEF EventCall, CallCreateEvent, Look, RefuseEvent, LogEvent, QueueFanout,
      AnswerEvent, Free, CallAt, FileInv, RequestRule, Uploads
  <2>2. PICK x : Turn(p, x) /\ x.at \notin {"insert", "storage", "mark"} /\ x.file = NoFile
    <3>1. ASSUME NEW k \in Keys \cup {None}, NEW b \in Bodies, NEW s \in {"log", "look"}
          PROVE  LET x == [NoCall EXCEPT !.at = s, !.key = k, !.body = b] IN
                 x.at = s /\ x.file = NoFile
      BY DEF NoCall
    <3>2. CASE \E k \in Keys \cup {None}, b \in Bodies : CallCreateEvent(p, k, b)
      <4>1. PICK k \in Keys \cup {None}, b \in Bodies : CallCreateEvent(p, k, b)
        BY <3>2
      <4> DEFINE s == IF k = None \/ Unused(k) THEN "log" ELSE "look"
                 x == [NoCall EXCEPT !.at = s, !.key = k, !.body = b]
      <4>2. Turn(p, x) /\ s \in {"log", "look"}
        BY <4>1 DEF CallCreateEvent
      <4>3. x.at = s /\ x.file = NoFile
        BY <3>1, <4>2
      <4> HIDE DEF s, x
      <4> QED
        BY <4>2, <4>3
    <3>3. ASSUME NEW e \in Events
          PROVE  LET x == [call[p] EXCEPT !.at = "fanout", !.event = e]
                     y == [call[p] EXCEPT !.at = "answer"]
                 IN x.at = "fanout" /\ x.file = call[p].file
      BY <1>1 DEF ApiTypeOK, CallStates
    <3>4. LET y == [call[p] EXCEPT !.at = "answer"] IN y.at = "answer" /\ y.file = call[p].file
      BY <1>1 DEF ApiTypeOK, CallStates
    <3>5. CASE Look(p) \/ RefuseEvent(p) \/ AnswerEvent(p)
      BY <3>5, NoneTyped DEF Look, RefuseEvent, AnswerEvent, Close
    <3>6. CASE QueueFanout(p) \/ \E e \in Events : LogEvent(p, e)
      BY <2>1, <3>3, <3>4, <3>6 DEF QueueFanout, LogEvent, TurnTo
    <3> QED
      BY <3>2, <3>5, <3>6 DEF EventCall
  <2>3. \A q \in Procs : call'[q] = IF q = p THEN x ELSE call[q]
    BY <1>1, <2>2 DEF Turn, ApiTypeOK
  <2> QED
    BY <1>1, <1>2, <2>1, <2>2, <2>3, FilesRest DEF Uploads
<1>5. IdemInv'
  <2>1. CASE RefuseEvent(p)
    <3>1. /\ Turn(p, NoCall) /\ UNCHANGED <<keys, events, replies, upload>>
          /\ abandoned \subseteq abandoned' /\ (Owns(p) => call[p].key \in abandoned')
      BY <1>1, <2>1 DEF RefuseEvent, Close, apiRows, Owns, ApiTypeOK, CallStates
    <3> QED
      BY <1>1, <3>1, NoneTyped, Turning, OthersKeep DEF ApiTypeOK
  <2> QED
    BY <1>1, <2>1, CallCreateEventKeeps, LookKeeps, LogEventKeeps, QueueFanoutKeeps, AnswerEventKeeps
       DEF EventCall
<1> QED
  BY <1>3, <1>4, <1>5 DEF ApiInv

LEMMA StorageStepKeeps == ApiInv /\ StorageStep => ApiInv'
<1> SUFFICES ASSUME ApiInv, StorageStep PROVE ApiInv'
  OBVIOUS
<1>1. IInv /\ IdemInv /\ FileInv /\ ApiTypeOK
  BY DEF ApiInv, IdemInv
<1>2. IInv'
  BY <1>1, StepKeeps DEF StorageStep
<1>3. FileInv'
  BY <1>1, StorageKeepsFiles
<1>4. \A p \in Procs : call[p].at = "storage" => call[p].key = None /\ ~Owns(p)
  BY <1>1 DEF IdemInv, CallRule, InEvent, Owns
<1>5. UNCHANGED <<keys, events, replies, abandoned, upload>>
  BY DEF StorageStep, apiRows
<1>6. IdemInv'
  BY <1>1, <1>4, <1>5, Answers, NoneTyped, OthersKeep DEF ApiTypeOK
<1> QED
  BY <1>2, <1>3, <1>6 DEF ApiInv

LEMMA ApiStep == ApiInv /\ [ApiNext]_<<vars, apiRows, call, apiHistory>> => ApiInv'
<1> SUFFICES ASSUME ApiInv, [ApiNext]_<<vars, apiRows, call, apiHistory>> PROVE ApiInv'
  OBVIOUS
<1>1. CASE UNCHANGED <<vars, apiRows, call, apiHistory>>
  <2>1. IInv'
    BY <1>1, StepKeeps DEF ApiInv
  <2>2. IdemInv'
    BY <1>1, OthersKeep DEF ApiInv, IdemInv, ApiTypeOK, apiRows, apiHistory
  <2>3. FileInv'
    BY <1>1, FilesRest DEF ApiInv, IdemInv, vars, fileVars, procVars, history, apiRows, apiHistory
  <2> QED
    BY <2>1, <2>2, <2>3 DEF ApiInv
<1>2. CASE ApiNext
  BY <1>2, StorageStepKeeps, UploadCallKeeps, EventCallKeeps, DieOutsideKeeps DEF ApiNext
<1> QED
  BY <1>1, <1>2

\* A step of the API is one of the storage service, or leaves its rows alone.
LEMMA ApiQuota ==
  ASSUME ApiInv, QuotaInv, [ApiNext]_<<vars, apiRows, call, apiHistory>>
  PROVE  QuotaInv'
<1>1. IInv
  BY DEF ApiInv
<1>2. ASSUME NEW p \in Procs, UploadCall(p) PROVE [Next]_vars
  <2>1. ASSUME NEW f \in Files, CreateIntent(f) PROVE Next
    BY <2>1 DEF Next
  <2>2. ASSUME NEW f \in Files, CallComplete(p, f, FALSE) PROVE Next
    BY <2>2 DEF Next, Call
  <2> QED
    BY <1>2, <2>1, <2>2 DEF UploadCall, CallCreateUpload, CallCompleteUpload, InsertUpload, MarkUploaded
<1>3. ASSUME NEW p \in Procs, EventCall(p) PROVE UNCHANGED vars
  BY <1>3 DEF EventCall, CallCreateEvent, Look, RefuseEvent, LogEvent, QueueFanout, AnswerEvent
<1>4. ASSUME NEW p \in Procs, DieOutside(p) PROVE UNCHANGED <<fstat, rows, quotaVars, proc>>
  BY <1>4 DEF DieOutside, fileVars, procVars
<1>5. [Next]_vars \/ UNCHANGED <<fstat, rows, quotaVars, proc>>
  BY <1>2, <1>3, <1>4 DEF ApiNext, StorageStep
<1> QED
  BY <1>1, <1>5, QuotaStep, QuotaStays

\* The keys, the requests that own them, the uploads and what the storage service
\* knows of them stay in step.
THEOREM ApiInvariant == ApiSpec => []ApiInv
  BY ApiInitially, ApiStep, PTL DEF ApiSpec

\* However often a key is retried: one event, one response, and a response only
\* when the event and its fan-out are there.
THEOREM EventsAreIdempotent == ApiSpec => []EventsIdempotent
  BY ApiInvariant, IdemBounds, PTL DEF ApiInv

\* The upload rows of the API follow the files of the storage service, or the
\* request that would have written them is known to have ended.
THEOREM UploadsFollow == ApiSpec => []MobileUploadsFollow
  BY ApiInvariant, PTL DEF ApiInv, FileInv

\* What is proved of the storage service for its own callers holds behind the API,
\* whose processes also die outside of it.
THEOREM StorageBehindApi ==
  ApiSpec => [](StorageTypeOK /\ IntentAgrees /\ OneCompleter /\ AvailableHasObject /\ QuotaExact)
<1>1. ApiInit => QuotaInv
  BY QuotaInitially DEF ApiInit
<1>2. ApiInv /\ QuotaInv /\ [ApiNext]_<<vars, apiRows, call, apiHistory>> => QuotaInv'
  BY ApiQuota
<1> QED
  BY <1>1, <1>2, ApiInvariant, PTL DEF ApiSpec, ApiInv, IInv, QuotaInv

=============================================================================
