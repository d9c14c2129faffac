------------------------------- MODULE Files -------------------------------
(***************************************************************************)
(* Uploaded files, the answers that list them and the attachments between. *)
(*                                                                         *)
(* An upload and the deletion of a file are one transaction each: they     *)
(* read the list of the answer without a lock and write it back, longer or *)
(* shorter, holding the lock of the answer from there to the end.          *)
(***************************************************************************)
EXTENDS ContentTables

(* The rows an answer refers to: without them an insert fails. *)
Parents(s) == s[1] \in responses /\ place[s[2]] # Absent

Listed(s) == IF s \in answered THEN list[s] ELSE {}

(* The list of s is written by one who had read it as `read`. *)
Write(s, files_, read) ==
    /\ answered' = answered \union {s}
    /\ list' = [list EXCEPT ![s] = files_]
    /\ crossed' = IF Listed(s) = read THEN crossed ELSE crossed \union {s}

(* An answer without files may be one given while the question had another *)
(* type, which does not unmarshal as a list.                               *)
MayBeForeign(s) == s \in answered /\ list[s] = {}

ArriveUpload(p) ==
    /\ Idle(p)
    /\ \E s \in Slots, new \in SUBSET Files :
         /\ Parents(s)
         /\ new # {} /\ new \intersect (files \union gone) = {}
         /\ \A other \in Requests : job[other].new \intersect new = {}
         /\ job' = [job EXCEPT ![p] = [NoJob EXCEPT
                       !.kind = "upload files", !.at = "check", !.slot = s, !.new = new]]
    /\ UNCHANGED <<questionVars, viewVars, fileVars, history>>

ArriveDelete(p) ==
    /\ Idle(p)
    /\ \E f \in files :
         job' = [job EXCEPT ![p] = [NoJob EXCEPT !.kind = "delete file", !.at = "lock", !.file = f]]
    /\ UNCHANGED <<questionVars, viewVars, fileVars, history>>

(* PATCH of answers writes the list the client sends, or what answers a    *)
(* question that has another type since.                                   *)
PatchAnswer(p) ==
    /\ Idle(p)
    /\ \E s \in Slots, sent \in SUBSET files :
         /\ Parents(s) /\ SlotFree(s)
         /\ type[s[2]] # "upload" => s \in answered /\ sent = {}
         /\ answered' = answered \union {s}
         /\ list' = [list EXCEPT ![s] = sent]
         /\ crossed' = crossed \union {s}
    /\ UNCHANGED <<job, questionVars, viewVars, responses, attached, files, mixed>>

(* A response is deleted with its answers, once their locks are free. *)
DeleteResponse(p) ==
    /\ Idle(p)
    /\ \E r \in responses :
         LET ofResponse == {r} \X Questions IN
         /\ \A s \in ofResponse : SlotFree(s)
         /\ responses' = responses \ {r}
         /\ answered' = answered \ ofResponse
         /\ list' = [s \in Slots |-> IF s \in ofResponse THEN {} ELSE list[s]]
    /\ UNCHANGED <<job, questionVars, viewVars, attached, files, history>>

-----------------------------------------------------------------------------
(* UploadFiles.                                                            *)

CheckType(p) ==
    LET q == job[p].slot[2] IN
    /\ job[p].kind = "upload files" /\ job[p].at = "check"
    /\ IF place[q] # Absent /\ type[q] = "upload" THEN Goes(p, "load") ELSE Ends(p)
    /\ UNCHANGED <<questionVars, viewVars, fileVars, history>>

LoadPrevious(p) ==
    /\ job[p].kind = "upload files" /\ job[p].at = "load"
    /\ \/ job' = [job EXCEPT ![p].list = Listed(job[p].slot), ![p].at = "upsert"]
       \/ MayBeForeign(job[p].slot) /\ Ends(p)
    /\ UNCHANGED <<questionVars, viewVars, fileVars, history>>

UpsertList(p) ==
    /\ job[p].kind = "upload files" /\ job[p].at = "upsert"
    /\ SlotFree(job[p].slot)
    /\ IF Parents(job[p].slot) THEN Goes(p, "attach") ELSE Ends(p)
    /\ UNCHANGED <<questionVars, viewVars, fileVars, history>>

(* Mutant: the new files replace those listed before. *)
CommitUpload_Replaces(p) ==
    LET s == job[p].slot IN
    /\ job[p].kind = "upload files" /\ job[p].at = "attach"
    /\ Write(s, job[p].new, job[p].list)
    /\ files' = files \union job[p].new
    /\ attached' = [f \in Files |-> IF f \in job[p].new THEN s ELSE attached[f]]
    /\ Ends(p)
    /\ UNCHANGED <<questionVars, viewVars, responses, mixed>>

(* The new rows, their attachments and the longer list. *)
CommitUpload(p) ==
    LET s == job[p].slot IN
    /\ job[p].kind = "upload files" /\ job[p].at = "attach"
    /\ Write(s, job[p].list \union job[p].new, job[p].list)
    /\ files' = files \union job[p].new
    /\ attached' = [f \in Files |-> IF f \in job[p].new THEN s ELSE attached[f]]
    /\ Ends(p)
    /\ UNCHANGED <<questionVars, viewVars, responses, mixed>>

-----------------------------------------------------------------------------
(* Delete of a file, with the reference to it in the answer it belongs to. *)

LockFile(p) ==
    LET f == job[p].file IN
    /\ job[p].kind = "delete file" /\ job[p].at = "lock"
    /\ \A other \in Requests : ~HoldsFile(other, f)
    /\ IF f \in files
         THEN job' = [job EXCEPT ![p].slot = attached[f],
                                 ![p].at = IF attached[f] = NoSlot THEN "erase" ELSE "find"]
         ELSE Ends(p)
    /\ UNCHANGED <<questionVars, viewVars, fileVars, history>>

(* Without the answer, or with one that is no list, the deletion fails. *)
FindReference(p) ==
    LET s == job[p].slot IN
    /\ job[p].kind = "delete file" /\ job[p].at = "find"
    /\ \/ (s \in answered => MayBeForeign(s)) /\ Ends(p)
       \/ /\ s \in answered
          /\ job' = [job EXCEPT ![p].list = list[s],
                                ![p].at = IF job[p].file \in list[s] THEN "put" ELSE "erase"]
    /\ UNCHANGED <<questionVars, viewVars, fileVars, history>>

(* Mutant: the files that stay listed are locked as well. *)
PutShorterList_LocksSiblings(p) ==
    LET s == job[p].slot IN
    /\ job[p].kind = "delete file" /\ job[p].at = "put"
    /\ SlotFree(s)
    /\ \A other \in Requests \ {p}, f \in job[p].list : ~HoldsFile(other, f)
    /\ IF Parents(s) THEN job' = [job EXCEPT ![p].writes = TRUE, ![p].at = "erase"]
                     ELSE Ends(p)
    /\ UNCHANGED <<questionVars, viewVars, fileVars, history>>

(* The upsert of the list without the file. *)
PutShorterList(p) ==
    LET s == job[p].slot IN
    /\ job[p].kind = "delete file" /\ job[p].at = "put"
    /\ SlotFree(s)
    /\ IF Parents(s) THEN job' = [job EXCEPT ![p].writes = TRUE, ![p].at = "erase"]
                     ELSE Ends(p)
    /\ UNCHANGED <<questionVars, viewVars, fileVars, history>>

CommitDelete(p) ==
    LET f == job[p].file IN
    /\ job[p].kind = "delete file" /\ job[p].at = "erase"
    /\ IF job[p].writes THEN Write(job[p].slot, job[p].list \ {f}, job[p].list)
                        ELSE UNCHANGED <<answered, list, crossed>>
    /\ files' = files \ {f}
    /\ attached' = [attached EXCEPT ![f] = NoSlot]
    /\ gone' = gone \union {f}
    /\ Ends(p)
    /\ UNCHANGED <<place, type, highlight, viewVars, responses, mixed>>

FileStep(p) ==
    \/ CheckType(p) \/ LoadPrevious(p) \/ UpsertList(p) \/ CommitUpload(p)
    \/ LockFile(p) \/ FindReference(p) \/ PutShorterList(p) \/ CommitDelete(p)
=============================================================================
