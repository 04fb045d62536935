----------------------------- MODULE StoredFiles ----------------------------
(* Stored files and the rows that name them, across storage_service,       *)
(* tenant_service (logo), project_service (cover photo), purchase_service  *)
(* (quote documents), finance_service (invoices), media_service and        *)
(* announcement_service (photos, media).                                   *)
(*                                                                         *)
(* No transaction spans the store and the database.  Some operations       *)
(* delete the previous file after their commit, others before it; saving   *)
(* may fail and deleting is best effort.                                   *)
(* Bound: Files, the names the store can still mint.                       *)
EXTENDS Requests

CONSTANTS
    Files,                                  \* minted once, never again
    Logos, Covers, Quotes, Invoices, Media  \* the rows

VARIABLES
    minted,     \* files ever saved
    stored,     \* files in the store
    names,      \* row -> the file it names, or NoFile; NoRow before, Gone after
    pasted,     \* auxiliary: files whose URL was written by hand
    failed      \* auxiliary: rows a request gave up on after deleting a file

storage == <<minted, stored, names, pasted, failed>>

Rows == Logos \cup Covers \cup Quotes \cup Invoices \cup Media
NoFile == "no file"
NoRow == "no row"
Gone == "deleted"
There(h) == names[h] \notin {NoRow, Gone}

ASSUME StorageAssumption ==
    /\ {NoFile, NoRow, Gone} \cap Files = {}
    /\ (Logos \cup Covers) \cap (Quotes \cup Invoices \cup Media) = {}

DeletedAlready == {"resave", "recommit", "unnamed", "dropped"}

StorageInit ==
    /\ minted = {} /\ stored = {} /\ pasted = {} /\ failed = {}
    /\ names \in [Rows -> {NoFile, NoRow, Gone}]
    /\ \A h \in Rows : names[h] = NoRow => h \in Media
    /\ \A h \in Media : names[h] # NoFile

(* A request reads the row it works on.                                    *)
Begin(w, op, h) ==
    /\ Free(w)
    /\ There(h)
    /\ Ask(w, [op |-> op, row |-> h, prev |-> names[h], new |-> NoFile])
    /\ UNCHANGED storage

Goto(w, op) == Ask(w, [req[w] EXCEPT !.op = op])

(* save_file mints a name nobody has seen.                                 *)
SaveFile(w, next) ==
    \E f \in Files \ minted :
        /\ minted' = minted \cup {f} /\ stored' = stored \cup {f}
        /\ Ask(w, [req[w] EXCEPT !.op = next, !.new = f])

(* delete_file: best effort, errors are swallowed.                         *)
DeleteFile(f) == stored' \in {stored, stored \ {f}}

(* set_logo, set_cover_photo, set_quote_attachment: save, commit the new   *)
(* name, and only then delete what was named before.                       *)
SetLogo(w) == \E h \in Logos : Begin(w, "set", h)
SetCoverPhoto(w) == \E h \in Covers : Begin(w, "set", h)
SetQuoteAttachment(w) == \E h \in Quotes : Begin(w, "set", h)

(* clear_logo, clear_cover_photo, clear_quote_attachment.                  *)
ClearLogo(w) == \E h \in Logos : names[h] # NoFile /\ Begin(w, "clear", h)
ClearCoverPhoto(w) == \E h \in Covers : names[h] # NoFile /\ Begin(w, "clear", h)
ClearQuoteAttachment(w) ==
    \E h \in Quotes : names[h] # NoFile /\ Begin(w, "clear", h)

(* A mistake: what was named before is deleted at once.                    *)
SaveOver(w) ==
    /\ Serving(w, "set")
    /\ \E f \in Files \ minted :
          /\ minted' = minted \cup {f} /\ stored' = (stored \cup {f}) \ {req[w].prev}
          /\ Ask(w, [req[w] EXCEPT !.op = "commit", !.new = f])
    /\ UNCHANGED <<names, pasted, failed>>

SaveNew(w) ==
    /\ Serving(w, "set") /\ SaveFile(w, "commit")
    /\ UNCHANGED <<names, pasted, failed>>

CommitName(w) ==
    /\ req[w].op \in {"commit", "clear"}
    /\ There(req[w].row)
    /\ names' = [names EXCEPT ![req[w].row] = req[w].new]
    /\ Goto(w, "cleanup")
    /\ UNCHANGED <<minted, stored, pasted, failed>>

(* _delete_stored_logo, _delete_stored_cover, _delete_stored_attachment.   *)
Cleanup(w) ==
    /\ Serving(w, "cleanup")
    /\ DeleteFile(req[w].prev)
    /\ Answer(w)
    /\ UNCHANGED <<minted, names, pasted, failed>>

(* update_project writes whatever URL it is given: none of ours, or one    *)
(* that a row names or named.                                              *)
PasteCover(w) ==
    /\ Free(w)
    /\ \E h \in Covers, f \in minted :
          /\ There(h)
          /\ names' = [names EXCEPT ![h] = f] /\ pasted' = pasted \cup {f}
    /\ UNCHANGED <<minted, stored, failed, req>>

(* delete_project leaves the file of its cover.                            *)
DeleteProject(w) ==
    /\ Free(w)
    /\ \E h \in Covers : There(h) /\ names' = [names EXCEPT ![h] = Gone]
    /\ UNCHANGED <<minted, stored, pasted, failed, req>>

(* upload_invoice deletes what the row names, saves, and then commits.     *)
UploadInvoice(w) == \E h \in Invoices : Begin(w, "replace", h)

(* delete_invoice; delete_transaction, delete_quote, delete_photo and      *)
(* delete_media: the file goes before the commit.                          *)
DeleteInvoice(w) == \E h \in Invoices : Begin(w, "unset", h)
DeleteTransactionRow(w) == \E h \in Invoices : Begin(w, "drop", h)
DeleteQuote(w) == \E h \in Quotes : Begin(w, "drop", h)
DeleteMedia(w) == \E h \in Media : Begin(w, "drop", h)

After(op) == CASE op = "replace" -> "resave" [] op = "unset" -> "unnamed"
               [] OTHER -> "dropped"

DeleteFirst(w) ==
    /\ req[w].op \in {"replace", "unset", "drop"}
    /\ DeleteFile(req[w].prev)
    /\ Goto(w, After(req[w].op))
    /\ UNCHANGED <<minted, names, pasted, failed>>

(* StorageUnavailable after the deletion: the request is refused.          *)
SaveAgain(w) ==
    /\ Serving(w, "resave")
    /\ \/ SaveFile(w, "recommit") /\ UNCHANGED failed
       \/ /\ failed' = failed \cup {req[w].row} /\ Answer(w)
          /\ UNCHANGED <<minted, stored>>
    /\ UNCHANGED <<names, pasted>>

(* A mistake: delete_invoice leaves the columns as they are.               *)
CommitLeftAlone(w) ==
    /\ req[w].op \in {"recommit", "unnamed", "dropped"}
    /\ There(req[w].row)
    /\ names' = IF Serving(w, "unnamed") THEN names ELSE
          [names EXCEPT ![req[w].row] =
             IF Serving(w, "dropped") THEN Gone ELSE req[w].new]
    /\ Answer(w)
    /\ UNCHANGED <<minted, stored, pasted, failed>>

CommitAfterDelete(w) ==
    /\ req[w].op \in {"recommit", "unnamed", "dropped"}
    /\ There(req[w].row)
    /\ names' = [names EXCEPT ![req[w].row] =
          IF Serving(w, "dropped") THEN Gone ELSE req[w].new]
    /\ Answer(w)
    /\ UNCHANGED <<minted, stored, pasted, failed>>

(* upload_media, upload_photo: save, then insert the row.                  *)
UploadMedia(w) ==
    /\ Free(w)
    /\ \E f \in Files \ minted :
          /\ minted' = minted \cup {f} /\ stored' = stored \cup {f}
          /\ Ask(w, [op |-> "insert", row |-> NoRow, prev |-> NoFile, new |-> f])
    /\ UNCHANGED <<names, pasted, failed>>

InsertMedia(w) ==
    /\ Serving(w, "insert")
    /\ \E h \in Media : names[h] = NoRow /\ names' = [names EXCEPT ![h] = req[w].new]
    /\ Answer(w)
    /\ UNCHANGED <<minted, stored, pasted, failed>>

(* A request that dies may leave a row whose file is gone, and files that  *)
(* no row names.                                                           *)
StorageCrash(w) ==
    /\ Dies(w)
    /\ failed' = IF req[w].op \in DeletedAlready
                    THEN failed \cup {req[w].row} ELSE failed
    /\ UNCHANGED <<minted, stored, names, pasted>>

StorageStep(w) ==
    \/ SetLogo(w) \/ SetCoverPhoto(w) \/ SetQuoteAttachment(w)
    \/ ClearLogo(w) \/ ClearCoverPhoto(w) \/ ClearQuoteAttachment(w)
    \/ SaveNew(w) \/ CommitName(w) \/ Cleanup(w)
    \/ PasteCover(w) \/ DeleteProject(w)
    \/ UploadInvoice(w) \/ DeleteInvoice(w) \/ DeleteTransactionRow(w)
    \/ DeleteQuote(w) \/ DeleteMedia(w)
    \/ DeleteFirst(w) \/ SaveAgain(w) \/ CommitAfterDelete(w)
    \/ UploadMedia(w) \/ InsertMedia(w) \/ StorageCrash(w)

StorageNext == \E w \in Workers : StorageStep(w)

StorageSpec == StorageInit /\ NoRequest /\ [][StorageNext]_<<storage, req>>
-----------------------------------------------------------------------------
(* "Write, set, commit, then delete": whatever overlaps, fails or dies, a  *)
(* logo or cover names a file that is there, unless somebody wrote that    *)
(* file's URL into a project by hand.  Any other row whose file is gone    *)
(* belongs to a request that deletes first and is still under way, or that *)
(* died or could not save.                                                 *)
DanglesOnlyInFlight ==
    \A h \in Rows : names[h] \in Files \ (stored \cup pasted) =>
        /\ h \notin Logos \cup Covers
        /\ \/ h \in failed
           \/ \E w \in Workers : req[w].op \in DeletedAlready /\ req[w].row = h
=============================================================================
