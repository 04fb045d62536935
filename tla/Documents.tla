----------------------------- MODULE Documents ------------------------------
(* The folders of documents and the documents' versions (document_service).*)
(* Who may open a folder, names, tags and the log of downloads are left    *)
(* out.  Bounds: MaxFolders, MaxDocs and, of both, MaxPapers, the rows     *)
(* ever made.                                                              *)
EXTENDS Requests, Sequences, Naturals

CONSTANTS MaxFolders, MaxDocs, MaxPapers

(* DocumentFolder, in the order made: the row, or FolderGone; parent is {} at *)
(* the top and a singleton below it.  by is auxiliary: the worker that set *)
(* parent.  AssociationDocument: the row, or Shredded.                     *)
VARIABLES folders, docs
papers == <<folders, docs>>

FolderGone == [parent |-> {0}]
Shredded == [folder |-> 0]

Folders == {f \in DOMAIN folders : folders[f] # FolderGone}
Docs == {d \in DOMAIN docs : docs[d] # Shredded}

(* Another row is within the bounds.                                       *)
Shelf == Len(folders) + Len(docs) < MaxPapers

DocumentsInit == folders = <<>> /\ docs = <<>>

(* The folders the parents of f lead to, f included: the least set that    *)
(* holds f and its members' parents.                                       *)
Upward(S) == \A g \in S : folders[g].parent \subseteq S
Chain(f) ==
    {g \in Folders : \A S \in SUBSET Folders : f \in S /\ Upward(S) => g \in S}

(* The walk of update_folder from f comes to the top.                      *)
Ends(f) == \E g \in Chain(f) : folders[g].parent = {}

Under(S) == {g \in Folders : Chain(g) \cap S # {}}
InLoop(f) == \E p \in folders[f].parent : f \in Chain(p)

(* create_folder, up to its commit.                                        *)
CreateFolder(w) ==
    /\ Free(w)
    /\ \E p \in {{}} \cup {{f} : f \in Folders} :
          Ask(w, [op |-> "folder", parent |-> p])
    /\ UNCHANGED papers

(* The foreign key refuses a parent that is gone.                          *)
FolderCreated(w) ==
    /\ Serving(w, "folder") /\ Shelf /\ Len(folders) < MaxFolders
    /\ folders' = IF req[w].parent \subseteq Folders
          THEN Append(folders, [parent |-> req[w].parent, by |-> w])
          ELSE folders
    /\ Answer(w) /\ UNCHANGED docs

(* A mistake: only the folder itself is refused as its parent.             *)
MoveFolderUnchecked(w) ==
    /\ Free(w)
    /\ \E f \in Folders : \E p \in Folders \ {f} :
          /\ Ends(p)
          /\ Ask(w, [op |-> "move", folder |-> f, parent |-> {p}])
    /\ UNCHANGED papers

(* update_folder with a parent, up to its commit: the folder must not be   *)
(* among those above the parent.                                           *)
MoveFolder(w) ==
    /\ Free(w)
    /\ \E f \in Folders : \E p \in Folders \ {f} :
          /\ f \notin Chain(p) /\ Ends(p)
          /\ Ask(w, [op |-> "move", folder |-> f, parent |-> {p}])
    /\ UNCHANGED papers

(* The walk above a parent that is in a loop, or below one, never ends.    *)
MoveFolderHangs(w) ==
    /\ Free(w)
    /\ \E f \in Folders : \E p \in Folders \ {f} : f \notin Chain(p) /\ ~Ends(p)
    /\ Ask(w, [op |-> "hung"])
    /\ UNCHANGED papers

FolderMoved(w) ==
    /\ Serving(w, "move")
    /\ folders' = IF {req[w].folder} \cup req[w].parent \subseteq Folders
          THEN [folders EXCEPT ![req[w].folder] = [parent |-> req[w].parent, by |-> w]]
          ELSE folders
    /\ Answer(w) /\ UNCHANGED docs

(* delete_folder, up to its commit.  The session orders the rows it is to  *)
(* delete by their parents, which a loop does not allow.                   *)
DeleteFolder(w) ==
    /\ Free(w)
    /\ \E f \in Folders :
          /\ \A g \in Under({f}) : ~InLoop(g)
          /\ Ask(w, [op |-> "delete", folders |-> Under({f})])
    /\ UNCHANGED papers

(* The rows read go, and what is under them by now, by their cascade.      *)
FolderDeleted(w) ==
    /\ Serving(w, "delete")
    /\ LET gone == Under(req[w].folders)
       IN /\ folders' = [f \in DOMAIN folders |-> IF f \in gone THEN FolderGone ELSE folders[f]]
          /\ docs' = [d \in DOMAIN docs |->
                IF d \in Docs /\ docs[d].folder \in gone THEN Shredded ELSE docs[d]]
    /\ Answer(w)

(* create_document, up to its commit.                                      *)
CreateDocument(w) ==
    /\ Free(w)
    /\ \E f \in Folders : Ask(w, [op |-> "doc", folder |-> f, version |-> 1, of |-> {}])
    /\ UNCHANGED papers

(* create_document_version, up to its commit.                              *)
CreateVersion(w) ==
    /\ Free(w)
    /\ \E d \in Docs :
          Ask(w, [op |-> "doc", folder |-> docs[d].folder,
                  version |-> docs[d].version + 1, of |-> {d}])
    /\ UNCHANGED papers

(* Either commit; the foreign keys refuse a folder or a document gone.     *)
DocumentCreated(w) ==
    /\ Serving(w, "doc") /\ Shelf /\ Len(docs) < MaxDocs
    /\ docs' = IF req[w].folder \in Folders /\ req[w].of \subseteq Docs
          THEN Append(docs, [folder |-> req[w].folder, version |-> req[w].version,
                             of |-> req[w].of])
          ELSE docs
    /\ Answer(w) /\ UNCHANGED folders

(* delete_document: the version after it forgets it.                       *)
DeleteDocument(w) ==
    /\ Free(w)
    /\ \E d \in Docs : docs' = [e \in DOMAIN docs |->
          IF e = d THEN Shredded
          ELSE IF e \in Docs THEN [docs[e] EXCEPT !.of = @ \ {d}] ELSE docs[e]]
    /\ UNCHANGED <<folders, req>>

DocumentsCrash(w) == Dies(w) /\ UNCHANGED papers

DocumentsNext == \E w \in Workers :
    \/ CreateFolder(w) \/ FolderCreated(w) \/ MoveFolder(w) \/ MoveFolderHangs(w) \/ FolderMoved(w)
    \/ DeleteFolder(w) \/ FolderDeleted(w)
    \/ CreateDocument(w) \/ CreateVersion(w) \/ DocumentCreated(w)
    \/ DeleteDocument(w) \/ DocumentsCrash(w)

DocumentsSpec == DocumentsInit /\ NoRequest /\ [][DocumentsNext]_<<papers, req>>
-----------------------------------------------------------------------------
(* "Cannot set descendant as parent folder": one request at a time never   *)
(* closes a loop of folders, in which every later walk would hang; the     *)
(* parents along a loop were set by requests that overlapped.              *)
LoopsOnlyByRace ==
    \A f \in Folders : InLoop(f) =>
        \E g, h \in Chain(f) : folders[g].by # folders[h].by
=============================================================================
