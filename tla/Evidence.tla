------------------------------ MODULE Evidence ------------------------------
(***************************************************************************)
(* A document from the supplier's file chooser to the attestor's           *)
(* signature: the evidence panels of the browser, POST /evidence with its  *)
(* object store and metadata row, the commitment on chain, the indexer's   *)
(* anchoring of it, and the evidence a milestone page lists.               *)
(*                                                                         *)
(* Hashing a file, an upload and a signature take time, and a person may   *)
(* choose another file meanwhile.  A document stands for its own bytes and *)
(* for their digest: equal bytes, equal digest.  Base64, size limits,      *)
(* labels and media types are left out.                                    *)
(***************************************************************************)
EXTENDS Naturals, Sequences, FiniteSets

CONSTANTS
  Documents, Milestones,
  Suppliers,      \* milestones whose SubmitEvidenceAction is open
  Attestors,      \* milestones whose VerifyMilestoneAction may be open
  PostedFor,      \* milestones, or None, that other clients of the API upload for
  MaxEvents, MaxReplays,
  None

Row == [milestone : Milestones \cup {None}, anchored : BOOLEAN]

ASSUME EvidenceAssumption ==
  /\ None \notin Documents /\ None \notin Row
  /\ Suppliers \subseteq Milestones /\ Attestors \subseteq Milestones
  /\ PostedFor \subseteq Milestones \cup {None} /\ "elsewhere" \notin Suppliers

VARIABLES
  bytes,          \* documents in object storage
  objects,        \* EvidenceObject rows
  uploads,        \* POST /evidence in progress, one per client
  committed, status,   \* the milestone on chain
  events,         \* the evidence events, in ledger order
  indexed,        \* how many of them the read model holds
  anchors, rows,  \* EvidenceAnchorReadModel and MilestoneReadModel
  replays,
  supplier, attestor   \* the two panels

chainVars == <<committed, status, events>>
readVars == <<indexed, anchors, rows, replays>>
vars == <<bytes, objects, uploads, chainVars, readVars, supplier, attestor>>

Elsewhere == "elsewhere"      \* a client that is not the panel
Clients == Suppliers \cup {Elsewhere}

-----------------------------------------------------------------------------
(* The decisions, with faulty variants                                      *)

any_bytes(upload) == TRUE
\* The server hashes the bytes and compares with the digest the client showed.
acceptable(upload) == upload.expected \in {None, upload.document}

anchored_if_committed(upload) ==
  [milestone |-> upload.milestone,
   anchored |-> upload.milestone # None /\ committed[upload.milestone] = upload.document]
\* The metadata row of a new document: nothing is anchored by uploading.
metadata(upload) == [milestone |-> upload.milestone, anchored |-> FALSE]

first_step == "put"

\* GET milestones/:id/evidence: the documents uploaded for a milestone and the
\* ones its current anchor names.
listed(m) == {d \in Documents : objects[d] # None /\ (objects[d].milestone = m \/ anchors[m] = d)}

workable_always(m) == TRUE
\* submit_evidence replaces a digest until the milestone is verified.
workable(m) == status[m] # "verified"

-----------------------------------------------------------------------------
Nothing == [hash |-> None, status |-> "open"]
newForm == [file |-> None, digest |-> None, hashing |-> {}, signing |-> None]
newReview == [view |-> Nothing, hashing |-> {}, checked |-> None, copy |-> None,
              reviewed |-> FALSE, signing |-> None]

Init ==
  /\ bytes = {} /\ objects = [d \in Documents |-> None]
  /\ uploads = [c \in Clients |-> None]
  /\ committed = [m \in Milestones |-> None] /\ status = [m \in Milestones |-> "open"]
  /\ events = <<>> /\ indexed = 0 /\ replays = 0
  /\ anchors = committed /\ rows = [m \in Milestones |-> Nothing]
  /\ supplier = [m \in Suppliers |-> newForm]
  /\ attestor = [m \in Attestors |-> newReview]

-----------------------------------------------------------------------------
(* The supplier's panel                                                     *)

\* choose: the digest is cleared, and the file's bytes start to be hashed.
Choose(m, d) ==
  /\ supplier' = [supplier EXCEPT ![m].file = d, ![m].digest = None, ![m].hashing = @ \cup {d}]
  /\ UNCHANGED <<bytes, objects, uploads, chainVars, readVars, attestor>>

\* choose, after the hash: whichever file it was, its digest is shown.
Hashed(m, d) ==
  /\ d \in supplier[m].hashing
  /\ supplier' = [supplier EXCEPT ![m].digest = d, ![m].hashing = @ \ {d}]
  /\ UNCHANGED <<bytes, objects, uploads, chainVars, readVars, attestor>>

\* The button: the chosen file is sent with the digest on the screen.
Send(m) ==
  /\ supplier[m].file # None /\ supplier[m].digest # None
  /\ uploads[m] = None /\ supplier[m].signing = None
  /\ uploads' = [uploads EXCEPT ![m] = [document |-> supplier[m].file, milestone |-> m,
                                        expected |-> supplier[m].digest, step |-> "check"]]
  /\ UNCHANGED <<bytes, objects, chainVars, readVars, supplier, attestor>>

\* The response: only then does the wallet ask for a signature, of the digest
\* that was on the screen when the button was pressed.  The panel compares the
\* digest the server answers with it once more; the server has just compared
\* both with the bytes (Check), so the comparison is left out.
Answer(c) ==
  /\ uploads[c] # None /\ uploads[c].step = "answer"
  /\ supplier' = IF c = Elsewhere THEN supplier
                 ELSE [supplier EXCEPT ![c].signing = uploads[c].expected]
  /\ uploads' = [uploads EXCEPT ![c] = None]
  /\ UNCHANGED <<bytes, objects, chainVars, readVars, attestor>>

Decline(m) ==
  /\ supplier[m].signing # None
  /\ supplier' = [supplier EXCEPT ![m].signing = None]
  /\ UNCHANGED <<bytes, objects, uploads, chainVars, readVars, attestor>>

-----------------------------------------------------------------------------
(* POST /evidence                                                           *)

\* A client other than the panel uploads a document, with no digest to check.
Post(d, m) ==
  /\ uploads[Elsewhere] = None
  /\ uploads' = [uploads EXCEPT ![Elsewhere] =
       [document |-> d, milestone |-> m, expected |-> None, step |-> "check"]]
  /\ UNCHANGED <<bytes, objects, chainVars, readVars, supplier, attestor>>

Check(c) ==
  /\ uploads[c] # None /\ uploads[c].step = "check"
  /\ uploads' = [uploads EXCEPT ![c] = IF acceptable(@) THEN [@ EXCEPT !.step = first_step] ELSE None]
  /\ UNCHANGED <<bytes, objects, chainVars, readVars, supplier, attestor>>

\* storage.put, under a key made of the digest.
Put(c) ==
  /\ uploads[c] # None /\ uploads[c].step = "put"
  /\ bytes' = bytes \cup {uploads[c].document}
  /\ uploads' = [uploads EXCEPT ![c].step = "save"]
  /\ UNCHANGED <<objects, chainVars, readVars, supplier, attestor>>

\* evidenceObject.upsert, which leaves an existing row as it is.
Save(c) ==
  /\ uploads[c] # None /\ uploads[c].step = "save"
  /\ objects' = [objects EXCEPT ![uploads[c].document] = IF @ = None THEN metadata(uploads[c]) ELSE @]
  /\ uploads' = [uploads EXCEPT ![c].step = "answer"]
  /\ UNCHANGED <<bytes, chainVars, readVars, supplier, attestor>>

\* The server dies, storage or the database refuses, or the answer is lost:
\* the client sees an error and signs nothing.
Lose(c) ==
  /\ uploads[c] # None
  /\ uploads' = [uploads EXCEPT ![c] = None]
  /\ UNCHANGED <<bytes, objects, chainVars, readVars, supplier, attestor>>

-----------------------------------------------------------------------------
(* The chain                                                                *)

commit(m, d) ==
  /\ Len(events) < MaxEvents /\ workable(m)
  /\ committed' = [committed EXCEPT ![m] = d]
  /\ status' = [status EXCEPT ![m] = "submitted"]
  /\ events' = Append(events, [kind |-> "evidence_submitted", milestone |-> m, hash |-> d])

\* The supplier signs submit_evidence in the wallet the panel opened ...
Commit(m) ==
  /\ supplier[m].signing # None /\ commit(m, supplier[m].signing)
  /\ supplier' = [supplier EXCEPT ![m].signing = None]
  /\ UNCHANGED <<bytes, objects, uploads, readVars, attestor>>

\* ... or with another tool, for a document shared outside Milvance.
CommitElsewhere(m, d) ==
  /\ commit(m, d)
  /\ UNCHANGED <<bytes, objects, uploads, readVars, supplier, attestor>>

\* attest_milestone: the digest named must be the one on record.
Attest(m) ==
  /\ Len(events) < MaxEvents
  /\ attestor[m].signing # None
  /\ attestor[m].signing = committed[m] /\ status[m] = "submitted"
  /\ status' = [status EXCEPT ![m] = "verified"]
  /\ events' = Append(events, [kind |-> "milestone_verified", milestone |-> m, hash |-> committed[m]])
  /\ attestor' = [attestor EXCEPT ![m].signing = None]
  /\ UNCHANGED <<committed, bytes, objects, uploads, readVars, supplier>>

\* The attestation is declined, or the contract refuses it (EvidenceMismatch).
AttestFails(m) ==
  /\ attestor[m].signing # None
  /\ attestor' = [attestor EXCEPT ![m].signing = None]
  /\ UNCHANGED <<bytes, objects, uploads, chainVars, readVars, supplier>>

-----------------------------------------------------------------------------
(* The indexer                                                              *)

\* evidence_submitted: the milestone row, its anchor, and the metadata row of
\* the document if it is there; milestone_verified: the milestone row.
Index ==
  /\ indexed < Len(events)
  /\ LET e == events[indexed + 1]
         submitted == e.kind = "evidence_submitted"
     IN  /\ rows' = [rows EXCEPT ![e.milestone] =
              [hash |-> e.hash, status |-> IF submitted THEN "submitted" ELSE "verified"]]
         /\ anchors' = IF submitted THEN [anchors EXCEPT ![e.milestone] = e.hash] ELSE anchors
         /\ objects' = IF submitted /\ objects[e.hash] # None
                       THEN [objects EXCEPT ![e.hash].anchored = TRUE] ELSE objects
  /\ indexed' = indexed + 1
  /\ UNCHANGED <<bytes, uploads, chainVars, replays, supplier, attestor>>

\* reset: the derived rows go; documents stay, as never anchored and of no
\* milestone row.
Reset ==
  /\ replays < MaxReplays /\ replays' = replays + 1
  /\ indexed' = 0
  /\ anchors' = [m \in Milestones |-> None] /\ rows' = [m \in Milestones |-> Nothing]
  /\ objects' = [d \in Documents |-> IF objects[d] = None THEN None
                                     ELSE [objects[d] EXCEPT !.anchored = FALSE]]
  /\ UNCHANGED <<bytes, uploads, chainVars, supplier, attestor>>

-----------------------------------------------------------------------------
(* The attestor's panel, on the page while the milestone reads SUBMITTED    *)

mounted(m) == attestor[m].view.status = "submitted"

\* The page rereads the milestone; the panel keeps its state while it is shown,
\* and a signature it asked for outlives it.
Reread(m) ==
  /\ attestor' = [attestor EXCEPT ![m] =
       IF rows[m].status = "submitted" THEN [@ EXCEPT !.view = rows[m]]
       ELSE [newReview EXCEPT !.view = rows[m], !.signing = attestor[m].signing]]
  /\ UNCHANGED <<bytes, objects, uploads, chainVars, readVars, supplier>>

\* A copy is chosen and hashed, to be compared with the commitment shown then.
CheckCopy(m, d) ==
  /\ mounted(m)
  /\ attestor' = [attestor EXCEPT ![m].hashing =
       @ \cup {[document |-> d, commitment |-> attestor[m].view.hash]}]
  /\ UNCHANGED <<bytes, objects, uploads, chainVars, readVars, supplier>>

CopyHashed(m, h) ==
  /\ h \in attestor[m].hashing
  /\ attestor' = [attestor EXCEPT ![m].hashing = @ \ {h}, ![m].copy = h.document,
       ![m].checked = IF h.document = h.commitment THEN "match" ELSE "mismatch"]
  /\ UNCHANGED <<bytes, objects, uploads, chainVars, readVars, supplier>>

ClearCopy(m) ==
  /\ mounted(m) /\ attestor[m].checked # None
  /\ attestor' = [attestor EXCEPT ![m] = [@ EXCEPT !.checked = None, !.copy = None]]
  /\ UNCHANGED <<bytes, objects, uploads, chainVars, readVars, supplier>>

\* The box "I have reviewed the real-world evidence".
Review(m) ==
  /\ mounted(m)
  /\ attestor' = [attestor EXCEPT ![m].reviewed = ~@]
  /\ UNCHANGED <<bytes, objects, uploads, chainVars, readVars, supplier>>

\* What enables the button: the box, and no copy that differs.
mayVerify(m) == attestor[m].reviewed /\ attestor[m].checked # "mismatch"

\* The button: the wallet is asked to attest the commitment now on the page.
Verify(m) ==
  /\ mounted(m) /\ mayVerify(m) /\ attestor[m].signing = None
  /\ attestor' = [attestor EXCEPT ![m].signing = attestor[m].view.hash]
  /\ UNCHANGED <<bytes, objects, uploads, chainVars, readVars, supplier>>

-----------------------------------------------------------------------------
SupplierNext ==
  \E m \in Suppliers : \/ \E d \in Documents : Choose(m, d) \/ Hashed(m, d)
                       \/ Send(m) \/ Decline(m) \/ Commit(m)

AttestorNext ==
  \E m \in Attestors : \/ Reread(m) \/ ClearCopy(m) \/ Review(m) \/ Verify(m)
                       \/ Attest(m) \/ AttestFails(m)
                       \/ \E d \in Documents : CheckCopy(m, d)
                       \/ \E h \in attestor[m].hashing : CopyHashed(m, h)

ServerNext ==
  \E c \in Clients : Check(c) \/ Put(c) \/ Save(c) \/ Answer(c) \/ Lose(c)

Next ==
  \/ SupplierNext \/ AttestorNext \/ ServerNext \/ Index \/ Reset
  \/ \E d \in Documents, m \in PostedFor : Post(d, m)
  \/ \E d \in Documents, m \in Milestones : CommitElsewhere(m, d)

Spec == Init /\ [][Next]_vars

=============================================================================
