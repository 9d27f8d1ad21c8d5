--------------------------- MODULE SigningProofs ----------------------------
(***************************************************************************)
(* What is signed in the browser.  What a digest on chain, a document row  *)
(* and an attestation stand for, for any documents, milestones and panels, *)
(* any number of events and any number of replays; and whose transaction a *)
(* panel shows and what it may say of it, for any number of clicks,        *)
(* accounts and ledgers.                                                   *)
(***************************************************************************)
EXTENDS EvidenceProperties, TransactionProperties, TLAPS

-----------------------------------------------------------------------------
(* Evidence: types                                                          *)

LEMMA TypeInit == Init => EvidenceTypeOK
BY EvidenceAssumption DEF Init, EvidenceTypeOK, Nothing, newForm, newReview, Digests, Views,
   Clients, Row, Uploads, Events, Forms, Reviews

LEMMA CommitTypes ==
  ASSUME EvidenceTypeOK, NEW m \in Milestones, NEW d \in Documents, commit(m, d)
  PROVE  /\ committed' \in [Milestones -> Digests]
         /\ status' \in [Milestones -> {"open", "submitted", "verified"}]
         /\ events' \in Seq(Events) /\ indexed \in 0..Len(events')
<1>1. [kind |-> "evidence_submitted", milestone |-> m, hash |-> d] \in Events
  BY DEF Events
<1>2. events' \in Seq(Events) /\ Len(events') = Len(events) + 1
  BY <1>1 DEF EvidenceTypeOK, commit
<1>. QED
  BY <1>2 DEF EvidenceTypeOK, commit, Digests

LEMMA SupplierTypes ==
  ASSUME EvidenceTypeOK, SupplierNext PROVE EvidenceTypeOK'
<1>1. ASSUME NEW m \in Suppliers, NEW d \in Documents, Choose(m, d) PROVE EvidenceTypeOK'
  <2>. DEFINE form == [supplier[m] EXCEPT !.file = d, !.digest = None, !.hashing = @ \cup {d}]
  <2>1. supplier' = [supplier EXCEPT ![m] = form]
    BY <1>1 DEF Choose
  <2>2. supplier[m] \in Forms
    BY DEF EvidenceTypeOK
  <2>3. form \in Forms
    BY <2>2 DEF Forms, Digests
  <2>4. supplier' \in [Suppliers -> Forms]
    BY <2>1, <2>3 DEF EvidenceTypeOK
  <2>. QED
    BY <1>1, <2>4 DEF EvidenceTypeOK, Choose, chainVars, readVars
<1>2. ASSUME NEW m \in Suppliers, NEW d \in Documents, Hashed(m, d) PROVE EvidenceTypeOK'
  <2>. DEFINE form == [supplier[m] EXCEPT !.digest = d, !.hashing = @ \ {d}]
  <2>1. supplier' = [supplier EXCEPT ![m] = form]
    BY <1>2 DEF Hashed
  <2>2. supplier[m] \in Forms
    BY DEF EvidenceTypeOK
  <2>3. form \in Forms
    BY <2>2 DEF Forms, Digests
  <2>4. supplier' \in [Suppliers -> Forms]
    BY <2>1, <2>3 DEF EvidenceTypeOK
  <2>. QED
    BY <1>2, <2>4 DEF EvidenceTypeOK, Hashed, chainVars, readVars
<1>3. ASSUME NEW m \in Suppliers, Send(m) PROVE EvidenceTypeOK'
  <2>1. supplier[m].file \in Documents /\ supplier[m].digest \in Documents /\ m \in Milestones
        /\ m \in Clients
    BY <1>3, EvidenceAssumption DEF EvidenceTypeOK, Send, Digests, Clients, Forms
  <2>2. [document |-> supplier[m].file, milestone |-> m, expected |-> supplier[m].digest,
         step |-> "check"] \in Uploads
    BY <2>1 DEF Uploads, Digests
  <2>3. uploads' \in [Clients -> Uploads \cup {None}]
    BY <1>3, <2>1, <2>2 DEF EvidenceTypeOK, Send
  <2>. QED
    BY <1>3, <2>3 DEF EvidenceTypeOK, Send, chainVars, readVars
<1>4. ASSUME NEW m \in Suppliers, Decline(m) PROVE EvidenceTypeOK'
  <2>1. supplier \in [Suppliers -> Forms]
        /\ supplier' = [supplier EXCEPT ![m].signing = None]
    BY <1>4 DEF EvidenceTypeOK, Decline
  <2>2. supplier' \in [Suppliers -> Forms]
    BY <2>1 DEF Forms, Digests
  <2>. QED
    BY <1>4, <2>2 DEF EvidenceTypeOK, Decline, chainVars, readVars
<1>5. ASSUME NEW m \in Suppliers, Commit(m) PROVE EvidenceTypeOK'
  <2>1. m \in Milestones /\ supplier[m].signing \in Documents
    BY <1>5, EvidenceAssumption DEF EvidenceTypeOK, Commit, Digests, Forms
  <2>2. supplier \in [Suppliers -> Forms]
        /\ supplier' = [supplier EXCEPT ![m].signing = None]
    BY <1>5 DEF EvidenceTypeOK, Commit
  <2>3. supplier' \in [Suppliers -> Forms]
    BY <2>2 DEF Forms, Digests
  <2>. QED
    BY <1>5, <2>1, <2>3, CommitTypes DEF EvidenceTypeOK, Commit, readVars
<1>. QED
  BY <1>1, <1>2, <1>3, <1>4, <1>5 DEF SupplierNext

LEMMA ServerTypes ==
  ASSUME EvidenceTypeOK, ServerNext PROVE EvidenceTypeOK'
<1>1. ASSUME NEW c \in Clients, Check(c) PROVE EvidenceTypeOK'
  <2>1. uploads[c] \in Uploads
    BY <1>1 DEF EvidenceTypeOK, Check
  <2>2. [uploads[c] EXCEPT !.step = first_step] \in Uploads
    BY <2>1 DEF Uploads, first_step
  <2>. QED
    BY <1>1, <2>2 DEF EvidenceTypeOK, Check, chainVars, readVars
<1>2. ASSUME NEW c \in Clients, Put(c) PROVE EvidenceTypeOK'
  <2>1. uploads[c] \in Uploads
    BY <1>2 DEF EvidenceTypeOK, Put
  <2>2. [uploads[c] EXCEPT !.step = "save"] \in Uploads /\ uploads[c].document \in Documents
    BY <2>1 DEF Uploads
  <2>. QED
    BY <1>2, <2>2 DEF EvidenceTypeOK, Put, chainVars, readVars
<1>3. ASSUME NEW c \in Clients, Save(c) PROVE EvidenceTypeOK'
  <2>1. uploads[c] \in Uploads
    BY <1>3 DEF EvidenceTypeOK, Save
  <2>2. [uploads[c] EXCEPT !.step = "answer"] \in Uploads /\ metadata(uploads[c]) \in Row
    BY <2>1 DEF Uploads, metadata, Row
  <2>. QED
    BY <1>3, <2>2 DEF EvidenceTypeOK, Save, chainVars, readVars
<1>4. ASSUME NEW c \in Clients, Answer(c) PROVE EvidenceTypeOK'
  <2>1. uploads[c] \in Uploads
    BY <1>4 DEF EvidenceTypeOK, Answer
  <2>2. supplier' \in [Suppliers -> Forms]
    <3>1. CASE c = Elsewhere
      BY <1>4, <3>1 DEF EvidenceTypeOK, Answer
    <3>2. CASE c # Elsewhere
      <4>1. c \in Suppliers /\ uploads[c].expected \in Digests /\ supplier[c] \in Forms
        BY <2>1, <3>2 DEF EvidenceTypeOK, Clients, Uploads
      <4>2. [supplier[c] EXCEPT !.signing = uploads[c].expected] \in Forms
        BY <4>1 DEF Forms
      <4>. QED
        BY <1>4, <3>2, <4>1, <4>2 DEF EvidenceTypeOK, Answer
    <3>. QED
      BY <3>1, <3>2
  <2>. QED
    BY <1>4, <2>2 DEF EvidenceTypeOK, Answer, chainVars, readVars
<1>5. ASSUME NEW c \in Clients, Lose(c) PROVE EvidenceTypeOK'
  BY <1>5 DEF EvidenceTypeOK, Lose, chainVars, readVars
<1>. QED
  BY <1>1, <1>2, <1>3, <1>4, <1>5 DEF ServerNext

LEMMA AttestorTypes ==
  ASSUME EvidenceTypeOK, AttestorNext PROVE EvidenceTypeOK'
<1>0. SUFFICES ASSUME NEW m \in Attestors,
                      \/ Reread(m) \/ ClearCopy(m) \/ Review(m) \/ Verify(m)
                      \/ Attest(m) \/ AttestFails(m)
                      \/ \E d \in Documents : CheckCopy(m, d)
                      \/ \E h \in attestor[m].hashing : CopyHashed(m, h)
               PROVE  EvidenceTypeOK'
  BY DEF AttestorNext
<1>1. attestor[m] \in Reviews /\ m \in Milestones
  BY EvidenceAssumption DEF EvidenceTypeOK
<1>2. CASE Reread(m)
  <2>1. [attestor[m] EXCEPT !.view = rows[m]] \in Reviews
    BY <1>1 DEF EvidenceTypeOK, Reviews
  <2>2. [newReview EXCEPT !.view = rows[m], !.signing = attestor[m].signing] \in Reviews
    BY <1>1 DEF EvidenceTypeOK, Reviews, newReview, Digests
  <2>. QED
    BY <1>2, <2>1, <2>2 DEF EvidenceTypeOK, Reread, chainVars, readVars
<1>3. CASE ClearCopy(m)
  <2>1. [attestor[m] EXCEPT !.checked = None, !.copy = None] \in Reviews
    BY <1>1 DEF Reviews, Digests
  <2>. QED
    BY <1>3, <2>1 DEF EvidenceTypeOK, ClearCopy, chainVars, readVars
<1>4. CASE Review(m)
  <2>1. [attestor[m] EXCEPT !.reviewed = ~attestor[m].reviewed] \in Reviews
    BY <1>1 DEF Reviews
  <2>. QED
    BY <1>4, <2>1 DEF EvidenceTypeOK, Review, chainVars, readVars
<1>5. CASE Verify(m)
  <2>1. [attestor[m] EXCEPT !.signing = attestor[m].view.hash] \in Reviews
    BY <1>1 DEF Reviews, Views
  <2>. QED
    BY <1>5, <2>1 DEF EvidenceTypeOK, Verify, chainVars, readVars
<1>6. CASE Attest(m)
  <2>1. [attestor[m] EXCEPT !.signing = None] \in Reviews
    BY <1>1 DEF Reviews, Digests
  <2>2. committed[m] \in Documents
    BY <1>1, <1>6 DEF EvidenceTypeOK, Attest, Digests
  <2>3. [kind |-> "milestone_verified", milestone |-> m, hash |-> committed[m]] \in Events
    BY <1>1, <2>2 DEF Events
  <2>4. events' \in Seq(Events) /\ Len(events') = Len(events) + 1
    BY <1>6, <2>3 DEF EvidenceTypeOK, Attest
  <2>. QED
    BY <1>1, <1>6, <2>1, <2>4 DEF EvidenceTypeOK, Attest, readVars
<1>7. CASE AttestFails(m)
  <2>1. [attestor[m] EXCEPT !.signing = None] \in Reviews
    BY <1>1 DEF Reviews, Digests
  <2>. QED
    BY <1>7, <2>1 DEF EvidenceTypeOK, AttestFails, chainVars, readVars
<1>8. ASSUME NEW d \in Documents, CheckCopy(m, d) PROVE EvidenceTypeOK'
  <2>. DEFINE h == [document |-> d, commitment |-> attestor[m].view.hash]
              review == [attestor[m] EXCEPT !.hashing = @ \cup {h}]
  <2>1. attestor' = [attestor EXCEPT ![m] = review]
    BY <1>8 DEF CheckCopy
  <2>2. h \in [document : Documents, commitment : Digests]
    BY <1>1 DEF Reviews, Views
  <2>3. review \in Reviews
    <3>. HIDE DEF h
    <3>. QED
      BY <1>1, <2>2 DEF Reviews
  <2>4. attestor' \in [Attestors -> Reviews]
    <3>. HIDE DEF review
    <3>. QED
      BY <2>1, <2>3 DEF EvidenceTypeOK
  <2>. QED
    BY <1>8, <2>4 DEF EvidenceTypeOK, CheckCopy, chainVars, readVars
<1>9. ASSUME NEW h \in attestor[m].hashing, CopyHashed(m, h) PROVE EvidenceTypeOK'
  <2>1. h.document \in Digests
    BY <1>1 DEF Reviews, Digests
  <2>2. attestor' \in [Attestors -> Reviews]
    BY <1>1, <1>9, <2>1 DEF EvidenceTypeOK, CopyHashed, Reviews
  <2>. QED
    BY <1>9, <2>2 DEF EvidenceTypeOK, CopyHashed, chainVars, readVars
<1>. QED
  BY <1>0, <1>2, <1>3, <1>4, <1>5, <1>6, <1>7, <1>8, <1>9

LEMMA ReadTypes ==
  ASSUME EvidenceTypeOK, Index \/ Reset PROVE EvidenceTypeOK'
<1>1. CASE Index
  <2>. DEFINE e == events[indexed + 1]
  <2>1. e \in Events /\ indexed + 1 \in 1..Len(events)
    BY <1>1 DEF EvidenceTypeOK, Index
  <2>2. objects[e.hash] # None => [objects[e.hash] EXCEPT !.anchored = TRUE] \in Row
    <3>1. objects[e.hash] \in Row \cup {None}
      BY <2>1 DEF EvidenceTypeOK, Events
    <3>. QED
      BY <3>1 DEF Row
  <2>3. objects' \in [Documents -> Row \cup {None}]
    BY <1>1, <2>1, <2>2 DEF EvidenceTypeOK, Index, Events
  <2>4. rows' \in [Milestones -> Views] /\ anchors' \in [Milestones -> Digests]
    BY <1>1, <2>1 DEF EvidenceTypeOK, Index, Events, Views, Digests
  <2>. QED
    BY <1>1, <2>1, <2>3, <2>4 DEF EvidenceTypeOK, Index, chainVars
<1>2. CASE Reset
  <2>1. \A d \in Documents : objects[d] # None => [objects[d] EXCEPT !.anchored = FALSE] \in Row
    BY DEF EvidenceTypeOK, Row
  <2>2. objects' \in [Documents -> Row \cup {None}]
    BY <1>2, <2>1 DEF EvidenceTypeOK, Reset
  <2>3. rows' \in [Milestones -> Views] /\ anchors' \in [Milestones -> Digests]
    BY <1>2 DEF Reset, Nothing, Views, Digests
  <2>. QED
    BY <1>2, <2>2, <2>3 DEF EvidenceTypeOK, Reset, chainVars
<1>. QED
  BY <1>1, <1>2

LEMMA TypeNext == EvidenceTypeOK /\ [Next]_vars => EvidenceTypeOK'
<1>. SUFFICES ASSUME EvidenceTypeOK, [Next]_vars PROVE EvidenceTypeOK'
  OBVIOUS
<1>1. ASSUME NEW d \in Documents, NEW m \in PostedFor, Post(d, m) PROVE EvidenceTypeOK'
  <2>1. [document |-> d, milestone |-> m, expected |-> None, step |-> "check"] \in Uploads
    BY EvidenceAssumption DEF Uploads, Digests
  <2>. QED
    BY <1>1, <2>1 DEF EvidenceTypeOK, Post, chainVars, readVars
<1>2. ASSUME NEW d \in Documents, NEW m \in Milestones, CommitElsewhere(m, d) PROVE EvidenceTypeOK'
  <2>1. commit(m, d)
    BY <1>2 DEF CommitElsewhere
  <2>. QED
    BY <1>2, <2>1, CommitTypes DEF EvidenceTypeOK, CommitElsewhere, readVars
<1>3. CASE UNCHANGED vars
  BY <1>3 DEF EvidenceTypeOK, vars, chainVars, readVars
<1>. QED
  BY <1>1, <1>2, <1>3, SupplierTypes, ServerTypes, AttestorTypes, ReadTypes DEF Next

\* The stores, the log and the panels keep their shapes (EvidenceTypeOK).
THEOREM EvidenceTypeCorrect == Spec => []EvidenceTypeOK
BY TypeInit, TypeNext, PTL DEF Spec

-----------------------------------------------------------------------------
(* What is in the stores when a digest is signed                            *)

\* What a request has written when it stands at a step, and the digest it
\* was checked against.
UploadKept(c) ==
  /\ uploads[c].step \in {"save", "answer"} => uploads[c].document \in bytes
  /\ uploads[c].step = "answer" => objects[uploads[c].document] # None
  /\ uploads[c].step # "check" => uploads[c].expected \in {None, uploads[c].document}

Stored ==
  /\ RowHasBytes /\ SignedIsStored
  /\ \A c \in Clients : uploads[c] # None => UploadKept(c)

LEMMA StoredInit == Init => Stored
BY DEF Init, Stored, RowHasBytes, SignedIsStored, newForm

\* Nothing is ever deleted from the stores, so a step that neither asks for a
\* signature nor moves a request on keeps all of it.
LEMMA StoredGrows ==
  ASSUME Stored, EvidenceTypeOK,
         bytes \subseteq bytes',
         \A d \in Documents : objects[d] # None => objects'[d] # None,
         \A d \in Documents : objects'[d] # None => d \in bytes',
         \A m \in Suppliers : supplier'[m].signing \in {None, supplier[m].signing},
         \A c \in Clients : uploads'[c] # None => UploadKept(c)'
  PROVE  Stored'
BY DEF Stored, RowHasBytes, SignedIsStored, EvidenceTypeOK, Forms, Digests

LEMMA StoredSame ==
  ASSUME Stored, EvidenceTypeOK, UNCHANGED <<bytes, uploads>>,
         \A d \in Documents : objects[d] # None <=> objects'[d] # None,
         \A m \in Suppliers : supplier'[m].signing \in {None, supplier[m].signing}
  PROVE  Stored'
BY DEF Stored, RowHasBytes, SignedIsStored, EvidenceTypeOK, Forms, Digests, UploadKept, Uploads

LEMMA StoredServer ==
  ASSUME EvidenceTypeOK, Stored, ServerNext PROVE Stored'
<1>1. ASSUME NEW c \in Clients, Check(c) PROVE Stored'
  BY <1>1, StoredGrows
     DEF Check, Stored, RowHasBytes, EvidenceTypeOK, UploadKept, Uploads, acceptable, first_step
<1>2. ASSUME NEW c \in Clients, Put(c) PROVE Stored'
  BY <1>2, StoredGrows DEF Put, Stored, RowHasBytes, EvidenceTypeOK, UploadKept, Uploads
<1>3. ASSUME NEW c \in Clients, Save(c) PROVE Stored'
  <2>1. metadata(uploads[c]) # None
    <3>1. uploads[c] \in Uploads
      BY <1>3 DEF Save, EvidenceTypeOK
    <3>2. metadata(uploads[c]) \in Row
      BY <3>1 DEF metadata, Uploads, Row
    <3>. QED
      BY <3>2, EvidenceAssumption
  <2>2. uploads[c] \in Uploads /\ uploads[c].document \in bytes
    BY <1>3 DEF Save, EvidenceTypeOK, Stored, UploadKept
  <2>. QED
    BY <1>3, <2>1, <2>2, StoredGrows
       DEF Save, Stored, RowHasBytes, EvidenceTypeOK, UploadKept, Uploads
<1>4. ASSUME NEW c \in Clients, Answer(c) PROVE Stored'
  <2>1. uploads[c] \in Uploads /\ UploadKept(c)
    BY <1>4 DEF Answer, EvidenceTypeOK, Stored
  <2>2. \A m \in Suppliers : supplier'[m].signing # None =>
          supplier'[m].signing \in bytes /\ objects[supplier'[m].signing] # None
    BY <1>4, <2>1 DEF Answer, EvidenceTypeOK, Stored, SignedIsStored, UploadKept, Uploads, Forms
  <2>3. \A b \in Clients : uploads'[b] # None => UploadKept(b)'
    BY <1>4 DEF Answer, EvidenceTypeOK, Stored, UploadKept
  <2>. QED
    BY <1>4, <2>2, <2>3 DEF Answer, Stored, RowHasBytes, SignedIsStored
<1>5. ASSUME NEW c \in Clients, Lose(c) PROVE Stored'
  BY <1>5, StoredGrows DEF Lose, Stored, RowHasBytes, EvidenceTypeOK, UploadKept
<1>. QED
  BY <1>1, <1>2, <1>3, <1>4, <1>5 DEF ServerNext

LEMMA StoredSupplier ==
  ASSUME EvidenceTypeOK, Stored, SupplierNext PROVE Stored'
<1>1. ASSUME NEW m \in Suppliers, NEW d \in Documents, Choose(m, d) \/ Hashed(m, d) PROVE Stored'
  <2>1. supplier \in [Suppliers -> Forms] /\ UNCHANGED <<bytes, uploads, objects>>
    BY <1>1 DEF Choose, Hashed, EvidenceTypeOK
  <2>2. \A n \in Suppliers : supplier'[n].signing = supplier[n].signing
    <3>1. CASE Choose(m, d)
      BY <2>1, <3>1 DEF Choose, Forms
    <3>2. CASE Hashed(m, d)
      BY <2>1, <3>2 DEF Hashed, Forms
    <3>. QED
      BY <1>1, <3>1, <3>2
  <2>. QED
    BY <2>1, <2>2, StoredSame
<1>2. ASSUME NEW m \in Suppliers, Send(m) PROVE Stored'
  BY <1>2, StoredGrows DEF Send, Stored, RowHasBytes, EvidenceTypeOK, UploadKept
<1>3. ASSUME NEW m \in Suppliers, Decline(m) \/ Commit(m) PROVE Stored'
  BY <1>3, StoredSame DEF Decline, Commit, EvidenceTypeOK, Forms
<1>. QED
  BY <1>1, <1>2, <1>3 DEF SupplierNext

LEMMA StoredNext == EvidenceTypeOK /\ Stored /\ [Next]_vars => Stored'
<1>. SUFFICES ASSUME EvidenceTypeOK, Stored, [Next]_vars PROVE Stored'
  OBVIOUS
<1>1. CASE AttestorNext
  <2>1. UNCHANGED <<bytes, objects, uploads, supplier>>
    BY <1>1 DEF AttestorNext, Reread, ClearCopy, Review, Verify, Attest, AttestFails, CheckCopy,
       CopyHashed
  <2>. QED
    BY <2>1, StoredSame
<1>2. CASE Index
  <2>1. \A d \in Documents : objects[d] # None => [objects[d] EXCEPT !.anchored = TRUE] # None
    BY EvidenceAssumption DEF EvidenceTypeOK, Row
  <2>2. \A d \in Documents : objects[d] # None <=> objects'[d] # None
    BY <1>2, <2>1 DEF Index, EvidenceTypeOK
  <2>. QED
    BY <1>2, <2>2, StoredSame DEF Index
<1>3. CASE Reset
  <2>1. \A d \in Documents : objects[d] # None => [objects[d] EXCEPT !.anchored = FALSE] # None
    BY EvidenceAssumption DEF EvidenceTypeOK, Row
  <2>2. \A d \in Documents : objects[d] # None <=> objects'[d] # None
    BY <1>3, <2>1 DEF Reset
  <2>. QED
    BY <1>3, <2>2, StoredSame DEF Reset
<1>4. ASSUME NEW d \in Documents, NEW m \in PostedFor, Post(d, m) PROVE Stored'
  BY <1>4, StoredGrows DEF Post, Stored, RowHasBytes, EvidenceTypeOK, UploadKept
<1>5. ASSUME NEW d \in Documents, NEW m \in Milestones, CommitElsewhere(m, d) PROVE Stored'
  BY <1>5, StoredSame DEF CommitElsewhere
<1>6. CASE UNCHANGED vars
  BY <1>6, StoredSame DEF vars
<1>. QED
  BY <1>1, <1>2, <1>3, <1>4, <1>5, <1>6, StoredServer, StoredSupplier DEF Next

LEMMA StoredAlways == Spec => []Stored
BY StoredInit, StoredNext, EvidenceTypeCorrect, PTL DEF Spec

\* The panel never asks the wallet to commit a digest whose document is not
\* stored, and a metadata row never points at bytes that are not there.
THEOREM DocumentsBehind == Spec => []DocumentBehind
<1>1. Stored => DocumentBehind
  BY DEF Stored, DocumentBehind
<1>. QED
  BY <1>1, StoredAlways, PTL

-----------------------------------------------------------------------------
(* The log, and the rows made from it                                       *)

submitted(log, i, m) == log[i].kind = "evidence_submitted" /\ log[i].milestone = m
attested(log, i, m) == log[i].kind = "milestone_verified" /\ log[i].milestone = m
\* The last commitment of m among the first n events is event i.
latest(log, i, m, n) ==
  i \in 1..n /\ submitted(log, i, m) /\ \A k \in (i + 1)..n : ~submitted(log, k, m)

\* The digest on chain is the last one committed, and an attestation freezes it.
ChainIsLog ==
  \A m \in Milestones :
    /\ committed[m] # None =>
         \E j \in 1..Len(events) : latest(events, j, m, Len(events)) /\ events[j].hash = committed[m]
    /\ \A i \in 1..Len(events) : attested(events, i, m) =>
         /\ status[m] = "verified" /\ events[i].hash = committed[m]
         /\ \E j \in 1..(i - 1) : latest(events, j, m, i - 1) /\ events[j].hash = events[i].hash

\* The anchor is the last commitment indexed, the row names it, and a verified
\* row has an attestation behind it.
RowsAreLog ==
  \A m \in Milestones :
    /\ \A i \in 1..indexed : latest(events, i, m, indexed) => anchors[m] = events[i].hash
    /\ rows[m].hash = anchors[m]
    /\ rows[m].status = "verified" =>
         \E i \in 1..indexed : attested(events, i, m) /\ events[i].hash = rows[m].hash

Anchoring == AnchoredByEvent /\ ChainIsLog /\ RowsAreLog

LEMMA AnchoringInit == Init => Anchoring
BY DEF Init, Anchoring, AnchoredByEvent, ChainIsLog, RowsAreLog, Nothing

\* Appending an event changes nothing about the events before it.
LEMMA Appended ==
  ASSUME events \in Seq(Events), NEW e \in Events, events' = Append(events, e)
  PROVE  /\ events' \in Seq(Events) /\ Len(events') = Len(events) + 1
         /\ events'[Len(events) + 1] = e
         /\ \A i \in 1..Len(events) : events'[i] = events[i]
         /\ \A n \in 0..Len(events), j \in Nat, m \in Milestones :
              latest(events', j, m, n) <=> latest(events, j, m, n)
<1>1. /\ events' \in Seq(Events) /\ Len(events') = Len(events) + 1
      /\ events'[Len(events) + 1] = e
      /\ \A i \in 1..Len(events) : events'[i] = events[i]
  OBVIOUS
<1>2. ASSUME NEW n \in 0..Len(events), NEW j \in Nat, NEW m \in Milestones
      PROVE  latest(events', j, m, n) <=> latest(events, j, m, n)
  BY <1>1, <1>2 DEF latest, submitted
<1>. QED
  BY <1>1, <1>2

\* What is indexed does not change when an event is appended.
LEMMA AppendKeepsRows ==
  ASSUME EvidenceTypeOK, Anchoring, NEW e \in Events, events' = Append(events, e),
         UNCHANGED <<readVars, objects>>
  PROVE  AnchoredByEvent' /\ RowsAreLog'
<1>1. indexed \in 0..Len(events) /\ events \in Seq(Events)
  BY DEF EvidenceTypeOK
<1>2. AnchoredByEvent'
  BY <1>1, Appended DEF Anchoring, AnchoredByEvent, readVars
<1>3. RowsAreLog'
  BY <1>1, Appended DEF Anchoring, RowsAreLog, readVars, attested
<1>. QED
  BY <1>2, <1>3

LEMMA AnchoringCommit ==
  ASSUME EvidenceTypeOK, Anchoring, NEW m \in Milestones, NEW d \in Documents, commit(m, d),
         UNCHANGED <<readVars, objects>>
  PROVE  Anchoring'
<1>. DEFINE e == [kind |-> "evidence_submitted", milestone |-> m, hash |-> d]
            n == Len(events)
<1>1. e \in Events /\ events' = Append(events, e) /\ events \in Seq(Events) /\ n \in Nat
  BY DEF Events, commit, EvidenceTypeOK
<1>2. /\ Len(events') = n + 1 /\ events'[n + 1] = e
      /\ \A i \in 1..n : events'[i] = events[i]
      /\ \A k \in 0..n, j \in Nat, b \in Milestones :
           latest(events', j, b, k) <=> latest(events, j, b, k)
  BY <1>1, Appended
<1>3. ASSUME NEW b \in Milestones, committed'[b] # None
      PROVE  \E j \in 1..(n + 1) :
               latest(events', j, b, n + 1) /\ events'[j].hash = committed'[b]
  <2>1. CASE b = m
    <3>1. latest(events', n + 1, m, n + 1) /\ events'[n + 1].hash = committed'[m]
      BY <1>1, <1>2 DEF latest, submitted, commit, EvidenceTypeOK
    <3>. QED
      BY <1>1, <2>1, <3>1
  <2>2. CASE b # m
    <3>1. committed'[b] = committed[b]
      BY <2>2 DEF commit, EvidenceTypeOK
    <3>2. PICK j \in 1..n : latest(events, j, b, n) /\ events[j].hash = committed[b]
      BY <1>3, <3>1 DEF Anchoring, ChainIsLog
    <3>3. latest(events', j, b, n + 1)
      BY <1>1, <1>2, <2>2, <3>2 DEF latest, submitted
    <3>. QED
      BY <1>1, <1>2, <3>1, <3>2, <3>3
  <2>. QED
    BY <2>1, <2>2
<1>4. ASSUME NEW b \in Milestones, NEW i \in 1..(n + 1), attested(events', i, b)
      PROVE  /\ status'[b] = "verified" /\ events'[i].hash = committed'[b]
             /\ \E j \in 1..(i - 1) :
                  latest(events', j, b, i - 1) /\ events'[j].hash = events'[i].hash
  <2>1. i \in 1..n /\ attested(events, i, b)
    BY <1>1, <1>2, <1>4 DEF attested
  <2>2. b # m
    BY <2>1 DEF Anchoring, ChainIsLog, commit, workable
  <2>3. status'[b] = status[b] /\ committed'[b] = committed[b]
    BY <2>2 DEF commit, EvidenceTypeOK
  <2>4. PICK j \in 1..(i - 1) : latest(events, j, b, i - 1) /\ events[j].hash = events[i].hash
    BY <2>1 DEF Anchoring, ChainIsLog
  <2>5. status[b] = "verified" /\ events[i].hash = committed[b]
    BY <2>1 DEF Anchoring, ChainIsLog
  <2>. QED
    BY <1>1, <1>2, <2>1, <2>3, <2>4, <2>5
<1>5. ChainIsLog'
  BY <1>1, <1>2, <1>3, <1>4 DEF ChainIsLog
<1>. QED
  BY <1>1, <1>5, AppendKeepsRows DEF Anchoring

LEMMA AnchoringAttest ==
  ASSUME EvidenceTypeOK, Anchoring, NEW m \in Attestors, Attest(m) PROVE Anchoring'
<1>. DEFINE e == [kind |-> "milestone_verified", milestone |-> m, hash |-> committed[m]]
            n == Len(events)
<1>0. m \in Milestones /\ committed[m] # None /\ committed[m] \in Documents
  BY EvidenceAssumption DEF Attest, EvidenceTypeOK, Digests
<1>1. e \in Events /\ events' = Append(events, e) /\ events \in Seq(Events) /\ n \in Nat
  BY <1>0 DEF Events, Attest, EvidenceTypeOK
<1>2. /\ Len(events') = n + 1 /\ events'[n + 1] = e
      /\ \A i \in 1..n : events'[i] = events[i]
      /\ \A k \in 0..n, j \in Nat, b \in Milestones :
           latest(events', j, b, k) <=> latest(events, j, b, k)
  BY <1>1, Appended
<1>3. ASSUME NEW b \in Milestones, committed'[b] # None
      PROVE  \E j \in 1..(n + 1) :
               latest(events', j, b, n + 1) /\ events'[j].hash = committed'[b]
  <2>1. committed'[b] = committed[b]
    BY DEF Attest
  <2>2. PICK j \in 1..n : latest(events, j, b, n) /\ events[j].hash = committed[b]
    BY <1>3, <2>1 DEF Anchoring, ChainIsLog
  <2>3. ~submitted(events', n + 1, b)
    BY <1>2 DEF submitted
  <2>4. latest(events', j, b, n)
    BY <1>1, <1>2, <2>2
  <2>5. latest(events', j, b, n + 1)
    <3>. HIDE DEF n
    <3>. QED
      BY <1>1, <2>3, <2>4 DEF latest
  <2>. QED
    BY <1>1, <1>2, <2>1, <2>2, <2>5
<1>4. ASSUME NEW b \in Milestones, NEW i \in 1..(n + 1), attested(events', i, b)
      PROVE  /\ status'[b] = "verified" /\ events'[i].hash = committed'[b]
             /\ \E j \in 1..(i - 1) :
                  latest(events', j, b, i - 1) /\ events'[j].hash = events'[i].hash
  <2>1. CASE i = n + 1
    <3>1. b = m
      BY <1>2, <1>4, <2>1 DEF attested
    <3>2. PICK j \in 1..n : latest(events, j, m, n) /\ events[j].hash = committed[m]
      BY <1>0 DEF Anchoring, ChainIsLog
    <3>3. latest(events', j, m, i - 1) /\ events'[j].hash = committed[m] /\ j \in 1..(i - 1)
      <4>. HIDE DEF e
      <4>1. latest(events', j, m, n)
        BY <1>0, <1>1, <1>2, <3>2
      <4>2. i - 1 = n
        BY <1>1, <2>1
      <4>. QED
        BY <1>2, <3>2, <4>1, <4>2
    <3>4. /\ status'[m] = "verified" /\ committed'[m] = committed[m]
          /\ events'[i].hash = committed[m]
      BY <1>0, <1>2, <2>1 DEF Attest, EvidenceTypeOK
    <3>. QED
      BY <3>1, <3>3, <3>4
  <2>2. CASE i # n + 1
    <3>1. i \in 1..n /\ attested(events, i, b)
      BY <1>1, <1>2, <1>4, <2>2 DEF attested
    <3>2. PICK j \in 1..(i - 1) : latest(events, j, b, i - 1) /\ events[j].hash = events[i].hash
      BY <3>1 DEF Anchoring, ChainIsLog
    <3>3. status[b] = "verified" /\ events[i].hash = committed[b]
      BY <3>1 DEF Anchoring, ChainIsLog
    <3>4. status'[b] = "verified" /\ committed'[b] = committed[b]
      BY <3>3 DEF Attest, EvidenceTypeOK
    <3>. QED
      BY <1>1, <1>2, <3>1, <3>2, <3>3, <3>4
  <2>. QED
    BY <2>1, <2>2
<1>5. ChainIsLog'
  BY <1>1, <1>2, <1>3, <1>4 DEF ChainIsLog
<1>6. UNCHANGED <<readVars, objects>>
  BY DEF Attest
<1>. QED
  BY <1>1, <1>5, <1>6, AppendKeepsRows DEF Anchoring

LEMMA AnchoringIndex ==
  ASSUME EvidenceTypeOK, Anchoring, Index PROVE Anchoring'
<1>. DEFINE n == indexed
            e == events[n + 1]
<1>1. /\ n \in Nat /\ n + 1 \in 1..Len(events) /\ e \in Events /\ events' = events
      /\ indexed' = n + 1 /\ committed' = committed /\ status' = status
  BY DEF Index, EvidenceTypeOK, chainVars
<1>2. AnchoredByEvent'
  <2>. SUFFICES ASSUME NEW d \in Documents, objects'[d] # None, objects'[d].anchored
                PROVE  \E i \in 1..(n + 1) :
                         events[i].kind = "evidence_submitted" /\ events[i].hash = d
    BY <1>1 DEF AnchoredByEvent
  <2>1. CASE objects'[d] = objects[d]
    BY <1>1, <2>1 DEF Anchoring, AnchoredByEvent
  <2>2. CASE objects'[d] # objects[d]
    <3>1. e.kind = "evidence_submitted" /\ e.hash = d
      BY <2>2 DEF Index, EvidenceTypeOK
    <3>. QED
      BY <1>1, <3>1
  <2>. QED
    BY <2>1, <2>2
<1>3. ASSUME NEW m \in Milestones, e.milestone # m
      PROVE  /\ \A i \in 1..(n + 1) : latest(events, i, m, n + 1) => anchors'[m] = events[i].hash
             /\ rows'[m].hash = anchors'[m]
             /\ rows'[m].status = "verified" =>
                  \E i \in 1..(n + 1) : attested(events, i, m) /\ events[i].hash = rows'[m].hash
  <2>1. rows'[m] = rows[m] /\ anchors'[m] = anchors[m]
    BY <1>3 DEF Index, EvidenceTypeOK
  <2>2. ASSUME NEW i \in 1..(n + 1), latest(events, i, m, n + 1)
        PROVE  i \in 1..n /\ latest(events, i, m, n)
    BY <1>1, <1>3, <2>2 DEF latest, submitted
  <2>. QED
    BY <1>1, <2>1, <2>2 DEF Anchoring, RowsAreLog
<1>7. ChainIsLog'
  BY <1>1 DEF Anchoring, ChainIsLog
<1>4. CASE e.kind = "evidence_submitted"
  <2>. DEFINE m == e.milestone
  <2>1. m \in Milestones /\ rows'[m] = [hash |-> e.hash, status |-> "submitted"]
        /\ anchors'[m] = e.hash
    BY <1>1, <1>4 DEF Index, EvidenceTypeOK, Events
  <2>2. ASSUME NEW i \in 1..(n + 1), latest(events, i, m, n + 1) PROVE i = n + 1
    BY <1>1, <1>4, <2>2 DEF latest, submitted
  <2>3. RowsAreLog'
    BY <1>1, <1>3, <2>1, <2>2 DEF RowsAreLog
  <2>. QED
    BY <1>2, <1>7, <2>3 DEF Anchoring
<1>5. CASE e.kind # "evidence_submitted"
  <2>. DEFINE m == e.milestone
  <2>1. m \in Milestones /\ rows'[m] = [hash |-> e.hash, status |-> "verified"]
        /\ anchors'[m] = anchors[m] /\ attested(events, n + 1, m)
    BY <1>1, <1>5 DEF Index, EvidenceTypeOK, Events, attested
  <2>2. PICK j \in 1..n : latest(events, j, m, n) /\ events[j].hash = e.hash
    BY <1>1, <2>1 DEF Anchoring, ChainIsLog
  <2>3. anchors[m] = e.hash
    BY <2>1, <2>2 DEF Anchoring, RowsAreLog
  <2>4. ASSUME NEW i \in 1..(n + 1), latest(events, i, m, n + 1)
        PROVE  i \in 1..n /\ latest(events, i, m, n)
    BY <1>1, <1>5, <2>4 DEF latest, submitted
  <2>5. \A i \in 1..(n + 1) : latest(events, i, m, n + 1) => anchors'[m] = events[i].hash
    BY <2>1, <2>4 DEF Anchoring, RowsAreLog
  <2>6. rows'[m].status = "verified" =>
          \E i \in 1..(n + 1) : attested(events, i, m) /\ events[i].hash = rows'[m].hash
    BY <1>1, <2>1
  <2>7. RowsAreLog'
    <3>. SUFFICES ASSUME NEW b \in Milestones
                  PROVE  /\ \A i \in 1..(n + 1) :
                              latest(events, i, b, n + 1) => anchors'[b] = events[i].hash
                         /\ rows'[b].hash = anchors'[b]
                         /\ rows'[b].status = "verified" =>
                              \E i \in 1..(n + 1) :
                                attested(events, i, b) /\ events[i].hash = rows'[b].hash
      BY <1>1 DEF RowsAreLog
    <3>1. CASE b = m
      BY <2>1, <2>3, <2>5, <2>6, <3>1
    <3>2. CASE b # m
      BY <1>3, <3>2
    <3>. QED
      BY <3>1, <3>2
  <2>. QED
    BY <1>2, <1>7, <2>7 DEF Anchoring
<1>. QED
  BY <1>4, <1>5

LEMMA AnchoringReset == ASSUME Anchoring, Reset PROVE Anchoring'
<1>1. AnchoredByEvent'
  BY DEF Reset, AnchoredByEvent, chainVars
<1>2. RowsAreLog' /\ ChainIsLog'
  BY DEF Anchoring, Reset, RowsAreLog, ChainIsLog, chainVars, Nothing
<1>. QED
  BY <1>1, <1>2 DEF Anchoring

LEMMA AnchoringServer == ASSUME EvidenceTypeOK, Anchoring, ServerNext PROVE Anchoring'
<1>1. UNCHANGED <<chainVars, readVars>>
  BY DEF ServerNext, Check, Put, Save, Answer, Lose
<1>2. ASSUME NEW d \in Documents, objects'[d] # None, objects'[d].anchored
      PROVE  objects[d] # None /\ objects[d].anchored
  <2>1. CASE objects' = objects
    BY <1>2, <2>1
  <2>2. ASSUME NEW c \in Clients, Save(c) PROVE objects[d] # None /\ objects[d].anchored
    BY <1>2, <2>2 DEF Save, metadata, EvidenceTypeOK
  <2>. QED
    BY <2>1, <2>2 DEF ServerNext, Check, Put, Answer, Lose
<1>3. AnchoredByEvent'
  BY <1>1, <1>2 DEF Anchoring, AnchoredByEvent, chainVars, readVars
<1>. QED
  BY <1>1, <1>3 DEF Anchoring, ChainIsLog, RowsAreLog, chainVars, readVars

LEMMA AnchoringNext == EvidenceTypeOK /\ Anchoring /\ [Next]_vars => Anchoring'
<1>. SUFFICES ASSUME EvidenceTypeOK, Anchoring, [Next]_vars PROVE Anchoring'
  OBVIOUS
<1>1. ASSUME UNCHANGED <<chainVars, readVars, objects>> PROVE Anchoring'
  BY <1>1 DEF Anchoring, AnchoredByEvent, ChainIsLog, RowsAreLog, chainVars, readVars
<1>2. ASSUME NEW m \in Suppliers, Commit(m) PROVE Anchoring'
  <2>1. m \in Milestones /\ supplier[m].signing \in Documents
    BY <1>2, EvidenceAssumption DEF EvidenceTypeOK, Commit, Digests, Forms
  <2>. QED
    BY <1>2, <2>1, AnchoringCommit DEF Commit
<1>3. CASE SupplierNext
  <2>1. ASSUME NEW m \in Suppliers, NEW d \in Documents, Choose(m, d) \/ Hashed(m, d)
        PROVE  Anchoring'
    BY <1>1, <2>1 DEF Choose, Hashed
  <2>2. ASSUME NEW m \in Suppliers, Send(m) \/ Decline(m) PROVE Anchoring'
    BY <1>1, <2>2 DEF Send, Decline
  <2>. QED
    BY <1>2, <1>3, <2>1, <2>2 DEF SupplierNext
<1>4. CASE AttestorNext
  <2>1. (\E m \in Attestors : Attest(m)) \/ UNCHANGED <<chainVars, readVars, objects>>
    BY <1>4 DEF AttestorNext, Reread, ClearCopy, Review, Verify, AttestFails, CheckCopy, CopyHashed
  <2>. QED
    BY <1>1, <2>1, AnchoringAttest
<1>5. ASSUME NEW d \in Documents, NEW m \in PostedFor, Post(d, m) PROVE Anchoring'
  BY <1>1, <1>5 DEF Post
<1>6. ASSUME NEW d \in Documents, NEW m \in Milestones, CommitElsewhere(m, d) PROVE Anchoring'
  BY <1>6, AnchoringCommit DEF CommitElsewhere
<1>7. CASE UNCHANGED vars
  BY <1>1, <1>7 DEF vars
<1>. QED
  BY <1>3, <1>4, <1>5, <1>6, <1>7, AnchoringServer, AnchoringIndex, AnchoringReset DEF Next

LEMMA AnchoringAlways == Spec => []Anchoring
BY AnchoringInit, AnchoringNext, EvidenceTypeCorrect, PTL DEF Spec

\* Only an indexed commitment marks a document as anchored, for any uploads,
\* replays and commitments in between; and what the page of a milestone names as
\* committed is among what it lists as soon as anybody has uploaded it.
THEOREM AnchoredListed == Spec => []AnchoredAndListed
<1>1. Anchoring => AnchoredByEvent
  BY DEF Anchoring
<1>2. EvidenceTypeOK /\ Anchoring => CommitmentListed
  BY DEF Anchoring, RowsAreLog, CommitmentListed, listed, EvidenceTypeOK, Views, Digests
<1>. QED
  BY <1>1, <1>2, AnchoringAlways, EvidenceTypeCorrect, PTL DEF AnchoredAndListed

\* Once a milestone reads as verified, the digest shown is the one on chain for
\* good.
THEOREM Frozen == Spec => []VerifiedIsFrozen
<1>1. EvidenceTypeOK /\ Anchoring => VerifiedIsFrozen
  <2>. SUFFICES ASSUME EvidenceTypeOK, Anchoring, NEW m \in Milestones,
                       rows[m].status = "verified"
                PROVE  rows[m].hash = committed[m]
    BY DEF VerifiedIsFrozen
  <2>1. PICK i \in 1..indexed : attested(events, i, m) /\ events[i].hash = rows[m].hash
    BY DEF Anchoring, RowsAreLog
  <2>2. i \in 1..Len(events)
    BY DEF EvidenceTypeOK
  <2>. QED
    BY <2>1, <2>2 DEF Anchoring, ChainIsLog
<1>. QED
  BY <1>1, AnchoringAlways, EvidenceTypeCorrect, PTL

-----------------------------------------------------------------------------
(* Transactions: types                                                      *)

Stage == TERMINAL \cup Underway \cup {"syncing"}
TxRecord == [stage : Stage, hash : 0 .. MaxRuns, failure : Failure]
RunRecord ==
  [at : Label, built : Address \cup {NoAddress}, requested : Address \cup {NoAddress},
   signer : Address \cup {NoAddress}, stage : Underway]
ChainRecord ==
  [status : {"none", "pending", "landed", "failed"}, ledger : Nat,
   source : Address \cup {NoAddress}, signer : Address \cup {NoAddress}]

LEMMA Records ==
  TransactionTypeOK <=>
    /\ freighter \in [account : Address, testnet : BOOLEAN]
    /\ view \in Address \cup {NoAddress}
    /\ tx \in TxRecord /\ runs \in [Run -> RunRecord] /\ chain \in [Run -> ChainRecord]
    /\ ledger \in Nat /\ scanned \in Nat
BY DEF TransactionTypeOK, TxRecord, RunRecord, ChainRecord, Stage

LEMMA RecordsNext ==
  TransactionTypeOK' <=>
    /\ freighter' \in [account : Address, testnet : BOOLEAN]
    /\ view' \in Address \cup {NoAddress}
    /\ tx' \in TxRecord /\ runs' \in [Run -> RunRecord] /\ chain' \in [Run -> ChainRecord]
    /\ ledger' \in Nat /\ scanned' \in Nat
BY DEF TransactionTypeOK, TxRecord, RunRecord, ChainRecord, Stage

\* What the reducer makes of a status is one.
LEMMA Reduced ==
  ASSUME NEW t \in TxRecord
  PROVE  /\ \A stage \in Underway, hash \in 0 .. MaxRuns : onStage(t, stage, hash) \in TxRecord
         /\ \A hash \in 0 .. MaxRuns : onConfirmed(t, hash) \in TxRecord
         /\ \A outcome \in {"synced", "sync-delayed"} : onOutcome(t, outcome) \in TxRecord
         /\ \A failure \in Failure : onFailed(t, failure) \in TxRecord
         /\ IDLE \in TxRecord /\ started \in TxRecord
<1>. USE DEF TxRecord, Stage, TERMINAL, Underway, Failure
<1>1. 0 \in 0 .. MaxRuns
  BY TransactionAssumption
<1>2. \A stage \in Underway, hash \in 0 .. MaxRuns : onStage(t, stage, hash) \in TxRecord
  BY DEF onStage
<1>3. \A hash \in 0 .. MaxRuns : onConfirmed(t, hash) \in TxRecord
  BY DEF onConfirmed
<1>4. \A outcome \in {"synced", "sync-delayed"} : onOutcome(t, outcome) \in TxRecord
  BY DEF onOutcome
<1>5. \A failure \in Failure : onFailed(t, failure) \in TxRecord
  BY DEF onFailed
<1>6. IDLE \in TxRecord /\ started \in TxRecord
  BY <1>1 DEF IDLE, started
<1>. QED
  BY <1>2, <1>3, <1>4, <1>5, <1>6

\* Every failure shown has a name.
LEMMA Classified ==
  ASSUME NEW error, NEW stage
  PROVE  classifyTxError(error, stage) \in Failure
BY DEF classifyTxError, Failure, TokenFailures, ContractRejection

\* Runs whose record of one run is replaced by another.
LEMMA RunReplaced ==
  ASSUME NEW table \in [Run -> RunRecord], NEW r \in Run, NEW row \in RunRecord
  PROVE  [table EXCEPT ![r] = row] \in [Run -> RunRecord]
OBVIOUS

\* A run that has returned: its locals are gone, the other runs are as they were.
LEMMA Returned ==
  ASSUME TransactionTypeOK, NEW r \in Run, NEW label \in Label, returns(r, label)
  PROVE  /\ runs' \in [Run -> RunRecord]
         /\ runs'[r].at = label /\ runs'[r].signer = NoAddress
         /\ \A s \in Run : s # r => runs'[s] = runs[s]
<1>. DEFINE row == [NotRun EXCEPT !.at = label]
<1>1. row \in RunRecord /\ row.at = label /\ row.signer = NoAddress
  BY DEF NotRun, RunRecord, Underway
<1>2. runs \in [Run -> RunRecord]
  BY Records
<1>3. runs' = [runs EXCEPT ![r] = row]
  BY DEF returns
<1>. HIDE DEF row
<1>. QED
  BY <1>1, <1>2, <1>3, RunReplaced

LEMMA ThrownTypes ==
  ASSUME TransactionTypeOK, NEW r \in Run, NEW error, throw(r, error)
  PROVE  tx' \in TxRecord /\ runs' \in [Run -> RunRecord]
<1>1. PICK failure \in Failure : tx' = onFailed(tx, failure)
  BY Classified DEF throw
<1>2. tx' \in TxRecord
  BY <1>1, Records, Reduced
<1>3. runs' \in [Run -> RunRecord]
  BY Returned DEF throw, Label
<1>. QED
  BY <1>2, <1>3

\* A run goes on, and the panel with it.
LEMMA StagedTypes ==
  ASSUME TransactionTypeOK, NEW r \in Run, NEW label \in Label, NEW stage \in Underway,
         NEW shown \in Underway, NEW hash \in 0 .. MaxRuns,
         runs' = [runs EXCEPT ![r].at = label, ![r].stage = stage],
         tx' = onStage(tx, shown, hash)
  PROVE  tx' \in TxRecord /\ runs' \in [Run -> RunRecord]
<1>1. tx' \in TxRecord
  BY Records, Reduced
<1>. DEFINE row == [runs[r] EXCEPT !.at = label, !.stage = stage]
<1>2. runs \in [Run -> RunRecord] /\ runs[r] \in RunRecord
  BY Records
<1>3. row \in RunRecord
  BY <1>2 DEF RunRecord
<1>4. runs' = [runs EXCEPT ![r] = row]
  BY <1>2
<1>5. runs' \in [Run -> RunRecord]
  BY <1>2, <1>3, <1>4, RunReplaced
<1>. QED
  BY <1>1, <1>5

LEMMA StartTypes ==
  ASSUME TransactionTypeOK, NEW r \in Run, NEW address \in Address \cup {NoAddress},
         start(r, address)
  PROVE  tx' \in TxRecord /\ runs' \in [Run -> RunRecord]
<1>1. started \in TxRecord /\ "not-connected" \in Failure
  BY Records, Reduced DEF Failure
<1>2. onFailed(started, "not-connected") \in TxRecord
  BY <1>1, Reduced
<1>3. CASE address = NoAddress
  BY <1>2, <1>3, Returned DEF start, Label
<1>4. CASE address # NoAddress
  <2>1. runs' \in [Run -> RunRecord]
    BY <1>4, Records DEF start, RunRecord, Label
  <2>. QED
    BY <1>1, <1>4, <2>1 DEF start
<1>. QED
  BY <1>3, <1>4

LEMMA StepTypes ==
  ASSUME TransactionTypeOK, NEW r \in Run, step(r)
  PROVE  TransactionTypeOK'
<1>. USE DEF unchangedAround
<1>1. SUFFICES /\ tx' \in TxRecord /\ runs' \in [Run -> RunRecord]
               /\ chain' \in [Run -> ChainRecord]
               /\ UNCHANGED <<freighter, view, ledger, scanned>>
  BY Records, RecordsNext
<1>2. /\ tx \in TxRecord /\ runs \in [Run -> RunRecord] /\ chain \in [Run -> ChainRecord]
      /\ freighter.account \in Address /\ view \in Address \cup {NoAddress}
      /\ r \in 0 .. MaxRuns /\ 0 \in 0 .. MaxRuns
  BY Records, TransactionAssumption DEF Run
<1>3. CASE holdingRead(r)
  <2>1. runs[r].built \in Address \cup {NoAddress}
    BY <1>2 DEF RunRecord
  <2>2. CASE start(r, runs[r].built)
    BY <1>2, <1>3, <2>1, <2>2, StartTypes DEF holdingRead
  <2>3. CASE returns(r, "done") /\ UNCHANGED tx
    BY <1>2, <1>3, <2>3, Returned DEF holdingRead, Label
  <2>. QED
    BY <1>3, <2>2, <2>3 DEF holdingRead
<1>4. CASE simulated(r)
  <2>1. ASSUME runs' = [runs EXCEPT ![r].at = "signing", ![r].stage = "awaiting-signature"],
               tx' = onStage(tx, "awaiting-signature", 0)
        PROVE  tx' \in TxRecord /\ runs' \in [Run -> RunRecord]
    BY <1>2, <2>1, StagedTypes DEF Label, Underway
  <2>. QED
    BY <1>2, <1>4, <2>1, ThrownTypes DEF simulated
<1>5. CASE signRaw(r)
  BY <1>2, <1>5, ThrownTypes DEF signRaw, RunRecord, Label
<1>6. CASE signChecks(r)
  BY <1>2, <1>6, ThrownTypes DEF signChecks, goes, RunRecord, Label
<1>7. CASE signTransaction(r)
  BY <1>2, <1>7, ThrownTypes DEF signTransaction, RunRecord, Label
<1>8. CASE send(r)
  <2>1. ASSUME runs' = [runs EXCEPT ![r].at = "confirming", ![r].stage = "submitted"],
               tx' = onStage(tx, "submitted", r)
        PROVE  tx' \in TxRecord /\ runs' \in [Run -> RunRecord]
    BY <1>2, <2>1, StagedTypes DEF Label, Underway
  <2>2. chain' \in [Run -> ChainRecord]
    <3>. DEFINE sent == [status |-> "pending", ledger |-> 0, source |-> runs[r].built,
                         signer |-> runs[r].signer]
    <3>1. sent \in ChainRecord
      BY <1>2 DEF ChainRecord, RunRecord
    <3>2. UNCHANGED chain \/ chain' = [chain EXCEPT ![r] = sent]
      BY <1>8 DEF send
    <3>. HIDE DEF sent
    <3>. QED
      BY <1>2, <3>1, <3>2
  <2>. QED
    BY <1>8, <2>1, <2>2, ThrownTypes DEF send
<1>9. CASE poll(r)
  <2>1. ASSUME runs' = [runs EXCEPT ![r].stage = "confirming"], tx' = onStage(tx, "confirming", 0)
        PROVE  tx' \in TxRecord /\ runs' \in [Run -> RunRecord]
    <3>1. onStage(tx, "confirming", 0) \in TxRecord
      BY <1>2, Reduced DEF Underway
    <3>. QED
      BY <1>2, <2>1, <3>1 DEF RunRecord, Underway
  <2>2. ASSUME goes(r, "waiting"), tx' = onConfirmed(tx, r)
        PROVE  tx' \in TxRecord /\ runs' \in [Run -> RunRecord]
    <3>1. onConfirmed(tx, r) \in TxRecord
      BY <1>2, Reduced
    <3>. QED
      BY <1>2, <2>2, <3>1 DEF goes, RunRecord, Label
  <2>. QED
    BY <1>2, <1>9, <2>1, <2>2, ThrownTypes DEF poll
<1>10. CASE waitForIndexer(r)
  BY <1>2, <1>10 DEF waitForIndexer, goes, RunRecord, Label
<1>11. CASE reread(r)
  BY <1>2, <1>11, Reduced, Returned DEF reread, Label
<1>. QED
  BY <1>3, <1>4, <1>5, <1>6, <1>7, <1>8, <1>9, <1>10, <1>11 DEF step

\* A ledger closes: what was pending may have landed or failed, nothing else moves.
LEMMA Closed ==
  ASSUME TransactionTypeOK, closeLedger
  PROVE  /\ UNCHANGED <<freighter, view, tx, runs, scanned>> /\ ledger' \in Nat
         /\ chain' \in [Run -> ChainRecord]
         /\ \A s \in Run :
              /\ chain'[s].source = chain[s].source /\ chain'[s].signer = chain[s].signer
              /\ chain[s].status # "pending" => chain'[s] = chain[s]
              /\ chain[s].status = "pending" => chain'[s].status # "none"
<1>1. chain \in [Run -> ChainRecord] /\ ledger \in Nat
  BY Records
<1>2. ledger' = ledger + 1 /\ UNCHANGED <<freighter, view, tx, runs, scanned>>
  BY Zenon DEF closeLedger
<1>3. PICK landing \in SUBSET {r \in Run : chain[r].status = "pending"},
           result \in {"landed", "failed"} :
        chain' = [r \in Run |-> IF r \in landing
                                THEN [chain[r] EXCEPT !.status = result, !.ledger = ledger']
                                ELSE chain[r]]
  BY Zenon DEF closeLedger
<1>4. ledger' \in Nat
  BY <1>1, <1>2
<1>5. \A s \in Run :
        IF s \in landing
        THEN /\ chain'[s] = [chain[s] EXCEPT !.status = result, !.ledger = ledger']
             /\ chain[s].status = "pending"
        ELSE chain'[s] = chain[s]
  BY <1>3
<1>6. \A s \in Run :
        /\ chain'[s] \in ChainRecord
        /\ chain'[s].source = chain[s].source /\ chain'[s].signer = chain[s].signer
        /\ chain[s].status # "pending" => chain'[s] = chain[s]
        /\ chain[s].status = "pending" => chain'[s].status # "none"
  <2>. SUFFICES ASSUME NEW s \in Run
                PROVE  /\ chain'[s] \in ChainRecord
                       /\ chain'[s].source = chain[s].source /\ chain'[s].signer = chain[s].signer
                       /\ chain[s].status # "pending" => chain'[s] = chain[s]
                       /\ chain[s].status = "pending" => chain'[s].status # "none"
    OBVIOUS
  <2>1. chain[s] \in ChainRecord
    BY <1>1
  <2>2. CASE s \in landing
    BY <1>3, <1>4, <1>5, <2>1, <2>2 DEF ChainRecord
  <2>3. CASE s \notin landing
    BY <1>5, <2>1, <2>3
  <2>. QED
    BY <2>2, <2>3
<1>7. chain' = [s \in Run |-> chain'[s]]
  BY <1>3
<1>. QED
  BY <1>2, <1>4, <1>6, <1>7

LEMMA WorldTypes ==
  ASSUME TransactionTypeOK, closeLedger \/ scan \/ switch \/ follow \/ UNCHANGED transactionVars
  PROVE  TransactionTypeOK'
<1>1. /\ chain \in [Run -> ChainRecord] /\ ledger \in Nat /\ scanned \in Nat
      /\ view \in Address \cup {NoAddress} /\ freighter \in [account : Address, testnet : BOOLEAN]
  BY Records
<1>2. /\ TransactionTypeOK' <=>
           /\ freighter' \in [account : Address, testnet : BOOLEAN]
           /\ view' \in Address \cup {NoAddress}
           /\ tx' \in TxRecord /\ runs' \in [Run -> RunRecord] /\ chain' \in [Run -> ChainRecord]
           /\ ledger' \in Nat /\ scanned' \in Nat
      /\ tx \in TxRecord /\ runs \in [Run -> RunRecord]
  BY Records, RecordsNext
<1>3. CASE closeLedger
  BY <1>1, <1>2, <1>3, Closed
<1>4. CASE scan \/ switch \/ follow
  BY <1>1, <1>2, <1>4 DEF scan, switch, follow
<1>5. CASE UNCHANGED transactionVars
  BY <1>1, <1>2, <1>5 DEF transactionVars
<1>. QED
  BY <1>3, <1>4, <1>5

LEMMA TypesKept ==
  ASSUME TransactionTypeOK, [TransactionNext]_transactionVars
  PROVE  TransactionTypeOK'
<1>1. ASSUME NEW r \in Run, click(r)
      PROVE  TransactionTypeOK'
  <2>1. tx' \in TxRecord /\ runs' \in [Run -> RunRecord]
    BY <1>1, Records, StartTypes DEF click, RunRecord, Label
  <2>. QED
    BY <1>1, <2>1, Records, RecordsNext DEF click, unchangedAround
<1>2. ASSUME reset
      PROVE  TransactionTypeOK'
  BY <1>2, Records, RecordsNext, Reduced DEF reset, unchangedAround
<1>. QED
  BY <1>1, <1>2, StepTypes, WorldTypes DEF TransactionNext

LEMMA TypesInit == TransactionInit => TransactionTypeOK
<1>1. IDLE \in TxRecord /\ NotRun \in RunRecord /\ NotSent \in ChainRecord /\ 0 \in Nat
  BY TransactionAssumption
     DEF IDLE, NotRun, NotSent, TxRecord, RunRecord, ChainRecord, Stage, TERMINAL, Underway, Label, Failure
<1>2. ASSUME TransactionInit
      PROVE  TransactionTypeOK
  <2>1. freighter \in [account : Address, testnet : BOOLEAN]
    BY <1>2 DEF TransactionInit
  <2>2. tx \in TxRecord /\ runs \in [Run -> RunRecord] /\ chain \in [Run -> ChainRecord]
    BY <1>1, <1>2 DEF TransactionInit
  <2>. QED
    BY <1>1, <1>2, <2>1, <2>2, Records DEF TransactionInit
<1>. QED
  BY <1>2

\* The panel's status, its runs and the chain keep their shapes.
THEOREM TransactionTypeCorrect == TransactionSpec => []TransactionTypeOK
<1>. QED
  BY TypesInit, TypesKept, PTL DEF TransactionSpec


-----------------------------------------------------------------------------
(* One transaction at a time                                                *)

\* Before the ledger took the transaction, and after.
Early == {"preparing", "signing", "checking", "prompt", "sending", "confirming"}
Late == {"waiting", "synced", "sync-delayed"}

\* One run at a time is on its way.
Alone == \A r, s \in Run : inFlight(r) /\ inFlight(s) => r = s

\* The panel shows the run that is on its way.
Shown ==
  /\ \A r \in Run :
       /\ runs[r].at \in Early => tx.stage \in Underway
       /\ runs[r].at \in Late =>
            tx.stage = "syncing" /\ tx.hash = r /\ chain[r].status = "landed"
       /\ waits(r, "synced") => chain[r].ledger <= scanned
  /\ isBusy(tx) => \E r \in Run : runs[r].at \in Early \cup Late

\* What it says of a run that is over.
SaysWhatIsFinal ==
  tx.stage \in Confirmed =>
    /\ tx.hash \in Run /\ chain[tx.hash].status = "landed"
    /\ tx.stage = "synced" => chain[tx.hash].ledger <= scanned

\* While no click came during another's balance check.
PanelInv == TransactionTypeOK /\ Alone /\ Shown /\ SaysWhatIsFinal

\* The one click that the disabled button does not stop.
ClickedTwice == \E r, s \in Run : waits(r, "holding") /\ clicks(s)

\* What may be shown once run r is over.
Final(r) ==
  /\ tx.stage \in TERMINAL
  /\ tx.stage \in Confirmed =>
       /\ tx.hash = r /\ chain[r].status = "landed"
       /\ tx.stage = "synced" => chain[r].ledger <= scanned

\* A step of the run on its way: it stays early, it is confirmed, or it ends.
Goes(r) ==
  /\ \A s \in Run : s # r => runs'[s] = runs[s] /\ chain'[s] = chain[s]
  /\ UNCHANGED scanned
  /\ \/ runs'[r].at \in Early /\ tx'.stage \in Underway
     \/ /\ runs'[r].at \in Late /\ tx'.stage = "syncing" /\ tx'.hash = r
        /\ chain'[r].status = "landed"
        /\ runs'[r].at = "synced" => chain'[r].ledger <= scanned
     \/ runs'[r].at \in {"done", "failed"} /\ Final(r)'
     \/ waits(r, "holding") /\ runs'[r].at = "done" /\ UNCHANGED <<tx, chain>>

LEMMA StageFacts ==
  /\ Underway \cap (TERMINAL \cup {"syncing"}) = {} /\ Underway \cap Confirmed = {}
  /\ "syncing" \notin TERMINAL /\ "failed" \notin Confirmed /\ "failed" \in TERMINAL
  /\ Early \cap Late = {} /\ \A label \in Early \cup Late \cup {"holding"} :
                               label \notin {"none", "done", "failed"}
  /\ Label = Early \cup Late \cup {"none", "holding", "done", "failed"}
BY DEF Underway, TERMINAL, Confirmed, Early, Late, Label

\* A failure ends the run, and the panel is not confirmed.
LEMMA ThrownGoes ==
  ASSUME TransactionTypeOK, NEW r \in Run, NEW error, throw(r, error),
         \A s \in Run : s # r => chain'[s] = chain[s], UNCHANGED scanned
  PROVE  Goes(r)
<1>1. PICK failure : tx' = onFailed(tx, failure)
  BY DEF throw
<1>2. tx \in TxRecord
  BY Records
<1>3. runs'[r].at = "failed" /\ \A s \in Run : s # r => runs'[s] = runs[s]
  BY Returned DEF throw, Label
<1>4. tx'.stage = "failed"
  BY <1>1, <1>2 DEF onFailed, TxRecord
<1>. QED
  BY <1>3, <1>4, StageFacts DEF Goes, Final

\* A run whose label changes, and nothing else of it.
LEMMA Relabelled ==
  ASSUME TransactionTypeOK, NEW r \in Run, NEW label, goes(r, label)
  PROVE  runs'[r].at = label /\ \A s \in Run : s # r => runs'[s] = runs[s]
<1>1. runs \in [Run -> RunRecord]
  BY Records
<1>. QED
  BY <1>1 DEF goes, RunRecord

LEMMA StartedGoes ==
  ASSUME TransactionTypeOK, NEW r \in Run, NEW address, start(r, address),
         UNCHANGED <<chain, scanned>>
  PROVE  Goes(r)
<1>1. runs \in [Run -> RunRecord]
  BY Records
<1>2. CASE address = NoAddress
  <2>1. runs'[r].at = "failed" /\ \A s \in Run : s # r => runs'[s] = runs[s]
    BY <1>2, Returned DEF start, Label
  <2>2. tx'.stage = "failed"
    BY <1>2 DEF start, onFailed, started, IDLE
  <2>. QED
    BY <2>1, <2>2, StageFacts DEF Goes, Final
<1>3. CASE address # NoAddress
  <2>1. runs'[r].at = "preparing" /\ \A s \in Run : s # r => runs'[s] = runs[s]
    BY <1>1, <1>3 DEF start, RunRecord
  <2>2. tx'.stage = "preparing"
    BY <1>3 DEF start, started, IDLE
  <2>. QED
    BY <2>1, <2>2 DEF Goes, Early, Underway
<1>. QED
  BY <1>2, <1>3

LEMMA StepGoes ==
  ASSUME PanelInv, NEW r \in Run, step(r)
  PROVE  inFlight(r) /\ Goes(r)
<1>. USE DEF unchangedAround, waits
<1>1. /\ tx \in TxRecord /\ runs \in [Run -> RunRecord] /\ chain \in [Run -> ChainRecord]
      /\ TransactionTypeOK
  BY Records DEF PanelInv
<1>2. /\ runs[r].at \in Early => tx.stage \in Underway
      /\ runs[r].at \in Late => tx.stage = "syncing" /\ tx.hash = r /\ chain[r].status = "landed"
      /\ runs[r].at = "synced" => chain[r].ledger <= scanned
  BY DEF PanelInv, Shown
<1>3. ASSUME NEW stage \in Underway, NEW hash, tx.stage \in Underway
      PROVE  onStage(tx, stage, hash).stage = stage
  BY <1>1, <1>3, StageFacts DEF onStage, TxRecord
<1>4. CASE holdingRead(r)
  <2>1. CASE start(r, runs[r].built)
    BY <1>1, <1>4, <2>1, StartedGoes DEF holdingRead, inFlight
  <2>2. CASE returns(r, "done") /\ UNCHANGED tx
    BY <1>1, <1>4, <2>2, Returned DEF holdingRead, inFlight, Goes, Label
  <2>. QED
    BY <1>4, <2>1, <2>2 DEF holdingRead
<1>5. CASE simulated(r)
  <2>1. ASSUME runs' = [runs EXCEPT ![r].at = "signing", ![r].stage = "awaiting-signature"],
               tx' = onStage(tx, "awaiting-signature", 0)
        PROVE  Goes(r)
    <3>1. runs'[r].at = "signing" /\ \A s \in Run : s # r => runs'[s] = runs[s]
      BY <1>1, <2>1 DEF RunRecord
    <3>2. tx'.stage = "awaiting-signature"
      BY <1>2, <1>3, <1>5, <2>1 DEF simulated, Early, Underway
    <3>. QED
      BY <1>5, <3>1, <3>2 DEF simulated, Goes, Early, Underway
  <2>. QED
    BY <1>1, <1>5, <2>1, ThrownGoes DEF simulated, inFlight
<1>6. CASE signRaw(r)
  <2>1. ASSUME runs' = [runs EXCEPT ![r].at = "checking", ![r].requested = view], UNCHANGED tx
        PROVE  Goes(r)
    <3>1. runs'[r].at = "checking" /\ \A s \in Run : s # r => runs'[s] = runs[s]
      BY <1>1, <2>1 DEF RunRecord
    <3>. QED
      BY <1>2, <1>6, <2>1, <3>1 DEF signRaw, Goes, Early
  <2>. QED
    BY <1>1, <1>6, <2>1, ThrownGoes DEF signRaw, inFlight
<1>7. CASE signChecks(r)
  <2>1. ASSUME goes(r, "prompt"), UNCHANGED tx
        PROVE  Goes(r)
    BY <1>1, <1>2, <1>7, <2>1, Relabelled DEF signChecks, Goes, Early
  <2>. QED
    BY <1>1, <1>7, <2>1, ThrownGoes DEF signChecks, inFlight
<1>8. CASE signTransaction(r)
  <2>1. ASSUME runs' = [runs EXCEPT ![r].at = "sending", ![r].signer = freighter.account],
               UNCHANGED tx
        PROVE  Goes(r)
    <3>1. runs'[r].at = "sending" /\ \A s \in Run : s # r => runs'[s] = runs[s]
      BY <1>1, <2>1 DEF RunRecord
    <3>. QED
      BY <1>2, <1>8, <2>1, <3>1 DEF signTransaction, Goes, Early
  <2>. QED
    BY <1>1, <1>8, <2>1, ThrownGoes DEF signTransaction, inFlight
<1>9. CASE send(r)
  <2>0. \A s \in Run : s # r => chain'[s] = chain[s]
    BY <1>1, <1>9 DEF send
  <2>1. ASSUME runs' = [runs EXCEPT ![r].at = "confirming", ![r].stage = "submitted"],
               tx' = onStage(tx, "submitted", r)
        PROVE  Goes(r)
    <3>1. runs'[r].at = "confirming" /\ \A s \in Run : s # r => runs'[s] = runs[s]
      BY <1>1, <2>1 DEF RunRecord
    <3>2. tx'.stage = "submitted"
      BY <1>2, <1>3, <1>9, <2>1 DEF send, Early, Underway
    <3>. QED
      BY <1>9, <2>0, <3>1, <3>2 DEF send, Goes, Early, Underway
  <2>. QED
    BY <1>1, <1>9, <2>0, <2>1, ThrownGoes DEF send, inFlight
<1>10. CASE poll(r)
  <2>1. ASSUME runs' = [runs EXCEPT ![r].stage = "confirming"], tx' = onStage(tx, "confirming", 0)
        PROVE  Goes(r)
    <3>1. runs'[r].at = "confirming" /\ \A s \in Run : s # r => runs'[s] = runs[s]
      BY <1>1, <1>10, <2>1 DEF poll, RunRecord
    <3>2. tx'.stage = "confirming"
      BY <1>2, <1>3, <1>10, <2>1 DEF poll, Early, Underway
    <3>. QED
      BY <1>10, <3>1, <3>2 DEF poll, Goes, Early, Underway
  <2>2. ASSUME chain[r].status = "landed", goes(r, "waiting"), tx' = onConfirmed(tx, r)
        PROVE  Goes(r)
    <3>1. tx'.stage = "syncing" /\ tx'.hash = r
      BY <1>1, <2>2 DEF onConfirmed, TxRecord
    <3>. QED
      BY <1>1, <1>10, <2>2, <3>1, Relabelled DEF poll, Goes, Late
  <2>. QED
    BY <1>1, <1>10, <2>1, <2>2, ThrownGoes DEF poll, inFlight
<1>11. CASE waitForIndexer(r)
  <2>1. tx.stage = "syncing" /\ tx.hash = r /\ chain[r].status = "landed"
    BY <1>2, <1>11 DEF waitForIndexer, Late
  <2>2. CASE scanned >= chain[r].ledger /\ goes(r, "synced")
    <3>1. chain[r].ledger \in Nat /\ scanned \in Nat
      BY <1>1, Records DEF ChainRecord
    <3>. QED
      BY <1>1, <1>11, <2>1, <2>2, <3>1, Relabelled DEF waitForIndexer, Goes, Late, inFlight
  <2>3. CASE goes(r, "sync-delayed")
    BY <1>1, <1>11, <2>1, <2>3, Relabelled DEF waitForIndexer, Goes, Late, inFlight
  <2>. QED
    BY <1>11, <2>2, <2>3 DEF waitForIndexer
<1>12. CASE reread(r)
  <2>1. PICK outcome \in {"synced", "sync-delayed"} :
          runs[r].at = outcome /\ tx' = onOutcome(tx, outcome)
    BY <1>12 DEF reread
  <2>2. tx.stage = "syncing" /\ tx.hash = r /\ chain[r].status = "landed"
    BY <1>2, <2>1 DEF Late
  <2>3. tx'.stage = outcome /\ tx'.hash = r
    BY <1>1, <2>1, <2>2 DEF onOutcome, TxRecord
  <2>4. Final(r)'
    BY <1>2, <1>12, <2>1, <2>2, <2>3 DEF reread, Final, TERMINAL
  <2>. QED
    BY <1>1, <1>12, <2>1, <2>4, Returned DEF reread, Goes, inFlight, Label
<1>. QED
  BY <1>4, <1>5, <1>6, <1>7, <1>8, <1>9, <1>10, <1>11, <1>12 DEF step

\* Such a step, by a run that is alone on its way or starts while none is.
LEMMA GoesSafely ==
  ASSUME PanelInv, TransactionTypeOK', NEW r \in Run, Goes(r),
         \A s \in Run : inFlight(s) => s = r
  PROVE  PanelInv'
<1>1. \A s \in Run : s # r => runs'[s] = runs[s] /\ chain'[s] = chain[s] /\ ~inFlight(s)
  BY DEF Goes
<1>2. runs'[r].at \in Early \cup Late \cup {"done", "failed"}
  BY DEF Goes
<1>4. Alone'
  BY <1>1 DEF Alone, inFlight
<1>5. Shown'
  <2>1. \A s \in Run : s # r => runs'[s].at \notin Early \cup Late
    BY <1>1 DEF inFlight, Early, Late
  <2>2. /\ runs'[r].at \in Early => tx'.stage \in Underway
        /\ runs'[r].at \in Late =>
             tx'.stage = "syncing" /\ tx'.hash = r /\ chain'[r].status = "landed"
        /\ runs'[r].at = "synced" => chain'[r].ledger <= scanned'
    BY StageFacts DEF Goes, Early, Late
  <2>3. isBusy(tx)' => \E s \in Run : runs'[s].at \in Early \cup Late
    <3>1. CASE UNCHANGED tx /\ waits(r, "holding")
      <4>1. \A s \in Run : runs[s].at \notin Early \cup Late
        BY <1>1, <3>1, StageFacts DEF inFlight, waits, Early, Late
      <4>. QED
        BY <3>1, <4>1 DEF PanelInv, Shown, isBusy
    <3>2. CASE runs'[r].at \in Early \cup Late
      BY <3>2
    <3>. QED
      BY <3>1, <3>2 DEF Goes, Final, isBusy
  <2>. QED
    BY <2>1, <2>2, <2>3 DEF Shown, waits, Late
<1>6. SaysWhatIsFinal'
  <2>1. CASE UNCHANGED <<tx, chain>>
    BY <2>1 DEF PanelInv, SaysWhatIsFinal, Goes
  <2>2. CASE Final(r)'
    BY <2>2 DEF Final, SaysWhatIsFinal
  <2>3. CASE tx'.stage \in Underway
    BY <2>3, StageFacts DEF SaysWhatIsFinal
  <2>4. CASE tx'.stage = "syncing" /\ tx'.hash = r /\ chain'[r].status = "landed"
    BY <2>4 DEF SaysWhatIsFinal
  <2>. QED
    BY <2>1, <2>2, <2>3, <2>4 DEF Goes
<1>. QED
  BY <1>4, <1>5, <1>6 DEF PanelInv


LEMMA ClickSafe ==
  ASSUME PanelInv, TransactionTypeOK', NEW r \in Run, click(r), ~ClickedTwice
  PROVE  PanelInv'
<1>. USE DEF unchangedAround
<1>1. runs'[r].at # "none"
  <2>1. runs \in [Run -> RunRecord] /\ TransactionTypeOK
    BY Records DEF PanelInv
  <2>2. CASE start(r, view)
    BY <2>1, <2>2, StartedGoes DEF click, Goes, Early, Late, waits
  <2>3. CASE runs' = [runs EXCEPT ![r].at = "holding", ![r].built = view]
    BY <2>1, <2>3 DEF RunRecord
  <2>. QED
    BY <2>2, <2>3 DEF click
\* Nobody awaits the balance, and the button is not disabled.
<1>2. \A s \in Run : ~inFlight(s)
  <2>1. \A s \in Run : ~waits(s, "holding")
    BY <1>1 DEF ClickedTwice, clicks, click
  <2>2. \A s \in Run : runs[s].at \notin Early \cup Late
    BY StageFacts DEF click, isBusy, PanelInv, Shown
  <2>3. \A s \in Run : runs[s].at \in Label
    BY Records DEF PanelInv, RunRecord
  <2>. QED
    BY <2>1, <2>2, <2>3, StageFacts DEF inFlight, waits
<1>3. CASE start(r, view)
  BY <1>2, <1>3, StartedGoes, GoesSafely DEF click, PanelInv
<1>4. CASE r \in AsksFirst /\ runs' = [runs EXCEPT ![r].at = "holding", ![r].built = view]
           /\ UNCHANGED tx
  <2>1. runs'[r].at = "holding" /\ \A s \in Run : s # r => runs'[s] = runs[s]
    <3>1. runs \in [Run -> RunRecord] /\ runs[r] \in RunRecord
      BY Records DEF PanelInv
    <3>2. runs' = [runs EXCEPT ![r] = [runs[r] EXCEPT !.at = "holding", !.built = view]]
      BY <1>4, <3>1
    <3>. QED
      BY <3>1, <3>2 DEF RunRecord
  <2>3. Alone'
    BY <1>2, <2>1 DEF Alone, inFlight
  <2>4. Shown'
    <3>1. \A s \in Run : runs'[s].at \in Early \cup Late \cup {"synced"} =>
            s # r /\ runs'[s].at = runs[s].at
      BY <2>1 DEF Early, Late
    <3>2. ~ isBusy(tx)' /\ UNCHANGED <<tx, chain, scanned>>
      BY <1>4 DEF click, isBusy
    <3>. QED
      BY <3>1, <3>2 DEF PanelInv, Shown, waits
  <2>. QED
    BY <1>4, <2>3, <2>4 DEF click, PanelInv, SaysWhatIsFinal
<1>. QED
  BY <1>3, <1>4 DEF click

LEMMA WorldSafe ==
  ASSUME PanelInv, TransactionTypeOK',
         reset \/ closeLedger \/ scan \/ switch \/ follow \/ UNCHANGED transactionVars
  PROVE  PanelInv'
<1>. USE DEF unchangedAround
<1>1. UNCHANGED runs
  BY DEF reset, closeLedger, scan, switch, follow, transactionVars
<1>2. Alone'
  BY <1>1 DEF PanelInv, Alone, inFlight
\* What landed stays, in its ledger, and the scan goes forward.
<1>3. /\ \A s \in Run : chain[s].status = "landed" =>
            chain'[s].status = "landed" /\ chain'[s].ledger = chain[s].ledger
      /\ scanned' >= scanned
  <2>1. chain \in [Run -> ChainRecord] /\ scanned \in Nat
    BY Records DEF PanelInv
  <2>. QED
    <3>1. CASE closeLedger
      BY <2>1, <3>1, Closed DEF PanelInv
    <3>. QED
      BY <2>1, <3>1 DEF reset, scan, switch, follow, transactionVars
<1>4. \A s \in Run : chain[s].status = "landed" /\ chain[s].ledger <= scanned =>
        chain'[s].ledger <= scanned'
  BY <1>3, Records, RecordsNext DEF PanelInv, ChainRecord
<1>5. CASE UNCHANGED tx
  <2>1. Shown'
    BY <1>1, <1>3, <1>4, <1>5 DEF PanelInv, Shown, waits, Late, isBusy
  <2>2. SaysWhatIsFinal'
    BY <1>3, <1>4, <1>5 DEF PanelInv, SaysWhatIsFinal
  <2>. QED
    BY <1>2, <2>1, <2>2 DEF PanelInv
<1>6. CASE reset
  <2>1. \A s \in Run : runs[s].at \notin Early \cup Late
    BY <1>6, StageFacts DEF reset, PanelInv, Shown
  <2>2. tx'.stage = "idle"
    BY <1>6 DEF reset, IDLE
  <2>3. Shown'
    BY <1>1, <2>1, <2>2 DEF Shown, waits, Early, Late, isBusy, TERMINAL
  <2>. QED
    BY <1>2, <2>2, <2>3 DEF PanelInv, SaysWhatIsFinal, Confirmed
<1>. QED
  BY <1>5, <1>6 DEF closeLedger, scan, switch, follow, transactionVars

LEMMA PanelStep ==
  ASSUME PanelInv, [TransactionNext]_transactionVars, ~ClickedTwice
  PROVE  PanelInv'
<1>1. TransactionTypeOK'
  BY TypesKept DEF PanelInv
<1>2. ASSUME NEW r \in Run, step(r)
      PROVE  PanelInv'
  <2>1. inFlight(r) /\ Goes(r)
    BY <1>2, StepGoes
  <2>2. \A s \in Run : inFlight(s) => s = r
    BY <2>1 DEF PanelInv, Alone
  <2>. QED
    BY <1>1, <2>1, <2>2, GoesSafely
<1>. QED
  BY <1>1, <1>2, ClickSafe, WorldSafe DEF TransactionNext

LEMMA PanelInvInit == TransactionInit => PanelInv
<1>1. ASSUME TransactionInit
      PROVE  Alone /\ Shown /\ SaysWhatIsFinal
  BY <1>1 DEF TransactionInit, NotRun, IDLE, Alone, Shown, SaysWhatIsFinal,
              waits, inFlight, Early, Late, Confirmed, isBusy, TERMINAL
<1>. QED
  BY <1>1, TypesInit DEF PanelInv

\* The history variable watches the steps and restricts none.
LEMMA PanelIsTransaction == PanelSpec => TransactionSpec
<1>1. [TransactionNext /\ remember]_panelVars => [TransactionNext]_transactionVars
  BY DEF panelVars
<1>. QED
  BY <1>1, PTL DEF PanelSpec, PanelInit, PanelNext, TransactionSpec

\* Until a click comes while another awaits the balance, the panel's one status
\* belongs to one transaction, and what it confirms has landed.
LEMMA PanelInvHolds == PanelSpec => [](overclicked \/ PanelInv)
<1>1. ASSUME overclicked \/ PanelInv, [TransactionNext /\ remember]_panelVars
      PROVE  (overclicked \/ PanelInv)'
  <2>1. [TransactionNext]_transactionVars
    BY <1>1 DEF panelVars
  <2>2. CASE UNCHANGED panelVars
    <3>1. UNCHANGED transactionVars /\ UNCHANGED overclicked
      BY <2>2 DEF panelVars
    <3>2. CASE overclicked
      BY <3>1, <3>2
    <3>3. CASE PanelInv
      BY <3>1, <3>3, TypesKept, WorldSafe DEF PanelInv
    <3>. QED
      BY <1>1, <3>2, <3>3
  <2>3. CASE remember
    <3>1. overclicked' = (overclicked \/ ClickedTwice)
      BY <2>3 DEF remember, ClickedTwice
    <3>2. CASE overclicked \/ ClickedTwice
      BY <3>1, <3>2
    <3>3. CASE PanelInv /\ ~ClickedTwice
      BY <2>1, <3>3, PanelStep
    <3>. QED
      BY <1>1, <3>2, <3>3
  <2>. QED
    BY <1>1, <2>2, <2>3
<1>2. PanelSpec => TransactionInit
  BY DEF PanelSpec, PanelInit, PanelNext
<1>. QED
  BY <1>1, <1>2, PanelInvInit, PTL DEF PanelSpec, PanelInit, PanelNext

-----------------------------------------------------------------------------
(* What is confirmed has landed, however often the panel is clicked         *)

Unsent == {"none", "holding", "preparing", "signing", "checking", "prompt", "sending"}

\* Nothing is sent before it is signed, a run waits for the indexer once its
\* transaction landed, and the panel says Confirmed of such a transaction.
Landed ==
  /\ \A r \in Run :
       /\ runs[r].at \in Unsent => chain[r].status = "none"
       /\ runs[r].at \in Late => chain[r].status = "landed"
  /\ tx.stage \in Confirmed => tx.hash \in Run /\ chain[tx.hash].status = "landed"

\* What the panel says Confirmed of is not replaced.
SaysNoMore == tx'.stage \in Confirmed => tx.stage \in Confirmed /\ tx'.hash = tx.hash

Advances(r) ==
  /\ \A s \in Run : s # r => runs'[s] = runs[s] /\ chain'[s] = chain[s]
  /\ runs'[r].at \in Unsent => chain'[r].status = "none"
  /\ runs'[r].at \in Late => chain'[r].status = "landed"
  /\ chain[r].status = "landed" => chain'[r].status = "landed"
  /\ SaysNoMore \/ (tx'.hash = r /\ chain'[r].status = "landed")

LEMMA AdvancesLanded ==
  ASSUME Landed, NEW r \in Run, Advances(r)
  PROVE  Landed'
<1>1. \A s \in Run : chain[s].status = "landed" => chain'[s].status = "landed"
  BY DEF Advances
<1>2. \A s \in Run : /\ runs'[s].at \in Unsent => chain'[s].status = "none"
                     /\ runs'[s].at \in Late => chain'[s].status = "landed"
  BY DEF Advances, Landed
<1>3. tx'.stage \in Confirmed => tx'.hash \in Run /\ chain'[tx'.hash].status = "landed"
  BY <1>1 DEF Advances, Landed, SaysNoMore
<1>. QED
  BY <1>2, <1>3 DEF Landed

LEMMA SaidBefore ==
  ASSUME TransactionTypeOK
  PROVE  /\ \A stage \in Underway : \A hash : tx' = onStage(tx, stage, hash) => SaysNoMore
         /\ \A outcome : tx' = onOutcome(tx, outcome) => SaysNoMore
         /\ \A failure : tx' = onFailed(tx, failure) => SaysNoMore
         /\ \A failure : tx' = onFailed(started, failure) => SaysNoMore
         /\ tx' \in {tx, started, IDLE} => SaysNoMore
<1>1. tx \in TxRecord
  BY Records
<1>2. \A stage \in Underway : \A hash : tx' = onStage(tx, stage, hash) => SaysNoMore
  BY <1>1 DEF onStage, SaysNoMore, TxRecord, Confirmed, Underway
<1>3. \A outcome : tx' = onOutcome(tx, outcome) => SaysNoMore
  BY <1>1 DEF onOutcome, SaysNoMore, TxRecord, Confirmed
<1>4. \A failure : /\ tx' = onFailed(tx, failure) => SaysNoMore
                   /\ tx' = onFailed(started, failure) => SaysNoMore
  BY <1>1 DEF onFailed, started, IDLE, SaysNoMore, TxRecord, Confirmed
<1>5. tx' \in {tx, started, IDLE} => SaysNoMore
  BY DEF started, IDLE, SaysNoMore, Confirmed
<1>. QED
  BY <1>2, <1>3, <1>4, <1>5

\* Whatever is thrown, while what is sent of the run has not landed or stays.
LEMMA ThrownAdvances ==
  ASSUME TransactionTypeOK, NEW r \in Run, NEW error, throw(r, error),
         \A s \in Run : s # r => chain'[s] = chain[s],
         chain[r].status = "landed" => chain'[r].status = "landed"
  PROVE  Advances(r)
<1>1. runs'[r].at = "failed" /\ \A s \in Run : s # r => runs'[s] = runs[s]
  BY Returned DEF throw, Label
<1>2. SaysNoMore
  BY SaidBefore DEF throw
<1>. QED
  BY <1>1, <1>2 DEF Advances, Unsent, Late

LEMMA StartedAdvances ==
  ASSUME TransactionTypeOK, Landed, NEW r \in Run, NEW address, start(r, address),
         UNCHANGED chain, runs[r].at \in Unsent
  PROVE  Advances(r)
<1>1. runs'[r].at \in {"failed", "preparing"} /\ \A s \in Run : s # r => runs'[s] = runs[s]
  <2>1. CASE address = NoAddress
    BY <2>1, Returned DEF start, Label
  <2>2. CASE address # NoAddress
    BY <2>2, Records DEF start, RunRecord
  <2>. QED
    BY <2>1, <2>2
<1>2. SaysNoMore
  BY SaidBefore DEF start
<1>. QED
  BY <1>1, <1>2 DEF Advances, Landed, Late

LEMMA StepAdvances ==
  ASSUME TransactionTypeOK, Landed, NEW r \in Run, step(r)
  PROVE  Advances(r)
<1>. USE DEF unchangedAround, waits
<1>1. /\ runs \in [Run -> RunRecord] /\ chain \in [Run -> ChainRecord] /\ tx \in TxRecord
      /\ runs[r].at \in Unsent => chain[r].status = "none"
      /\ runs[r].at \in Late => chain[r].status = "landed"
  BY Records DEF Landed
<1>2. CASE holdingRead(r)
  <2>1. CASE start(r, runs[r].built)
    BY <1>2, <2>1, StartedAdvances DEF holdingRead, Unsent
  <2>2. CASE returns(r, "done") /\ UNCHANGED tx
    BY <1>2, <2>2, Returned, SaidBefore DEF holdingRead, Advances, Label, Unsent, Late
  <2>. QED
    BY <1>2, <2>1, <2>2 DEF holdingRead
<1>3. CASE simulated(r)
  <2>1. ASSUME runs' = [runs EXCEPT ![r].at = "signing", ![r].stage = "awaiting-signature"],
               tx' = onStage(tx, "awaiting-signature", 0)
        PROVE  Advances(r)
    <3>1. runs'[r].at = "signing" /\ \A s \in Run : s # r => runs'[s] = runs[s]
      BY <1>1, <2>1 DEF RunRecord
    <3>2. SaysNoMore
      BY <2>1, SaidBefore DEF Underway
    <3>. QED
      BY <1>1, <1>3, <3>1, <3>2 DEF simulated, Advances, Unsent, Late
  <2>. QED
    BY <1>3, <2>1, ThrownAdvances DEF simulated
<1>4. CASE signRaw(r)
  <2>1. ASSUME runs' = [runs EXCEPT ![r].at = "checking", ![r].requested = view], UNCHANGED tx
        PROVE  Advances(r)
    <3>1. runs'[r].at = "checking" /\ \A s \in Run : s # r => runs'[s] = runs[s]
      BY <1>1, <2>1 DEF RunRecord
    <3>. QED
      BY <1>1, <1>4, <2>1, <3>1, SaidBefore DEF signRaw, Advances, Unsent, Late
  <2>. QED
    BY <1>4, <2>1, ThrownAdvances DEF signRaw
<1>5. CASE signChecks(r)
  <2>1. ASSUME goes(r, "prompt"), UNCHANGED tx
        PROVE  Advances(r)
    BY <1>1, <1>5, <2>1, Relabelled, SaidBefore DEF signChecks, Advances, Unsent, Late
  <2>. QED
    BY <1>5, <2>1, ThrownAdvances DEF signChecks
<1>6. CASE signTransaction(r)
  <2>1. ASSUME runs' = [runs EXCEPT ![r].at = "sending", ![r].signer = freighter.account],
               UNCHANGED tx
        PROVE  Advances(r)
    <3>1. runs'[r].at = "sending" /\ \A s \in Run : s # r => runs'[s] = runs[s]
      BY <1>1, <2>1 DEF RunRecord
    <3>. QED
      BY <1>1, <1>6, <2>1, <3>1, SaidBefore DEF signTransaction, Advances, Unsent, Late
  <2>. QED
    BY <1>6, <2>1, ThrownAdvances DEF signTransaction
<1>7. CASE send(r)
  <2>1. (\A s \in Run : s # r => chain'[s] = chain[s]) /\ chain[r].status = "none"
    BY <1>1, <1>7 DEF send, Unsent
  <2>2. ASSUME runs' = [runs EXCEPT ![r].at = "confirming", ![r].stage = "submitted"],
               tx' = onStage(tx, "submitted", r)
        PROVE  Advances(r)
    <3>1. runs'[r].at = "confirming" /\ \A s \in Run : s # r => runs'[s] = runs[s]
      BY <1>1, <2>2 DEF RunRecord
    <3>2. SaysNoMore
      BY <2>2, SaidBefore DEF Underway
    <3>. QED
      BY <2>1, <3>1, <3>2 DEF Advances, Unsent, Late
  <2>. QED
    BY <1>7, <2>1, <2>2, ThrownAdvances DEF send
<1>8. CASE poll(r)
  <2>1. ASSUME runs' = [runs EXCEPT ![r].stage = "confirming"], tx' = onStage(tx, "confirming", 0)
        PROVE  Advances(r)
    <3>1. runs'[r].at = "confirming" /\ \A s \in Run : s # r => runs'[s] = runs[s]
      BY <1>1, <1>8, <2>1 DEF poll, RunRecord
    <3>2. SaysNoMore
      BY <2>1, SaidBefore DEF Underway
    <3>. QED
      BY <1>8, <3>1, <3>2 DEF poll, Advances, Unsent, Late
  <2>2. ASSUME chain[r].status = "landed", goes(r, "waiting"), tx' = onConfirmed(tx, r)
        PROVE  Advances(r)
    <3>1. tx'.hash = r
      BY <1>1, <2>2 DEF onConfirmed, TxRecord
    <3>. QED
      BY <1>8, <2>2, <3>1, Relabelled DEF poll, Advances, Unsent, Late
  <2>. QED
    BY <1>8, <2>1, <2>2, ThrownAdvances DEF poll
<1>9. CASE waitForIndexer(r)
  BY <1>1, <1>9, Relabelled, SaidBefore DEF waitForIndexer, Advances, Unsent, Late
<1>10. CASE reread(r)
  <2>1. runs'[r].at = "done" /\ \A s \in Run : s # r => runs'[s] = runs[s]
    BY <1>10, Returned DEF reread, Label
  <2>2. SaysNoMore
    BY <1>10, SaidBefore DEF reread
  <2>. QED
    BY <1>10, <2>1, <2>2 DEF reread, Advances, Unsent, Late
<1>. QED
  BY <1>2, <1>3, <1>4, <1>5, <1>6, <1>7, <1>8, <1>9, <1>10 DEF step

LEMMA LandedKept ==
  ASSUME TransactionTypeOK, Landed, [TransactionNext]_transactionVars
  PROVE  Landed'
<1>. USE DEF unchangedAround
<1>1. ASSUME NEW r \in Run, click(r)
      PROVE  Landed'
  <2>1. CASE start(r, view)
    <3>1. Advances(r)
      BY <1>1, <2>1, StartedAdvances DEF click, waits, Unsent
    <3>. QED
      BY <3>1, AdvancesLanded
  <2>2. CASE runs' = [runs EXCEPT ![r].at = "holding", ![r].built = view] /\ UNCHANGED tx
    <3>1. runs'[r].at = "holding" /\ \A s \in Run : s # r => runs'[s] = runs[s]
      BY <2>2, Records DEF RunRecord
    <3>. QED
      BY <1>1, <2>2, <3>1 DEF click, Landed, waits, Unsent, Late
  <2>. QED
    BY <1>1, <2>1, <2>2 DEF click
<1>2. ASSUME NEW r \in Run, step(r)
      PROVE  Landed'
  BY <1>2, StepAdvances, AdvancesLanded
<1>3. ASSUME reset \/ closeLedger \/ scan \/ switch \/ follow \/ UNCHANGED transactionVars
      PROVE  Landed'
  <2>1. UNCHANGED runs
    BY <1>3 DEF reset, closeLedger, scan, switch, follow, transactionVars
  <2>2. \A s \in Run : /\ chain[s].status = "landed" => chain'[s].status = "landed"
                       /\ chain[s].status = "none" => chain'[s].status = "none"
    <3>1. CASE closeLedger
      BY <3>1, Closed
    <3>. QED
      BY <1>3, <3>1 DEF reset, scan, switch, follow, transactionVars
  <2>3. SaysNoMore
    BY <1>3, SaidBefore DEF reset, closeLedger, scan, switch, follow, transactionVars
  <2>. QED
    BY <2>1, <2>2, <2>3 DEF Landed, SaysNoMore
<1>. QED
  BY <1>1, <1>2, <1>3 DEF TransactionNext

LEMMA LandedAlways == TransactionSpec => []Landed
<1>1. TransactionInit => TransactionTypeOK /\ Landed
  <2>1. ASSUME TransactionInit
        PROVE  Landed
    BY <2>1 DEF TransactionInit, NotRun, NotSent, IDLE, Landed, Late, Confirmed
  <2>. QED
    BY <2>1, TypesInit
<1>2. TransactionTypeOK /\ Landed /\ [TransactionNext]_transactionVars =>
        (TransactionTypeOK /\ Landed)'
  BY TypesKept, LandedKept
<1>. QED
  BY <1>1, <1>2, PTL DEF TransactionSpec

-----------------------------------------------------------------------------
(* Signatures                                                               *)

Unsigned == {"none", "holding", "preparing", "signing", "checking", "prompt"}

\* What a run was built for, asked for and signed by, and what the ledger has of it.
RunSigned(r) ==
  /\ runs[r].at \in Unsigned => runs[r].signer = NoAddress
  /\ runs[r].signer # NoAddress => runs[r].signer = runs[r].requested
  /\ chain[r].status # "none" => chain[r].signer = chain[r].source

SigningInv == TransactionTypeOK /\ \A r \in Run : RunSigned(r)

\* A run that has returned holds no signature.
LEMMA ReturnedSigned ==
  ASSUME SigningInv, NEW r \in Run, NEW label \in {"done", "failed"}, returns(r, label),
         \A s \in Run : chain'[s] = chain[s] \/ chain'[s].signer = chain'[s].source
  PROVE  \A s \in Run : RunSigned(s)'
<1>1. /\ runs'[r].at = label /\ runs'[r].signer = NoAddress
      /\ \A s \in Run : s # r => runs'[s] = runs[s]
  BY Returned DEF SigningInv, Label
<1>. QED
  BY <1>1 DEF SigningInv, RunSigned, Unsigned

LEMMA StartedSigned ==
  ASSUME SigningInv, NEW r \in Run, NEW address, start(r, address), UNCHANGED chain,
         runs[r].at \in {"none", "holding"}
  PROVE  \A s \in Run : RunSigned(s)'
<1>1. runs \in [Run -> RunRecord]
  BY Records DEF SigningInv
<1>2. CASE address = NoAddress
  BY <1>2, ReturnedSigned DEF start
<1>3. CASE address # NoAddress
  <2>1. /\ runs'[r].signer = runs[r].signer /\ runs'[r].requested = runs[r].requested
        /\ \A s \in Run : s # r => runs'[s] = runs[s]
    BY <1>1, <1>3 DEF start, RunRecord
  <2>. QED
    BY <2>1 DEF SigningInv, RunSigned, Unsigned
<1>. QED
  BY <1>2, <1>3

\* A run that moves without changing whom it is for.
LEMMA MovedSigned ==
  ASSUME SigningInv, NEW r \in Run, UNCHANGED chain,
         runs'[r].signer = runs[r].signer, runs'[r].requested = runs[r].requested,
         \A s \in Run : s # r => runs'[s] = runs[s],
         runs'[r].at \in Unsigned => runs[r].at \in Unsigned
  PROVE  \A s \in Run : RunSigned(s)'
BY DEF SigningInv, RunSigned

LEMMA ThrownKeeps ==
  ASSUME SigningInv, NEW r \in Run, NEW error, throw(r, error), UNCHANGED chain
  PROVE  \A s \in Run : RunSigned(s)'
BY ReturnedSigned DEF throw

LEMMA RelabelledSigned ==
  ASSUME SigningInv, NEW r \in Run, NEW label, goes(r, label), UNCHANGED chain,
         label \in Unsigned => runs[r].at \in Unsigned
  PROVE  \A s \in Run : RunSigned(s)'
<1>1. runs \in [Run -> RunRecord]
  BY Records DEF SigningInv
<1>2. /\ runs'[r].at = label /\ runs'[r].signer = runs[r].signer
      /\ runs'[r].requested = runs[r].requested
      /\ \A s \in Run : s # r => runs'[s] = runs[s]
  BY <1>1 DEF goes, RunRecord
<1>. QED
  BY <1>2, MovedSigned

LEMMA StepSigned ==
  ASSUME SigningInv, NEW r \in Run, step(r)
  PROVE  \A s \in Run : RunSigned(s)'
<1>. USE DEF unchangedAround, waits
<1>1. runs \in [Run -> RunRecord] /\ chain \in [Run -> ChainRecord] /\ RunSigned(r)
      /\ freighter.account \in Address /\ NoAddress \notin Address
  BY Records, TransactionAssumption DEF SigningInv
<1>2. CASE holdingRead(r)
  BY <1>2, StartedSigned, ReturnedSigned DEF holdingRead
<1>3. CASE simulated(r)
  <2>1. ASSUME runs' = [runs EXCEPT ![r].at = "signing", ![r].stage = "awaiting-signature"]
        PROVE  /\ runs'[r].at = "signing" /\ runs'[r].signer = runs[r].signer
               /\ runs'[r].requested = runs[r].requested
               /\ \A s \in Run : s # r => runs'[s] = runs[s]
    BY <1>1, <2>1 DEF RunRecord
  <2>. QED
    BY <1>3, <2>1, MovedSigned, ThrownKeeps DEF simulated, Unsigned
<1>4. CASE signRaw(r)
  <2>1. ASSUME runs' = [runs EXCEPT ![r].at = "checking", ![r].requested = view]
        PROVE  /\ runs'[r].at = "checking" /\ runs'[r].signer = runs[r].signer
               /\ \A s \in Run : s # r => runs'[s] = runs[s]
    BY <1>1, <2>1 DEF RunRecord
  <2>2. ASSUME runs' = [runs EXCEPT ![r].at = "checking", ![r].requested = view]
        PROVE  \A s \in Run : RunSigned(s)'
    BY <1>1, <1>4, <2>1, <2>2 DEF signRaw, SigningInv, RunSigned, Unsigned
  <2>. QED
    BY <1>4, <2>2, ThrownKeeps DEF signRaw
<1>5. CASE signChecks(r)
  BY <1>5, RelabelledSigned, ThrownKeeps DEF signChecks, Unsigned
<1>6. CASE signTransaction(r)
  <2>1. ASSUME runs' = [runs EXCEPT ![r].at = "sending", ![r].signer = freighter.account],
               freighter.account = runs[r].requested
        PROVE  \A s \in Run : RunSigned(s)'
    <3>1. /\ runs'[r].at = "sending" /\ runs'[r].signer = freighter.account
          /\ runs'[r].requested = runs[r].requested
          /\ \A s \in Run : s # r => runs'[s] = runs[s]
      BY <1>1, <2>1 DEF RunRecord
    <3>. QED
      BY <1>1, <1>6, <2>1, <3>1 DEF signTransaction, SigningInv, RunSigned, Unsigned
  <2>. QED
    BY <1>6, <2>1, ThrownKeeps DEF signTransaction
<1>7. CASE send(r)
  <2>. DEFINE sent == [status |-> "pending", ledger |-> 0, source |-> runs[r].built,
                       signer |-> runs[r].signer]
  <2>1. ASSUME runs[r].signer = runs[r].built, chain' = [chain EXCEPT ![r] = sent]
        PROVE  \A s \in Run : chain'[s] = chain[s] \/ chain'[s].signer = chain'[s].source
    BY <1>1, <2>1
  <2>2. ASSUME runs[r].signer = runs[r].built, chain' = [chain EXCEPT ![r] = sent],
               throw(r, "fetch-failed")
        PROVE  \A s \in Run : RunSigned(s)'
    BY <2>1, <2>2, ReturnedSigned DEF throw
  <2>3. ASSUME runs[r].signer = runs[r].built, chain' = [chain EXCEPT ![r] = sent],
               runs' = [runs EXCEPT ![r].at = "confirming", ![r].stage = "submitted"]
        PROVE  \A s \in Run : RunSigned(s)'
    <3>1. /\ runs'[r].at = "confirming" /\ runs'[r].signer = runs[r].signer
          /\ runs'[r].requested = runs[r].requested
          /\ \A s \in Run : s # r => runs'[s] = runs[s]
      BY <1>1, <2>3 DEF RunRecord
    <3>2. \A s \in Run : chain'[s] = chain[s] \/ chain'[s].signer = chain'[s].source
      BY <2>1, <2>3
    <3>. HIDE DEF sent
    <3>. QED
      BY <3>1, <3>2 DEF SigningInv, RunSigned, Unsigned
  <2>. QED
    BY <1>7, <2>2, <2>3, ThrownKeeps DEF send
<1>8. CASE poll(r)
  <2>1. ASSUME runs' = [runs EXCEPT ![r].stage = "confirming"]
        PROVE  /\ runs'[r].at = runs[r].at /\ runs'[r].signer = runs[r].signer
               /\ runs'[r].requested = runs[r].requested
               /\ \A s \in Run : s # r => runs'[s] = runs[s]
    BY <1>1, <2>1 DEF RunRecord
  <2>. QED
    BY <1>8, <2>1, MovedSigned, RelabelledSigned, ThrownKeeps DEF poll, Unsigned
<1>9. CASE waitForIndexer(r)
  BY <1>9, RelabelledSigned DEF waitForIndexer, Unsigned
<1>10. CASE reread(r)
  BY <1>10, ReturnedSigned DEF reread
<1>. QED
  BY <1>2, <1>3, <1>4, <1>5, <1>6, <1>7, <1>8, <1>9, <1>10 DEF step

LEMMA SigningStep ==
  ASSUME SigningInv, [TransactionNext]_transactionVars
  PROVE  SigningInv'
<1>. USE DEF unchangedAround, waits
<1>1. runs \in [Run -> RunRecord] /\ chain \in [Run -> ChainRecord]
  BY Records DEF SigningInv
<1>2. ASSUME NEW r \in Run, click(r)
      PROVE  \A s \in Run : RunSigned(s)'
  <2>1. CASE runs' = [runs EXCEPT ![r].at = "holding", ![r].built = view]
    <3>1. /\ runs'[r].at = "holding" /\ runs'[r].signer = runs[r].signer
          /\ runs'[r].requested = runs[r].requested
          /\ \A s \in Run : s # r => runs'[s] = runs[s]
      BY <1>1, <2>1 DEF RunRecord
    <3>. QED
      BY <1>2, <3>1 DEF click, SigningInv, RunSigned, Unsigned
  <2>. QED
    BY <1>2, <2>1, StartedSigned DEF click
<1>3. ASSUME reset \/ closeLedger \/ scan \/ switch \/ follow \/ UNCHANGED transactionVars
      PROVE  \A s \in Run : RunSigned(s)'
  <2>1. UNCHANGED runs
    BY <1>3 DEF reset, closeLedger, scan, switch, follow, transactionVars
  <2>2. \A s \in Run : /\ chain'[s].status = "none" <=> chain[s].status = "none"
                       /\ chain'[s].source = chain[s].source /\ chain'[s].signer = chain[s].signer
    <3>1. CASE closeLedger
      BY <1>1, <3>1, Closed DEF SigningInv
    <3>. QED
      BY <1>1, <1>3, <3>1 DEF reset, scan, switch, follow, transactionVars
  <2>. QED
    BY <2>1, <2>2 DEF SigningInv, RunSigned
<1>. QED
  BY <1>2, <1>3, StepSigned, TypesKept DEF SigningInv, TransactionNext

\* Without any condition on the clicks, a signature is by the account that was
\* asked for and what the ledger took acts for the account the panel was drawn
\* for: "a stale phase can never produce a wrong signature" (signRaw).
THEOREM SignaturesRequested == TransactionSpec => []SignedAsRequested
<1>1. TransactionInit => SigningInv
  <2>. SUFFICES ASSUME TransactionInit PROVE \A r \in Run : RunSigned(r)
    BY TypesInit DEF SigningInv
  <2>. QED
    BY DEF TransactionInit, NotRun, NotSent, RunSigned
<1>2. SigningInv => SignedAsRequested
  BY DEF SigningInv, RunSigned, SignedAsRequested
<1>. QED
  BY <1>1, <1>2, SigningStep, PTL DEF TransactionSpec

\* Of every panel, those that read a balance first included: it says Confirmed of
\* what landed and signs as it was asked; and until a click comes while another
\* awaits the balance, it shows one transaction and says synced of what was scanned
\* (useContractTransaction, lifecycle.ts).
THEOREM PanelIsTruthful == PanelSpec => []PanelTruthful
<1>1. (overclicked \/ PanelInv) /\ Landed /\ SignedAsRequested => PanelTruthful
  <2>. SUFFICES ASSUME overclicked \/ PanelInv, Landed, SignedAsRequested
                PROVE  PanelTruthful
    OBVIOUS
  <2>1. OneRunAtATime
    BY DEF OneRunAtATime, PanelInv, Alone
  <2>2. ConfirmedIsFinal
    BY DEF ConfirmedIsFinal, PanelInv, SaysWhatIsFinal, Landed, Confirmed
  <2>. QED
    BY <2>1, <2>2 DEF PanelTruthful
<1>. QED
  BY <1>1, PanelInvHolds, PanelIsTransaction, LandedAlways, SignaturesRequested, PTL

-----------------------------------------------------------------------------
(* A final state is not taken back                                          *)

LEMMA FinishedStep ==
  ASSUME PanelInv, [TransactionNext]_transactionVars, tx.stage \in TERMINAL
  PROVE  tx' \in {tx, IDLE, started, onFailed(started, "not-connected")}
<1>. USE DEF unchangedAround
<1>1. ASSUME NEW r \in Run, step(r)
      PROVE  holdingRead(r)
  <2>1. runs[r].at \notin Early \cup Late
    BY StageFacts DEF PanelInv, Shown
  <2>. QED
    BY <1>1, <2>1 DEF step, simulated, signRaw, signChecks, signTransaction, send, poll,
                      waitForIndexer, reread, waits, Early, Late
<1>. QED
  BY <1>1 DEF TransactionNext, click, holdingRead, start, reset, closeLedger, scan, switch,
              follow, transactionVars

LEMMA ConfirmedStep ==
  ASSUME PanelInv, [TransactionNext]_transactionVars, tx.stage = "syncing"
  PROVE  tx'.stage \in Confirmed /\ tx'.hash = tx.hash
<1>. USE DEF unchangedAround
<1>0. tx \in TxRecord
  BY Records DEF PanelInv
<1>1. ASSUME NEW r \in Run, step(r)
      PROVE  tx'.stage \in Confirmed /\ tx'.hash = tx.hash
  <2>1. runs[r].at \notin Early
    BY StageFacts DEF PanelInv, Shown
  <2>2. ~holdingRead(r)
    BY StageFacts DEF PanelInv, Shown, isBusy, Alone, inFlight, holdingRead, waits,
                      Early, Late
  <2>3. CASE waitForIndexer(r)
    BY <2>3 DEF waitForIndexer, Confirmed
  <2>4. CASE reread(r)
    BY <1>0, <2>4 DEF reread, onOutcome, Confirmed, TxRecord
  <2>. QED
    BY <1>1, <2>1, <2>2, <2>3, <2>4
       DEF step, simulated, signRaw, signChecks, signTransaction, send, poll, waits, Early
<1>2. ASSUME NEW r \in Run, click(r)
      PROVE  FALSE
  BY <1>2, StageFacts DEF click, isBusy
<1>3. ASSUME reset PROVE FALSE
  BY <1>3, StageFacts DEF reset
<1>. QED
  BY <1>1, <1>2, <1>3
     DEF TransactionNext, closeLedger, scan, switch, follow, transactionVars, Confirmed

\* Until a click comes while another awaits the balance, a finished panel changes
\* by a click or a dismissal only, and a confirmed transaction is never reported as
\* failed ("late progress callbacks must not resurrect a finished transaction").
THEOREM PanelNeverTakesBack == PanelSpec => NeverTakenBack
<1>1. ASSUME overclicked \/ PanelInv, [TransactionNext /\ remember]_panelVars
      PROVE  /\ [tx.stage \in TERMINAL /\ ~overclicked =>
                   tx' \in {tx, IDLE, started, onFailed(started, "not-connected")}]_panelVars
             /\ [tx.stage = "syncing" /\ ~overclicked =>
                   tx'.stage \in Confirmed /\ tx'.hash = tx.hash]_panelVars
  <2>1. [TransactionNext]_transactionVars
    BY <1>1 DEF panelVars
  <2>. QED
    BY <1>1, <2>1, FinishedStep, ConfirmedStep
<1>2. PanelSpec => FinishedStays /\ ConfirmedNeverFails
  BY <1>1, PanelInvHolds, PTL DEF PanelSpec, PanelInit, PanelNext, FinishedStays, ConfirmedNeverFails
<1>. QED
  BY <1>2 DEF NeverTakenBack

=============================================================================
