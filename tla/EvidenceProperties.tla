------------------------- MODULE EvidenceProperties -------------------------
(***************************************************************************)
(* What a digest on chain, a document row and an attestation stand for.    *)
(***************************************************************************)
EXTENDS Evidence

\* Rows, requests, log and panels are what the code can hold.
Digests == Documents \cup {None}
Uploads == [document : Documents, milestone : Milestones \cup {None}, expected : Digests,
            step : {"check", "put", "save", "answer"}]
Events == [kind : {"evidence_submitted", "milestone_verified"}, milestone : Milestones,
           hash : Documents]
Views == [hash : Digests, status : {"open", "submitted", "verified"}]
Forms == [file : Digests, digest : Digests, hashing : SUBSET Documents, signing : Digests]
Reviews ==
  [view : Views, hashing : SUBSET [document : Documents, commitment : Digests],
   checked : {None, "match", "mismatch"}, copy : Digests, reviewed : BOOLEAN, signing : Digests]
EvidenceTypeOK ==
  /\ bytes \subseteq Documents
  /\ objects \in [Documents -> Row \cup {None}]
  /\ uploads \in [Clients -> Uploads \cup {None}]
  /\ committed \in [Milestones -> Digests]
  /\ status \in [Milestones -> {"open", "submitted", "verified"}]
  /\ events \in Seq(Events) /\ indexed \in 0..Len(events)
  /\ anchors \in [Milestones -> Digests] /\ rows \in [Milestones -> Views]
  /\ supplier \in [Suppliers -> Forms] /\ attestor \in [Attestors -> Reviews]

\* The panel never asks the wallet to commit a digest whose document the
\* backend does not hold, bytes and metadata, however files are swapped while
\* one is hashed and whatever fails on the way (SubmitEvidenceAction with
\* EvidenceController.complete).
SignedIsStored ==
  \A m \in Suppliers : supplier[m].signing # None =>
    supplier[m].signing \in bytes /\ objects[supplier[m].signing] # None

\* A metadata row never points at bytes that are not there, also when the
\* server dies between the two writes (complete).
RowHasBytes == \A d \in Documents : objects[d] # None => d \in bytes

\* No signature and no row without the document behind it.
DocumentBehind == SignedIsStored /\ RowHasBytes

\* "Only an indexed evidence_submitted event marks matching metadata as
\* anchored": an upload, a replay or somebody else's upload never does.
AnchoredByEvent ==
  \A d \in Documents : objects[d] # None /\ objects[d].anchored =>
    \E i \in 1..indexed : events[i].kind = "evidence_submitted" /\ events[i].hash = d

\* The page of a milestone lists the document its commitment names as soon as
\* somebody has uploaded it: for another milestone, or after the commitment
\* ("reusing a document for two milestones ... does not overwrite another
\* milestone's evidence view", getMilestoneEvidence).
CommitmentListed ==
  \A m \in Milestones : rows[m].hash # None /\ objects[rows[m].hash] # None =>
    rows[m].hash \in listed(m)

\* A document is shown as committed by its event, and wherever it was committed.
AnchoredAndListed == AnchoredByEvent /\ CommitmentListed

\* Once the read model shows a milestone as verified, the digest it shows is
\* the one the chain holds for good: no later commitment, signed before or
\* after the attestation, changes what was attested (invariant 18).
VerifiedIsFrozen ==
  \A m \in Milestones : rows[m].status = "verified" => rows[m].hash = committed[m]

-----------------------------------------------------------------------------
(* Statements of the documentation the code does not keep                   *)

\* lib.rs on attest_milestone: naming the digest keeps an attestation from
\* covering "a document nobody checked".  An attestor who checked a copy, and
\* whose panel says it is the committed document, attests that document.
AttestsWhatWasChecked ==
  [][\A m \in Attestors :
       status[m] = "submitted" /\ status'[m] = "verified" /\ attestor[m].checked = "match"
         => attestor[m].copy = committed[m]]_vars

\* API_READ_LAYER.md: "Evidence anchoring flags are rebuilt from chain events",
\* so the flag says whether an indexed event committed the document.
FlagsFromEvents ==
  \A d \in Documents : objects[d] # None =>
    (objects[d].anchored <=>
       \E i \in 1..indexed : events[i].kind = "evidence_submitted" /\ events[i].hash = d)

=============================================================================
