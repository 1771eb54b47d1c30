----------------------------- MODULE Documents -----------------------------
(***************************************************************************)
(* Documents and their versions, with the quotas of a project and of its   *)
(* organisation (src/document-store.js), and what rests on a document:     *)
(* contracts that are signed and valuations                                *)
(* (src/enterprise-finance-store.js).  Contracts and valuations are those  *)
(* of one project.                                                         *)
(***************************************************************************)
EXTENDS Nullable, Sequences

CONSTANTS
    Files,                          \* documents that may be made
    Sites, Home,                    \* projects of the organisation; the one of the contracts
    Sizes,                          \* sizes of uploads
    projectQuotaBytes, organizationQuotaBytes,
    maximumVersionsPerDocument,
    Contracts,                      \* contracts that may be made
    Parties,                        \* parties a contract may have
    Signatures,                     \* hashes of signatures
    ValuationKeys,                  \* idempotency keys
    Worths                          \* requests for a valuation

ASSUME DocumentAssumption ==
    /\ Home \in Sites /\ Sizes \subseteq Nat
    /\ {projectQuotaBytes, organizationQuotaBytes, maximumVersionsPerDocument}
           \subseteq Nat
    /\ IsFiniteSet(Files)
    /\ NULL \notin Files \cup Sites \cup Worths \cup Signatures
    /\ {"party", "pending"} \cap ({NULL} \cup Signatures) = {}

VARIABLES
    documents,   \* documents[d]: NoDocument, or its project, status and archived_at
    versions,    \* versions[d]: the sizes of its versions
    contracts,   \* contracts[c]: NoContract, or its status and document
    signatures,  \* signatures[c][p]: NULL before there is such a party, then
                 \* "party", "pending", or the hash it has signed with
    valuations   \* valuations[k]: the request recorded under the key, or NULL

documentVars == <<documents, versions, contracts, signatures, valuations>>

NoDocument == [project |-> NULL, status |-> "none", archived |-> FALSE, current |-> 0]
NoContract == [status |-> "none", document |-> NULL]

DocumentInit ==
    /\ documents = [d \in Files |-> NoDocument]
    /\ versions = [d \in Files |-> <<>>]
    /\ contracts = [c \in Contracts |-> NoContract]
    /\ signatures = [c \in Contracts |-> [p \in Parties |-> NULL]]
    /\ valuations = [k \in ValuationKeys |-> NULL]

-----------------------------------------------------------------------------
(* Documents.                                                              *)

CreateDocument(d, p, status) ==
    /\ documents[d] = NoDocument
    /\ documents' = [documents EXCEPT ![d] =
           [NoDocument EXCEPT !.project = p, !.status = status]]
    /\ UNCHANGED <<versions, contracts, signatures, valuations>>

PatchDocument(d, status, gone) ==
    /\ documents[d] # NoDocument
    /\ documents' = [documents EXCEPT ![d].status = status, ![d].archived = gone]
    /\ UNCHANGED <<versions, contracts, signatures, valuations>>

Bytes(ds) ==
    LET size(d) == IF versions[d] = <<>> THEN 0
                   ELSE SumFunctionOnSet(versions[d], DOMAIN versions[d])
    IN  SumFunctionOnSet([d \in Files |-> size(d)], ds)

InProject(p) == {d \in Files : documents[d].project = p}

\* Mutant: what is stored is measured before the upload, and not with it.
FitsBefore(d, size) ==
    /\ Bytes(InProject(documents[d].project)) < projectQuotaBytes
    /\ Bytes(Files) < organizationQuotaBytes
Fits(d, size) ==
    /\ Bytes(InProject(documents[d].project)) + size <= projectQuotaBytes
    /\ Bytes(Files) + size <= organizationQuotaBytes

\* Also of a document that is archived, or that a contract is being signed on.
AddVersion(d, size) ==
    /\ documents[d] # NoDocument
    /\ Len(versions[d]) < maximumVersionsPerDocument
    /\ Fits(d, size)
    /\ versions' = [versions EXCEPT ![d] = Append(@, size)]
    /\ documents' = [documents EXCEPT ![d].status = "active",
                                      ![d].current = Len(versions[d]) + 1]
    /\ UNCHANGED <<contracts, signatures, valuations>>

-----------------------------------------------------------------------------
(* Contracts.                                                              *)

PartiesOf(c) == {p \in Parties : signatures[c][p] # NULL}

\* A document that is archived, or has no version, will do.
CreateContract(c, d) ==
    /\ contracts[c] = NoContract
    /\ d # NULL => documents[d].project = Home
    /\ contracts' = [contracts EXCEPT ![c] = [status |-> "draft", document |-> d]]
    /\ UNCHANGED <<documents, versions, signatures, valuations>>

\* Mutant: parties are added while others are signing.
StillOpen(c) == contracts[c].status \in {"draft", "awaiting_signatures"}
\* No code sets the status review.
PartiesMayChange(c) == contracts[c].status = "draft"

AddContractParty(c, p) ==
    /\ PartiesMayChange(c)
    /\ signatures[c][p] = NULL
    /\ signatures' = [signatures EXCEPT ![c][p] = "party"]
    /\ UNCHANGED <<documents, versions, contracts, valuations>>

\* Asked for again, it changes nothing.
RequestContractSignatures(c) ==
    /\ contracts[c].status = "draft"
    /\ contracts[c].document # NULL
    /\ PartiesOf(c) # {}
    /\ contracts' = [contracts EXCEPT ![c].status = "awaiting_signatures"]
    /\ signatures' = [signatures EXCEPT ![c] =
           [p \in Parties |-> IF @[p] = NULL THEN NULL ELSE "pending"]]
    /\ UNCHANGED <<documents, versions, valuations>>

\* deriveContractStatus: nothing here declines or revokes a signature.
StatusOf(row) ==
    IF "pending" \in {row[p] : p \in Parties} THEN "awaiting_signatures" ELSE "active"

\* The same signature again changes nothing, another one is refused.
RecordManualSignature(c, p, hash) ==
    /\ contracts[c].status = "awaiting_signatures"
    /\ signatures[c][p] = "pending"
    /\ signatures' = [signatures EXCEPT ![c][p] = hash]
    /\ contracts' = [contracts EXCEPT ![c].status = StatusOf(signatures'[c])]
    /\ UNCHANGED <<documents, versions, valuations>>

-----------------------------------------------------------------------------
(* Valuations.                                                             *)

\* The request again is answered with what it recorded, another one refused.
CreateValuation(k, worth, d) ==
    /\ valuations[k] = NULL
    /\ d # NULL => documents[d].project = Home /\ ~documents[d].archived
    /\ valuations' = [valuations EXCEPT ![k] = worth]
    /\ UNCHANGED <<documents, versions, contracts, signatures>>

DocumentNext ==
    \/ \E d \in Files :
          \/ \E status \in {"draft", "active", "archived"} :
                \/ \E p \in Sites : CreateDocument(d, p, status)
                \/ \E gone \in BOOLEAN : PatchDocument(d, status, gone)
          \/ \E size \in Sizes : AddVersion(d, size)
    \/ \E c \in Contracts :
          \/ \E d \in Files \cup {NULL} : CreateContract(c, d)
          \/ \E p \in Parties :
                \/ AddContractParty(c, p)
                \/ \E hash \in Signatures : RecordManualSignature(c, p, hash)
          \/ RequestContractSignatures(c)
    \/ \E k \in ValuationKeys, worth \in Worths, d \in Files \cup {NULL} :
          CreateValuation(k, worth, d)

DocumentSpec == DocumentInit /\ [][DocumentNext]_documentVars

-----------------------------------------------------------------------------
(* Properties.                                                             *)

\* addVersion: through uploads to several documents of several projects no
\* quota is exceeded, and the newest version is the one the document names.
WithinQuota ==
    /\ \A p \in Sites : Bytes(InProject(p)) <= projectQuotaBytes
    /\ Bytes(Files) <= organizationQuotaBytes
    /\ \A d \in Files : documents[d].current = Len(versions[d])

\* requestContractSignatures and recordManualSignature: what is in force was
\* signed by everybody who is a party to it, and nobody signs before all of
\* them are known.
ActiveIsSigned ==
    \A c \in Contracts :
        /\ contracts[c].status = "active" =>
              /\ PartiesOf(c) # {}
              /\ \A p \in PartiesOf(c) : signatures[c][p] \in Signatures
        /\ (\E p \in Parties : signatures[c][p] \in Signatures) =>
              \A p \in PartiesOf(c) : signatures[c][p] # "party"

\* document-store and finance-store, what other records rely on: the quotas
\* hold, and a contract in force is one that all have signed.
DocumentsSound == WithinQuota /\ ActiveIsSigned
=============================================================================
