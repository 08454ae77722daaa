---------------------------- MODULE Endorsements ----------------------------
(***************************************************************************)
(* Where the endorsements of one verification come from.                   *)
(*                                                                         *)
(* Attestation::prepare_endorsements looks at the options and at the       *)
(* endorsements embedded in the attestation and returns the list of        *)
(* downloads it wants; Attestation::verify is later handed the list of     *)
(* answers and decides, from the options once more, which answer is what.  *)
(* Nothing but the position in the list ties an answer to its purpose, and *)
(* the two decisions are written separately, for SGX (also used for Open   *)
(* Enclave, which unpacks an SGX attestation and forwards both calls) and  *)
(* for SEV-SNP (also used for ACI, which adds UVM endorsements).           *)
(*                                                                         *)
(* Certificates are abstracted to the root their chain ends in; the        *)
(* signatures, TCB levels and UVM endorsements to whether they are right.  *)
(* An absent list of answers (std::nullopt) is the empty sequence:         *)
(* prepare_endorsements never returns an empty list, and verify treats     *)
(* both the same except where it dereferences the former.                  *)
(***************************************************************************)
EXTENDS Naturals, Sequences, FiniteSets

CONSTANTS
    Platforms,  \* the sources of attestations considered
    Vias,       \* how verify is reached, a subset of {"prepared", "direct"}
    Roots,      \* root certificates
    Vendor,     \* the manufacturer's root
    NoRoot,     \* no custom root certificate in the options
    Qualities   \* what a download may yield: "good", "empty", "junk", "failed"

ASSUME RootAssumption == Vendor \in Roots /\ NoRoot \notin Roots
ASSUME SubsetAssumption ==
    /\ Platforms \subseteq {"sgx", "oe", "snp", "aci"}
    /\ Vias \subseteq {"prepared", "direct"}
    /\ Qualities \subseteq {"good", "empty", "junk", "failed"}

VARIABLES
    att,        \* the attestation
    opts,       \* the options
    via,        \* through prepare_endorsements, or directly (the C API)
    phase,      \* "start", "download", "verify", "done"
    requests,   \* what prepare_endorsements returned
    responses,  \* what the HTTP client answered, in the order of requests
    material,   \* the endorsements verify settled on
    anchor,     \* the root of trust it put into the certificate store
    outcome     \* "none", "accepted", "rejected", "undefined"

vars == <<att, opts, via, phase, requests, responses, material, anchor, outcome>>

-----------------------------------------------------------------------------
(* Data. *)

\* An attestation: whether it carries endorsements, the root above its own
\* key, the root above the endorsements it carries, and what is wrong with it.
Attestation ==
    [platform : Platforms, embedded : BOOLEAN, root : Roots, eroot : Roots,
     fault : {"none", "signature", "format", "uvm"}]

\* fresh_endorsements, fresh_root_ca_certificate, root_ca_certificate,
\* the cache URL template, partial, check_root_certificate_manufacturer_key.
Options ==
    [fresh : BOOLEAN, freshRoot : BOOLEAN, root : Roots \cup {NoRoot},
     cache : BOOLEAN, partial : BOOLEAN, checkKey : BOOLEAN]

\* What a URL names.
Kinds == {"root", "root_crl", "tcb_info", "pck_crl", "qe_identity",
          "vcek", "chain", "cached_chain", "crl"}

\* A piece of material: absent, out of the attestation's endorsements, the
\* evidence or the options, or the answer to a request of some kind.
Item == [src : {"absent", "embedded", "evidence", "custom", "answer"},
         of : Kinds \cup {"none"}, quality : {"none", "good", "empty", "junk", "failed"}]
From(src) == [src |-> src, of |-> "none", quality |-> "none"]
Answer(kind, quality) == [src |-> "answer", of |-> kind, quality |-> quality]
Absent == From("absent")

Fields == {"root", "root_crl", "tcb_info", "pck_crl", "qe_identity",
           "certification_data", "vcek", "chain", "crl"}
Nothing == [f \in Fields |-> Absent]

SGX == att.platform \in {"sgx", "oe"}
CustomRoot == opts.root # NoRoot
\* All endorsements are downloaded, whatever the attestation carries.
Download == ~att.embedded \/ opts.fresh

\* The root a piece of material is rooted in. Downloads come from the
\* manufacturer.
RootOf(item) ==
    IF item.src = "embedded" THEN att.eroot
    ELSE IF item.src = "evidence" THEN att.root
    ELSE IF item.src = "custom" THEN opts.root
    ELSE Vendor

-----------------------------------------------------------------------------
(* prepare_endorsements. *)

RootRequest == IF CustomRoot THEN <<>> ELSE <<"root">>

\* Two downloads in the wrong order.
CollateralSwapped ==
    IF CustomRoot
    THEN <<"root_crl", "pck_crl", "tcb_info", "qe_identity">>
    ELSE <<"root", "root_crl", "pck_crl", "tcb_info", "qe_identity">>

\* download_collateral; with a cache template only the URLs differ.
DownloadCollateral ==
    IF CustomRoot
    THEN <<"root_crl", "tcb_info", "pck_crl", "qe_identity">>
    ELSE <<"root", "root_crl", "tcb_info", "pck_crl", "qe_identity">>

\* sgx::Attestation::prepare_endorsements
SGXRequests ==
    IF opts.partial \/ (~Download /\ ~opts.freshRoot) THEN <<>>
    ELSE IF ~Download THEN RootRequest
    ELSE DownloadCollateral

\* sev_snp::download_endorsements
DownloadEndorsements ==
    IF opts.cache THEN <<"cached_chain", "crl">> ELSE <<"vcek", "chain", "crl">>

\* The fresh root is forgotten when the other endorsements are embedded.
SNPRequestsNoRoot == IF Download THEN DownloadEndorsements ELSE <<>>

\* sev_snp::Attestation::prepare_endorsements
SNPRequests ==
    IF ~Download
      THEN IF ~CustomRoot /\ opts.freshRoot THEN <<"chain">> ELSE <<>>
      ELSE DownloadEndorsements

Wanted == IF SGX THEN SGXRequests ELSE SNPRequests

\* A format that prepare_endorsements rejects: SGX parses the quote only once
\* it knows that there is something to download.
PrepareThrows ==
    /\ att.fault = "format"
    /\ SGX => ~opts.partial /\ (Download \/ opts.freshRoot)

Prepare ==
    /\ phase = "start" /\ via = "prepared"
    /\ IF PrepareThrows
         THEN /\ phase' = "done" /\ outcome' = "rejected"
              /\ UNCHANGED requests
         ELSE /\ requests' = Wanted
              /\ phase' = IF requests' = <<>> THEN "verify" ELSE "download"
              /\ UNCHANGED outcome
    /\ UNCHANGED <<att, opts, via, responses, material, anchor>>

\* verify_attestation_json, verify_attestation_cbor: verify is called at once,
\* without responses.
VerifyDirectly ==
    /\ phase = "start" /\ via = "direct"
    /\ phase' = "verify"
    /\ UNCHANGED <<att, opts, via, requests, responses, material, anchor, outcome>>

\* Failed downloads are left out of the list.
RespondOnlySuccesses ==
    /\ phase = "download"
    /\ \E q \in [1 .. Len(requests) -> Qualities] :
           responses' =
             LET all == [i \in 1 .. Len(requests) |-> Answer(requests[i], q[i])]
             IN  SelectSeq(all, LAMBDA a : a.quality # "failed")
    /\ phase' = "verify"
    /\ UNCHANGED <<att, opts, via, requests, material, anchor, outcome>>

\* The HTTP client answers every request, in order (the clients' part of this
\* is modelled in CurlClient). "failed" is a status other than 200, with a
\* body that is no endorsement; "junk" a 200 with such a body, "empty" a 200
\* with none.
Respond ==
    /\ phase = "download"
    /\ \E q \in [1 .. Len(requests) -> Qualities] :
           responses' = [i \in 1 .. Len(requests) |-> Answer(requests[i], q[i])]
    /\ phase' = "verify"
    /\ UNCHANGED <<att, opts, via, requests, material, anchor, outcome>>

-----------------------------------------------------------------------------
(* verify: settling on the material. *)

\* The collateral embedded in an SGX attestation has no root certificate; the
\* certificates of the attestation's own key come with the quote.
EmbeddedCollateral ==
    [f \in Fields |->
        IF f = "certification_data" THEN From("evidence")
        ELSE IF att.embedded /\ f \in {"root_crl", "tcb_info", "pck_crl", "qe_identity"}
        THEN From("embedded")
        ELSE Absent]

ExpectedResponses ==
    (IF ~att.embedded \/ ~CustomRoot \/ opts.freshRoot THEN 1 ELSE 0)
        + (IF Download THEN 4 ELSE 0)

\* The order in which consume_url_responses expects the collateral.
Positions ==
    IF CustomRoot
    THEN <<"root_crl", "tcb_info", "pck_crl", "qe_identity">>
    ELSE <<"root", "root_crl", "tcb_info", "pck_crl", "qe_identity">>

\* The size of a full answer is misjudged by one.
TakenTooFew == IF Len(responses) > 5 THEN Positions ELSE RootRequest

\* What it takes from http_responses, in order: the root unless there is a
\* custom one, the rest only if there are more than four.
Taken == IF Len(responses) > 4 THEN Positions ELSE RootRequest

ConsumeThrows ==
    \/ Len(responses) # ExpectedResponses
    \/ \E i \in 1 .. Len(Taken) : responses[i].quality = "failed"

\* consume_url_responses
ConsumeUrlResponses ==
    [f \in Fields |->
        IF \E i \in 1 .. Len(Taken) : Taken[i] = f
        THEN responses[CHOOSE i \in 1 .. Len(Taken) : Taken[i] = f]
        ELSE EmbeddedCollateral[f]]

SGXThrows ==
    /\ ~opts.partial
    /\ \/ ~att.embedded /\ responses = <<>>
       \/ responses # <<>> /\ ConsumeThrows

\* Partial verification trusts the root of the certificates in the quote.
SGXMaterial ==
    IF opts.partial THEN [Nothing EXCEPT !["certification_data"] = From("evidence")]
    ELSE IF responses = <<>> THEN EmbeddedCollateral
    ELSE ConsumeUrlResponses

\* Missing endorsements, a list of the wrong size or a failed download.
SNPThrows ==
    IF Download
    THEN \/ Len(responses) # IF opts.cache THEN 2 ELSE 3
         \/ \E i \in 1 .. Len(responses) : responses[i].quality = "failed"
    ELSE opts.freshRoot /\ ~CustomRoot /\ Len(responses) # 1

\* *http_responses with no value.
SNPDereferencesNothing ==
    ~Download /\ opts.freshRoot /\ ~CustomRoot /\ responses = <<>>

\* Mutant: a fresh root replaces the custom one.
SNPMaterialFreshFirst ==
    IF ~Download THEN
       [Nothing EXCEPT
          !["vcek"] = From("embedded"), !["chain"] = From("embedded"),
          !["root"] = IF opts.freshRoot /\ responses # <<>> THEN responses[1]
                      ELSE IF CustomRoot /\ ~opts.freshRoot THEN From("custom") ELSE Absent]
    ELSE LET chain == IF opts.cache THEN 1 ELSE 2 IN
       [Nothing EXCEPT
          !["vcek"] = responses[1], !["chain"] = responses[chain],
          !["root"] = responses[chain], !["crl"] = responses[chain + 1]]

\* The custom root is overwritten by the last certificate of the downloaded
\* chain. Embedded endorsements come without a CRL.
SNPMaterial ==
    IF ~Download THEN
       [Nothing EXCEPT
          !["vcek"] = From("embedded"), !["chain"] = From("embedded"),
          !["root"] = IF CustomRoot THEN From("custom")
                      ELSE IF opts.freshRoot THEN responses[1] ELSE Absent]
    ELSE LET chain == IF opts.cache THEN 1 ELSE 2 IN
       [Nothing EXCEPT
          !["vcek"] = responses[1], !["chain"] = responses[chain],
          !["root"] = responses[chain], !["crl"] = responses[chain + 1]]

-----------------------------------------------------------------------------
(* verify: the checks on the material. *)

\* The kinds of document that can be parsed as a field, headers included.
KindsOf(f) ==
    IF ~SGX /\ Download /\ opts.cache
    THEN IF f = "crl" THEN {"crl"} ELSE {"cached_chain"}
    ELSE IF ~SGX /\ f = "root" THEN {"chain"} ELSE {f}

\* SGX keeps the downloaded root as a string and tests whether it is empty: an
\* answer 200 without a body counts as no root.
EmptyRoot(f, item) == SGX /\ f = "root" /\ item.quality = "empty"

\* A piece of material is absent or can be parsed as what it is taken for; an
\* empty document can not.
Parses(f, item) ==
    item.src = "answer" => \/ item.quality = "good" /\ item.of \in KindsOf(f)
                           \/ EmptyRoot(f, item)

\* There is a document in the field.
Given(m, f) == m[f] # Absent /\ ~EmptyRoot(f, m[f])

\* The root in the certificate store: the one settled on, or else the last
\* certificate of the issuer chain (trusted_root).
AnchorOf(m) ==
    IF Given(m, "root") THEN m["root"]
    ELSE IF ~SGX THEN m["chain"]
    ELSE IF opts.partial THEN m["certification_data"]
    ELSE m["pck_crl"]

\* Everything in use is rooted in the anchor, the attestation's key included;
\* it is the manufacturer's if that is to be checked; nothing else is wrong.
Accepts(m) ==
    LET root == RootOf(AnchorOf(m)) IN
    /\ \A f \in Fields : Parses(f, m[f])
    /\ \A f \in Fields : Given(m, f) => RootOf(m[f]) = root
    /\ att.root = root
    /\ opts.checkKey => root = Vendor
    /\ att.fault \notin {"signature"} \cup (IF SGX THEN {"format"} ELSE {})
                           \cup (IF att.platform = "aci" THEN {"uvm"} ELSE {})

\* The first access to responses that are not there: no exception, any outcome.
Undefined == ~SGX /\ SNPDereferencesNothing
Throws == IF SGX THEN SGXThrows ELSE SNPThrows
Material == IF SGX THEN SGXMaterial ELSE SNPMaterial

Verify ==
    /\ phase = "verify"
    /\ phase' = "done"
    /\ \/ /\ Undefined
          /\ outcome' = "undefined"
          /\ UNCHANGED <<material, anchor>>
       \/ /\ ~Undefined /\ Throws
          /\ outcome' = "rejected"
          /\ UNCHANGED <<material, anchor>>
       \/ /\ ~Undefined /\ ~Throws
          /\ material' = Material
          /\ anchor' = AnchorOf(Material)
          /\ outcome' = IF Accepts(Material) THEN "accepted" ELSE "rejected"
    /\ UNCHANGED <<att, opts, via, requests, responses>>

-----------------------------------------------------------------------------

Init ==
    /\ att \in Attestation
    /\ opts \in Options
    /\ via \in Vias
    /\ via = "direct" => ~opts.partial  \* ravl_options_t has no partial
    /\ phase = "start"
    /\ requests = <<>>
    /\ responses = <<>>
    /\ material = Nothing
    /\ anchor = Absent
    /\ outcome = "none"

Done == phase = "done" /\ UNCHANGED vars

Next == Prepare \/ VerifyDirectly \/ Respond \/ Verify \/ Done

Spec == Init /\ [][Next]_vars

-----------------------------------------------------------------------------
(* Properties. *)

\* The types of the variables; in particular a list of answers is as long as
\* the list of requests it answers.
TypeOK ==
    /\ att \in Attestation /\ opts \in Options /\ via \in Vias
    /\ phase \in {"start", "download", "verify", "done"}
    /\ requests \in Seq(Kinds) /\ responses \in Seq(Item)
    /\ responses = <<>> \/ Len(responses) = Len(requests)
    /\ material \in [Fields -> Item] /\ anchor \in Item
    /\ outcome \in {"none", "accepted", "rejected", "undefined"}

\* An attestation nothing is wrong with.
Genuine == att.root = Vendor /\ att.eroot = Vendor /\ att.fault = "none"

\* What prepare_endorsements asks for is what verify needs: for every platform
\* and every combination of options without a custom root, a genuine
\* attestation is accepted once all the downloads succeeded. Were the two lists
\* to disagree in length or order, for one combination of options only, the
\* attestation would be rejected.
PreparedIsEnough ==
    /\ phase = "done" /\ via = "prepared" /\ Genuine /\ ~CustomRoot
    /\ \A i \in 1 .. Len(responses) : responses[i].quality = "good"
    => outcome = "accepted"

\* If new endorsements were asked for, or none are embedded, a verification that
\* succeeded used no embedded ones; if a new root was asked for and the answer
\* has one, it is anchored in a downloaded root.
FreshUsed ==
    outcome = "accepted" /\ ~CustomRoot /\ ~(SGX /\ opts.partial) =>
        /\ Download => \A f \in Fields : material[f].src # "embedded"
        /\ opts.freshRoot /\ ~EmptyRoot("root", material["root"]) => anchor.src = "answer"

\* Fresh means fresh: whatever the platform, no verification that goes through
\* prepare_endorsements falls back on embedded endorsements, or on an embedded
\* root, when the options ask for new ones and no custom root is given. The one
\* exception is a download of the SGX root that answers 200 without a body.
FreshIsHonoured == via = "prepared" => FreshUsed

\* The answers that sev_snp's verify dereferences without a test are there
\* whenever prepare_endorsements was asked first.
AnswersPresent == via = "prepared" => outcome # "undefined"

\* A custom root certificate in the options is the anchor of a SEV-SNP or ACI
\* attestation verified with its embedded endorsements, by either way in and
\* whether or not a fresh root is asked for as well, and both the attestation's
\* key and the embedded chain are below it.
CustomRootIsAnchor ==
    outcome = "accepted" /\ CustomRoot /\ ~SGX /\ ~Download =>
        anchor.src = "custom" /\ att.root = opts.root /\ att.eroot = opts.root

\* What options.h says of root_ca_certificate, "overrides fresh_endorsements and
\* fresh_root_ca_certificate": with a custom root, a full verification succeeds
\* only for an attestation whose key is below that root.
CustomRootOverrides ==
    outcome = "accepted" /\ CustomRoot /\ ~opts.partial => att.root = opts.root
=============================================================================
