-------------------------- MODULE AttestationFormats --------------------------
(***************************************************************************)
(* An attestation object between the wire and verify: parse, string and    *)
(* CBOR conversion (attestation.cpp), the compression of the PCK           *)
(* certificate chain in the evidence (sgx_impl.h, oe_impl.h), and what     *)
(* Open Enclave evidence and endorsements are taken apart into, with the   *)
(* copy oe::Attestation keeps of it.                                       *)
(*                                                                         *)
(* Evidence is a sequence of cells, which stand for runs of bytes: the     *)
(* quote, its signature up to the certification data, the cells of each    *)
(* certificate in PEM or DER, and custom claims.  Certificates are         *)
(* numbered; DER takes fewer cells than PEM.  A custom claims buffer       *)
(* holds one claim, as oe_impl.h can read no second one.                   *)
(***************************************************************************)
EXTENDS Naturals, Sequences, Functions

CONSTANTS
  Sources,      \* sources that arrive
  NumCerts,     \* certificates in the PCK chain
  PemSize,      \* cells of a certificate in PEM ...
  DerSize,      \* ... and in DER
  ClaimSize,    \* cells of a custom claims buffer ...
  HeaderSize,   \* ... and of its header
  MaxSteps      \* bound on the calls of the application

KnownSources == {"sgx", "sevsnp", "openenclave", "aci"}

ASSUME FormatsAssumption ==
  /\ Sources \subseteq KnownSources \cup {"other"}
  /\ {NumCerts, PemSize, DerSize, ClaimSize, HeaderSize, MaxSteps} \subseteq Nat \ {0}
  /\ DerSize < PemSize /\ PemSize <= 2 * DerSize
  /\ HeaderSize <= ClaimSize

----------------------------------------------------------------------------
(***************************************************************************)
(* Evidence.                                                               *)
(***************************************************************************)
Encoding(form, size, n) ==
  [i \in 1 .. n * size |-> <<form, ((i - 1) \div size) + 1, ((i - 1) % size) + 1>>]

Pem(n) == Encoding("pem", PemSize, n)
Der(n) == Encoding("der", DerSize, n)

Claims == [i \in 1 .. ClaimSize |-> <<"claim", 0, i>>]
QuoteHead == <<<<"quote", 0, 0>>, <<"signature", 0, 0>>>>

Cells == {QuoteHead[1], QuoteHead[2]} \cup {<<"report", 0, 0>>}
           \cup Range(Pem(NumCerts)) \cup Range(Der(NumCerts)) \cup Range(Claims)

Quote(claims) ==
  [signature_len |-> 1 + NumCerts * PemSize, cd_size |-> NumCerts * PemSize,
   bytes |-> QuoteHead \o Pem(NumCerts) \o claims]

Report == [signature_len |-> 0, cd_size |-> 0, bytes |-> <<<<"report", 0, 0>>>>]

----------------------------------------------------------------------------
(***************************************************************************)
(* SGX: parse_quote and SignatureData.  The result is the number of        *)
(* certificates in the certification data, in PEM or DER.                  *)
(***************************************************************************)
CertificationData(ev) == SubSeq(ev.bytes, 3, 2 + ev.cd_size)

SignatureData(ev) ==
  {n \in 1 .. NumCerts :
     /\ Len(ev.bytes) >= 1 + ev.signature_len
     /\ ev.bytes[1] = QuoteHead[1]
     /\ 2 + ev.cd_size <= Len(ev.bytes)
     /\ CertificationData(ev) \in {Pem(n), Der(n)}}

(***************************************************************************)
(* SignatureData::compress_pck_certificate_chain writes DER over the       *)
(* certification data and returns by how much it shrank.  SignatureData    *)
(* has turned DER back into PEM, so that this is never 0.                  *)
(***************************************************************************)
Saved(n) == n * PemSize - n * DerSize

Rewritten(ev, n) ==
  [ev EXCEPT !.cd_size = Len(Der(n)),
             !.bytes = [i \in DOMAIN @ |->
                          IF i \in 3 .. 2 + Len(Der(n)) THEN Der(n)[i - 2] ELSE @[i]]]

\* Mutant: what was saved is added.
ShorterAdds(ev, n) ==
  IF Saved(n) < ev.signature_len THEN [ev EXCEPT !.signature_len = @ + Saved(n)] ELSE ev

Shorter(ev, n) ==
  IF Saved(n) < ev.signature_len THEN [ev EXCEPT !.signature_len = @ - Saved(n)] ELSE ev

Resize(ev, n, resize_evidence) ==
  IF resize_evidence THEN [ev EXCEPT !.bytes = SubSeq(@, 1, Len(@) - Saved(n))] ELSE ev

CompressSGX(ev, n, resize_evidence) ==
  Shorter(Resize(Rewritten(ev, n), n, resize_evidence), n)

\* Mutant: the custom claims stay where they are.
MoveNothing(ev, n) == ev.bytes

\* The Open Enclave claims are what follows the signature.
MoveClaims(ev, n) ==
  [i \in DOMAIN ev.bytes |->
     IF i \in (2 + ev.signature_len - Saved(n)) .. (Len(ev.bytes) - Saved(n))
     THEN ev.bytes[i + Saved(n)] ELSE ev.bytes[i]]

CompressOE(ev, n, resize_evidence) ==
  LET written == Rewritten(ev, n) IN
  IF Saved(n) >= ev.signature_len THEN written
  ELSE Resize(Shorter([written EXCEPT !.bytes = MoveClaims(written, n)], n), n, resize_evidence)

----------------------------------------------------------------------------
(***************************************************************************)
(* extract_sgx_attestation.  Open Enclave endorsements are a list of       *)
(* items, each known by what it holds; the SGX collateral is written in    *)
(* another order, which QL_QVE_Collateral reads.                           *)
(***************************************************************************)
OELayout ==
  <<"version", "tcb_info", "tcb_info_issuer_chain", "pck_crl", "root_ca_crl",
    "pck_crl_issuer_chain", "qe_identity", "qe_identity_issuer_chain", "datetime", "excess">>

\* The exceptions of verify: of an attestation that cannot be read, and of one
\* for which there are no endorsements.
Threw == [threw |-> "malformed"]
MissingEndorsements == [threw |-> "missing endorsements"]
Nothing == ""

\* Mutant: the two CRLs are taken for one another.
ItemCrlsSwapped(field) ==
  CASE field = "tcb_info" -> 2 [] field = "tcb_info_issuer_chain" -> 3
    [] field = "pck_crl" -> 5 [] field = "root_ca_crl" -> 4
    [] field = "pck_crl_issuer_chain" -> 6 [] field = "qe_identity" -> 7
    [] field = "qe_identity_issuer_chain" -> 8

\* The switch over the index of the item.
Item(field) ==
  CASE field = "tcb_info" -> 2 [] field = "tcb_info_issuer_chain" -> 3
    [] field = "pck_crl" -> 4 [] field = "root_ca_crl" -> 5
    [] field = "pck_crl_issuer_chain" -> 6 [] field = "qe_identity" -> 7
    [] field = "qe_identity_issuer_chain" -> 8

Scollateral(items) ==
  LET value(field) == IF Item(field) <= Len(items) THEN items[Item(field)] ELSE Nothing
  IN <<value("pck_crl_issuer_chain"), value("root_ca_crl"), value("pck_crl"),
       value("tcb_info_issuer_chain"), value("tcb_info"),
       value("qe_identity_issuer_chain"), value("qe_identity")>>

ItemsParse(items) == Len(items) <= 9 /\ (Len(items) >= 1 => items[1] = "version")

Extracts(att) ==
  Len(att.evidence.bytes) >= 1 /\ (att.endorsements # <<>> => ItemsParse(att.endorsements))

Extracted(att) ==
  LET ev == att.evidence
      cut == 1 + ev.signature_len
  IN [evidence |-> IF Len(ev.bytes) > cut THEN [ev EXCEPT !.bytes = SubSeq(@, 1, cut)] ELSE ev,
      endorsements |-> IF att.endorsements = <<>> THEN <<>> ELSE Scollateral(att.endorsements),
      claims |-> IF Len(ev.bytes) > cut THEN SubSeq(ev.bytes, cut + 1, Len(ev.bytes)) ELSE <<>>]

\* extract_custom_claims: a buffer is read from its start; one too short for a
\* header has no claims.
CustomClaims(cells) ==
  IF Len(cells) < HeaderSize THEN {<<>>}
  ELSE {c \in {Claims} : Len(cells) >= ClaimSize /\ SubSeq(cells, 1, ClaimSize) = c}

QL_QVE_Collateral(s) ==
  [pck_crl_issuer_chain |-> s[1], root_ca_crl |-> s[2], pck_crl |-> s[3],
   tcb_info_issuer_chain |-> s[4], tcb_info |-> s[5],
   qe_identity_issuer_chain |-> s[6], qe_identity |-> s[7]]

Collateral(s) == IF s = <<>> THEN Nothing ELSE QL_QVE_Collateral(s)

----------------------------------------------------------------------------
(***************************************************************************)
(* What verify makes of an attestation, before any cryptography.           *)
(* Endorsements may also come as HTTP responses.  Partial verification,    *)
(* which looks at no collateral, is left out.                              *)
(***************************************************************************)
LacksEndorsements(a, http_responses) == a.endorsements = <<>> /\ ~http_responses

SGXView(a, claims) ==
  IF SignatureData(a.evidence) = {} \/ claims = {} THEN Threw
  ELSE [certs |-> CHOOSE n \in SignatureData(a.evidence) : TRUE,
        collateral |-> Collateral(a.endorsements),
        claims |-> CHOOSE c \in claims : TRUE]

SNPView(a) ==
  IF a.source = "aci" /\ a.uvm_endorsements = Nothing THEN Threw
  ELSE [report |-> a.evidence.bytes, endorsements |-> a.endorsements,
        uvm_endorsements |-> a.uvm_endorsements]

----------------------------------------------------------------------------
VARIABLES
  arrived,      \* what the application got from the platform
  wire,         \* the last serialised attestation
  att,          \* the attestation object
  cache,        \* sgx_attestation and custom_claims of an Open Enclave object
  result,       \* what the last verify made of it
  compressed,   \* the compressions so far, with their resize_evidence
  parses,       \* number of parses so far
  steps

vars == <<arrived, wire, att, cache, result, compressed, parses, steps>>

None == [none |-> TRUE]

\* Endorsements as a platform makes them. What comes from a source that is not
\* known may be anything, also what an SGX platform makes.
Endorsements(source) ==
  CASE source = "openenclave" -> {SubSeq(OELayout, 1, n) : n \in {0, 6, 9, 10}}
    [] source \in {"sgx", "other"} -> {<<>>, Scollateral(OELayout)}
    [] OTHER -> {<<>>, <<"vcek_certificate_chain">>}

Evidences(source) ==
  CASE source \in {"sgx", "openenclave"} -> {Quote(<<>>), Quote(Claims)}
    [] source = "other" -> {Quote(<<>>), Quote(Claims), Report}
    [] OTHER -> {Report}

Arrivals ==
  UNION {[source : {s}, evidence : Evidences(s), endorsements : Endorsements(s),
          uvm_endorsements : IF s = "aci" THEN {"uvm"} ELSE {Nothing}] : s \in Sources}

----------------------------------------------------------------------------
(***************************************************************************)
(* attestation_json and parse.  JSON has the bytes in base64, CBOR as they *)
(* are.  Empty endorsements are left out, UVM endorsements always.         *)
(***************************************************************************)
Encoded(form, bytes) == [form |-> form, of |-> bytes]

AttestationJson(a, form) ==
  [source |-> a.source, evidence |-> Encoded(form, a.evidence),
   endorsements |-> IF a.endorsements = <<>> THEN None ELSE Encoded(form, a.endorsements),
   uvm_endorsements |-> None]

\* The platform's JSON names the UVM endorsements.
Received(a) ==
  [AttestationJson(a, "base64") EXCEPT
     !.uvm_endorsements = IF a.uvm_endorsements = Nothing THEN None
                          ELSE Encoded("base64", a.uvm_endorsements)]

Decoded(field, default) == IF field = None THEN default ELSE field.of

\* A source the JSON conversion of the enumeration does not know is its first.
SourceOf(name) == IF name \in KnownSources THEN name ELSE "sgx"

ParseAttestation(w) ==
  LET source == SourceOf(w.source) IN
  [source |-> source, evidence |-> w.evidence.of,
   endorsements |-> Decoded(w.endorsements, <<>>),
   uvm_endorsements |-> IF source = "aci" THEN Decoded(w.uvm_endorsements, Nothing) ELSE Nothing]

----------------------------------------------------------------------------
Init ==
  /\ arrived \in Arrivals
  /\ wire = Received(arrived)
  /\ att = None
  /\ cache = None
  /\ result = None
  /\ compressed = <<>>
  /\ parses = 0
  /\ steps = 0

Call == steps < MaxSteps /\ steps' = steps + 1 /\ UNCHANGED arrived

\* parse_attestation if form is "base64", parse_attestation_cbor if "bytes";
\* for the other form they throw.
Parse(form) ==
  /\ Call
  /\ wire.evidence.form = form
  /\ att' = ParseAttestation(wire)
  /\ cache' = None
  /\ parses' = parses + 1
  /\ UNCHANGED <<wire, result, compressed>>

Serialise(form) ==
  /\ Call
  /\ att # None
  /\ wire' = AttestationJson(att, form)
  /\ UNCHANGED <<att, cache, result, compressed, parses>>

\* Both functions throw, and change nothing, if SignatureData does.
Compress(resize_evidence) ==
  /\ Call
  /\ att # None
  /\ att.source \in {"sgx", "openenclave"}
  /\ \E n \in SignatureData(att.evidence) :
       att' = [att EXCEPT !.evidence = IF att.source = "sgx" THEN CompressSGX(@, n, resize_evidence)
                                       ELSE CompressOE(@, n, resize_evidence)]
  /\ compressed' = Append(compressed, resize_evidence)
  /\ UNCHANGED <<wire, cache, result, parses>>

\* oe::Attestation::prepare_endorsements always extracts anew.
Prepare ==
  /\ Call
  /\ att # None
  /\ att.source = "openenclave"
  /\ Extracts(att)
  /\ cache' = Extracted(att)
  /\ UNCHANGED <<wire, att, result, compressed, parses>>

OEView(kept) == SGXView(kept, CustomClaims(kept.claims))

VerifyOE(http_responses) ==
  /\ Call
  /\ att # None
  /\ att.source = "openenclave"
  /\ \/ /\ cache = None /\ att.endorsements = <<>>
        /\ result' = MissingEndorsements /\ UNCHANGED cache
     \/ /\ cache = None /\ att.endorsements # <<>> /\ ~Extracts(att)
        /\ result' = Threw /\ UNCHANGED cache
     \/ /\ cache # None \/ (att.endorsements # <<>> /\ Extracts(att))
        /\ cache' = IF cache = None THEN Extracted(att) ELSE cache
        /\ result' = IF LacksEndorsements(cache', http_responses) THEN MissingEndorsements
                     ELSE OEView(cache')
  /\ UNCHANGED <<wire, att, compressed, parses>>

Verify(http_responses) ==
  /\ Call
  /\ att # None
  /\ att.source # "openenclave"
  /\ result' = IF LacksEndorsements(att, http_responses) THEN MissingEndorsements
               ELSE IF att.source = "sgx" THEN SGXView(att, {<<>>})
               ELSE SNPView(att)
  /\ UNCHANGED <<wire, att, cache, compressed, parses>>

Next ==
  \/ \E form \in {"base64", "bytes"} : Parse(form) \/ Serialise(form)
  \/ \E resize_evidence \in BOOLEAN : Compress(resize_evidence)
  \/ \E http_responses \in BOOLEAN : VerifyOE(http_responses) \/ Verify(http_responses)
  \/ Prepare

Spec == Init /\ [][Next]_vars

----------------------------------------------------------------------------
Evidence ==
  [signature_len : 0 .. 1 + NumCerts * PemSize, cd_size : 0 .. NumCerts * PemSize,
   bytes : Seq(Cells)]

TypeOK ==
  /\ arrived \in Arrivals
  /\ wire.evidence.form \in {"base64", "bytes"} /\ wire.evidence.of \in Evidence
  /\ att # None => att.source \in KnownSources /\ att.evidence \in Evidence
  /\ cache # None => att.source = "openenclave" /\ cache.evidence \in Evidence
  /\ compressed \in Seq(BOOLEAN)
  /\ parses \in Nat /\ steps \in 0 .. MaxSteps

(***************************************************************************)
(* What the attestation says, read from what arrived.                      *)
(***************************************************************************)
Fields == DOMAIN QL_QVE_Collateral(Scollateral(OELayout))
ReadAs == SourceOf(arrived.source)

Original ==
  LET e == arrived.endorsements  has == Range(e) IN
  IF ReadAs \in {"sgx", "openenclave"}
  THEN [certs |-> NumCerts,
        collateral |-> IF e = <<>> THEN Nothing
                       ELSE [f \in Fields |-> IF f \in has THEN f ELSE Nothing],
        claims |-> IF ReadAs = "openenclave" /\ arrived.evidence = Quote(Claims)
                   THEN Claims ELSE <<>>]
  ELSE [report |-> Report.bytes, endorsements |-> e,
        uvm_endorsements |-> arrived.uvm_endorsements]

\* The evidence is what the source it is read as makes, and there are no more
\* endorsements than have a place.
Sound ==
  /\ ReadAs \in {"sgx", "openenclave"} => arrived.evidence # Report
  /\ Len(arrived.endorsements) <= 9

\* Where the library is known to lose something: a second compression; one
\* that does not resize Open Enclave evidence without custom claims; the
\* conversion of an ACI attestation.
Damaged ==
  \/ Len(compressed) > 1
  \/ /\ arrived.source = "openenclave" /\ arrived.evidence = Quote(<<>>)
     /\ \E i \in DOMAIN compressed : ~compressed[i]
  \/ arrived.source = "aci" /\ parses > 1

(***************************************************************************)
(* Whatever an application does with an attestation (send it on as JSON or *)
(* CBOR, compress it, verify it before and after, with or without HTTP     *)
(* responses), verify sees the certificates, each piece of collateral in   *)
(* its own place, and the custom claims that arrived, and misses           *)
(* endorsements only if none arrived; and it throws for evidence that is   *)
(* not what its source is read as, and for endorsements without a place.   *)
(***************************************************************************)
VerifiesOriginal ==
  result # None =>
    /\ ~Sound => result \in {Threw, MissingEndorsements}
    /\ Sound /\ ~Damaged =>
         \/ result = Original
         \/ result = MissingEndorsements /\ arrived.endorsements = <<>>

(***************************************************************************)
(* The copy that oe::Attestation keeps is not stale: as long as nothing is *)
(* lost, verifying it gives what extracting the evidence again would,      *)
(* although compression changes the evidence and not the copy.             *)
(***************************************************************************)
CacheIsCurrent ==
  cache # None /\ ~Damaged => OEView(cache) = OEView(Extracted(att))
=============================================================================
