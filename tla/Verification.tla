----------------------------- MODULE Verification -----------------------------
(***************************************************************************)
(* Attestation::verify of SGX (sgx_impl.h), SEV-SNP (sev_snp_impl.h) and   *)
(* ACI (aci_impl.h), once the endorsements are at hand: the certificate    *)
(* store is built up, one chain after the other is verified against it,    *)
(* and what their keys signed is evaluated.  Endorsements says where the   *)
(* material comes from; here it is any material.                           *)
(*                                                                         *)
(* A step that throws leads to "rejected".  Inputs are chosen where they   *)
(* are first used, and kept where a property needs them.  Signatures and   *)
(* hashes are right or wrong.                                              *)
(***************************************************************************)
EXTENDS CertificateChains, TCBEvaluation, UVMEndorsements

CONSTANTS
  Platforms,        \* a subset of {"sgx", "snp", "aci"}
  Stacks,           \* purpose -> certificate stacks it may be given
  RootCAs,          \* certificates that come as root_ca
  Crls,             \* CRLs that come as collateral, known by their issuer
  PckCertificates,  \* certificates with the common name of a PCK certificate
  Measurements      \* launch measurements of SEV-SNP reports

Purposes == {"pck_crl_issuer", "pck", "tcb_issuer", "qe_issuer", "vcek"}

ASSUME VerificationAssumption ==
  /\ Platforms \subseteq {"sgx", "snp", "aci"}
  /\ \A p \in Purposes : Stacks[p] \subseteq Seq(Certificate)
  /\ RootCAs \subseteq Certificate
  /\ Crls \subseteq CA \cup {Malformed}

VARIABLES
  pc,            \* the next step of verify, or "accepted", "rejected"
  platform,
  options,
  store,         \* the certificate store
  root_ca,       \* the root certificate in the collateral
  chains,        \* purpose -> its verified chain, <<>> if there is none
  tcb,           \* the extension and TCB info that were accepted
  qe,            \* the QE report and identity that were accepted
  uvm,           \* the measurement and UVM endorsements that were accepted
  claims_root    \* the root certificate in the claims

inputs == <<platform, options>>
evaluated == <<tcb, qe, uvm>>
vars == <<pc, inputs, store, root_ca, chains, evaluated, claims_root>>

Options ==
  [check_key: BOOLEAN, historical: BOOLEAN, partial: BOOLEAN,
   ignore_time: BOOLEAN, verification_time: Times \cup {NoTime}]

TypeOK ==
  /\ pc \in {"parse", "store", "pck_crl_issuer", "pck", "signatures", "tcb_issuer",
             "qe_issuer", "vcek", "uvm", "accepted", "rejected"}
  /\ platform \in Platforms
  /\ options \in Options
  /\ store \in X509_STORE
  /\ root_ca \in Certificate \cup {NoCertificate}
  /\ chains \in [Purposes -> Seq(Certificate)]
  /\ tcb \in {<<>>} \cup (Extensions \X TcbInfos)
  /\ qe \in {<<>>} \cup (QeReports \X QeIdentities)
  /\ uvm \in {<<>>} \cup (Measurements \X (Messages \cup {<<>>}))
  /\ claims_root \in Certificate \cup {NoCertificate}

Init ==
  /\ platform \in Platforms
  /\ options \in Options
  /\ pc = IF platform = "sgx" THEN "parse" ELSE "store"
  /\ store = EmptyStore
  /\ root_ca = NoCertificate
  /\ chains = [p \in Purposes |-> <<>>]
  /\ tcb = <<>> /\ qe = <<>> /\ uvm = <<>>
  /\ claims_root = NoCertificate

Reject == pc' = "rejected" /\ UNCHANGED <<inputs, store, root_ca, chains, evaluated, claims_root>>

Partial == platform = "sgx" /\ options.partial

----------------------------------------------------------------------------
(***************************************************************************)
(* parse_quote and SignatureData: sizes, version and signature type, and   *)
(* the parts of the signature within the evidence.                         *)
(***************************************************************************)
ParseQuote ==
  /\ pc = "parse"
  /\ \/ Reject
     \/ pc' = "store" /\ UNCHANGED <<inputs, store, root_ca, chains, evaluated, claims_root>>

(***************************************************************************)
(* Partial verification starts from an empty store, SEV-SNP from one with  *)
(* at most one CRL, SGX from one with two.                                 *)
(***************************************************************************)
NewStore == SetFlags(EmptyStore, {"crl_check", "crl_check_all"})

FirstChain == IF platform # "sgx" THEN "vcek" ELSE IF Partial THEN "pck" ELSE "pck_crl_issuer"

PreparePartial ==
  /\ pc = "store" /\ Partial
  /\ store' = NewStore
  /\ pc' = FirstChain
  /\ UNCHANGED <<inputs, root_ca, chains, evaluated, claims_root>>

\* Mutant: an empty root is added too.
AddRootUnchecked(s, root) == Add(s, root)

AddRoot(s, root) == IF root = NoCertificate THEN s ELSE Add(s, root)

CollateralCrls ==
  IF platform = "sgx" THEN {{c, d} : c, d \in Crls} ELSE {{}} \cup {{c} : c \in Crls}

PrepareStore ==
  /\ pc = "store" /\ ~Partial
  /\ \E crls \in CollateralCrls, root \in RootCAs \cup {NoCertificate, Malformed} :
       IF Malformed \in crls \cup {root} THEN Reject
       ELSE /\ store' = AddRoot(AddCrls(NewStore, crls), root)
            /\ root_ca' = root
            /\ pc' = FirstChain
            /\ UNCHANGED <<inputs, chains, evaluated, claims_root>>

----------------------------------------------------------------------------
(***************************************************************************)
(* One chain.  Only the first may bring its own root, if there is no other.*)
(***************************************************************************)
\* Mutant: every chain may bring its own root.
TrustsAnyRoot(purpose) == root_ca = NoCertificate

TrustsRoot(purpose) == root_ca = NoCertificate /\ purpose = FirstChain

HasManufacturerKey(chain) == options.check_key => Root(chain) \in Manufacturer

StoreFor(purpose, stack) == TrustRoot(store, stack, TrustsRoot(purpose))

Results(purpose, stack) == VerifiedChains(StoreFor(purpose, stack), stack, options)

Accept(purpose, stack, chain) ==
  /\ chains' = [chains EXCEPT ![purpose] = chain]
  /\ store' = StoreFor(purpose, stack)
  /\ UNCHANGED <<inputs, root_ca>>

VerifyPckCrlIssuer ==
  /\ pc = "pck_crl_issuer"
  /\ \E stack \in Stacks["pck_crl_issuer"] :
       LET good == Results("pck_crl_issuer", stack) IN
       IF good = {} THEN Reject
       ELSE \E chain \in good : /\ Accept("pck_crl_issuer", stack, chain)
                                /\ pc' = "pck"
                                /\ UNCHANGED <<evaluated, claims_root>>

VerifyPck ==
  /\ pc = "pck"
  /\ \E stack \in Stacks["pck"] :
       LET good == {c \in Results("pck", stack) : /\ Leaf(c) \in PckCertificates
                                                  /\ HasManufacturerKey(c)
                                                  /\ Root(c) \in CA}
       IN IF good = {} THEN Reject
          ELSE \E chain \in good : /\ Accept("pck", stack, chain)
                                   /\ pc' = "signatures"
                                   /\ UNCHANGED <<evaluated, claims_root>>

\* The QE report's signature by the PCK leaf, the quote's by the attestation
\* key, and the hash of that key in the QE report.
VerifySignatures ==
  /\ pc = "signatures"
  /\ \/ Reject
     \/ /\ pc' = IF Partial THEN "accepted" ELSE "tcb_issuer"
        /\ UNCHANGED <<inputs, store, root_ca, chains, evaluated, claims_root>>

VerifyTcb ==
  /\ pc = "tcb_issuer"
  /\ \E stack \in Stacks["tcb_issuer"] :
       LET found == Results("tcb_issuer", stack) IN
       \E ext \in Extensions, info \in TcbInfos :
       LET good == {c \in found : /\ ExtensionParses(ext)
                                  /\ HasManufacturerKey(c)
                                  /\ VerifyTcbJson(info, ext, Leaf(c))}
       IN IF good = {} THEN Reject
          ELSE \E chain \in good : /\ Accept("tcb_issuer", stack, chain)
                                   /\ tcb' = <<ext, info>>
                                   /\ pc' = "qe_issuer"
                                   /\ UNCHANGED <<qe, uvm, claims_root>>

\* The last check of SGX; the claims take the root of the collateral.
VerifyQeId ==
  /\ pc = "qe_issuer"
  /\ \E stack \in Stacks["qe_issuer"] :
       LET found == Results("qe_issuer", stack) IN
       \E report \in QeReports, identity \in QeIdentities :
       LET good == {c \in found :
                      /\ HasManufacturerKey(c)
                      /\ VerifyQeIdentity(identity, report, options.historical, Leaf(c))}
       IN IF good = {} THEN Reject
          ELSE \E chain \in good : /\ Accept("qe_issuer", stack, chain)
                                   /\ qe' = <<report, identity>>
                                   /\ claims_root' = root_ca
                                   /\ pc' = "accepted"
                                   /\ UNCHANGED <<tcb, uvm>>

----------------------------------------------------------------------------
(***************************************************************************)
(* SEV-SNP: one chain of three, and the report signed by its leaf.  ACI    *)
(* then has the measurement of the report endorsed.                        *)
(***************************************************************************)
VerifyVcek ==
  /\ pc = "vcek"
  /\ \E stack \in Stacks["vcek"], measurement \in Measurements, signed \in BOOLEAN :
       LET good == {c \in Results("vcek", stack) : /\ signed
                                                   /\ Len(c) = 3
                                                   /\ HasManufacturerKey(c)
                                                   /\ Root(c) \in CA}
       IN IF good = {} THEN Reject
          ELSE \E chain \in good :
                 /\ Accept("vcek", stack, chain)
                 /\ uvm' = <<measurement, <<>>>>
                 /\ claims_root' = IF TrustsRoot("vcek") THEN chain[3] ELSE root_ca
                 /\ pc' = IF platform = "aci" THEN "uvm" ELSE "accepted"
                 /\ UNCHANGED <<tcb, qe>>

VerifyUvm ==
  /\ pc = "uvm"
  /\ \E m \in Messages :
       IF ~VerifyUvmEndorsements(m, uvm[1]) THEN Reject
       ELSE /\ uvm' = <<uvm[1], m>>
            /\ pc' = "accepted"
            /\ UNCHANGED <<inputs, store, root_ca, chains, tcb, qe, claims_root>>

Done == pc \in {"accepted", "rejected"} /\ UNCHANGED vars

Next ==
  \/ ParseQuote \/ PreparePartial \/ PrepareStore
  \/ VerifyPckCrlIssuer \/ VerifyPck \/ VerifySignatures \/ VerifyTcb \/ VerifyQeId
  \/ VerifyVcek \/ VerifyUvm \/ Done

Spec == Init /\ [][Next]_vars

----------------------------------------------------------------------------
Accepted == pc = "accepted"

InChain(c, chain) == \E i \in 1 .. Len(chain) : chain[i] = c

Used == {p \in Purposes : chains[p] # <<>>}

(***************************************************************************)
(* One root of trust: all chains of a verification that succeeds pass      *)
(* through the same certificate, which is the root_ca of the collateral if *)
(* there is one, although the store is shared and an empty root_ca lets    *)
(* the first chain put its own last certificate there (sgx_impl.h 1329,    *)
(* sev_snp_impl.h 583); and where the manufacturer's key is asked for, all *)
(* but the CRL issuer's end in it.  The claims of SEV-SNP name a           *)
(* certificate of the chain as their root.                                 *)
(***************************************************************************)
AcceptedIsAnchored ==
  Accepted =>
    /\ \E a \in Certificate : /\ root_ca # NoCertificate => a = root_ca
                              /\ \A p \in Used : InChain(a, chains[p])
    /\ options.check_key =>
         \A p \in Used \ {"pck_crl_issuer"} : Root(chains[p]) \in Manufacturer
    /\ platform # "sgx" => InChain(claims_root, chains["vcek"])

(***************************************************************************)
(* Unless the options say to ignore the time, or give another one, every   *)
(* certificate of every chain of a successful verification is valid at the *)
(* present, whichever parameters of the store verify_certificate_chain     *)
(* replaced.                                                               *)
(***************************************************************************)
ValidFor(t) ==
  \A p \in Used : \A i \in 1 .. Len(chains[p]) : t \in ValidAt[chains[p][i]]

ValidWhenUsed ==
  Accepted /\ ~options.ignore_time /\ options.verification_time = NoTime => ValidFor("now")

(***************************************************************************)
(* crypto_options.h 18: "Sets an explicit verification time (as opposed to *)
(* current time)".  With a verification time, every certificate of every   *)
(* chain of a successful verification is valid at that time.               *)
(***************************************************************************)
ValidAtVerificationTime ==
  Accepted /\ ~options.ignore_time /\ options.verification_time # NoTime
    => ValidFor(options.verification_time)

(***************************************************************************)
(* The level taken for a platform from a list in descending order is the   *)
(* highest one it meets, in TCB infos and in QE identities.  PCE SVNs are  *)
(* below 256, where get_uint16 is right.                                   *)
(***************************************************************************)
Below(l, m) == l.pce_svn <= m.pce_svn /\ \A c \in Component : l.comp_svn[c] <= m.comp_svn[c]

LevelIsHighest ==
  /\ tcb # <<>> =>
       LET ext == tcb[1]  levels == tcb[2].levels
           taken == levels[TcbLevel(tcb[2], PlatformTCB(ext))]
       IN ext.pce_svn < 256 /\ (\A i, j \in 1 .. Len(levels) : i <= j => Below(levels[j], levels[i]))
            => /\ Below(taken, ext)
               /\ \A i \in 1 .. Len(levels) :
                    Below(levels[i], ext) /\ levels[i].status # "" => Below(levels[i], taken)
  /\ qe # <<>> =>
       LET levels == qe[2].levels
           taken == levels[QeLevel(qe[2], qe[1])]
       IN (\A i, j \in 1 .. Len(levels) : i <= j => levels[j].isv_svn <= levels[i].isv_svn)
            => \A i \in 1 .. Len(levels) :
                 levels[i].isv_svn <= qe[1].isv_svn /\ levels[i].status # ""
                   => levels[i].isv_svn <= taken.isv_svn

(***************************************************************************)
(* An ACI attestation is only accepted if the key that signed the payload  *)
(* is that of a root of trust, with its feed and an SVN that is not empty, *)
(* and the payload vouches for the measurement of the very report that was *)
(* verified: no default of a missing header parameter gets through.        *)
(***************************************************************************)
EndorsedByRootOfTrust ==
  Accepted /\ platform = "aci" =>
    LET m == uvm[2] IN
    /\ m.measurement = uvm[1]
    /\ Len(m.svn) > 0
    /\ \E r \in UvmRootsOfTrust : r.did = DidOf[m.signer] /\ r.feed = m.header.feed
    /\ \A f \in DOMAIN EmptyHeader : m.header[f] # Missing

(***************************************************************************)
(* sgx_impl.h 1322: "These flags also check that we have a CRL for each    *)
(* CA."  A certificate that the issuer's CRL in the store lists is not in  *)
(* a chain of a successful verification.                                   *)
(***************************************************************************)
RevokedIsRejected ==
  Accepted /\ ~Partial /\ platform = "sgx" =>
    \A p \in Used : \A i \in 1 .. Len(chains[p]) :
      ~(chains[p][i] \in Revoked /\ Issuer[chains[p][i]] \in store.crls)

(***************************************************************************)
(* RevokedIsRejected and ValidAtVerificationTime rest on parameters that   *)
(* are set before a chain is verified: the CRL flags of the store and the  *)
(* time of the context.  This is the weakest form of the two: no           *)
(* verification ignores both.  A state that violates it violates each.     *)
(***************************************************************************)
SomeParameterCounts == RevokedIsRejected \/ ValidAtVerificationTime
=============================================================================
