--------------------------- MODULE UVMEndorsements ---------------------------
(***************************************************************************)
(* The UVM endorsements of an ACI attestation: a COSE_Sign1 message that   *)
(* vouches for the launch measurement of an SEV-SNP report                 *)
(* (uvm_endorsements.h, cose_verifier_impl.h, did.h, jwk.h).  A            *)
(* certificate of x5chain is known by its key.  CBOR, COSE and DID         *)
(* libraries are external.                                                 *)
(***************************************************************************)
EXTENDS Naturals, Sequences

CONSTANTS
  Messages,       \* COSE messages
  Missing,        \* a header parameter that is not there
  RsaKeys,        \* keys that are RSA keys
  DidOf           \* key -> the did:x509 its certificate satisfies

\* An SVN is a string, known by the codes of its characters.
ASSUME MessageAssumption == \A m \in Messages : m.svn \in Seq(Nat)

----------------------------------------------------------------------------
(***************************************************************************)
(* decode_protected_header: what is not in the header keeps its default.   *)
(***************************************************************************)
EmptyHeader == [alg |-> "0", content_type |-> "", x5chain |-> <<>>, iss |-> "", feed |-> ""]

\* A byte string is a chain of one; anything else, or an empty array, throws.
DecodeX5Chain(x5chain) == x5chain # <<>>

ProtectedHeader(m) ==
  [f \in DOMAIN EmptyHeader |-> IF m.header[f] = Missing THEN EmptyHeader[f] ELSE m.header[f]]

HeaderDecodes(m) ==
  /\ m.wellformed
  /\ m.header.x5chain # Missing => DecodeX5Chain(m.header.x5chain)

IsRsaAlg(alg) == alg \in {"PS256", "PS384", "PS512"}

----------------------------------------------------------------------------
(***************************************************************************)
(* didx509::resolve and the key of the document.  It throws, and there is  *)
(* no verification method, unless the chain's leaf satisfies the DID; a    *)
(* key that is not RSA has no n and e to read.                             *)
(***************************************************************************)
Resolve(x5chain, did) ==
  IF x5chain # <<>> /\ did = DidOf[x5chain[1]] /\ x5chain[1] \in RsaKeys
  THEN {[controller |-> did, key |-> x5chain[1]]} ELSE {}

Keys(phdr) == {vm.key : vm \in {v \in Resolve(phdr.x5chain, phdr.iss) : v.controller = phdr.iss}}

----------------------------------------------------------------------------
(***************************************************************************)
(* Roots of trust.  SVNs are compared as strings, also those that are no   *)
(* numbers; <<48>> is "0".                                                 *)
(***************************************************************************)
UvmRootsOfTrust ==
  {[did |-> "eku:1.2", feed |-> "ContainerPlat-AMD-UVM", svn |-> <<48>>],
   [did |-> "eku:1.5", feed |-> "ConfAKS-AMD-UVM", svn |-> <<48>>]}

StringLeq(s, t) ==
  \/ Len(s) <= Len(t) /\ \A i \in 1 .. Len(s) : s[i] = t[i]
  \/ \E k \in 1 .. Len(s) : /\ k <= Len(t) /\ s[k] < t[k]
                            /\ \A i \in 1 .. k - 1 : s[i] = t[i]

\* Mutant: any issuer will do.
MatchesFeedOnly(did, feed, svn) ==
  \E r \in UvmRootsOfTrust : r.feed = feed /\ StringLeq(r.svn, svn)

MatchesUvmRootsOfTrust(did, feed, svn) ==
  \E r \in UvmRootsOfTrust : r.did = did /\ r.feed = feed /\ StringLeq(r.svn, svn)

\* The payload names the signer's SVN and measurement; a message without
\* signature by the document's key is thrown out first.
VerifyUvmEndorsements(m, measurement) ==
  LET phdr == ProtectedHeader(m) IN
  /\ HeaderDecodes(m)
  /\ phdr.content_type = "application/json"
  /\ IsRsaAlg(phdr.alg)
  /\ \E key \in Keys(phdr) : m.signer = key
  /\ m.measurement = measurement
  /\ MatchesUvmRootsOfTrust(phdr.iss, phdr.feed, m.svn)
=============================================================================
