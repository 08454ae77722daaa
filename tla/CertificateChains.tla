-------------------------- MODULE CertificateChains --------------------------
(***************************************************************************)
(* Certificate stores and chain verification: verify_certificate_chain of  *)
(* crypto.h over the X509_STORE, X509_STORE_CTX and X509_VERIFY_PARAM      *)
(* wrappers of openssl.hpp.  A certificate is known by its issuer, its     *)
(* kind, the times at which it is valid and whether its issuer's CRL lists *)
(* it; a CRL is known by the CA that issued it.  OpenSSL is external.      *)
(***************************************************************************)
EXTENDS Naturals, Sequences

CONSTANTS
  Certificate,
  Issuer,         \* certificate -> the certificate that signed it
  CA,             \* certificates of certificate authorities
  Manufacturer,   \* certificates with the manufacturer's root key
  Revoked,        \* certificates listed by the CRL of their issuer
  ValidAt,        \* certificate -> times at which it is valid
  MaxDepth,       \* bound on the length of a chain
  NoCertificate,
  Malformed       \* a CRL that does not parse

Times == {"now", "then"}
NoTime == "none"
Flags == {"crl_check", "crl_check_all", "x509_strict", "check_ss_signature",
          "partial_chain", "no_check_time"}

ASSUME ChainAssumption ==
  /\ Issuer \in [Certificate -> Certificate]
  /\ CA \subseteq Certificate /\ Manufacturer \subseteq Certificate
  /\ Revoked \subseteq Certificate
  /\ ValidAt \in [Certificate -> SUBSET Times]
  /\ MaxDepth \in Nat \ {0}
  /\ NoCertificate \notin Certificate /\ Malformed \notin Certificate

ValidationOptions == [ignore_time: BOOLEAN, verification_time: Times \cup {NoTime}]

----------------------------------------------------------------------------
(***************************************************************************)
(* UqX509_STORE                                                            *)
(***************************************************************************)
X509_STORE == [certs: SUBSET Certificate, crls: SUBSET Certificate, flags: SUBSET Flags]

EmptyStore == [certs |-> {}, crls |-> {}, flags |-> {}]

SetFlags(store, flags) == [store EXCEPT !.flags = @ \cup flags]

Add(store, cert) == [store EXCEPT !.certs = @ \cup {cert}]

AddCrls(store, crls) == [store EXCEPT !.crls = @ \cup crls]

----------------------------------------------------------------------------
(***************************************************************************)
(* The parameters of one verification.  X509_STORE_CTX_init copies those   *)
(* of the store, set_time changes them, and set_param (set0_param) puts    *)
(* others in their place.                                                  *)
(***************************************************************************)
InitParam(store) == [flags |-> store.flags, time |-> "now"]

SetTime(param, t) == [param EXCEPT !.time = t]

NewParam(options) ==
  [flags |-> {"x509_strict", "check_ss_signature", "partial_chain"}
               \cup (IF options.ignore_time THEN {"no_check_time"} ELSE {}),
   time |-> "now"]

SetParam(old, new) == new

\* Mutant: certificates are never checked against the time.
ContextParamNoTime(store, options) ==
  NewParam([options EXCEPT !.ignore_time = TRUE])

ContextParam(store, options) ==
  LET init == InitParam(store)
      timed == IF options.verification_time = NoTime THEN init
               ELSE SetTime(init, options.verification_time)
  IN SetParam(timed, NewParam(options))

----------------------------------------------------------------------------
(***************************************************************************)
(* X509_verify_cert.  Without X509_V_FLAG_TRUSTED_FIRST the chain climbs   *)
(* through the untrusted stack; it ends in an anchor of the store.  Under  *)
(* X509_V_FLAG_PARTIAL_CHAIN any certificate of the store is an anchor; if *)
(* only the target itself is one, the chain is all of the untrusted path.  *)
(***************************************************************************)
Paths(target) ==
  LET anc[n \in 0 .. MaxDepth - 1] == IF n = 0 THEN target ELSE Issuer[anc[n - 1]]
  IN {[i \in 1 .. n |-> IF i = 1 THEN target ELSE anc[i - 1]] :
        n \in {k \in 1 .. MaxDepth : \A i \in 1 .. k - 1 : anc[i] # anc[i - 1]}}

Leaf(chain) == chain[1]
Root(chain) == chain[Len(chain)]

Anchors(store, param) ==
  {c \in store.certs : "partial_chain" \in param.flags \/ Issuer[c] = c}

BuiltChains(store, target, untrusted, param) ==
  LET trusted == Anchors(store, param)
      climbs == {c \in Paths(target) : /\ \A i \in 2 .. Len(c) - 1 : c[i] \in untrusted
                                       /\ \A i \in 2 .. Len(c) : c[i] \in CA}
      anchored == {c \in climbs : /\ Root(c) \in trusted
                                  /\ Len(c) = 1 => Issuer[target] = target}
      complete == {c \in climbs : /\ Root(c) \in untrusted
                                  /\ \/ Issuer[Root(c)] = Root(c)
                                     \/ Issuer[Root(c)] \notin untrusted}
  IN IF anchored # {} THEN anchored
     ELSE IF target \in trusted THEN complete
     ELSE {}

InTime(chain, param) ==
  \/ "no_check_time" \in param.flags
  \/ \A i \in 1 .. Len(chain) : param.time \in ValidAt[chain[i]]

NotRevoked(store, chain, param) ==
  "crl_check" \in param.flags =>
    \A i \in 1 .. (IF "crl_check_all" \in param.flags THEN Len(chain) ELSE 1) :
      Issuer[chain[i]] \in store.crls /\ chain[i] \notin Revoked

----------------------------------------------------------------------------
(***************************************************************************)
(* verify_certificate_chain.  A trusted root is the last certificate of    *)
(* the stack, and stays in the store.  The result is the set of chains it  *)
(* can return; it is empty if the function throws.                         *)
(***************************************************************************)
TrustRoot(store, stack, trusted_root) ==
  IF trusted_root /\ Len(stack) > 1 THEN Add(store, stack[Len(stack)]) ELSE store

VerifiedChains(store, stack, options) ==
  IF Len(stack) <= 1 THEN {}
  ELSE LET param == ContextParam(store, options)
           untrusted == {stack[i] : i \in 1 .. Len(stack)}
       IN {c \in BuiltChains(store, stack[1], untrusted, param) :
             /\ InTime(c, param)
             /\ NotRevoked(store, c, param)
             /\ Len(c) >= 2}
=============================================================================
