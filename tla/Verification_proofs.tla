------------------------- MODULE Verification_proofs -------------------------
(***************************************************************************)
(* Proofs about Verification: for any certificates, stacks, levels and     *)
(* options, a verification that succeeds has one root of trust, uses no    *)
(* certificate out of its time unless told to, and takes the highest level *)
(* that the platform meets.                                                *)
(***************************************************************************)
EXTENDS Verification, TLAPS, SequenceTheorems, WellFoundedInduction

(***************************************************************************)
(* A path is a non-empty sequence that starts with its target.             *)
(***************************************************************************)
LEMMA PathIsSequence ==
  ASSUME NEW target, NEW c \in Paths(target)
  PROVE  Len(c) \in Nat \ {0} /\ c[1] = target /\ DOMAIN c = 1 .. Len(c)
<1> DEFINE anc[n \in 0 .. MaxDepth - 1] == IF n = 0 THEN target ELSE Issuer[anc[n - 1]]
           E(i) == IF i = 1 THEN target ELSE anc[i - 1]
<1>1. PICK n \in 1 .. MaxDepth : c = [i \in 1 .. n |-> E(i)]
  BY DEF Paths
<1> HIDE DEF E
<1>2. n \in Nat \ {0}
  BY ChainAssumption DEF ChainAssumption
<1>3. c \in [1 .. n -> {E(i) : i \in 1 .. n}]
  BY <1>1
<1>4. Len(c) = n
  BY <1>2, <1>3, LenProperties, SeqDef
<1>5. c[1] = E(1)
  BY <1>1, <1>2
<1>6. DOMAIN c = 1 .. n
  BY <1>1
<1> QED BY <1>2, <1>4, <1>5, <1>6 DEF E

(***************************************************************************)
(* The parameters that set_param installs look at the present, and at the  *)
(* time unless it is to be ignored.                                        *)
(***************************************************************************)
LEMMA ParamFacts ==
  ASSUME NEW st, NEW opts
  PROVE  LET param == ContextParam(st, opts) IN
         /\ param.time = "now"
         /\ ~opts.ignore_time => "no_check_time" \notin param.flags
<1>1. ContextParam(st, opts) = NewParam(opts)
  BY DEF ContextParam, SetParam
<1> QED BY <1>1 DEF NewParam

(***************************************************************************)
(* verify_certificate_chain returns a chain of two or more that passes     *)
(* through a certificate of the store, with every certificate in its time. *)
(***************************************************************************)
ChainInTime(chain) == \A i \in 1 .. Len(chain) : "now" \in ValidAt[chain[i]]

LEMMA ChainFacts ==
  ASSUME NEW st, NEW stack, NEW opts, NEW c \in VerifiedChains(st, stack, opts)
  PROVE  /\ Len(c) \in Nat /\ Len(c) >= 2
         /\ \E a \in st.certs : InChain(a, c)
         /\ ~opts.ignore_time => ChainInTime(c)
<1> DEFINE param == ContextParam(st, opts)
           untrusted == {stack[i] : i \in 1 .. Len(stack)}
<1>1. /\ c \in BuiltChains(st, stack[1], untrusted, param)
      /\ InTime(c, param) /\ Len(c) >= 2
  BY DEF VerifiedChains
<1>2. c \in Paths(stack[1])
  BY <1>1 DEF BuiltChains
<1>3. Len(c) \in Nat \ {0} /\ c[1] = stack[1]
  BY <1>2, PathIsSequence
<1>4. Root(c) \in st.certs \/ stack[1] \in st.certs
  BY <1>1 DEF BuiltChains, Anchors
<1>5. \E a \in st.certs : InChain(a, c)
  <2>1. 1 \in 1 .. Len(c) /\ Len(c) \in 1 .. Len(c)
    BY <1>3
  <2> QED BY <1>3, <1>4, <2>1 DEF InChain, Root
<1>6. ~opts.ignore_time => ChainInTime(c)
  BY <1>1, ParamFacts DEF InTime, ChainInTime
<1> QED BY <1>1, <1>3, <1>5, <1>6

----------------------------------------------------------------------------
(***************************************************************************)
(* The inductive invariant.  The store holds no certificate, or root_ca,   *)
(* until the first chain is verified, and exactly one from then on, which  *)
(* all chains so far pass through.                                         *)
(***************************************************************************)
Anchored(a) ==
  /\ a \in Certificate /\ store.certs = {a}
  /\ root_ca # NoCertificate => a = root_ca
  /\ \A p \in Used : InChain(a, chains[p])

Begun == pc \notin {"parse", "store", "rejected", FirstChain}

ControlInv ==
  /\ platform \in {"sgx", "snp", "aci"} /\ options \in Options
  /\ pc \in {"parse", "pck", "signatures"} => platform = "sgx"
  /\ pc \in {"pck_crl_issuer", "tcb_issuer", "qe_issuer"} => platform = "sgx" /\ ~options.partial
  /\ pc \in {"vcek", "uvm"} => platform # "sgx"
  /\ chains = [p \in Purposes |-> chains[p]]

StoreInv ==
  /\ "certs" \in DOMAIN store
  /\ pc \in {"parse", "store"} => Used = {} /\ root_ca = NoCertificate
  /\ pc = FirstChain =>
       /\ Used = {} /\ root_ca \in Certificate \cup {NoCertificate}
       /\ store.certs = IF root_ca = NoCertificate THEN {} ELSE {root_ca}
  /\ Begun => \E a : Anchored(a)

ChainInv ==
  \A p \in Used :
    /\ options.check_key /\ p # "pck_crl_issuer" => Root(chains[p]) \in Manufacturer
    /\ ~options.ignore_time => ChainInTime(chains[p])

ClaimsInv ==
  pc \in {"uvm", "accepted"} /\ platform # "sgx" => InChain(claims_root, chains["vcek"])

IInv == ControlInv /\ StoreInv /\ ChainInv /\ ClaimsInv

(***************************************************************************)
(* When a chain is verified, the store it is verified against holds one    *)
(* certificate, which the earlier chains pass through.                     *)
(***************************************************************************)
LEMMA StoreForFacts ==
  ASSUME IInv, NEW purpose \in Purposes, pc = purpose,
         NEW stack \in Stacks[purpose], Results(purpose, stack) # {}
  PROVE  /\ "certs" \in DOMAIN StoreFor(purpose, stack)
         /\ \E a \in Certificate :
              /\ StoreFor(purpose, stack).certs = {a}
              /\ root_ca # NoCertificate => a = root_ca
              /\ \A p \in Used : InChain(a, chains[p])
<1>1. Len(stack) > 1
  <2>1. stack \in Seq(Certificate)
    BY VerificationAssumption DEF VerificationAssumption
  <2>2. Len(stack) \in Nat
    BY <2>1, LenProperties
  <2>3. ~(Len(stack) <= 1)
    BY DEF Results, VerifiedChains
  <2> QED BY <2>2, <2>3
<1>2. stack \in Seq(Certificate) /\ stack[Len(stack)] \in Certificate
  <2>1. stack \in Seq(Certificate)
    BY VerificationAssumption DEF VerificationAssumption
  <2>2. Len(stack) \in Nat /\ stack \in [1 .. Len(stack) -> Certificate]
    BY <2>1, LenProperties
  <2> QED BY <1>1, <2>1, <2>2
<1>3. CASE purpose = FirstChain /\ root_ca = NoCertificate
  <2>1. StoreFor(purpose, stack) = [store EXCEPT !.certs = @ \cup {stack[Len(stack)]}]
    BY <1>1, <1>3 DEF StoreFor, TrustsRoot, TrustRoot, Add
  <2>2. Used = {} /\ store.certs = {} /\ "certs" \in DOMAIN store
    BY <1>3 DEF IInv, StoreInv
  <2>3. /\ StoreFor(purpose, stack).certs = {stack[Len(stack)]}
        /\ "certs" \in DOMAIN StoreFor(purpose, stack)
    BY <2>1, <2>2
  <2> QED BY <1>2, <1>3, <2>2, <2>3
<1>4. CASE ~(purpose = FirstChain /\ root_ca = NoCertificate)
  <2>1. StoreFor(purpose, stack) = store
    BY <1>4 DEF StoreFor, TrustsRoot, TrustRoot
  <2>2. CASE purpose = FirstChain
    BY <1>4, <2>1, <2>2 DEF IInv, StoreInv
  <2>3. CASE purpose # FirstChain
    <3>1. Begun
      BY <2>3 DEF Begun, Purposes
    <3> QED BY <2>1, <3>1 DEF IInv, StoreInv, Anchored
  <2> QED BY <2>2, <2>3
<1> QED BY <1>3, <1>4

(***************************************************************************)
(* Accepting a chain keeps what the invariant says of the store and of all *)
(* chains.                                                                 *)
(***************************************************************************)
LEMMA AcceptStep ==
  ASSUME IInv, NEW purpose \in Purposes, pc = purpose,
         NEW stack \in Stacks[purpose], NEW chain \in Results(purpose, stack),
         Accept(purpose, stack, chain),
         options.check_key /\ purpose # "pck_crl_issuer" => Root(chain) \in Manufacturer
  PROVE  /\ "certs" \in DOMAIN store'
         /\ chains' = [p \in Purposes |-> chains'[p]]
         /\ chains'[purpose] = chain
         /\ \E a : Anchored(a)'
         /\ root_ca # NoCertificate => InChain(root_ca, chain)
         /\ ChainInv'
<1>1. /\ Len(chain) \in Nat /\ Len(chain) >= 2
      /\ \E a \in StoreFor(purpose, stack).certs : InChain(a, chain)
      /\ ~options.ignore_time => ChainInTime(chain)
  BY ChainFacts DEF Results
<1>2. PICK a \in Certificate :
        /\ "certs" \in DOMAIN StoreFor(purpose, stack)
        /\ StoreFor(purpose, stack).certs = {a}
        /\ root_ca # NoCertificate => a = root_ca
        /\ \A p \in Used : InChain(a, chains[p])
  BY StoreForFacts
<1>3. /\ chains' = [chains EXCEPT ![purpose] = chain]
      /\ store' = StoreFor(purpose, stack) /\ root_ca' = root_ca /\ options' = options
  BY DEF Accept, inputs
<1>4. chains = [p \in Purposes |-> chains[p]]
  BY DEF IInv, ControlInv
<1>5. /\ chains' = [p \in Purposes |-> chains'[p]]
      /\ chains'[purpose] = chain
      /\ \A p \in Purposes \ {purpose} : chains'[p] = chains[p]
  BY <1>3, <1>4
<1>6. \A p \in Used' : p \in Purposes /\ (p = purpose \/ (p \in Used /\ chains'[p] = chains[p]))
  BY <1>5 DEF Used
<1>7. InChain(a, chain)
  BY <1>1, <1>2
<1>8. \A p \in Used' : InChain(a, chains'[p])
  BY <1>2, <1>5, <1>6, <1>7
<1>9. Anchored(a)'
  BY <1>2, <1>3, <1>8 DEF Anchored, InChain
<1>10. ChainInv'
  <2> SUFFICES ASSUME NEW p \in Used'
               PROVE /\ options.check_key /\ p # "pck_crl_issuer" => Root(chains'[p]) \in Manufacturer
                     /\ ~options.ignore_time => ChainInTime(chains'[p])
    BY <1>3 DEF ChainInv, Root, ChainInTime
  <2>1. CASE p = purpose
    BY <1>1, <1>5, <2>1
  <2>2. CASE p # purpose
    BY <1>6, <2>2 DEF IInv, ChainInv
  <2> QED BY <2>1, <2>2
<1> QED BY <1>2, <1>3, <1>5, <1>7, <1>9, <1>10

(***************************************************************************)
(* What an exception leaves behind, and steps that touch no chain.         *)
(***************************************************************************)
LEMMA RejectStep ==
  ASSUME IInv, Reject
  PROVE  IInv'
BY DEF IInv, Reject, ControlInv, StoreInv, ChainInv, ClaimsInv, Begun, FirstChain, Partial, inputs,
       Used, Root, ChainInTime

LEMMA QuietStep ==
  ASSUME IInv, UNCHANGED <<inputs, store, root_ca, chains, claims_root>>
  PROVE  /\ ControlInv!1' /\ ControlInv!5' /\ StoreInv!1'
         /\ Used' = Used /\ FirstChain' = FirstChain /\ Partial' = Partial
         /\ \A a : Anchored(a)' <=> Anchored(a)
         /\ ChainInv'
BY DEF IInv, ControlInv, StoreInv, ChainInv, FirstChain, Partial, inputs, Used, Root, ChainInTime,
       Anchored, InChain

(***************************************************************************)
(* Every step of verify keeps the invariant.                               *)
(***************************************************************************)
LEMMA StepKeepsIInv ==
  ASSUME IInv, [Next]_vars
  PROVE  IInv'
<1>1. CASE UNCHANGED vars
  BY <1>1 DEF vars, inputs, IInv, ControlInv, StoreInv, ChainInv, ClaimsInv, Begun, FirstChain,
              Partial, Used, Root, ChainInTime, Anchored, InChain
<1>2. CASE ParseQuote
  <2>1. CASE Reject
    BY <2>1, RejectStep
  <2>2. CASE ~Reject
    <3>1. pc = "parse" /\ pc' = "store" /\ UNCHANGED <<inputs, store, root_ca, chains, claims_root>>
      BY <1>2, <2>2 DEF ParseQuote
    <3> QED BY <3>1, QuietStep DEF IInv, ControlInv, StoreInv, ClaimsInv, Begun, FirstChain, inputs
  <2> QED BY <2>1, <2>2
<1>3. CASE PreparePartial
  <2>1. /\ pc = "store" /\ Partial /\ pc' = "pck" /\ store' = NewStore /\ FirstChain = "pck"
        /\ UNCHANGED <<platform, options, root_ca, chains, claims_root>>
    BY <1>3 DEF PreparePartial, inputs, FirstChain, Partial
  <2>2. Used' = Used /\ FirstChain' = FirstChain /\ Used = {} /\ root_ca = NoCertificate
    BY <2>1 DEF Used, FirstChain, Partial, IInv, StoreInv
  <2>3. "certs" \in DOMAIN store' /\ store'.certs = {}
    BY <2>1 DEF NewStore, SetFlags, EmptyStore
  <2> QED BY <2>1, <2>2, <2>3 DEF IInv, ControlInv, StoreInv, ChainInv, ClaimsInv, Begun, Partial
<1>4. CASE PrepareStore
  <2>1. CASE Reject
    BY <2>1, RejectStep
  <2>2. CASE ~Reject
    <3>1. PICK crls \in CollateralCrls, root \in RootCAs \cup {NoCertificate, Malformed} :
            /\ Malformed \notin crls \cup {root}
            /\ store' = AddRoot(AddCrls(NewStore, crls), root)
            /\ root_ca' = root
      BY <1>4, <2>2 DEF PrepareStore
    <3>2. /\ pc = "store" /\ pc' = FirstChain /\ ~Partial
          /\ UNCHANGED <<platform, options, chains, claims_root>>
      BY <1>4, <2>2 DEF PrepareStore, inputs
    <3>3. Used' = Used /\ FirstChain' = FirstChain /\ Used = {}
      BY <3>2 DEF Used, FirstChain, Partial, IInv, StoreInv
    <3>4. root_ca' \in Certificate \cup {NoCertificate}
      BY <3>1, VerificationAssumption DEF VerificationAssumption
    <3>5. /\ "certs" \in DOMAIN store'
          /\ store'.certs = IF root_ca' = NoCertificate THEN {} ELSE {root_ca'}
      BY <3>1 DEF NewStore, SetFlags, EmptyStore, AddRoot, Add, AddCrls
    <3> QED BY <3>2, <3>3, <3>4, <3>5
            DEF IInv, ControlInv, StoreInv, ChainInv, ClaimsInv, Begun, Partial, FirstChain
  <2> QED BY <2>1, <2>2
<1>5. CASE VerifyPckCrlIssuer
  <2>1. CASE Reject
    BY <2>1, RejectStep
  <2>2. CASE ~Reject
    <3>1. PICK stack, chain :
            /\ stack \in Stacks["pck_crl_issuer"] /\ chain \in Results("pck_crl_issuer", stack)
            /\ Accept("pck_crl_issuer", stack, chain)
            /\ options.check_key /\ "pck_crl_issuer" # "pck_crl_issuer" => Root(chain) \in Manufacturer
      BY <1>5, <2>2 DEF VerifyPckCrlIssuer, HasManufacturerKey
    <3>2. pc = "pck_crl_issuer" /\ pc' = "pck" /\ "pck_crl_issuer" \in Purposes
      BY <1>5, <2>2 DEF VerifyPckCrlIssuer, Reject, Purposes
    <3>3. /\ "certs" \in DOMAIN store' /\ chains' = [p \in Purposes |-> chains'[p]]
          /\ \E a : Anchored(a)'
          /\ ChainInv'
      BY <3>1, <3>2, AcceptStep
    <3>4. platform' = platform /\ options' = options
      BY <3>1 DEF Accept, inputs
    <3> QED BY <3>2, <3>3, <3>4 DEF IInv, ControlInv, StoreInv, ClaimsInv, FirstChain, Partial
  <2> QED BY <2>1, <2>2
<1>6. CASE VerifyPck
  <2>1. CASE Reject
    BY <2>1, RejectStep
  <2>2. CASE ~Reject
    <3>1. PICK stack, chain :
            /\ stack \in Stacks["pck"] /\ chain \in Results("pck", stack)
            /\ Accept("pck", stack, chain)
            /\ options.check_key /\ "pck" # "pck_crl_issuer" => Root(chain) \in Manufacturer
      BY <1>6, <2>2 DEF VerifyPck, HasManufacturerKey
    <3>2. pc = "pck" /\ pc' = "signatures" /\ "pck" \in Purposes
      BY <1>6, <2>2 DEF VerifyPck, Reject, Purposes
    <3>3. /\ "certs" \in DOMAIN store' /\ chains' = [p \in Purposes |-> chains'[p]]
          /\ \E a : Anchored(a)'
          /\ ChainInv'
      BY <3>1, <3>2, AcceptStep
    <3>4. platform' = platform /\ options' = options
      BY <3>1 DEF Accept, inputs
    <3> QED BY <3>2, <3>3, <3>4 DEF IInv, ControlInv, StoreInv, ClaimsInv, FirstChain, Partial
  <2> QED BY <2>1, <2>2
<1>7. CASE VerifySignatures
  <2>1. CASE Reject
    BY <2>1, RejectStep
  <2>2. CASE ~Reject
    <3>1. /\ pc = "signatures" /\ pc' = IF Partial THEN "accepted" ELSE "tcb_issuer"
          /\ UNCHANGED <<inputs, store, root_ca, chains, claims_root>>
      BY <1>7, <2>2 DEF VerifySignatures
    <3>2. platform = "sgx" /\ platform' = platform /\ options' = options
      BY <3>1 DEF IInv, ControlInv, inputs
    <3>3. FirstChain \in {"pck", "pck_crl_issuer"}
      BY <3>2 DEF FirstChain
    <3>4. Begun
      BY <3>1, <3>3 DEF Begun
    <3>5. pc' \notin {"parse", "store", FirstChain}
      BY <3>1, <3>3
    <3> QED BY <3>1, <3>2, <3>4, <3>5, QuietStep
            DEF IInv, ControlInv, StoreInv, ClaimsInv, Partial
  <2> QED BY <2>1, <2>2
<1>8. CASE VerifyTcb
  <2>1. CASE Reject
    BY <2>1, RejectStep
  <2>2. CASE ~Reject
    <3>1. PICK stack, chain :
            /\ stack \in Stacks["tcb_issuer"] /\ chain \in Results("tcb_issuer", stack)
            /\ Accept("tcb_issuer", stack, chain)
            /\ options.check_key /\ "tcb_issuer" # "pck_crl_issuer" => Root(chain) \in Manufacturer
      BY <1>8, <2>2 DEF VerifyTcb, HasManufacturerKey
    <3>2. pc = "tcb_issuer" /\ pc' = "qe_issuer" /\ "tcb_issuer" \in Purposes
      BY <1>8, <2>2 DEF VerifyTcb, Reject, Purposes
    <3>3. /\ "certs" \in DOMAIN store' /\ chains' = [p \in Purposes |-> chains'[p]]
          /\ \E a : Anchored(a)'
          /\ ChainInv'
      BY <3>1, <3>2, AcceptStep
    <3>4. platform' = platform /\ options' = options
      BY <3>1 DEF Accept, inputs
    <3> QED BY <3>2, <3>3, <3>4 DEF IInv, ControlInv, StoreInv, ClaimsInv, FirstChain, Partial
  <2> QED BY <2>1, <2>2
<1>9. CASE VerifyQeId
  <2>1. CASE Reject
    BY <2>1, RejectStep
  <2>2. CASE ~Reject
    <3>1. PICK stack, chain :
            /\ stack \in Stacks["qe_issuer"] /\ chain \in Results("qe_issuer", stack)
            /\ Accept("qe_issuer", stack, chain)
            /\ options.check_key /\ "qe_issuer" # "pck_crl_issuer" => Root(chain) \in Manufacturer
      BY <1>9, <2>2 DEF VerifyQeId, HasManufacturerKey
    <3>2. pc = "qe_issuer" /\ pc' = "accepted" /\ "qe_issuer" \in Purposes
      BY <1>9, <2>2 DEF VerifyQeId, Reject, Purposes
    <3>3. /\ "certs" \in DOMAIN store' /\ chains' = [p \in Purposes |-> chains'[p]]
          /\ \E a : Anchored(a)'
          /\ ChainInv'
      BY <3>1, <3>2, AcceptStep
    <3>4. platform' = platform /\ options' = options
      BY <3>1 DEF Accept, inputs
    <3> QED BY <3>2, <3>3, <3>4 DEF IInv, ControlInv, StoreInv, ClaimsInv, FirstChain, Partial
  <2> QED BY <2>1, <2>2
<1>10. CASE VerifyVcek
  <2>1. CASE Reject
    BY <2>1, RejectStep
  <2>2. CASE ~Reject
    <3>1. PICK stack, chain :
            /\ stack \in Stacks["vcek"] /\ chain \in Results("vcek", stack)
            /\ Accept("vcek", stack, chain)
            /\ options.check_key => Root(chain) \in Manufacturer
            /\ Len(chain) = 3
            /\ claims_root' = IF TrustsRoot("vcek") THEN chain[3] ELSE root_ca
      BY <1>10, <2>2 DEF VerifyVcek, HasManufacturerKey
    <3>2. /\ pc = "vcek" /\ pc' = (IF platform = "aci" THEN "uvm" ELSE "accepted")
          /\ "vcek" \in Purposes
      BY <1>10, <2>2 DEF VerifyVcek, Reject, Purposes
    <3>3. /\ "certs" \in DOMAIN store' /\ chains' = [p \in Purposes |-> chains'[p]]
          /\ chains'["vcek"] = chain
          /\ \E a : Anchored(a)'
          /\ root_ca # NoCertificate => InChain(root_ca, chain)
          /\ ChainInv'
      BY <3>1, <3>2, AcceptStep
    <3>4. platform' = platform /\ options' = options /\ platform # "sgx"
      BY <3>1, <3>2 DEF Accept, inputs, IInv, ControlInv
    <3>5. FirstChain = "vcek" /\ FirstChain' = "vcek"
      BY <3>4 DEF FirstChain
    <3>6. InChain(claims_root', chain)
      <4>1. CASE root_ca = NoCertificate
        BY <3>1, <3>5, <4>1 DEF TrustsRoot, InChain
      <4>2. CASE root_ca # NoCertificate
        BY <3>1, <3>3, <4>2 DEF TrustsRoot
      <4> QED BY <4>1, <4>2
    <3>7. ClaimsInv'
      BY <3>3, <3>6 DEF ClaimsInv, InChain
    <3> QED BY <3>2, <3>3, <3>4, <3>5, <3>7 DEF IInv, ControlInv, StoreInv
  <2> QED BY <2>1, <2>2
<1>11. CASE VerifyUvm
  <2>1. CASE Reject
    BY <2>1, RejectStep
  <2>2. CASE ~Reject
    <3>1. /\ pc = "uvm" /\ pc' = "accepted"
          /\ UNCHANGED <<inputs, store, root_ca, chains, claims_root>>
      BY <1>11, <2>2 DEF VerifyUvm
    <3>2. platform # "sgx" /\ platform' = platform /\ options' = options /\ FirstChain = "vcek"
      BY <3>1 DEF IInv, ControlInv, inputs, FirstChain
    <3>3. Begun
      BY <3>1, <3>2 DEF Begun
    <3> QED BY <3>1, <3>2, <3>3, QuietStep DEF IInv, ControlInv, StoreInv, ClaimsInv, InChain
  <2> QED BY <2>1, <2>2
<1>12. CASE Done
  BY <1>1, <1>12 DEF Done
<1> QED BY <1>1, <1>2, <1>3, <1>4, <1>5, <1>6, <1>7, <1>8, <1>9, <1>10, <1>11, <1>12 DEF Next

LEMMA InitIInv == Init => IInv
<1> SUFFICES ASSUME Init PROVE IInv
  OBVIOUS
<1>1. platform \in {"sgx", "snp", "aci"} /\ options \in Options /\ pc \in {"parse", "store"}
  BY VerificationAssumption DEF Init, VerificationAssumption
<1>2. Used = {} /\ "certs" \in DOMAIN store
  BY DEF Init, Used, EmptyStore
<1>3. pc # FirstChain
  BY <1>1 DEF FirstChain
<1> QED BY <1>1, <1>2, <1>3
        DEF Init, IInv, ControlInv, StoreInv, ChainInv, ClaimsInv, Begun

LEMMA AlwaysIInv == Spec => []IInv
BY InitIInv, StepKeepsIInv, PTL DEF Spec

(***************************************************************************)
(* Whatever the certificates, the stacks and the options, all chains of a  *)
(* successful SGX, SEV-SNP or ACI verification pass through one            *)
(* certificate, root_ca if there is one.                                   *)
(***************************************************************************)
THEOREM AlwaysAnchored == Spec => []AcceptedIsAnchored
<1>1. IInv => AcceptedIsAnchored
  <2> SUFFICES ASSUME IInv, Accepted PROVE AcceptedIsAnchored
    BY DEF AcceptedIsAnchored
  <2>1. Begun
    BY DEF Begun, Accepted, FirstChain
  <2>2. PICK a : Anchored(a)
    BY <2>1 DEF IInv, StoreInv
  <2>3. \A p \in Used \ {"pck_crl_issuer"} : options.check_key => Root(chains[p]) \in Manufacturer
    BY DEF IInv, ChainInv
  <2>4. platform # "sgx" => InChain(claims_root, chains["vcek"])
    BY DEF IInv, ClaimsInv, Accepted
  <2> QED BY <2>2, <2>3, <2>4 DEF AcceptedIsAnchored, Anchored
<1> QED BY <1>1, AlwaysIInv, PTL

(***************************************************************************)
(* Unless the time is to be ignored or another one is given, a successful  *)
(* verification used no certificate outside its validity, in any of its    *)
(* chains.                                                                 *)
(***************************************************************************)
THEOREM AlwaysValidWhenUsed == Spec => []ValidWhenUsed
<1>1. IInv => ValidWhenUsed
  BY DEF IInv, ChainInv, ChainInTime, ValidWhenUsed, ValidFor
<1> QED BY <1>1, AlwaysIInv, PTL

----------------------------------------------------------------------------
(***************************************************************************)
(* An accepted ACI attestation has been through verify_uvm_endorsements,   *)
(* with the measurement of its report.                                     *)
(***************************************************************************)
UvmInv ==
  Accepted /\ platform = "aci" =>
    uvm[2] \in Messages /\ VerifyUvmEndorsements(uvm[2], uvm[1])

LEMMA StepKeepsUvmInv ==
  ASSUME ControlInv, UvmInv, [Next]_vars
  PROVE  UvmInv'
<1>1. CASE UNCHANGED vars
  BY <1>1 DEF vars, inputs, evaluated, UvmInv, Accepted
<1>2. CASE VerifyUvm
  <2>1. CASE Reject
    BY <2>1 DEF Reject, UvmInv, Accepted
  <2>2. CASE ~Reject
    <3>1. PICK m \in Messages : VerifyUvmEndorsements(m, uvm[1]) /\ uvm' = <<uvm[1], m>>
      BY <1>2, <2>2 DEF VerifyUvm
    <3>2. uvm'[1] = uvm[1] /\ uvm'[2] = m
      BY <3>1
    <3> QED BY <3>1, <3>2 DEF UvmInv
  <2> QED BY <2>1, <2>2
<1>3. CASE Done
  BY <1>1, <1>3 DEF Done
<1>4. CASE ParseQuote \/ PreparePartial \/ PrepareStore \/ VerifyPckCrlIssuer \/ VerifyPck \/ VerifyTcb
  <2>1. pc' # "accepted"
    BY <1>4 DEF ParseQuote, PreparePartial, PrepareStore, VerifyPckCrlIssuer, VerifyPck, VerifyTcb,
                Reject, FirstChain
  <2> QED BY <2>1 DEF UvmInv, Accepted
<1>5. CASE VerifySignatures \/ VerifyQeId \/ VerifyVcek
  <2>1. pc' # "accepted" \/ platform' # "aci"
    BY <1>5 DEF VerifySignatures, VerifyQeId, VerifyVcek, Accept, Reject, inputs, ControlInv
  <2> QED BY <2>1 DEF UvmInv, Accepted
<1> QED BY <1>1, <1>2, <1>3, <1>4, <1>5 DEF Next

(***************************************************************************)
(* What verify_uvm_endorsements lets through is signed by the key of a     *)
(* root of trust, and has every header parameter.                          *)
(***************************************************************************)
LEMMA VerifiedIsEndorsed ==
  ASSUME NEW m \in Messages, NEW measurement, VerifyUvmEndorsements(m, measurement)
  PROVE  /\ m.measurement = measurement
         /\ Len(m.svn) > 0
         /\ \E r \in UvmRootsOfTrust : r.did = DidOf[m.signer] /\ r.feed = m.header.feed
         /\ \A f \in DOMAIN EmptyHeader : m.header[f] # Missing
<1> DEFINE phdr == ProtectedHeader(m)
<1>1. DOMAIN EmptyHeader = {"alg", "content_type", "x5chain", "iss", "feed"}
  BY DEF EmptyHeader
<1>2. /\ phdr.alg = (IF m.header.alg = Missing THEN "0" ELSE m.header.alg)
      /\ phdr.content_type = (IF m.header.content_type = Missing THEN "" ELSE m.header.content_type)
      /\ phdr.x5chain = (IF m.header.x5chain = Missing THEN <<>> ELSE m.header.x5chain)
      /\ phdr.iss = (IF m.header.iss = Missing THEN "" ELSE m.header.iss)
      /\ phdr.feed = (IF m.header.feed = Missing THEN "" ELSE m.header.feed)
  BY <1>1 DEF ProtectedHeader, EmptyHeader
<1>3. phdr.content_type = "application/json" /\ phdr.alg \in {"PS256", "PS384", "PS512"}
  BY DEF VerifyUvmEndorsements, IsRsaAlg
<1>4. m.signer \in Keys(phdr) /\ m.measurement = measurement
  BY DEF VerifyUvmEndorsements
<1>5. phdr.x5chain # <<>> /\ phdr.iss = DidOf[m.signer]
  BY <1>4 DEF Keys, Resolve
<1>6. PICK r \in UvmRootsOfTrust : r.did = phdr.iss /\ r.feed = phdr.feed /\ StringLeq(r.svn, m.svn)
  BY DEF VerifyUvmEndorsements, MatchesUvmRootsOfTrust
<1>7. r.did # "" /\ r.feed # "" /\ r.svn = <<48>>
  <2>1. CASE r = [did |-> "eku:1.2", feed |-> "ContainerPlat-AMD-UVM", svn |-> <<48>>]
    BY <2>1
  <2>2. CASE r = [did |-> "eku:1.5", feed |-> "ConfAKS-AMD-UVM", svn |-> <<48>>]
    BY <2>2
  <2> QED BY <2>1, <2>2 DEF UvmRootsOfTrust
<1>8. Len(m.svn) > 0
  <2>1. Len(m.svn) \in Nat
    BY MessageAssumption, LenProperties DEF MessageAssumption
  <2>2. StringLeq(r.svn, m.svn)
    BY <1>6
  <2>3. Len(r.svn) = 1
    <3>1. Len(<<48>>) = 1
      OBVIOUS
    <3> QED BY ONLY <1>7, <3>1
  <2>4. CASE Len(r.svn) <= Len(m.svn)
    BY <2>1, <2>3, <2>4
  <2>5. CASE \E k \in 1 .. Len(r.svn) : k <= Len(m.svn)
    BY <2>1, <2>3, <2>5
  <2> QED BY <2>2, <2>4, <2>5 DEF StringLeq
<1>9. \A f \in {"alg", "content_type", "x5chain", "iss", "feed"} : m.header[f] # Missing
  BY <1>2, <1>3, <1>5, <1>6, <1>7
<1> QED BY <1>1, <1>2, <1>4, <1>5, <1>6, <1>8, <1>9

(***************************************************************************)
(* Whatever the COSE message, an ACI attestation is accepted only if a     *)
(* root of trust signed for the measurement of its report.                 *)
(***************************************************************************)
THEOREM AlwaysEndorsed == Spec => []EndorsedByRootOfTrust
<1>1. Init => UvmInv
  BY DEF Init, UvmInv, Accepted
<1>2. IInv => ControlInv
  BY DEF IInv
<1>3. UvmInv => EndorsedByRootOfTrust
  BY VerifiedIsEndorsed DEF UvmInv, EndorsedByRootOfTrust
<1> QED BY <1>1, <1>2, <1>3, StepKeepsUvmInv, AlwaysIInv, PTL DEF Spec

----------------------------------------------------------------------------
(***************************************************************************)
(* The types.  A chain climbs from the first certificate of the stack      *)
(* through CA certificates.                                                *)
(***************************************************************************)
LEMMA ChainType ==
  ASSUME NEW st, NEW stack \in Seq(Certificate), NEW opts,
         NEW c \in VerifiedChains(st, stack, opts)
  PROVE  c \in Seq(Certificate) /\ Len(c) \in Nat /\ Len(c) >= 2
<1> DEFINE param == ContextParam(st, opts)
           untrusted == {stack[i] : i \in 1 .. Len(stack)}
<1>1. c \in BuiltChains(st, stack[1], untrusted, param) /\ Len(c) >= 2 /\ ~(Len(stack) <= 1)
  BY DEF VerifiedChains
<1>2. c \in Paths(stack[1]) /\ \A i \in 2 .. Len(c) : c[i] \in CA
  BY <1>1 DEF BuiltChains
<1>3. Len(c) \in Nat \ {0} /\ c[1] = stack[1] /\ DOMAIN c = 1 .. Len(c)
  BY <1>2, PathIsSequence
<1>4. stack[1] \in Certificate
  <2>1. Len(stack) \in Nat
    BY LenProperties
  <2>2. 1 \in 1 .. Len(stack)
    BY <1>1, <2>1
  <2> QED BY <2>2, ElementOfSeq
<1>5. ASSUME NEW i \in 1 .. Len(c) PROVE c[i] \in Certificate
  <2>1. CASE i = 1
    BY <1>3, <1>4, <2>1
  <2>2. CASE i # 1
    <3>1. i \in 2 .. Len(c)
      BY <1>3, <2>2
    <3> QED BY <1>2, <3>1, ChainAssumption DEF ChainAssumption
  <2> QED BY <2>1, <2>2
<1>6. c = [i \in 1 .. Len(c) |-> c[i]]
  <2>1. PICK m : c = [i \in 1 .. m |-> c[i]]
    <3> DEFINE anc[k \in 0 .. MaxDepth - 1] == IF k = 0 THEN stack[1] ELSE Issuer[anc[k - 1]]
               E(i) == IF i = 1 THEN stack[1] ELSE anc[i - 1]
    <3>1. PICK m \in 1 .. MaxDepth : c = [i \in 1 .. m |-> E(i)]
      BY <1>2 DEF Paths
    <3> HIDE DEF E
    <3> QED BY <3>1
  <2>2. DOMAIN c = 1 .. m
    BY <2>1
  <2> QED BY <1>3, <2>1, <2>2
<1> QED BY <1>1, <1>3, <1>5, <1>6

\* Trusting the root of a stack keeps the store a store.
LEMMA TrustRootType ==
  ASSUME NEW st \in X509_STORE, NEW stack \in Seq(Certificate), NEW trusted
  PROVE  TrustRoot(st, stack, trusted) \in X509_STORE
<1>1. CASE trusted /\ Len(stack) > 1
  <2>1. Len(stack) \in 1 .. Len(stack)
    BY <1>1, LenProperties
  <2>2. stack[Len(stack)] \in Certificate
    BY <2>1, ElementOfSeq
  <2> QED BY <1>1, <2>2 DEF TrustRoot, Add, X509_STORE
<1> QED BY <1>1 DEF TrustRoot

\* What verifying one chain leaves behind has its type.
LEMMA AcceptType ==
  ASSUME TypeOK, NEW purpose \in Purposes, NEW stack \in Stacks[purpose],
         NEW chain \in Results(purpose, stack), Accept(purpose, stack, chain)
  PROVE  /\ chain \in Seq(Certificate) /\ Len(chain) \in Nat /\ Len(chain) >= 2
         /\ store' \in X509_STORE
         /\ chains' \in [Purposes -> Seq(Certificate)]
         /\ UNCHANGED <<platform, options, root_ca>>
<1>1. stack \in Seq(Certificate)
  BY VerificationAssumption DEF VerificationAssumption
<1>2. chain \in Seq(Certificate) /\ Len(chain) \in Nat /\ Len(chain) >= 2
  BY <1>1, ChainType DEF Results
<1>3. store' \in X509_STORE
  BY <1>1, TrustRootType DEF Accept, StoreFor, TypeOK
<1>4. chains' \in [Purposes -> Seq(Certificate)]
  BY <1>2 DEF Accept, TypeOK
<1> QED BY <1>2, <1>3, <1>4 DEF Accept, inputs

\* The measurement is known once the endorsement of it is looked at.
TypeInv == TypeOK /\ (pc = "uvm" => uvm # <<>>)

PcType ==
  {"parse", "store", "pck_crl_issuer", "pck", "signatures", "tcb_issuer",
   "qe_issuer", "vcek", "uvm", "accepted", "rejected"}

LEMMA RejectType ==
  ASSUME TypeInv, Reject
  PROVE  TypeInv'
BY DEF Reject, TypeInv, TypeOK, inputs, evaluated

\* The store that the collateral is put into.
LEMMA PrepareType ==
  ASSUME TypeInv, PreparePartial \/ PrepareStore
  PROVE  TypeInv'
<1>1. NewStore \in X509_STORE
  BY DEF NewStore, SetFlags, EmptyStore, X509_STORE, Flags
<1>2. FirstChain \in {"vcek", "pck", "pck_crl_issuer"}
  BY DEF FirstChain
<1>3. CASE PreparePartial
  <2>1. /\ store' = NewStore /\ pc' = FirstChain
        /\ UNCHANGED <<platform, options, root_ca, chains, tcb, qe, uvm, claims_root>>
    BY <1>3 DEF PreparePartial, inputs, evaluated
  <2> QED BY <1>1, <1>2, <2>1 DEF TypeInv, TypeOK
<1>4. CASE PrepareStore /\ ~Reject
  <2>1. PICK crls \in CollateralCrls, root \in RootCAs \cup {NoCertificate, Malformed} :
          /\ Malformed \notin crls \cup {root}
          /\ store' = AddRoot(AddCrls(NewStore, crls), root)
          /\ root_ca' = root
    BY <1>4 DEF PrepareStore
  <2>2. /\ pc' = FirstChain
        /\ UNCHANGED <<platform, options, chains, tcb, qe, uvm, claims_root>>
    BY <1>4 DEF PrepareStore, inputs, evaluated
  <2>3. crls \subseteq Certificate
    <3>1. crls \subseteq Crls
      BY DEF CollateralCrls
    <3> QED BY <2>1, <3>1, VerificationAssumption, ChainAssumption
            DEF VerificationAssumption, ChainAssumption
  <2>4. root \in Certificate \cup {NoCertificate}
    BY <2>1, VerificationAssumption DEF VerificationAssumption
  <2>5. AddCrls(NewStore, crls) \in X509_STORE
    BY <1>1, <2>3 DEF AddCrls, X509_STORE
  <2>6. store' \in X509_STORE
    BY <2>1, <2>4, <2>5 DEF AddRoot, Add, X509_STORE
  <2> QED BY <1>2, <2>1, <2>2, <2>4, <2>6 DEF TypeInv, TypeOK
<1> QED BY <1>3, <1>4, RejectType

\* A step of the verification of one chain.
LEMMA ChainStepType ==
  ASSUME TypeInv,
         VerifyPckCrlIssuer \/ VerifyPck \/ VerifyTcb \/ VerifyQeId \/ VerifyVcek,
         ~Reject
  PROVE  TypeInv'
<1>1. PICK purpose, stack, chain :
        /\ purpose \in Purposes /\ stack \in Stacks[purpose] /\ chain \in Results(purpose, stack)
        /\ Accept(purpose, stack, chain)
        /\ \/ purpose \in {"pck_crl_issuer", "pck"} /\ UNCHANGED <<evaluated, claims_root>>
           \/ purpose = "tcb_issuer" /\ UNCHANGED <<qe, uvm, claims_root>>
           \/ purpose = "qe_issuer" /\ claims_root' = root_ca /\ UNCHANGED <<tcb, uvm>>
           \/ /\ purpose = "vcek" /\ Len(chain) = 3
              /\ claims_root' = IF TrustsRoot("vcek") THEN chain[3] ELSE root_ca
              /\ UNCHANGED <<tcb, qe>>
        /\ purpose = pc
  <2>0. Purposes = {"pck_crl_issuer", "pck", "tcb_issuer", "qe_issuer", "vcek"}
    BY DEF Purposes
  <2>1. CASE VerifyPckCrlIssuer
    BY <2>0, <2>1 DEF VerifyPckCrlIssuer
  <2>2. CASE VerifyPck
    BY <2>0, <2>2 DEF VerifyPck
  <2>3. CASE VerifyTcb
    BY <2>0, <2>3 DEF VerifyTcb
  <2>4. CASE VerifyQeId
    BY <2>0, <2>4 DEF VerifyQeId
  <2>5. CASE VerifyVcek
    BY <2>0, <2>5 DEF VerifyVcek
  <2> QED BY <2>1, <2>2, <2>3, <2>4, <2>5
<1>2. pc' \in PcType
  BY DEF VerifyPckCrlIssuer, VerifyPck, VerifyTcb, VerifyQeId, VerifyVcek, Reject, PcType
<1>3. tcb' \in {<<>>} \cup (Extensions \X TcbInfos)
  BY DEF VerifyPckCrlIssuer, VerifyPck, VerifyTcb, VerifyQeId, VerifyVcek, Reject, evaluated,
         TypeInv, TypeOK
<1>4. qe' \in {<<>>} \cup (QeReports \X QeIdentities)
  BY DEF VerifyPckCrlIssuer, VerifyPck, VerifyTcb, VerifyQeId, VerifyVcek, Reject, evaluated,
         TypeInv, TypeOK
<1>5. uvm' \in {<<>>} \cup (Measurements \X (Messages \cup {<<>>}))
  BY DEF VerifyPckCrlIssuer, VerifyPck, VerifyTcb, VerifyQeId, VerifyVcek, Reject, evaluated,
         TypeInv, TypeOK
<1>6. pc' = "uvm" => uvm' # <<>>
  BY DEF VerifyPckCrlIssuer, VerifyPck, VerifyTcb, VerifyQeId, VerifyVcek, Reject
<1>7. /\ chain \in Seq(Certificate) /\ Len(chain) \in Nat
      /\ store' \in X509_STORE /\ chains' \in [Purposes -> Seq(Certificate)]
      /\ UNCHANGED <<platform, options, root_ca>>
  BY <1>1, AcceptType DEF TypeInv
<1>8. ASSUME Len(chain) = 3 PROVE chain[3] \in Certificate
  <2>1. 3 \in 1 .. Len(chain)
    BY <1>8
  <2> QED BY <1>7, <2>1, ElementOfSeq
<1>9. claims_root' \in Certificate \cup {NoCertificate}
  BY <1>1, <1>8 DEF TypeInv, TypeOK
<1> QED BY <1>2, <1>3, <1>4, <1>5, <1>6, <1>7, <1>9 DEF TypeInv, TypeOK, PcType

(***************************************************************************)
(* Every variable keeps its type, whatever the collateral: what            *)
(* verify_certificate_chain returns are certificates, and verify indexes   *)
(* no chain beyond its end.                                                *)
(***************************************************************************)
THEOREM TypeCorrect == Spec => []TypeOK
<1>1. Init => TypeInv
  <2>1. EmptyStore \in X509_STORE
    BY DEF EmptyStore, X509_STORE
  <2>2. <<>> \in Seq(Certificate)
    OBVIOUS
  <2> QED BY <2>1, <2>2 DEF Init, TypeInv, TypeOK
<1>2. TypeInv /\ [Next]_vars => TypeInv'
  <2> SUFFICES ASSUME TypeInv, [Next]_vars PROVE TypeInv'
    OBVIOUS
  <2>1. CASE UNCHANGED vars
    BY <2>1 DEF vars, inputs, evaluated, TypeInv, TypeOK
  <2>2. CASE Reject
    BY <2>2, RejectType
  <2>3. CASE ParseQuote /\ ~Reject
    BY <2>3 DEF ParseQuote, TypeInv, TypeOK, inputs, evaluated
  <2>4. CASE PreparePartial \/ PrepareStore
    BY <2>4, PrepareType
  <2>5. CASE /\ VerifyPckCrlIssuer \/ VerifyPck \/ VerifyTcb \/ VerifyQeId \/ VerifyVcek
             /\ ~Reject
    BY <2>5, ChainStepType
  <2>6. CASE VerifySignatures /\ ~Reject
    BY <2>6 DEF VerifySignatures, TypeInv, TypeOK, inputs, evaluated
  <2>7. CASE VerifyUvm /\ ~Reject
    <3>1. PICK m \in Messages : uvm' = <<uvm[1], m>>
      BY <2>7 DEF VerifyUvm
    <3>2. uvm \in Measurements \X (Messages \cup {<<>>})
      BY <2>7 DEF VerifyUvm, TypeInv, TypeOK
    <3>3. uvm' \in Measurements \X (Messages \cup {<<>>})
      BY <3>1, <3>2
    <3>4. pc' = "accepted" /\ UNCHANGED <<inputs, store, root_ca, chains, tcb, qe, claims_root>>
      BY <2>7 DEF VerifyUvm
    <3> QED BY <3>3, <3>4 DEF TypeInv, TypeOK, inputs
  <2> QED BY <2>1, <2>2, <2>3, <2>4, <2>5, <2>6, <2>7 DEF Next, Done
<1>3. TypeInv => TypeOK
  BY DEF TypeInv
<1> QED BY <1>1, <1>2, <1>3, PTL DEF Spec

----------------------------------------------------------------------------
(***************************************************************************)
(* Levels.                                                                 *)
(***************************************************************************)

\* A set of natural numbers that is not empty has a smallest one.
LEMMA SmallestExists ==
  ASSUME NEW T, T \subseteq Nat, T # {}
  PROVE  \E x \in T : \A y \in T : x <= y
<1>1. PICK x \in T : \A y \in T : ~(<<y, x>> \in OpToRel(<, Nat))
  BY NatLessThanWellFounded, WFMin
<1>2. ASSUME NEW y \in T PROVE x <= y
  <2>1. x \in Nat /\ y \in Nat
    OBVIOUS
  <2>2. <<y, x>> \in Nat \X Nat
    BY <2>1
  <2>3. y < x => <<y, x>> \in OpToRel(<, Nat)
    BY <2>2 DEF OpToRel
  <2>4. ~(y < x)
    BY <1>1, <2>3, Zenon
  <2> QED BY <2>1, <2>4
<1> QED BY <1>2

\* The search of a list of levels ends at the first match.
LEMMA FirstLevelIsFirst ==
  ASSUME NEW levels, NEW met, Len(levels) \in Nat, FirstLevel(levels, met) # NoLevel
  PROVE  /\ FirstLevel(levels, met) \in Matching(levels, met)
         /\ \A j \in Matching(levels, met) : FirstLevel(levels, met) <= j
<1>0. Matching(levels, met) # {}
  BY Zenon DEF FirstLevel
<1>1. Matching(levels, met) # {} /\ Matching(levels, met) \subseteq Nat
  <2>1. Matching(levels, met) \subseteq 1 .. Len(levels)
    BY Zenon DEF Matching
  <2>2. 1 .. Len(levels) \subseteq Nat
    OBVIOUS
  <2> QED BY <1>0, <2>1, <2>2, Zenon
<1>2. \E i \in Matching(levels, met) : \A j \in Matching(levels, met) : i <= j
  BY <1>1, SmallestExists
<1>3. FirstLevel(levels, met) =
        CHOOSE i \in Matching(levels, met) : \A j \in Matching(levels, met) : i <= j
  BY <1>1, Zenon DEF FirstLevel
<1> QED BY <1>2, <1>3, Zenon

(***************************************************************************)
(* The SVNs of the levels fit the C types that their JSON numbers are cut  *)
(* down to, which is what Intel's format says of them.                     *)
(***************************************************************************)
SvnsFit ==
  /\ \A ext \in Extensions : ext.pce_svn \in Nat /\ \A c \in Component : ext.comp_svn[c] \in Nat
  /\ \A info \in TcbInfos :
       /\ Len(info.levels) \in Nat
       /\ \A i \in 1 .. Len(info.levels) :
            /\ info.levels[i].pce_svn \in Nat /\ info.levels[i].pce_svn < 65536
            /\ \A c \in Component : /\ info.levels[i].comp_svn[c] \in Nat
                                    /\ info.levels[i].comp_svn[c] < 256
  /\ \A report \in QeReports : report.isv_svn \in Nat
  /\ \A identity \in QeIdentities :
       /\ Len(identity.levels) \in Nat
       /\ \A i \in 1 .. Len(identity.levels) :
            identity.levels[i].isv_svn \in Nat /\ identity.levels[i].isv_svn < 65536

\* A number that fits is not changed when it is cut down.
LEMMA FitsIsKept ==
  /\ \A v \in Nat : v < 65536 => v % 65536 = v
  /\ \A v \in Nat : v < 256 => v % 256 = v
<1>1. ASSUME NEW v \in Nat, v < 65536 PROVE v % 65536 = v
  BY <1>1, SMT
<1>2. ASSUME NEW v \in Nat, v < 256 PROVE v % 256 = v
  BY <1>2, SMT
<1> QED BY <1>1, <1>2, SMT

\* A platform with a small PCE SVN meets just the levels below it.
LEMMA MetIsBelow ==
  ASSUME SvnsFit, NEW ext \in Extensions, ext.pce_svn < 256, NEW info \in TcbInfos,
         NEW i \in 1 .. Len(info.levels)
  PROVE  LevelMet(PlatformTCB(ext), info.levels[i]) <=> Below(info.levels[i], ext)
<1>1. PICK level : level = info.levels[i]
  OBVIOUS
<1>2. /\ ext.pce_svn \in Nat /\ \A c \in Component : ext.comp_svn[c] \in Nat
      /\ level.pce_svn \in Nat /\ level.pce_svn < 65536
      /\ \A c \in Component : level.comp_svn[c] \in Nat /\ level.comp_svn[c] < 256
  BY <1>1, SMT DEF SvnsFit
<1>3. GetUint16(ext.pce_svn) = ext.pce_svn
  BY SMT DEF GetUint16
<1>4. PlatformTCB(ext).comp_svn = ext.comp_svn /\ PlatformTCB(ext).pce_svn = ext.pce_svn
  BY <1>3, SMT DEF PlatformTCB
<1>5. /\ level.pce_svn % 65536 = level.pce_svn
      /\ \A c \in Component : level.comp_svn[c] % 256 = level.comp_svn[c]
  BY <1>2, FitsIsKept, SMT
<1>6. LevelMet(PlatformTCB(ext), level) <=> Below(level, ext)
  BY <1>2, <1>4, <1>5, SMT DEF LevelMet, Below
<1> QED BY <1>1, <1>6, Zenon

\* In a list in descending order the level taken is the highest that is met.
LEMMA TcbLevelIsHighest ==
  ASSUME SvnsFit, NEW ext \in Extensions, NEW info \in TcbInfos, ext.pce_svn < 256,
         TcbLevel(info, PlatformTCB(ext)) # NoLevel,
         \A i, j \in 1 .. Len(info.levels) : i <= j => Below(info.levels[j], info.levels[i])
  PROVE  LET taken == info.levels[TcbLevel(info, PlatformTCB(ext))] IN
         /\ Below(taken, ext)
         /\ \A i \in 1 .. Len(info.levels) :
              Below(info.levels[i], ext) /\ info.levels[i].status # ""
                => Below(info.levels[i], taken)
<1> DEFINE levels == info.levels
           met == {i \in 1 .. Len(levels) : LevelMet(PlatformTCB(ext), levels[i])}
<1>1. Len(levels) \in Nat
  BY SMT DEF SvnsFit
<1>2. TcbLevel(info, PlatformTCB(ext)) = FirstLevel(levels, met)
  BY DEF TcbLevel
<1>3. PICK k : k = FirstLevel(levels, met)
  OBVIOUS
<1>4. k \in Matching(levels, met) /\ \A j \in Matching(levels, met) : k <= j
  BY <1>1, <1>2, <1>3, FirstLevelIsFirst
<1>5. k \in 1 .. Len(levels) /\ Below(levels[k], ext)
  BY <1>4, MetIsBelow DEF Matching
<1>6. ASSUME NEW i \in 1 .. Len(levels), Below(levels[i], ext), levels[i].status # ""
      PROVE  Below(levels[i], levels[k])
  <2>1. i \in Matching(levels, met)
    BY <1>6, MetIsBelow DEF Matching
  <2> QED BY <1>4, <1>5, <2>1
<1> QED BY <1>2, <1>3, <1>5, <1>6

\* The levels of a QE identity can be counted.
LEMMA QeLevelsCount ==
  ASSUME SvnsFit, NEW identity \in QeIdentities
  PROVE  Len(identity.levels) \in Nat
BY SMT DEF SvnsFit

\* A quoting enclave meets just the levels below it.
LEMMA QeMetIsBelow ==
  ASSUME SvnsFit, NEW report \in QeReports, NEW identity \in QeIdentities,
         NEW i \in 1 .. Len(identity.levels)
  PROVE  QeLevelMet(report, identity.levels[i]) <=> identity.levels[i].isv_svn <= report.isv_svn
<1>1. PICK level : level = identity.levels[i]
  OBVIOUS
<1>2. report.isv_svn \in Nat /\ level.isv_svn \in Nat /\ level.isv_svn < 65536
  BY <1>1, SMT DEF SvnsFit
<1>3. level.isv_svn % 65536 = level.isv_svn
  BY <1>2, FitsIsKept, SMT
<1>4. QeLevelMet(report, level) <=> level.isv_svn <= report.isv_svn
  BY <1>2, <1>3, SMT DEF QeLevelMet
<1> QED BY <1>1, <1>4, Zenon

\* Likewise for the quoting enclave.
LEMMA QeLevelIsHighest ==
  ASSUME SvnsFit, NEW report \in QeReports, NEW identity \in QeIdentities,
         QeLevel(identity, report) # NoLevel,
         \A i, j \in 1 .. Len(identity.levels) :
           i <= j => identity.levels[j].isv_svn <= identity.levels[i].isv_svn,
         NEW i \in 1 .. Len(identity.levels),
         identity.levels[i].isv_svn <= report.isv_svn, identity.levels[i].status # ""
  PROVE  identity.levels[i].isv_svn <= identity.levels[QeLevel(identity, report)].isv_svn
<1> DEFINE levels == identity.levels
           met == {j \in 1 .. Len(levels) : QeLevelMet(report, levels[j])}
<1>1. Len(levels) \in Nat
  BY QeLevelsCount, Zenon
<1>2. QeLevel(identity, report) = FirstLevel(levels, met)
  BY DEF QeLevel
<1>3. PICK k : k = FirstLevel(levels, met)
  OBVIOUS
<1>4. k \in Matching(levels, met) /\ \A j \in Matching(levels, met) : k <= j
  BY <1>1, <1>2, <1>3, FirstLevelIsFirst, Zenon
<1>5. QeLevelMet(report, levels[i])
  BY QeMetIsBelow, Zenon
<1>6. i \in Matching(levels, met)
  BY <1>5, Zenon DEF Matching
<1>7. k \in 1 .. Len(levels) /\ k <= i
  BY <1>4, <1>6, Zenon DEF Matching
<1> QED BY <1>2, <1>3, <1>7, Zenon

\* What was accepted was looked up.
LevelInv ==
  /\ tcb # <<>> => /\ tcb[1] \in Extensions /\ tcb[2] \in TcbInfos
                   /\ TcbLevel(tcb[2], PlatformTCB(tcb[1])) # NoLevel
  /\ qe # <<>> => /\ qe[1] \in QeReports /\ qe[2] \in QeIdentities
                  /\ QeLevel(qe[2], qe[1]) # NoLevel

LEMMA StepKeepsLevelInv ==
  ASSUME LevelInv, [Next]_vars
  PROVE  LevelInv'
<1>1. CASE UNCHANGED <<tcb, qe>>
  BY <1>1 DEF LevelInv
<1>2. CASE VerifyTcb /\ ~Reject
  <2>1. PICK ext, info, signer :
          /\ ext \in Extensions /\ info \in TcbInfos
          /\ VerifyTcbJson(info, ext, signer)
          /\ tcb' = <<ext, info>> /\ qe' = qe
    BY <1>2 DEF VerifyTcb
  <2>2. tcb'[1] = ext /\ tcb'[2] = info
    BY <2>1
  <2> QED BY <2>1, <2>2 DEF LevelInv, VerifyTcbJson
<1>3. CASE VerifyQeId /\ ~Reject
  <2>1. PICK report, identity, signer :
          /\ report \in QeReports /\ identity \in QeIdentities
          /\ VerifyQeIdentity(identity, report, options.historical, signer)
          /\ qe' = <<report, identity>> /\ tcb' = tcb
    BY <1>3 DEF VerifyQeId
  <2>2. qe'[1] = report /\ qe'[2] = identity
    BY <2>1
  <2> QED BY <2>1, <2>2 DEF LevelInv, VerifyQeIdentity
<1>4. CASE Reject \/ UNCHANGED vars \/ Done
  BY <1>1, <1>4 DEF Reject, Done, vars, evaluated
<1>5. CASE \/ ParseQuote \/ PreparePartial \/ PrepareStore \/ VerifyPckCrlIssuer \/ VerifyPck
           \/ VerifySignatures \/ VerifyVcek \/ VerifyUvm
  BY <1>1, <1>4, <1>5
     DEF ParseQuote, PreparePartial, PrepareStore, VerifyPckCrlIssuer, VerifyPck,
         VerifySignatures, VerifyVcek, VerifyUvm, evaluated
<1> QED BY <1>1, <1>2, <1>3, <1>4, <1>5 DEF Next

(***************************************************************************)
(* Whatever the levels, if their SVNs fit their C types, the level taken   *)
(* from a list in descending order is the highest one that the platform,   *)
(* or its quoting enclave, meets.                                          *)
(***************************************************************************)
THEOREM AlwaysHighestLevel ==
  ASSUME SvnsFit PROVE Spec => []LevelIsHighest
<1>1. Init => LevelInv
  BY DEF Init, LevelInv
<1>2. LevelInv => LevelIsHighest
  <2> SUFFICES ASSUME LevelInv PROVE LevelIsHighest
    OBVIOUS
  <2>1. ASSUME tcb # <<>>
        PROVE  LET ext == tcb[1]  levels == tcb[2].levels
                   taken == levels[TcbLevel(tcb[2], PlatformTCB(ext))]
               IN ext.pce_svn < 256 /\ (\A i, j \in 1 .. Len(levels) : i <= j => Below(levels[j], levels[i]))
                    => /\ Below(taken, ext)
                       /\ \A i \in 1 .. Len(levels) :
                            Below(levels[i], ext) /\ levels[i].status # "" => Below(levels[i], taken)
    <3>1. PICK ext \in Extensions, info \in TcbInfos : ext = tcb[1] /\ info = tcb[2]
      BY <2>1 DEF LevelInv
    <3>2. TcbLevel(info, PlatformTCB(ext)) # NoLevel
      BY <2>1, <3>1 DEF LevelInv
    <3> QED BY <3>1, <3>2, TcbLevelIsHighest
  <2>2. ASSUME qe # <<>>
        PROVE  LET levels == qe[2].levels
                   taken == levels[QeLevel(qe[2], qe[1])]
               IN (\A i, j \in 1 .. Len(levels) : i <= j => levels[j].isv_svn <= levels[i].isv_svn)
                    => \A i \in 1 .. Len(levels) :
                         levels[i].isv_svn <= qe[1].isv_svn /\ levels[i].status # ""
                           => levels[i].isv_svn <= taken.isv_svn
    <3>1. PICK report \in QeReports, identity \in QeIdentities : report = qe[1] /\ identity = qe[2]
      BY <2>2 DEF LevelInv
    <3>2. QeLevel(identity, report) # NoLevel
      BY <2>2, <3>1 DEF LevelInv
    <3> QED BY <3>1, <3>2, QeLevelIsHighest
  <2> QED BY <2>1, <2>2, Zenon DEF LevelIsHighest
<1> QED BY <1>1, <1>2, StepKeepsLevelInv, PTL DEF Spec
=============================================================================
